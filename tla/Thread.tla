------------------------------ MODULE Thread ------------------------------
(***************************************************************************)
(* Thread objects (thread.cc).  Each starts one thread, which is known by  *)
(* the same name; other threads join or detach it.  Every method holds     *)
(* data_mutex_ except while it waits on done_cond_ and while it is in      *)
(* pthread_join, so an action is what a thread does between taking the     *)
(* mutex and giving it up.                                                 *)
(*                                                                         *)
(* A start that throws (already started, pthread_create failed) and a join *)
(* of oneself, which throws, change nothing.  pthread_detach needs a       *)
(* thread: detach is for an object that was started.                       *)
(***************************************************************************)
EXTENDS Naturals

CONSTANTS
    Objects,     \* the Thread objects
    Callers      \* the threads that call their methods

VARIABLES
    started, done, join_started, joined,   \* objects whose flag is set
    run,         \* where each object's thread is, see ThreadTypeOK
    at,          \* where each caller is in join, see ThreadTypeOK
    of,          \* the object it joins
    released     \* pthread_join and pthread_detach calls done on each handle

flagVars   == <<started, done, join_started, joined>>
threadVars == <<flagVars, run, at, of, released>>

ThreadInit ==
    /\ started = {} /\ done = {} /\ join_started = {} /\ joined = {}
    /\ run = [o \in Objects |-> "none"]
    /\ at = [c \in Callers |-> "no"]
    /\ of = [c \in Callers |-> CHOOSE o \in Objects : TRUE]
    /\ released = [o \in Objects |-> 0]

(* Faulty variant: of those who wait only the ones in the first loop of    *)
(* join are woken.                                                         *)
notifyAll_FirstLoop(o, where) ==
    at' = [c \in Callers |-> IF of[c] = o /\ where[c] = "done_wait"
                             THEN "join" ELSE where[c]]

(* Everyone who waits on done_cond_ of o will test its condition again;    *)
(* where is at otherwise.                                                  *)
notifyAll(o, where) ==
    at' = [c \in Callers |->
             CASE of[c] = o /\ where[c] = "done_wait"   -> "join"
               [] of[c] = o /\ where[c] = "joined_wait" -> "rejoin"
               [] OTHER                                 -> where[c]]

----------------------------------------------------------------------------
start(o) ==
    /\ o \notin started
    /\ started' = started \cup {o}
    /\ run' = [run EXCEPT ![o] = "func"]
    /\ UNCHANGED <<done, join_started, joined, at, of, released>>

(* threadProxy: thread_func_ has returned, data_mutex_ is next *)
FuncReturns(o) ==
    /\ run[o] = "func"
    /\ run' = [run EXCEPT ![o] = "proxy"]
    /\ UNCHANGED <<flagVars, at, of, released>>

(* The rest of threadProxy. *)
threadProxy(o) ==
    /\ run[o] = "proxy"
    /\ run' = [run EXCEPT ![o] = "exited"]
    /\ done' = done \cup {o}
    /\ notifyAll(o, at)
    /\ UNCHANGED <<started, join_started, joined, of, released>>

CallJoin(c, o) ==
    /\ at[c] = "no"
    /\ c # o
    /\ at' = [at EXCEPT ![c] = "join"]
    /\ of' = [of EXCEPT ![c] = o]
    /\ UNCHANGED <<flagVars, run, released>>

JoinWaits(c) ==
    /\ at[c] = "join"
    /\ of[c] \notin done
    /\ at' = [at EXCEPT ![c] = "done_wait"]
    /\ UNCHANGED <<flagVars, run, of, released>>

(* do_join: the first to see done_ is the one that calls pthread_join *)
JoinFirst(c) ==
    /\ at[c] = "join"
    /\ of[c] \in done \ join_started
    /\ join_started' = join_started \cup {of[c]}
    /\ at' = [at EXCEPT ![c] = "pthread_join"]
    /\ UNCHANGED <<started, done, joined, run, of, released>>

JoinOther(c) ==
    /\ \/ at[c] = "join" /\ of[c] \in done \cap join_started
       \/ at[c] = "rejoin"
    /\ at' = [at EXCEPT ![c] = IF of[c] \in joined THEN "no" ELSE "joined_wait"]
    /\ UNCHANGED <<flagVars, run, of, released>>

PthreadJoin(c) ==
    /\ at[c] = "pthread_join"
    /\ run[of[c]] = "exited"
    /\ released' = [released EXCEPT ![of[c]] = @ + 1]
    /\ at' = [at EXCEPT ![c] = "pthread_joined"]
    /\ UNCHANGED <<flagVars, run, of>>

SetJoined(c) ==
    /\ at[c] = "pthread_joined"
    /\ joined' = joined \cup {of[c]}
    /\ notifyAll(of[c], [at EXCEPT ![c] = "no"])
    /\ UNCHANGED <<started, done, join_started, run, of, released>>

(* Faulty variant: tests joined_, which is set after pthread_join returns. *)
detach_Joined(c, o) ==
    /\ at[c] = "no"
    /\ o \in started \ joined
    /\ released' = [released EXCEPT ![o] = @ + 1]
    /\ join_started' = join_started \cup {o}
    /\ joined' = joined \cup {o}
    /\ UNCHANGED <<started, done, run, at, of>>

(* Nobody is notified: whoever waits for joined_ waits for a joiner.       *)
(* The destructor is this too, when joinable() holds.                      *)
detach(c, o) ==
    /\ at[c] = "no"
    /\ o \in started \ join_started
    /\ released' = [released EXCEPT ![o] = @ + 1]
    /\ join_started' = join_started \cup {o}
    /\ joined' = joined \cup {o}
    /\ UNCHANGED <<started, done, run, at, of>>

(* pthread_cond_wait may return without a notification. *)
SpuriousJoin(c) ==
    /\ at[c] \in {"done_wait", "joined_wait"}
    /\ at' = [at EXCEPT ![c] = IF @ = "done_wait" THEN "join" ELSE "rejoin"]
    /\ UNCHANGED <<flagVars, run, of, released>>

(* The steps of a join that is under way. *)
join(c) ==
    JoinWaits(c) \/ JoinFirst(c) \/ JoinOther(c) \/ PthreadJoin(c) \/ SetJoined(c)

ThreadNext ==
    \/ \E o \in Objects : start(o) \/ FuncReturns(o) \/ threadProxy(o)
    \/ \E c \in Callers : join(c) \/ SpuriousJoin(c)
    \/ \E c \in Callers, o \in Objects : CallJoin(c, o) \/ detach(c, o)

ThreadSpec == ThreadInit /\ [][ThreadNext]_threadVars

----------------------------------------------------------------------------
ThreadTypeOK ==
    /\ started \subseteq Objects /\ done \subseteq Objects
    /\ join_started \subseteq Objects /\ joined \subseteq Objects
    /\ run \in [Objects -> {"none", "func", "proxy", "exited"}]
    /\ at \in [Callers -> {"no", "join", "done_wait", "pthread_join",
                           "pthread_joined", "rejoin", "joined_wait"}]
    /\ of \in [Callers -> Objects]
    /\ released \in [Objects -> Nat]

(* The handle of a thread is given back once: of all the threads that join *)
(* and detach it, whatever their order, one calls pthread_join or          *)
(* pthread_detach, and joined_ tells the others that it was done.          *)
HandleReleasedOnce ==
    \A o \in Objects : released[o] <= 1 /\ (o \in joined => released[o] = 1)

(* No wake-up of join is lost: who waits for the end of the thread waits   *)
(* for one that has not ended, and who waits for another's pthread_join    *)
(* waits for one that is under way, although detach notifies nobody.       *)
NoLostJoin ==
    \A c \in Callers :
        /\ at[c] = "done_wait" => of[c] \notin done
        /\ at[c] = "joined_wait" =>
              \E d \in Callers :
                  of[d] = of[c] /\ at[d] \in {"pthread_join", "pthread_joined"}
=============================================================================
