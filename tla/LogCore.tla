------------------------------ MODULE LogCore ------------------------------
(***************************************************************************)
(* Loggers and their sinks (log_core.cc).  A LogCore is a record: the      *)
(* loggers by id + 1, max_log_size_, and, as a history, the sinks that     *)
(* were deleted.  Its methods are functions from the record to the next    *)
(* one; log and plainLog give the calls of LogSink::log they make.  The    *)
(* core is set up by one thread before others log.                         *)
(*                                                                         *)
(* The text of a message is how many of its characters there are, and the  *)
(* formatter that made it.  Formatters are the application's and are taken *)
(* to return what snprintf returns.                                        *)
(***************************************************************************)
EXTENDS Integers, Sequences, FiniteSets

CONSTANTS NULL

(* What the constructor calls with: one logger, and a size far below 4096. *)
DefaultCount == 1
DefaultSize  == 2

Logger(formatter, level_filter, max_log_size) ==
    [formatter |-> formatter, level_filter |-> level_filter,
     max_log_size |-> max_log_size, sinks |-> <<>>]

(* Logger::addSink *)
AddSink(logger, sink, formatter, level_filter) ==
    [logger EXCEPT !.sinks = Append(@, [sink |-> sink, formatter |-> formatter,
                                        level_filter |-> level_filter])]

(* ~Logger: the sinks that are deleted with it *)
Owned(logger) ==
    IF logger = NULL THEN <<>>
    ELSE [i \in 1 .. Len(logger.sinks) |-> logger.sinks[i].sink]

(* The sinks of the loggers with ids from first on. *)
OwnedFrom(core, first) ==
    LET owned[id \in 0 .. Len(core.loggers)] ==
          IF id = Len(core.loggers) THEN <<>>
          ELSE Owned(core.loggers[id + 1]) \o owned[id + 1]
    IN IF first < Len(core.loggers) THEN owned[first] ELSE <<>>

Known(core, logger_id) ==
    /\ logger_id \in 0 .. Len(core.loggers) - 1
    /\ core.loggers[logger_id + 1] # NULL

----------------------------------------------------------------------------
(* Faulty variant: the loggers beyond the new count are dropped. *)
setMaxLoggerCount_Dropped(core, count) ==
    IF count < 0 THEN core
    ELSE [core EXCEPT
            !.loggers = [i \in 1 .. count |->
                           IF i <= Len(core.loggers) THEN core.loggers[i] ELSE NULL]]

setMaxLoggerCount(core, count) ==
    IF count < 0 THEN core
    ELSE [core EXCEPT
            !.deleted = @ \o OwnedFrom(core, count),
            !.loggers = [i \in 1 .. count |->
                           IF i <= Len(core.loggers) THEN core.loggers[i] ELSE NULL]]

setMaxLogSize(core, size) ==
    IF size <= 0 THEN core ELSE [core EXCEPT !.max_log_size = size]

registerLogger(core, logger_id, formatter, level_filter) ==
    IF logger_id \notin 0 .. Len(core.loggers) - 1 \/ Known(core, logger_id)
    THEN core
    ELSE [core EXCEPT !.loggers[logger_id + 1] =
            Logger(formatter, level_filter, core.max_log_size)]

removeLogger(core, logger_id) ==
    IF ~ Known(core, logger_id) THEN core
    ELSE [core EXCEPT !.deleted = @ \o Owned(core.loggers[logger_id + 1]),
                      !.loggers[logger_id + 1] = NULL]

(* A sink that is not taken stays the caller's. *)
addSink(core, logger_id, sink, formatter, level_filter) ==
    IF ~ Known(core, logger_id) THEN core
    ELSE [core EXCEPT !.loggers[logger_id + 1] =
            AddSink(@, sink, formatter, level_filter)]

setLevelFilter(core, logger_id, level_filter) ==
    IF ~ Known(core, logger_id) THEN core
    ELSE [core EXCEPT !.loggers[logger_id + 1].level_filter = level_filter]

(* The constructor and the destructor. *)
NewCore == [loggers      |-> [i \in 1 .. DefaultCount |-> NULL],
            max_log_size |-> DefaultSize,
            deleted      |-> <<>>]

Destroyed(core) == [core EXCEPT !.deleted = @ \o OwnedFrom(core, 0)]

----------------------------------------------------------------------------
(* snprintf writes one character less than there is room for, and a NUL.   *)
(* It returns the length of the whole text, so the NUL is taken for the    *)
(* last byte of a text that is cut.                                        *)
Format(formatter, size, room) ==
    [formatter |-> formatter,
     text      |-> IF size < room THEN size ELSE room - 1,
     nul       |-> size >= room]

(* The text is made once, when the first sink wants it (args can be used   *)
(* only once), and given to all of them.                                   *)
LogTo(logger, formatter, level, size) ==
    LET wants(s) == level >= s.level_filter
        sinks    == SelectSeq(logger.sinks, wants)
    IN IF level < logger.level_filter THEN <<>>
       ELSE [i \in 1 .. Len(sinks) |->
               [sink |-> sinks[i].sink,
                text |-> Format(formatter, size, logger.max_log_size)]]

(* The formatter of the first sink that takes the message, if it has one,  *)
(* serves for all; else that of the logger.                                *)
FormatterFor(logger, level) ==
    LET wants(s) == level >= s.level_filter
        sinks    == SelectSeq(logger.sinks, wants)
    IN IF sinks # <<>> /\ sinks[1].formatter # NULL
       THEN sinks[1].formatter
       ELSE logger.formatter

(* Logger::log and Logger::plainLog *)
LoggerLog(logger, level, size) ==
    LogTo(logger, FormatterFor(logger, level), level, size)

LoggerPlainLog(logger, level, size) == LogTo(logger, NULL, level, size)

log(core, logger_id, level, size) ==
    IF ~ Known(core, logger_id) THEN <<>>
    ELSE LoggerLog(core.loggers[logger_id + 1], level, size)

plainLog(core, logger_id, level, size) ==
    IF ~ Known(core, logger_id) THEN <<>>
    ELSE LoggerPlainLog(core.loggers[logger_id + 1], level, size)

----------------------------------------------------------------------------
(* Sequences of calls.  The sink of an addSink is the place of the call in *)
(* the sequence: a sink is given away once.                                *)
Levels == {0, 1}

Call(name, id, n) == [name |-> name, id |-> id, n |-> n]

(* Calls about the loggers 0 .. top, with room for the last or not. *)
Calls(top) ==
    {Call("setMaxLoggerCount", 0, n) : n \in {top, top + 1}}
    \cup {Call("setMaxLogSize", 0, 3)}
    \cup {Call(name, id, 0) :
             name \in {"registerLogger", "removeLogger"}, id \in 0 .. top}
    \cup {Call(name, id, n) :
             name \in {"addSink", "setLevelFilter"}, id \in 0 .. top, n \in Levels}

apply(core, c, i) ==
    CASE c.name = "setMaxLoggerCount" -> setMaxLoggerCount(core, c.n)
      [] c.name = "setMaxLogSize"     -> setMaxLogSize(core, c.n)
      [] c.name = "registerLogger"    -> registerLogger(core, c.id, "logger", c.n)
      [] c.name = "removeLogger"      -> removeLogger(core, c.id)
      [] c.name = "addSink"           ->
            addSink(core, c.id, i, IF c.n = 1 THEN "sink" ELSE NULL, c.n)
      [] c.name = "setLevelFilter"    -> setLevelFilter(core, c.id, c.n)

(* The core after each of the calls. *)
Run(calls) ==
    LET core[i \in 0 .. Len(calls)] ==
          IF i = 0 THEN NewCore ELSE apply(core[i - 1], calls[i], i)
    IN core

CallSequences(top, n) == UNION {[1 .. k -> Calls(top)] : k \in 0 .. n}

Occurrences(x, s) == Cardinality({i \in 1 .. Len(s) : s[i] = x})

(* A sink that addSink took is deleted once, with its logger, by           *)
(* removeLogger, by a smaller count of loggers or by the destructor; one   *)
(* that was refused is never deleted.                                      *)
SinksDeletedOnce(top, n) ==
    \A calls \in CallSequences(top, n) :
        LET core == Run(calls)
            end  == Destroyed(core[Len(calls)]).deleted
        IN \A i \in 1 .. Len(calls) :
              Occurrences(i, end) =
                 IF calls[i].name = "addSink" /\ Known(core[i - 1], calls[i].id)
                 THEN 1 ELSE 0

(* What the calls up to the last one say of a logger, without a LogCore:   *)
(* the call that registered it, its sinks, its filter and the size of its  *)
(* buffer, which is the one of when it was registered.                     *)
Last(calls, upto, wanted(_), default) ==
    LET found == {i \in 1 .. upto : wanted(calls[i])}
    IN IF found = {} THEN default
       ELSE calls[CHOOSE i \in found : \A j \in found : j <= i].n

CountAt(calls, i) ==
    Last(calls, i, LAMBDA c : c.name = "setMaxLoggerCount", DefaultCount)

Registration(calls, id) ==
    {r \in 1 .. Len(calls) :
        /\ calls[r].name = "registerLogger" /\ calls[r].id = id
        /\ id < CountAt(calls, r)
        /\ \A i \in r + 1 .. Len(calls) :
              /\ ~ (calls[i].name = "removeLogger" /\ calls[i].id = id)
              /\ ~ (calls[i].name = "setMaxLoggerCount" /\ calls[i].n <= id)}

(* The registration of a logger that counts, if it has one: the first      *)
(* since it was last removed.                                              *)
Registered(calls, id) ==
    CHOOSE r \in Registration(calls, id) :
        \A q \in Registration(calls, id) : r <= q

(* The size that was set when the logger was registered. *)
RoomOf(calls, id) ==
    Last(calls, Registered(calls, id), LAMBDA c : c.name = "setMaxLogSize", DefaultSize)

(* The sinks a message goes to, and the formatter of its text: that of the *)
(* first of them, if it was added with one, or else that of the logger.    *)
Receivers(calls, id, level) ==
    IF Registration(calls, id) = {} THEN {}
    ELSE LET r      == Registered(calls, id)
             filter == Last(SubSeq(calls, r + 1, Len(calls)), Len(calls) - r,
                            LAMBDA c : c.name = "setLevelFilter" /\ c.id = id, calls[r].n)
         IN {i \in r + 1 .. Len(calls) :
               /\ calls[i].name = "addSink" /\ calls[i].id = id
               /\ level >= calls[i].n /\ level >= filter}

FirstFormatter(calls, sinks) ==
    IF \E i \in sinks : calls[i].n = 1 /\ \A j \in sinks : i <= j
    THEN "sink" ELSE "logger"

Whole(formatter, size) == [formatter |-> formatter, text |-> size, nul |-> FALSE]

(* A message reaches, once each and in their order, the sinks that were    *)
(* added to its logger since it was registered and whose filter, with that *)
(* of the logger, lets its level pass.  All get the text one formatter     *)
(* made.  It is whole if it is shorter than the size that was set when the *)
(* logger was registered; if it is longer it lacks its end, and a NUL      *)
(* takes the last place.  The text of just that size is the exception:     *)
(* nothing is said of it here, see OnlyLargerIsCut.                        *)
LogReachesSinks(top, n) ==
    \A calls \in CallSequences(top, n) : \A id \in 0 .. top, level \in Levels, size \in 1 .. 4 :
        LET core     == Run(calls)[Len(calls)]
            sinks    == Receivers(calls, id, level)
            room     == RoomOf(calls, id)
            Right(out, formatter) ==
                /\ {out[i].sink : i \in 1 .. Len(out)} = sinks
                /\ \A i, j \in 1 .. Len(out) : i < j => out[i].sink < out[j].sink
                /\ \A i \in 1 .. Len(out) :
                      /\ size < room => out[i].text = Whole(formatter, size)
                      /\ size > room => out[i].text =
                            [formatter |-> formatter, text |-> room - 1, nul |-> TRUE]
        IN /\ Right(plainLog(core, id, level, size), NULL)
           /\ Right(log(core, id, level, size), FirstFormatter(calls, sinks))

(* What log_core.h:27-28 says of the size: a log that is larger is         *)
(* truncated; one that is just as large is not.                            *)
OnlyLargerIsCut(top, n) ==
    \A calls \in CallSequences(top, n) : \A id \in 0 .. top, level \in Levels, size \in 1 .. 4 :
        LET out == plainLog(Run(calls)[Len(calls)], id, level, size)
        IN \A i \in 1 .. Len(out) :
              size <= RoomOf(calls, id) => out[i].text = Whole(NULL, size)
=============================================================================
