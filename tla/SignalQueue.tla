---------------------------- MODULE SignalQueue ----------------------------
(***************************************************************************)
(* Signals to the thread of an IOService (signal_queue.cc): push, called   *)
(* by a signal handler on any thread, writes the number into a             *)
(* non-blocking pipe, and the loop reads numbers until there is none.  A   *)
(* number is written and read whole: it is shorter than PIPE_BUF.          *)
(*                                                                         *)
(* The loop is another module's; pipeReadCallback is what it calls.        *)
(***************************************************************************)
EXTENDS Naturals, Sequences

CONSTANTS
    SignalRoom,   \* numbers a pipe holds
    MaxSignals    \* bound: signals that are raised

VARIABLES
    signal_pipe,  \* the numbers in the pipe
    raised,       \* how many signals were raised
    kept,         \* the signals the pipe had room for, in their order
    handled       \* calls of recv_signal_cb_

signalVars == <<signal_pipe, raised, kept, handled>>

SignalInit ==
    /\ signal_pipe = <<>>
    /\ raised = 0
    /\ kept = <<>>
    /\ handled = <<>>

(* push: a full pipe takes nothing, and the signal is lost.  A signal is   *)
(* named by its place in the order in which they are raised.               *)
pushSignal ==
    /\ raised < MaxSignals
    /\ raised' = raised + 1
    /\ IF Len(signal_pipe) < SignalRoom
       THEN /\ signal_pipe' = Append(signal_pipe, raised')
            /\ kept' = Append(kept, raised')
       ELSE UNCHANGED <<signal_pipe, kept>>
    /\ UNCHANGED handled

(* Faulty variant: one call of read takes all, and one signal is told. *)
ReadSignal_All ==
    /\ signal_pipe # <<>>
    /\ signal_pipe' = <<>>
    /\ handled' = Append(handled, Head(signal_pipe))
    /\ UNCHANGED <<raised, kept>>

(* An iteration of pipeReadCallback. *)
ReadSignal ==
    /\ signal_pipe # <<>>
    /\ signal_pipe' = Tail(signal_pipe)
    /\ handled' = Append(handled, Head(signal_pipe))
    /\ UNCHANGED <<raised, kept>>
=============================================================================
