------------------------------- MODULE MCLog -------------------------------
(* LogAsyncSink with the LogCore in front of it. *)
EXTENDS LogAsyncSink

C == INSTANCE LogCore

(* LogCore is set up before a thread logs: its calls are checked once, on  *)
(* the state in which no thread was started.                               *)
SetUp == started = {}

(* No sink of a LogCore is leaked or deleted twice, and a message reaches  *)
(* the sinks it should, with the text it should but for the one size that  *)
(* C!OnlyLargerIsCut is about (log_core.cc): over all sequences of four    *)
(* calls about two loggers, and about one.                                 *)
LogCoreFaithful == SetUp => C!SinksDeletedOnce(1, 4) /\ C!LogReachesSinks(0, 4)

(* A log as large as the size that was set, 4096 if none was, is not cut:  *)
(* log_core.h:27-28 says so of larger ones.                                *)
OnlyLargerIsCut == SetUp => C!OnlyLargerIsCut(0, 2)
=============================================================================
