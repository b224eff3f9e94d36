---------------------------- MODULE MCTimerHeap ----------------------------
(* TimerHeap for TLC: .cfg files have no negative numbers. *)
EXTENDS TimerHeap

Once        == {1}
OnceForever == {1, -1}
SomeDelays  == {-1, 1, 2}
=============================================================================
