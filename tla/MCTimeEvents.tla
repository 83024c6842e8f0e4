---------------------------- MODULE MCTimeEvents ----------------------------
(* Instances of TimeEvents for TLC. *)
EXTENDS TimeEvents

\* No delay, one that fits an int, and a second, which does not.
UpToSecond == 0 .. TicksPerSecond
=============================================================================
