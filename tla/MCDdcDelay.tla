----------------------------- MODULE MCDdcDelay -----------------------------
(* DdcDelay with a second of 60 ticks and a delay of 3 (the code's ratio   *)
(* is 1 to 22), over the seconds 2 to 4 of the wall clock.                 *)
EXTENDS DdcDelay

MCPostDelays == {0, 1, 5}   \* an explicit 0, a short one, the default 80 ms
=============================================================================
