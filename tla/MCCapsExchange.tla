--------------------------- MODULE MCCapsExchange ---------------------------
(* CapsExchange on strings of up to five bytes with a limit of four, so    *)
(* that one string outgrows the offset; fragments of one to three bytes    *)
(* with a buffer for two, so that some replies do not fit.                 *)
EXTENDS CapsExchange

\* The byte 1 is binary, and masked by a byte of its own.
MCBinary == {1}
MCHash == 9

MCByte == 0 .. 4
Counting(n) == Text(n, [i \in 0 .. n - 1 |-> i])
MCMalformed == { Text(3, [i \in 0 .. 2 |-> 2 - i]) }
MCContents == { Counting(n) : n \in 0 .. 5 } \cup MCMalformed
=============================================================================
