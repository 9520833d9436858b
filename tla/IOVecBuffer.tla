---------------------------- MODULE IOVecBuffer ----------------------------
(***************************************************************************)
(* What the iovec helpers of api.c promise, stated without segments: a     *)
(* command's data-transfer buffer is a flat run of Total bytes, and a      *)
(* cursor separates the consumed prefix from the remaining bytes.  Seek    *)
(* moves the cursor, copy_into / copy_from move min(len, remaining) bytes  *)
(* at the cursor and advance it, and zero clears the remaining bytes in    *)
(* place.  Bytes written by copy_into are tagged with their index in the   *)
(* stream of bytes written, the initiator's Total bytes first, so that     *)
(* their order is visible.                                                 *)
(***************************************************************************)
EXTENDS Naturals

CONSTANTS Total,     \* bytes the buffer describes
          MaxLen     \* largest length a caller passes

VARIABLES cursor,    \* bytes consumed so far
          data,      \* data[p]: stream tag held at flat position p (0 = zero byte)
          produced,  \* stream bytes written so far
          got        \* bytes returned by the last copy_from

avars == <<cursor, data, produced, got>>

Remaining == Total - cursor

Take(len) == IF len < Remaining THEN len ELSE Remaining

Consume(n) ==
    /\ n <= Remaining
    /\ cursor' = cursor + n
    /\ UNCHANGED <<data, produced, got>>

Write(len) ==
    LET k == Take(len) IN
    /\ data' = [p \in 1..Total |->
                  IF cursor < p /\ p <= cursor + k THEN produced + (p - cursor)
                                                   ELSE data[p]]
    /\ cursor' = cursor + k
    /\ produced' = produced + k
    /\ UNCHANGED got

Read(len) ==
    LET k == Take(len) IN
    /\ got' = [j \in 1..k |-> data[cursor + j]]
    /\ cursor' = cursor + k
    /\ UNCHANGED <<data, produced>>

Clear ==
    /\ data' = [p \in 1..Total |-> IF p > cursor THEN 0 ELSE data[p]]
    /\ UNCHANGED <<cursor, produced, got>>

AInit ==
    /\ cursor = 0
    /\ data = [p \in 1..Total |-> p]
    /\ produced = Total
    /\ got = <<>>

ANext ==
    \/ \E n \in 0..MaxLen : Consume(n)
    \/ \E len \in 0..MaxLen : Write(len) \/ Read(len)
    \/ Clear

ASpec == AInit /\ [][ANext]_avars
=============================================================================
