------------------------------- MODULE IOVec -------------------------------
(***************************************************************************)
(* The iovec helpers of src/api.c acting on one command's data-transfer    *)
(* buffer.  The buffer is the array of segments the kernel delivered       *)
(* (SegLens gives their lengths); segment i covers the flat positions      *)
(* Off(i)+1 .. Off(i)+SegLens[i].  iov[i] is the segment's current         *)
(* (iov_base, iov_len), with iov_base an offset into the segment, and      *)
(* iov_cnt is the command's segment count.  Each helper's loop is a        *)
(* RECURSIVE operator that follows the C loop step for step; each call an  *)
(* emulator or handler makes on the command is an action.                  *)
(***************************************************************************)
EXTENDS Integers, Sequences, FiniteSets

CONSTANTS SegLens,   \* lengths of the segments the kernel delivered
          MaxLen,    \* largest length or count a caller passes
          MaxOps,    \* calls made on one command
          Probe      \* byte values the compare probes are built from

VARIABLES iov,       \* iov[i] = [base, len]: the segment's iov_base offset and iov_len
          iov_cnt,   \* cmd->iov_cnt
          mem,       \* mem[p]: the byte held at flat position p, as a stream tag
          produced,  \* bytes written into the buffer so far (tags in use)
          got,       \* bytes the last tcmu_memcpy_from_iovec returned
          ops        \* calls made so far

vars == <<iov, iov_cnt, mem, produced, got, ops>>

Min2(a, b) == IF a < b THEN a ELSE b

RECURSIVE Off(_)
Off(i) == IF i = 1 THEN 0 ELSE Off(i - 1) + SegLens[i - 1]

NSegs == Len(SegLens)
Total == Off(NSegs + 1)

\* Flat position of byte j (from 0) at the current iov_base of segment i.
Addr(v, i, j) == Off(i) + v[i].base + j + 1

\* Consume k bytes at the front of segment i.
Advance(v, i, k) == [v EXCEPT ![i] = [base |-> @.base + k, len |-> @.len - k]]

(***************************************************************************)
(* tcmu_iovec_length: the sum of the first cnt segment lengths.            *)
(***************************************************************************)
RECURSIVE LengthLoop(_, _, _)
LengthLoop(v, i, cnt) ==
    IF cnt = 0 THEN 0 ELSE v[i].len + LengthLoop(v, i + 1, cnt - 1)

IovecLength(v, cnt) == LengthLoop(v, 1, cnt)

\* Bytes left in the whole segment array, whatever iov_cnt says.
Avail == IovecLength(iov, NSegs)

(***************************************************************************)
(* Mutated helpers: plausible slips in the loops below, each used to show  *)
(* that a property of this module depends on the code it is about.         *)
(***************************************************************************)
\* to_copy taken as len, without the min against iov_len.
RECURSIVE CopyLoopNoMin(_, _, _, _)
CopyLoopNoMin(v, i, cnt, len) ==
    IF len = 0 \/ cnt = 0
    THEN [iov |-> v, moved |-> <<>>]
    ELSE LET rest == CopyLoopNoMin(Advance(v, i, len), i + 1, cnt - 1, 0)
         IN  [iov |-> rest.iov, moved |-> [k \in 1..len |-> Addr(v, i, k - 1)]]

\* A segment the count covers is stepped over without setting iov_len = 0.
RECURSIVE SeekLoopKeepLen(_, _, _, _)
SeekLoopKeepLen(v, i, count, consumed) ==
    IF count = 0 THEN [iov |-> v, consumed |-> consumed]
    ELSE IF count >= v[i].len
         THEN SeekLoopKeepLen(v, i + 1, count - v[i].len, consumed + 1)
         ELSE [iov |-> Advance(v, i, count), consumed |-> consumed]

SeekInIovecKeepLen(v, count) == SeekLoopKeepLen(v, 1, count, 0)

\* The byte scan's position returned without adding mem_off.
RECURSIVE CompareLoopNoOffset(_, _, _, _, _, _)
CompareLoopNoOffset(m, v, i, size, memOff, store) ==
    IF size = 0 THEN -1
    ELSE LET part == Min2(size, v[i].len)
             diff == {p \in 0..part - 1 : m[memOff + p + 1] # store[Addr(v, i, p)]}
         IN  IF diff # {}
             THEN CHOOSE p \in diff : \A q \in diff : p <= q
             ELSE CompareLoopNoOffset(m, v, i + 1, size - part, memOff + part, store)

CompareWithIovecNoOffset(m, v, size, store) == CompareLoopNoOffset(m, v, 1, size, 0, store)

(***************************************************************************)
(* The loop of tcmu_memcpy_into_iovec (and, identically, of                *)
(* tcmu_memcpy_from_iovec): returns the consumed iovec and the flat        *)
(* positions the copy touched, in copy order.                              *)
(***************************************************************************)
RECURSIVE CopyLoop(_, _, _, _)
CopyLoop(v, i, cnt, len) ==
    IF len = 0 \/ cnt = 0
    THEN [iov |-> v, moved |-> <<>>]
    ELSE LET toCopy == Min2(v[i].len, len)
             rest   == CopyLoop(Advance(v, i, toCopy), i + 1, cnt - 1, len - toCopy)
         IN  [iov |-> rest.iov,
              moved |-> [k \in 1..toCopy |-> Addr(v, i, k - 1)] \o rest.moved]

(***************************************************************************)
(* The loop of tcmu_seek_in_iovec: a segment the count covers is emptied   *)
(* (iov_len = 0, iov_base left alone) and counted as consumed; the         *)
(* segment the count ends inside is advanced.                              *)
(***************************************************************************)
RECURSIVE SeekLoop(_, _, _, _)
SeekLoop(v, i, count, consumed) ==
    IF count = 0 THEN [iov |-> v, consumed |-> consumed]
    ELSE IF count >= v[i].len
         THEN SeekLoop([v EXCEPT ![i].len = 0], i + 1, count - v[i].len, consumed + 1)
         ELSE [iov |-> Advance(v, i, count), consumed |-> consumed]

SeekInIovec(v, count) == SeekLoop(v, 1, count, 0)

(***************************************************************************)
(* tcmu_compare_with_iovec against the buffer store: per segment a bulk    *)
(* memcmp of part bytes, and on a difference a byte scan for the first     *)
(* mismatch, returned as an offset into mem; -1 when all size bytes match. *)
(***************************************************************************)
RECURSIVE CompareLoop(_, _, _, _, _, _)
CompareLoop(m, v, i, size, memOff, store) ==
    IF size = 0 THEN -1
    ELSE LET part == Min2(size, v[i].len)
             diff == {p \in 0..part - 1 : m[memOff + p + 1] # store[Addr(v, i, p)]}
         IN  IF diff # {}
             THEN memOff + (CHOOSE p \in diff : \A q \in diff : p <= q)
             ELSE CompareLoop(m, v, i + 1, size - part, memOff + part, store)

CompareWithIovec(m, v, size, store) == CompareLoop(m, v, 1, size, 0, store)

\* tcmu_zero_iovec: the flat positions of the first cnt segments' live bytes.
ZeroedBy(v, cnt) == UNION {{Addr(v, i, j) : j \in 0..v[i].len - 1} : i \in 1..cnt}
(***************************************************************************)
(* Calls made on the command.  Callers keep the precondition the comments  *)
(* of the seeks state (count within the bytes left); a compare is a read   *)
(* and is checked as an invariant over every probe instead of as a step.   *)
(***************************************************************************)
Call == ops < MaxOps /\ ops' = ops + 1

\* tcmu_memcpy_into_iovec(cmd->iovec, cmd->iov_cnt, src, len): the emulators'
\* final transfer; src holds the next len bytes of the produced stream.
CopyInto(len) ==
    LET r == CopyLoop(iov, 1, iov_cnt, len)
        at(p) == CHOOSE k \in DOMAIN r.moved : r.moved[k] = p
    IN  /\ Call
        /\ iov' = r.iov
        /\ mem' = [p \in 1..Total |->
                     IF \E k \in DOMAIN r.moved : r.moved[k] = p
                     THEN produced + at(p) ELSE mem[p]]
        /\ produced' = produced + Len(r.moved)
        /\ UNCHANGED <<iov_cnt, got>>

\* tcmu_memcpy_from_iovec(dest, len, cmd->iovec, cmd->iov_cnt), as MODE
\* SELECT reads its parameter list.
CopyFrom(len) ==
    LET r == CopyLoop(iov, 1, iov_cnt, len) IN
    /\ Call
    /\ iov' = r.iov
    /\ got' = [k \in DOMAIN r.moved |-> mem[r.moved[k]]]
    /\ UNCHANGED <<iov_cnt, mem, produced>>

\* tcmu_seek_in_iovec(cmd->iovec, count), the consumed count not kept.
Seek(count) ==
    /\ count <= Avail
    /\ Call
    /\ iov' = SeekInIovec(iov, count).iov
    /\ UNCHANGED <<iov_cnt, mem, produced, got>>

\* tcmu_seek_in_cmd_iovec(cmd, count).
SeekCmd(count) ==
    LET r == SeekInIovec(iov, count) IN
    /\ count <= Avail
    /\ Call
    /\ iov' = r.iov
    /\ iov_cnt' = iov_cnt - r.consumed
    /\ UNCHANGED <<mem, produced, got>>

\* tcmu_zero_iovec(cmd->iovec, cmd->iov_cnt).
Zero ==
    /\ Call
    /\ mem' = [p \in 1..Total |-> IF p \in ZeroedBy(iov, iov_cnt) THEN 0 ELSE mem[p]]
    /\ UNCHANGED <<iov, iov_cnt, produced, got>>

\* The segments as delivered, holding the initiator's bytes 1..Total.
Init ==
    /\ iov = [i \in 1..NSegs |-> [base |-> 0, len |-> SegLens[i]]]
    /\ iov_cnt = NSegs
    /\ mem = [p \in 1..Total |-> p]
    /\ produced = Total
    /\ got = <<>>
    /\ ops = 0

\* The emulators' use: copies and zeroing on the iovec they are given, and
\* seeks that leave the segment count alone.
Next ==
    \/ \E len \in 0..MaxLen : CopyInto(len)
    \/ \E len \in 0..MaxLen : CopyFrom(len)
    \/ \E n \in 0..MaxLen : Seek(n)
    \/ Zero

\* A handler that also consumes the command with tcmu_seek_in_cmd_iovec.
NextCmd == Next \/ \E n \in 0..MaxLen : SeekCmd(n)

Spec    == Init /\ [][Next]_vars
SpecCmd == Init /\ [][NextCmd]_vars

-----------------------------------------------------------------------------
TypeOK ==
    /\ iov \in [1..NSegs -> [base : 0..Total, len : 0..Total]]
    /\ \A i \in 1..NSegs : iov[i].len <= SegLens[i]
    /\ iov_cnt \in 0..NSegs
    /\ mem \in [1..Total -> 0..produced]
    /\ produced \in Total..Total + MaxOps * MaxLen
    /\ ops \in 0..MaxOps

\* The flat cursor the (iovec, iov_cnt) view stands for.
Cursor == Total - IovecLength(iov, iov_cnt)

Abs == INSTANCE IOVecBuffer WITH cursor <- Cursor, data <- mem

\* Every sequence of copies, zeroing and seeks on the command behaves as a
\* cursor over one flat buffer: tcmu_memcpy_into/from_iovec move exactly
\* min(len, bytes left) bytes, in order, at the cursor, skipping segments a
\* seek emptied, and tcmu_zero_iovec clears exactly the bytes left.
BufferRefinement == Abs!ASpec

\* tcmu_compare_with_iovec on a partly consumed iovec returns the offset of
\* the first byte of mem differing from the bytes left, or -1: its per
\* segment mem_off bookkeeping agrees with a flat comparison.
RefCompare(m, size) ==
    LET diff == {j \in 1..size : m[j] # mem[Cursor + j]}
    IN  IF diff = {} THEN -1 ELSE (CHOOSE j \in diff : \A q \in diff : j <= q) - 1

CompareMatchesReference ==
    \A size \in 0..Avail : \A m \in [1..size -> Probe] :
        CompareWithIovec(m, iov, size, mem) = RefCompare(m, size)

\* tcmu_seek_in_cmd_iovec's comment: the iove count should be updated so
\* that (cmd->iovec, cmd->iov_cnt) still describes every byte left.  No
\* byte may be left in a segment beyond iov_cnt.
CmdViewCoversRemaining == \A i \in iov_cnt + 1..NSegs : iov[i].len = 0
=============================================================================
