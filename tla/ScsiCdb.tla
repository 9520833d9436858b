------------------------------- MODULE ScsiCdb -------------------------------
(***************************************************************************)
(* The CDB decoder of src/api.c (tcmu_get_cdb_length, tcmu_get_lba,        *)
(* tcmu_get_xfer_length), READ CAPACITY (10) and (16), START STOP UNIT and *)
(* the formatting buffer of tcmu_print_cdb_info.                           *)
(*                                                                         *)
(* A behaviour is one request and the one step that handles it.  A CDB is  *)
(* a function from byte offsets 0..n-1 to byte values.  Values wider than  *)
(* TLC's integers (64-bit LBAs, the uint64_t number of blocks) are         *)
(* sequences of bytes, most significant first, with the code's modular     *)
(* arithmetic done on them byte by byte.                                   *)
(***************************************************************************)
EXTENDS Integers, Sequences, FiniteSets, Bitwise, Sense

CONSTANTS Lbas,        \* LBAs encoded into CDBs, as 8 big-endian bytes
          Xfers,       \* transfer lengths encoded into CDBs, as 4 bytes
          Fills,       \* values of the CDB bytes no field covers
          NumLbas,     \* tcmu_get_dev_num_lbas values, as 8 bytes
          BlockSize,   \* tcmu_get_dev_block_size
          PrintOps,    \* cdb[0] values given to tcmu_print_cdb_info
          PrintCdb7s,  \* cdb[7] values given to tcmu_print_cdb_info
          InfoLens     \* lengths of its info string, NoInfo for NULL

VARIABLES req,   \* the request being handled
          resp   \* its outcome, NoResp before the step

vars == <<req, resp, sense, senseLast, senseCalls>>

EINVAL == -22
NoInfo == -1
CdbFixBytes == 64                      \* CDB_FIX_BYTES
CdbToBufSize(bytes) == bytes * 3 + 1   \* CDB_TO_BUF_SIZE
CdbFixSize == CdbToBufSize(CdbFixBytes)

\* bytes from .. from+n-1 of a CDB, as a sequence (be16toh, be32toh, ...).
Field(c, from, n) == [i \in 1..n |-> c[from + i - 1]]
Zeros(n) == [i \in 1..n |-> 0]

-----------------------------------------------------------------------------
(* tcmu_get_cdb_length: the group code, bits 7..5 of cdb[0].               *)

CdbLength(c) ==
    LET group == c[0] \div 32
    IN  CASE group = 0          -> 6
          [] group \in {1, 2}   -> 10
          [] group = 3          -> IF c[0] = 127 THEN 8 + c[7] ELSE EINVAL
          [] group = 4          -> 16
          [] group = 5          -> 12
          [] OTHER              -> EINVAL

\* The decoders assert_perror(EINVAL) for any other length.
Aborted == [abort |-> TRUE, val |-> <<>>]
Value(v) == [abort |-> FALSE, val |-> v]

GetLbaNoMask(c) ==
    CASE CdbLength(c) = 6  -> Value(Zeros(5) \o <<c[1], c[2], c[3]>>)
      [] CdbLength(c) = 10 -> Value(Zeros(4) \o Field(c, 2, 4))
      [] CdbLength(c) = 12 -> Value(Zeros(4) \o Field(c, 2, 4))
      [] CdbLength(c) = 16 -> Value(Field(c, 2, 8))
      [] OTHER             -> Aborted

\* tcmu_get_lba, as a uint64_t: ((cdb[1] & 0x1f) << 16) | be16 for 6 bytes.
GetLba(c) ==
    CASE CdbLength(c) = 6  -> Value(Zeros(5) \o <<c[1] & 31, c[2], c[3]>>)
      [] CdbLength(c) = 10 -> Value(Zeros(4) \o Field(c, 2, 4))
      [] CdbLength(c) = 12 -> Value(Zeros(4) \o Field(c, 2, 4))
      [] CdbLength(c) = 16 -> Value(Field(c, 2, 8))
      [] OTHER             -> Aborted

\* tcmu_get_xfer_length, as a uint32_t.
GetXferLength(c) ==
    CASE CdbLength(c) = 6  -> Value(Zeros(3) \o <<c[4]>>)
      [] CdbLength(c) = 10 -> Value(Zeros(2) \o Field(c, 7, 2))
      [] CdbLength(c) = 12 -> Value(Field(c, 6, 4))
      [] CdbLength(c) = 16 -> Value(Field(c, 10, 4))
      [] OTHER             -> Aborted

-----------------------------------------------------------------------------
(* READ CAPACITY.  num_lbas - 1 on a uint64_t, byte by byte.               *)

RECURSIVE DecFrom(_, _)
DecFrom(s, i) ==
    IF i = 0 THEN s
    ELSE IF s[i] > 0 THEN [s EXCEPT ![i] = @ - 1]
    ELSE DecFrom([s EXCEPT ![i] = 255], i - 1)

DecLow32(s) == Zeros(4) \o DecFrom(SubSeq(s, 5, 8), 4)

Dec(s) == DecFrom(s, Len(s))

Be32(n) == <<(n \div 16777216) % 256, (n \div 65536) % 256, (n \div 256) % 256, n % 256>>

\* num_lbas < 0x100000000ULL: its four high bytes are zero.
Fits32(s) == SubSeq(s, 1, 4) = Zeros(4)

\* tcmu_emulate_read_capacity_10: buf[0..3] last LBA or 0xffffffff,
\* buf[4..7] the block size.
ReadCapacity10(n) ==
    (IF Fits32(n) THEN SubSeq(Dec(n), 5, 8) ELSE <<255, 255, 255, 255>>) \o Be32(BlockSize)

\* tcmu_emulate_read_capacity_16: buf[0..7] num_lbas - 1, buf[8..11] the
\* block size, buf[14] LBPME | LBPRZ, the rest of the 32 bytes zero.
ReadCapacity16(n) ==
    Dec(n) \o Be32(BlockSize) \o <<0, 0, 128 + 64>> \o Zeros(17)

-----------------------------------------------------------------------------
(* tcmu_emulate_start_stop: the POWER CONDITION field must be zero and     *)
(* START set.                                                              *)

StartStop(b4) ==
    CASE (b4 \div 16) % 16 # 0 -> "INVALID_CDB"
      [] b4 % 2 = 0            -> "INVALID_CDB"
      [] OTHER                 -> "OK"

-----------------------------------------------------------------------------
(* tcmu_print_cdb_info.  sprintf(buf + n, "%x ", cdb[i]) stores one or two *)
(* hex digits and a space, the info string follows, and sprintf(buf + n,   *)
(* "\n") stores the newline and a NUL.  The outcome is the buffer's size   *)
(* and the extent the sprintf calls write, or "none" for an early return. *)

\* Each "%x " is a space and one hex digit, two for a byte of 0x10 or more.
CdbTextLen(c, bytes) == 2 * bytes + Cardinality({i \in 0..bytes - 1 : c[i] >= 16})

NoPrint == [size |-> 0, extent |-> 0]

PrintCdbInfo(c, info, nomem) ==
    LET bytes == CdbLength(c)
        heap == bytes > CdbFixSize
        n == CdbTextLen(c, bytes) + (IF info = NoInfo THEN 0 ELSE info)
    IN  CASE bytes < 0       -> NoPrint
          [] heap /\ nomem   -> NoPrint
          [] OTHER           -> [size |-> IF heap THEN CdbToBufSize(bytes) ELSE CdbFixSize,
                                 extent |-> n + 2]
-----------------------------------------------------------------------------
(* Requests.  CDBs for the decoder are built by an encoder that follows    *)
(* the spec's field layout (SBC): READ(6) with a 21-bit LBA in the low 5   *)
(* bits of byte 1 and bytes 2-3 and an 8-bit length in byte 4; 10 and 12   *)
(* bytes with a 32-bit LBA at 2-5 and the length at 7-8 or 6-9; 16 bytes   *)
(* with a 64-bit LBA at 2-9 and the length at 10-13.  Bytes no field       *)
(* covers, the top 3 bits of byte 1 included, hold the fill value.         *)

\* Opcodes by CDB size, group codes 0, 1, 2, 5 and 4.
DecodeOps == [f \in {6, 10, 12, 16} |->
                CASE f = 6 -> {8} [] f = 10 -> {40, 90} [] f = 12 -> {168} [] OTHER -> {136}]

LbaFits(f, l) ==
    CASE f = 6          -> SubSeq(l, 1, 5) = Zeros(5) /\ l[6] < 32
      [] f \in {10, 12} -> SubSeq(l, 1, 4) = Zeros(4)
      [] OTHER          -> TRUE

XferFits(f, x) ==
    CASE f = 6  -> SubSeq(x, 1, 3) = Zeros(3)
      [] f = 10 -> SubSeq(x, 1, 2) = Zeros(2)
      [] OTHER  -> TRUE

Place(c, off, bytes) ==
    [i \in DOMAIN c |-> IF off <= i /\ i < off + Len(bytes) THEN bytes[i - off + 1] ELSE c[i]]

Encode(f, op, l, x, fill) ==
    LET base == [i \in 0..f - 1 |-> IF i = 0 THEN op ELSE fill]
    IN  CASE f = 6  -> [Place(base, 2, SubSeq(l, 7, 8)) EXCEPT
                           ![1] = (fill & 224) + l[6], ![4] = x[4]]
          [] f = 10 -> Place(Place(base, 2, SubSeq(l, 5, 8)), 7, SubSeq(x, 3, 4))
          [] f = 12 -> Place(Place(base, 2, SubSeq(l, 5, 8)), 6, x)
          [] OTHER  -> Place(Place(base, 2, l), 10, x)

\* A CDB with cdb[0] = op and cdb[7] = b7, as long as tcmu_get_cdb_length
\* says (16 bytes when it refuses it).
MakeCdb(op, b7, fill) ==
    LET head == [i \in 0..7 |-> CASE i = 0 -> op [] i = 7 -> b7 [] OTHER -> fill]
        len == CdbLength(head)
    IN  [i \in 0..(IF len < 0 THEN 16 ELSE len) - 1 |->
            CASE i = 0 -> op [] i = 7 -> b7 [] OTHER -> fill]

Req(kind) == [kind |-> kind, cdb |-> <<>>, lba |-> <<>>, xfer |-> <<>>,
              lbas |-> Zeros(8), b4 |-> 0, info |-> NoInfo]

DecodeReqs ==
    UNION {{[Req("decode") EXCEPT !.cdb = Encode(f, op, l, x, fill), !.lba = l, !.xfer = x] :
              op \in DecodeOps[f], l \in {m \in Lbas : LbaFits(f, m)},
              x \in {m \in Xfers : XferFits(f, m)}, fill \in Fills} : f \in {6, 10, 12, 16}}

\* Variable-length (0x7f) CDBs, which tcmu_get_cdb_length accepts: an
\* additional length of 2 makes one 10 bytes long, 24 one READ(32).
VarDecodeReqs ==
    {[Req("decode") EXCEPT !.cdb = MakeCdb(127, b7, fill)] : b7 \in {2, 24}, fill \in Fills}

CapacityReqs == {[Req(k) EXCEPT !.lbas = n] : k \in {"rc10", "rc16"}, n \in NumLbas}

StartStopReqs == {[Req("startstop") EXCEPT !.b4 = b4] : b4 \in 0..255}

PrintReqs ==
    {[Req("print") EXCEPT !.cdb = MakeCdb(op, b7, fill), !.info = info] :
        op \in PrintOps, b7 \in PrintCdb7s, fill \in Fills, info \in InfoLens}

\* A failed command whose sense buffer the helpers of Sense build.
SenseReqs == {Req("sense")}

Requests == DecodeReqs \cup VarDecodeReqs \cup CapacityReqs \cup StartStopReqs \cup PrintReqs
            \cup SenseReqs

NoResp == [done |-> FALSE, lba |-> Aborted, xfer |-> Aborted, data |-> <<>>,
           sts |-> "none", print |-> NoPrint]

Init == req \in Requests /\ resp = NoResp /\ SenseInit

-----------------------------------------------------------------------------
(* One action per entry point.                                             *)

Handle(kind, r) == req.kind = kind /\ resp = NoResp /\ resp' = [r EXCEPT !.done = TRUE]
                   /\ UNCHANGED <<req, sense, senseLast, senseCalls>>

Decode ==
    Handle("decode", [NoResp EXCEPT !.lba = GetLba(req.cdb), !.xfer = GetXferLength(req.cdb)])

ReadCap10 == Handle("rc10", [NoResp EXCEPT !.data = ReadCapacity10(req.lbas), !.sts = "OK"])

ReadCap16 == Handle("rc16", [NoResp EXCEPT !.data = ReadCapacity16(req.lbas), !.sts = "OK"])

StartStopUnit == Handle("startstop", [NoResp EXCEPT !.sts = StartStop(req.b4)])

\* malloc of the larger buffer may fail.
PrintInfo ==
    \E nomem \in BOOLEAN :
        Handle("print", [NoResp EXCEPT !.print = PrintCdbInfo(req.cdb, req.info, nomem)])

\* The sense helpers called on the command's sense buffer, one at a time.
BuildSense == req.kind = "sense" /\ SenseNext /\ UNCHANGED <<req, resp>>

Next == Decode \/ ReadCap10 \/ ReadCap16 \/ StartStopUnit \/ PrintInfo \/ BuildSense

Spec == Init /\ [][Next]_vars

-----------------------------------------------------------------------------
(* Reference definitions and properties.                                   *)

\* x + 1 on a big-endian byte sequence, wrapping like an unsigned integer.
RECURSIVE IncFrom(_, _)
IncFrom(s, i) ==
    IF i = 0 THEN s
    ELSE IF s[i] < 255 THEN [s EXCEPT ![i] = @ + 1]
    ELSE IncFrom([s EXCEPT ![i] = 0], i - 1)
Inc(s) == IncFrom(s, Len(s))

\* tcmu_get_lba and tcmu_get_xfer_length return the LBA and transfer
\* length a 6, 10, 12 or 16-byte CDB was encoded with, whatever the bytes
\* around the fields hold.
FixedCdbRoundTrip ==
    resp.done /\ req.kind = "decode" /\ req.lba # <<>> =>
        resp.lba = Value(req.lba) /\ resp.xfer = Value(req.xfer)

\* READ CAPACITY (16) reports the last LBA, num_lbas - 1, of a device with
\* at least one block, and READ CAPACITY (10) reports the same LBA when it
\* fits 32 bits and 0xffffffff exactly when the device has 2^32 blocks or
\* more.
ReadCapacityReportsLastLba ==
    resp.done /\ req.kind \in {"rc10", "rc16"} /\ req.lbas # Zeros(8) =>
        LET n == req.lbas
            big == \E i \in 1..4 : n[i] # 0
            r == SubSeq(resp.data, 1, IF req.kind = "rc16" THEN 8 ELSE 4)
        IN  IF req.kind = "rc16" THEN Inc(r) = n
            ELSE /\ big => r = <<255, 255, 255, 255>>
                 /\ ~big => Inc(Zeros(4) \o r) = n

\* The text tcmu_print_cdb_info formats, its newline and NUL included, fits
\* the buffer it is formatted into.
PrintStaysInBuffer ==
    resp.done /\ req.kind = "print" => resp.print.extent <= resp.print.size
====
