------------------------------- MODULE Sense -------------------------------
(***************************************************************************)
(* The sense-data encoder of src/api.c: __tcmu_set_sense_data,             *)
(* tcmu_set_sense_data, tcmu_set_sense_key_specific_info and               *)
(* tcmu_set_sense_info, applied in any order to one command's sense        *)
(* buffer.  The buffer is a function from offsets 0..17 to bytes (the      *)
(* helpers touch no byte past 17).  A field of the fixed format is read    *)
(* back by a decoder written from SPC, not from the code.                  *)
(***************************************************************************)
EXTENDS Integers, Bitwise

CONSTANTS SenseKeys,      \* sense keys callers pass (SCSI constants, < 16)
          AscAscqs,       \* uint16_t ASC/ASCQ pairs callers pass
          SksInfos,       \* uint16_t key-specific information values
          SenseInfos,     \* uint32_t INFORMATION values (below 2^31 in TLC)
          MaxSenseCalls   \* helper calls made on one buffer

VARIABLES sense,       \* the 18 bytes of cmd->sense_buf
          senseLast,   \* the last helper called and its arguments
          senseCalls   \* helper calls so far

senseVars == <<sense, senseLast, senseCalls>>

SenseLen == 18
SenseOffsets == 0..SenseLen - 1
NoCall == [op |-> "none", key |-> 0, aa |-> 0, info |-> 0]

\* memset(sense_buf, 0, 18)
SenseZero == [i \in SenseOffsets |-> 0]

\* __tcmu_set_sense_data: fixed format, current error; no memset.
SetFixedSense(buf, key, aa) ==
    [buf EXCEPT ![0] = 112, ![2] = key, ![7] = 10,
                ![12] = shiftR(aa, 8) & 255, ![13] = aa & 255]

\* Mutant: tcmu_set_sense_data without its memset.
SetSenseDataNoZero(buf, key, aa) == SetFixedSense(buf, key, aa)

\* tcmu_set_sense_data: zero the 18 bytes, then the fixed fields.
SetSenseData(buf, key, aa) == SetFixedSense(SenseZero, key, aa)

\* tcmu_set_sense_key_specific_info: zero, info big-endian at 16, SKSV.
SetSenseKeySpecificInfo(buf, info) ==
    [SenseZero EXCEPT ![16] = shiftR(info, 8) & 255, ![17] = info & 255,
                      ![15] = @ | 128]

\* Mutant: put_unaligned_be32(info, &sense_buf[4]), one byte late.
SetSenseInfoAt4(buf, info) ==
    [SenseZero EXCEPT ![4] = shiftR(info, 24) & 255, ![5] = shiftR(info, 16) & 255,
                      ![6] = shiftR(info, 8) & 255, ![7] = info & 255,
                      ![0] = @ | 128]

\* tcmu_set_sense_info: zero, info big-endian at 3..6, VALID.
SetSenseInfo(buf, info) ==
    [SenseZero EXCEPT ![3] = shiftR(info, 24) & 255, ![4] = shiftR(info, 16) & 255,
                      ![5] = shiftR(info, 8) & 255, ![6] = info & 255,
                      ![0] = @ | 128]

-----------------------------------------------------------------------------
SenseInit ==
    /\ sense = SenseZero
    /\ senseLast = NoCall
    /\ senseCalls = 0

\* One helper call on the buffer, with its arguments; the count is bounded.
Call(op, key, aa, info, buf) ==
    /\ senseCalls < MaxSenseCalls
    /\ sense' = buf
    /\ senseLast' = [op |-> op, key |-> key, aa |-> aa, info |-> info]
    /\ senseCalls' = senseCalls + 1

SetFixedSenseCall ==
    \E k \in SenseKeys, aa \in AscAscqs :
        Call("__set_sense_data", k, aa, 0, SetFixedSense(sense, k, aa))

SetSenseDataCall ==
    \E k \in SenseKeys, aa \in AscAscqs :
        Call("set_sense_data", k, aa, 0, SetSenseData(sense, k, aa))

SetSenseKeySpecificInfoCall ==
    \E i \in SksInfos :
        Call("set_sense_key_specific_info", 0, 0, i, SetSenseKeySpecificInfo(sense, i))

SetSenseInfoCall ==
    \E i \in SenseInfos :
        Call("set_sense_info", 0, 0, i, SetSenseInfo(sense, i))

SenseNext ==
    \/ SetFixedSenseCall
    \/ SetSenseDataCall
    \/ SetSenseKeySpecificInfoCall
    \/ SetSenseInfoCall

SenseSpec == SenseInit /\ [][SenseNext]_senseVars

-----------------------------------------------------------------------------
(* Fixed-format sense as SPC defines it: byte 0 VALID and response code,   *)
(* byte 2 the FILEMARK/EOM/ILI bits and the sense key, bytes 3-6          *)
(* INFORMATION, byte 7 the additional length, bytes 12-13 ASC and ASCQ,    *)
(* bytes 15-17 SKSV and the sense-key specific field.                      *)
DecodeSense(b) ==
    [valid |-> b[0] >= 128, code |-> b[0] % 128,
     flags |-> b[2] \div 16, key |-> b[2] % 16,
     info |-> ((b[3] * 256 + b[4]) * 256 + b[5]) * 256 + b[6],
     addlen |-> b[7], asc |-> b[12], ascq |-> b[13],
     sksv |-> b[15] >= 128, sks |-> ((b[15] % 128) * 256 + b[16]) * 256 + b[17]]

(* After tcmu_set_sense_data or __tcmu_set_sense_data, whatever helpers   *)
(* ran before on the buffer, a decoder reads current fixed-format sense   *)
(* with the key, ASC and ASCQ asked for, an additional length that covers *)
(* them, no FILEMARK/EOM/ILI bit, and no VALID bit; tcmu_set_sense_data     *)
(* also leaves no INFORMATION and no sense-key specific field from an      *)
(* earlier call (the "last writer wins" of spec 4.3).                      *)
SenseDataWellFormed ==
    senseLast.op \in {"set_sense_data", "__set_sense_data"} =>
        LET d == DecodeSense(sense)
        IN  /\ d.code = 112 /\ d.addlen = 10 /\ d.flags = 0 /\ ~d.valid
            /\ d.key = senseLast.key
            /\ d.asc * 256 + d.ascq = senseLast.aa
            /\ senseLast.op = "set_sense_data" => d.info = 0 /\ ~d.sksv /\ d.sks = 0

-----------------------------------------------------------------------------
\* The buffer read as fields is the state of the abstract encoder.
SenseAbs == INSTANCE SenseAbstract WITH fields <- DecodeSense(sense)

(* Every sequence of helper calls, read through the fixed-format decoder, *)
(* is a sequence of the field-level operations of SenseAbstract: each      *)
(* helper writes exactly its fields at their SPC offsets, with the byte    *)
(* order and bit positions the decoder expects, and keeps or clears the    *)
(* others as its memset (or the lack of one in __tcmu_set_sense_data)      *)
(* says.                                                                   *)
SenseRefinesAbstract == SenseAbs!Spec

=============================================================================
