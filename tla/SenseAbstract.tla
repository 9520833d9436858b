--------------------------- MODULE SenseAbstract ---------------------------
(***************************************************************************)
(* What the sense helpers of src/api.c promise, as fields of fixed-format  *)
(* sense rather than bytes (spec sections 3 and 4.3):                      *)
(*                                                                         *)
(*   - setting sense writes the fixed layout: current error, the sense key, *)
(*     additional length 10, ASC and ASCQ, and no VALID bit; the plain     *)
(*     form starts from a cleared buffer, the "__" form keeps INFORMATION   *)
(*     and the key-specific field;                                         *)
(*   - setting INFORMATION clears the buffer, then records the 32-bit value *)
(*     with VALID;                                                          *)
(*   - setting key-specific information clears the buffer, then records    *)
(*     the 16-bit value with SKSV.                                          *)
(***************************************************************************)
EXTENDS Integers

CONSTANTS SenseKeys, AscAscqs, SksInfos, SenseInfos

VARIABLE fields   \* the fixed-format fields of the sense buffer

\* A cleared buffer read as fixed-format sense.
Blank == [valid |-> FALSE, code |-> 0, flags |-> 0, key |-> 0, info |-> 0,
          addlen |-> 0, asc |-> 0, ascq |-> 0, sksv |-> FALSE, sks |-> 0]

\* The fixed layout of section 3 over the fields f already holds.
Header(f, key, aa) ==
    [f EXCEPT !.valid = FALSE, !.code = 112, !.flags = 0, !.key = key,
              !.addlen = 10, !.asc = aa \div 256, !.ascq = aa % 256]

Init == fields = Blank

SetHeader(key, aa)  == fields' = Header(fields, key, aa)
SetSense(key, aa)   == fields' = Header(Blank, key, aa)
SetInfo(info)       == fields' = [Blank EXCEPT !.valid = TRUE, !.info = info]
SetKeySpecific(sks) == fields' = [Blank EXCEPT !.sksv = TRUE, !.sks = sks]

Next ==
    \/ \E k \in SenseKeys, aa \in AscAscqs : SetHeader(k, aa) \/ SetSense(k, aa)
    \/ \E i \in SenseInfos : SetInfo(i)
    \/ \E i \in SksInfos : SetKeySpecific(i)

Spec == Init /\ [][Next]_fields
=============================================================================
