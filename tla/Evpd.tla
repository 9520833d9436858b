-------------------------------- MODULE Evpd --------------------------------
(***************************************************************************)
(* INQUIRY emulation of src/api.c: tcmu_emulate_inquiry, the standard      *)
(* INQUIRY data and the vital product data pages of                        *)
(* tcmu_emulate_evpd_inquiry.                                              *)
(*                                                                         *)
(* As in ModeSense, a behaviour is one request and the one step that       *)
(* answers it.  The constant pages (standard data, 0x00, 0xb0, 0xb1, 0xb2) *)
(* are kept to what the properties tell apart: the bytes handed to the     *)
(* iovec, the length field and, for page 0x00, the page list.  The device  *)
(* identification page 0x83 is built in a 512-byte stack buffer by         *)
(* advancing two counters, the pointer ptr and the byte count used, over   *)
(* up to seven descriptors whose strings have lengths the code does not    *)
(* bound; it is modelled as the code's arithmetic on them.  A descriptor   *)
(* records where ptr put it, the DESIGNATOR LENGTH byte it stores, how far *)
(* the code advanced past it and the byte ranges [lo, hi) it writes.       *)
(* Strings enter page 0x83's layout only through their lengths; the WWN is *)
(* a sequence of character codes because the NAA descriptor packs its hex  *)
(* digits.                                                                 *)
(***************************************************************************)
EXTENDS Integers, Sequences, Bitwise

CONSTANTS ShortWwns,    \* WWN strings tried with every page, as code sequences
          LongWwnLens,  \* lengths of the longer WWN strings tried
          WwnPattern,   \* the characters the longer WWN strings repeat
          CfgLens,      \* lengths of dev->cfgstring tried
          PortWwnLens,  \* lengths of port->wwn tried
          PageCodes     \* cdb[2] values tried

VARIABLES req,   \* the INQUIRY command and the device and port it reaches
          resp   \* its outcome, NoResp before the step

vars == <<req, resp>>

DataSize == 512     \* char data[512] of pages 0x80 and 0x83
SizeMax == 2^30     \* stands for a size_t argument that wrapped below zero
NoPort == 0         \* port == NULL

Min2(a, b) == IF a < b THEN a ELSE b

\* A store of an integer into a char of the buffer keeps its low byte.
Byte(n) == n % 256

\* The size_t argument sizeof(data) - used - 4 wraps when used passes 508.
SizeArg(x) == IF x < 0 THEN SizeMax ELSE x

\* Bytes snprintf(buf, size, "%s", s) stores for a string of length len,
\* the terminating NUL included; it returns len whatever it stores.
Written(size, len) == IF size = 0 THEN 0 ELSE Min2(len, size - 1) + 1

Iv(lo, n) == [lo |-> lo, hi |-> lo + n]

-----------------------------------------------------------------------------
(* char_to_hex and the NAA designator body.                                *)

CharToHexUpperG(c) ==
    CASE c >= 48 /\ c <= 57  -> [ok |-> TRUE, val |-> c - 48]
      [] c >= 97 /\ c <= 102 -> [ok |-> TRUE, val |-> c - 87]
      [] c >= 65 /\ c <= 71  -> [ok |-> TRUE, val |-> c - 55]
      [] OTHER               -> [ok |-> FALSE, val |-> 0]

CharToHex(c) ==
    CASE c >= 48 /\ c <= 57  -> [ok |-> TRUE, val |-> c - 48]
      [] c >= 97 /\ c <= 102 -> [ok |-> TRUE, val |-> c - 87]
      [] c >= 65 /\ c <= 70  -> [ok |-> TRUE, val |-> c - 55]
      [] OTHER               -> [ok |-> FALSE, val |-> 0]

\* ptr[4..19] before the loop: type 6, OpenFabrics company id 00 14 05.
NaaPrefix == [k \in 4..19 |-> CASE k = 4 -> 96 [] k = 5 -> 1 [] k = 6 -> 64
                                [] k = 7 -> 80 [] OTHER -> 0]

\* for (p = wwn, i = 7; *p && i < 20; p++): a hex digit ORs into ptr[i]
\* and moves to the next byte, or sets the high nibble of ptr[i].
RECURSIVE NaaLoop(_, _, _, _, _)
NaaLoop(w, p, i, next, b) ==
    IF p > Len(w) \/ i >= 20 THEN b
    ELSE LET h == CharToHex(w[p]) IN
         CASE ~h.ok -> NaaLoop(w, p + 1, i, next, b)
           [] next  -> NaaLoop(w, p + 1, i + 1, FALSE, [b EXCEPT ![i] = @ | h.val])
           [] OTHER -> NaaLoop(w, p + 1, i, TRUE, [b EXCEPT ![i] = h.val * 16])

NaaBody(w) == NaaLoop(w, 1, 7, TRUE, NaaPrefix)

-----------------------------------------------------------------------------
(* Page 0x83.  s is [ptr, used, descs]: ptr as an offset into data[],      *)
(* used as the code's count, and the descriptors so far.                   *)

Desc(s, lenb, adv, str, ws) ==
    [off |-> s.ptr, lenb |-> lenb, adv |-> adv, str |-> str, writes |-> ws]

Emit(s, d, dused, dptr) ==
    [ptr |-> s.ptr + dptr, used |-> s.used + dused, descs |-> Append(s.descs, d)]

\* 1/5: T10 vendor id, "LIO-ORG " and the WWN; ptr3 = 8 + len + 1.
VendorIdDesc(s, wl) ==
    LET b == Byte(8 + wl + 1)
    IN  Emit(s, Desc(s, b, b, wl, {Iv(s.ptr, 4), Iv(s.ptr + 4, 8),
                                   Iv(s.ptr + 12, Written(DataSize - 16, wl))}),
             b + 4, s.used + b + 4)

\* 2/5: the NAA designator, a fixed 16-byte body.
NaaDesc(s) == Emit(s, Desc(s, 16, 16, 0, {Iv(s.ptr, 20)}), 20, 20)

VendorSpecificDescNoHeader(s, cl) ==
    LET b == Byte(cl + 1)
    IN  Emit(s, Desc(s, b, b, cl, {Iv(s.ptr, 4),
                     Iv(s.ptr + 4, Written(SizeArg(DataSize - s.used - 4), cl))}),
             b + 4, b)

\* 3/6: vendor specific, the cfgstring in sizeof(data) - used - 4 bytes.
VendorSpecificDesc(s, cl) ==
    LET b == Byte(cl + 1)
    IN  Emit(s, Desc(s, b, b, cl, {Iv(s.ptr, 4),
                     Iv(s.ptr + 4, Written(SizeArg(DataSize - s.used - 4), cl))}),
             b + 4, b + 4)

\* 4/5 and 5/5: relative target port id and target port group.
PortIdDesc(s) == Emit(s, Desc(s, 4, 4, 0, {Iv(s.ptr, 8)}), 8, 8)

NameLenPadLow(n) ==
    LET len == (n + 1) + ((n + 1) % 4) IN IF len > 256 THEN 256 ELSE len

\* len = snprintf(...) + 1, padded by (-len) & 3, capped at 256.
NameLen(n) ==
    LET len == (n + 1) + ((4 - ((n + 1) % 4)) % 4) IN IF len > 256 THEN 256 ELSE len

\* SCSI name string and target device designators: ptr[3] = len.
NameDesc(s, n) ==
    LET len == NameLen(n)
    IN  Emit(s, Desc(s, Byte(len), len, n, {Iv(s.ptr, 4),
                     Iv(s.ptr + 4, Written(SizeArg(DataSize - s.used - 4), n))}),
             len + 4, len + 4)

\* The descriptor list: "%s,t,0x%04x" of a 16-bit tpgt adds 9 characters.
Page83Layout(wl, cl, port) ==
    LET s3 == VendorSpecificDesc(NaaDesc(VendorIdDesc([ptr |-> 4, used |-> 0,
                                                      descs |-> <<>>], wl)), cl)
    IN  IF port = NoPort THEN s3
        ELSE NameDesc(NameDesc(PortIdDesc(PortIdDesc(s3)), port + 9), port)
-----------------------------------------------------------------------------
(* The pages.  copy is the length handed to tcmu_memcpy_into_iovec and     *)
(* lenfield the page's length field as stored.                             *)

Answer(copy, lenfield) ==
    [sts |-> "OK", copy |-> copy, lenfield |-> lenfield, list |-> <<>>,
     naa |-> <<>>, descs |-> <<>>]

Fail(sts) == [Answer(0, 0) EXCEPT !.sts = sts]

SupportedPagesNoB1 == <<0, 128, 131, 176, 178>>

\* Page 0x00 lists data[4..9]; data[3] = 6.
SupportedPages == <<0, 128, 131, 176, 177, 178>>

\* The serial number is kept as one field, its extent in data[].
Page80LenNoNul(w) ==
    [Answer(DataSize, Byte(Len(w))) EXCEPT
        !.descs = <<Desc([ptr |-> 0], 0, 0, Len(w), {Iv(4, Written(256, Len(w)))})>>]

\* Page 0x80: len = snprintf(&data[4], 256, "%s", wwn); data[3] = len + 1.
Page80(w) ==
    [Answer(DataSize, Byte(Len(w) + 1)) EXCEPT
        !.descs = <<Desc([ptr |-> 0], 0, 0, Len(w), {Iv(4, Written(256, Len(w)))})>>]

\* Page 0x83: *tot_len = htobe16(used); used + 4 bytes are copied out.
Page83(r) ==
    LET s == Page83Layout(Len(r.wwn), r.cfg, r.port)
    IN  [Answer(s.used + 4, s.used % 65536) EXCEPT !.descs = s.descs,
                                                   !.naa = NaaBody(r.wwn)]

\* Pages 0xb0, 0xb1, 0xb2: char data[64], page lengths 0x3c, 0x3c and 4.
ConstantPage(page) == Answer(64, IF page = 178 THEN 4 ELSE 60)

\* tcmu_emulate_std_inquiry: 36 bytes, additional length 31.
StdInquiry == Answer(36, 31)

\* tcmu_emulate_evpd_inquiry: switch (cdb[2]).
EvpdInquiry(r) ==
    CASE r.page = 0   -> [Answer(16, 6) EXCEPT !.list = SupportedPages]
      [] r.page = 128 -> IF r.hasWwn THEN Page80(r.wwn) ELSE Fail("HW_ERR")
      [] r.page = 131 -> IF r.hasWwn THEN Page83(r) ELSE Fail("HW_ERR")
      [] r.page \in {176, 177, 178} -> ConstantPage(r.page)
      [] OTHER        -> Fail("INVALID_CDB")

\* tcmu_emulate_inquiry: EVPD bit clear gives the 36-byte standard data
\* (additional length 31) for page code 0 and INVALID_CDB otherwise.
Inquiry(r) ==
    IF r.evpd = 1 THEN EvpdInquiry(r)
    ELSE IF r.page = 0 THEN StdInquiry ELSE Fail("INVALID_CDB")

-----------------------------------------------------------------------------
(* Requests.  The longer WWNs repeat WwnPattern.  Page 0x83's layout       *)
(* depends on the strings' lengths alone, so the short WWNs, which         *)
(* exercise char_to_hex, are tried with the empty cfgstring and no port,   *)
(* and the longer ones with every cfgstring length and port.               *)

LongWwn(n) == [i \in 1..n |-> WwnPattern[((i - 1) % Len(WwnPattern)) + 1]]
LongWwns == {LongWwn(n) : n \in LongWwnLens}
Wwns == ShortWwns \cup LongWwns
Ports == {NoPort} \cup PortWwnLens

Requests ==
    {r \in [evpd : {0, 1}, page : PageCodes, hasWwn : BOOLEAN, wwn : Wwns,
            cfg : CfgLens, port : Ports] :
        /\ (r.page \notin {128, 131} \/ ~r.hasWwn) => r.wwn = <<>>
        /\ (r.page # 131 \/ r.wwn \in ShortWwns) => r.cfg = 0 /\ r.port = NoPort}

NoResp == [Fail("none") EXCEPT !.copy = -1]

Init == req \in Requests /\ resp = NoResp

Respond == resp = NoResp /\ resp' = Inquiry(req) /\ UNCHANGED req

Next == Respond

Spec == Init /\ [][Next]_vars
-----------------------------------------------------------------------------
(* Reference definitions and properties.                                   *)

Answered == resp # NoResp
Page83Answered == Answered /\ req.evpd = 1 /\ req.page = 131 /\ resp.sts = "OK"

\* The NAA body as SPC and the kernel describe it: the type-6 prefix, then
\* the WWN's hex digits, in order, one nibble each, zero when they run out.
IsHexChar(c) == c \in (48..57) \cup (65..70) \cup (97..102)
HexValue(c) == CASE c <= 57 -> c - 48 [] c <= 70 -> c - 55 [] OTHER -> c - 87
NaaReference(w) ==
    LET h == SelectSeq(w, IsHexChar)
        g(k) == IF k <= Len(h) THEN HexValue(h[k]) ELSE 0
    IN  [k \in 4..19 |-> CASE k = 4 -> 96 [] k = 5 -> 1 [] k = 6 -> 64
                           [] k = 7 -> 80 + g(1)
                           [] OTHER -> 16 * g(2 * (k - 8) + 2) + g(2 * (k - 8) + 3)]

\* Bytes taken by the descriptors before the k-th: header plus body each.
RECURSIVE SpanBefore(_, _)
SpanBefore(D, k) == IF k = 1 THEN 0 ELSE SpanBefore(D, k - 1) + D[k - 1].adv + 4

\* tcmu_emulate_evpd_inquiry answers exactly the pages its page 0x00 lists
\* (when the device has a WWN), and that list starts at 0x00, ascends and
\* has the length its data[3] claims.
SupportedPagesServed ==
    Answered /\ req.evpd = 1 /\ req.hasWwn =>
        LET P0 == Inquiry([req EXCEPT !.page = 0])
            L == P0.list
        IN  /\ L[1] = 0
            /\ \A k \in 1..Len(L) - 1 : L[k] < L[k + 1]
            /\ P0.lenfield = Len(L)
            /\ (resp.sts = "OK") = (\E k \in DOMAIN L : L[k] = req.page)

\* Page 0x80 holds the whole serial number and its NUL for every WWN the
\* kernel allows (up to 254 bytes), and data[3] counts that NUL.
Page80SerialWhole ==
    Answered /\ req.evpd = 1 /\ req.page = 128 /\ resp.sts = "OK" =>
        /\ resp.lenfield = Len(req.wwn) + 1
        /\ resp.descs[1].writes = {Iv(4, Len(req.wwn) + 1)}

\* The NAA designator of page 0x83 packs the WWN's hex digits as the
\* reference does, for WWNs holding every char_to_hex boundary character.
NaaMatchesReference == Page83Answered => resp.naa = NaaReference(req.wwn)

\* Page 0x83 keeps ptr and used in step although the code advances them by
\* different expressions: each descriptor starts where the previous one's
\* header and body end, and the page length and the bytes copied out count
\* exactly the descriptors built.
PtrTracksUsed ==
    Page83Answered =>
        LET D == resp.descs
            total == SpanBefore(D, Len(D) + 1)
        IN  /\ \A k \in DOMAIN D : D[k].off = 4 + SpanBefore(D, k)
            /\ resp.copy = total + 4
            /\ resp.lenfield = total

\* The SCSI name string and target device designators are padded to a
\* multiple of 4, at most 256, and hold the name and its NUL when they fit.
DesignatorsPadded ==
    Page83Answered /\ req.port # NoPort =>
        \A k \in {6, 7} :
            LET d == resp.descs[k]
            IN  /\ d.adv % 4 = 0
                /\ d.adv <= 256
                /\ d.str + 1 <= 256 => d.str + 1 <= d.adv /\ d.adv < d.str + 5

\* Page 0x83 stays inside its stack buffer: every byte it writes, and the
\* used + 4 bytes it copies out, lie inside data[512].
Page83StaysInBuffer ==
    Page83Answered =>
        /\ \A k \in DOMAIN resp.descs : \A w \in resp.descs[k].writes : w.hi <= DataSize
        /\ resp.copy <= DataSize

\* Every descriptor's bytes lie inside the extent its DESIGNATOR LENGTH
\* byte declares, so that an initiator walking the list by those bytes
\* finds each descriptor whole.
DescriptorsHoldTheirBytes ==
    Page83Answered =>
        \A k \in DOMAIN resp.descs :
            LET d == resp.descs[k]
            IN  \A w \in d.writes : d.off <= w.lo /\ w.hi <= d.off + 4 + d.lenb
====
