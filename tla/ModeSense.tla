----------------------------- MODULE ModeSense -----------------------------
(***************************************************************************)
(* MODE SENSE(6/10) and MODE SELECT(6/10) emulation of src/api.c.          *)
(*                                                                         *)
(* Each command is handled on its own: a behaviour is one request (Init    *)
(* ranges over every request the bounds allow, on every device            *)
(* configuration) and the one step that handles it.  The response buffer  *)
(* is modelled byte for byte, as a function from offsets 0..alloc_len-1 to *)
(* byte values, because what can go wrong here is where each field lands   *)
(* under allocation-length truncation.  A write that reaches past the      *)
(* calloc'd buffer is recorded in the buffer's "over" flag.               *)
(*                                                                         *)
(* The final tcmu_memcpy_into_iovec hands over the alloc_len bytes of the  *)
(* buffer: the data-in iovec holds alloc_len bytes, and the IOVec module   *)
(* shows that the copy delivers them in order.                             *)
(***************************************************************************)
EXTENDS Integers, Sequences

CONSTANTS MaxAlloc,        \* MODE SENSE allocation lengths tried: 0..MaxAlloc
          SelectAllocs,    \* MODE SELECT parameter list lengths tried
          NumLbasChoices,  \* tcmu_get_dev_num_lbas values, as 8 big-endian bytes
          BlockSize        \* tcmu_get_dev_block_size

VARIABLES dev,   \* the device: write cache enabled, number of LBAs
          req,   \* the command being handled
          resp   \* its outcome, "none" before the step

vars == <<dev, req, resp>>

NULL == -1
InBufSize == 512   \* uint8_t buf[512], in_buf[512] of tcmu_emulate_mode_select

Min2(a, b) == IF a < b THEN a ELSE b
Zeros(n) == [i \in 1..n |-> 0]
Be16(n) == <<(n \div 256) % 256, n % 256>>
Be24(n) == <<(n \div 65536) % 256, (n \div 256) % 256, n % 256>>
Be32(n) == <<(n \div 16777216) % 256, (n \div 65536) % 256, (n \div 256) % 256, n % 256>>

\* num_lbas fits in 32 bits exactly when its four high bytes are zero.
Lba32(lbas) ==
    IF \A k \in 1..4 : lbas[k] = 0 THEN SubSeq(lbas, 5, 8) ELSE <<255, 255, 255, 255>>

(***************************************************************************)
(* The response buffer: calloc(1, alloc_len), written at byte offsets.     *)
(***************************************************************************)
\* Mutant: the buffer taken from malloc, its bytes left undefined (-2).
NewBufUninit(alloc) == [b |-> [i \in 0..alloc - 1 |-> -2], alloc |-> alloc, over |-> FALSE]

NewBuf(alloc) == [b |-> [i \in 0..alloc - 1 |-> 0], alloc |-> alloc, over |-> FALSE]

Put(buf, off, bytes) ==
    [buf EXCEPT !.b = [i \in DOMAIN @ |->
                         IF off <= i /\ i < off + Len(bytes) THEN bytes[i - off + 1]
                                                             ELSE @[i]],
                !.over = @ \/ off + Len(bytes) > buf.alloc]

(***************************************************************************)
(* The three mode pages and the handler table, in table order.             *)
(***************************************************************************)
RwRecoveryPage == <<1, 10>> \o Zeros(10)
CachePage(wce) == <<8, 18, IF wce THEN 4 ELSE 0>> \o Zeros(17)
ControlPage    == <<10, 10, 2, 0, 0, 64, 0, 0, 255, 255, 0, 0>>

Handlers == <<[page |-> 1, subpage |-> 0], [page |-> 8, subpage |-> 0],
              [page |-> 10, subpage |-> 0]>>

PageBody(i, d) == CASE i = 1 -> RwRecoveryPage
                    [] i = 2 -> CachePage(d.wce)
                    [] i = 3 -> ControlPage

\* Mutant: a handler chosen by page code alone, the subpage not compared.
MatchHandlerPageOnly(page, subpage) ==
    LET ms == {i \in 1..Len(Handlers) : Handlers[i].page = page}
    IN  IF ms = {} THEN 0 ELSE CHOOSE i \in ms : \A j \in ms : i <= j

\* The first handler of the table that serves (page, subpage), 0 if none.
MatchHandler(page, subpage) ==
    LET ms == {i \in 1..Len(Handlers) : Handlers[i].page = page
                                         /\ Handlers[i].subpage = subpage}
    IN  IF ms = {} THEN 0 ELSE CHOOSE i \in ms : \A j \in ms : i <= j

\* copy_to_response_buf: at most to_len bytes of from, nothing if to_buf is NULL.
CopyToResponseBuf(buf, pos, toLen, from) ==
    IF pos = NULL THEN buf ELSE Put(buf, pos, SubSeq(from, 1, Min2(toLen, Len(from))))

(***************************************************************************)
(* handle_mode_sense: s is the caller's [buf, pos, used] (pos = NULL once  *)
(* the allocation length is used up); err marks the -EINVAL return.        *)
(***************************************************************************)
\* Mutant: used_len advanced only while the buffer still has room.
HandleModeSenseCountWhileRoom(s, i, ten, d) ==
    LET body == PageBody(i, d)
        ret  == Len(body)
        buf1 == CopyToResponseBuf(s.buf, s.pos, s.buf.alloc - s.used, body)
    IN  IF ~ten /\ s.used + ret >= 255
        THEN [s EXCEPT !.buf = buf1, !.err = TRUE]
        ELSE IF s.pos = NULL THEN [s EXCEPT !.buf = buf1]
        ELSE [s EXCEPT !.buf = buf1, !.used = @ + ret,
                       !.pos = IF s.used + ret >= s.buf.alloc THEN NULL ELSE @ + ret]

HandleModeSense(s, i, ten, d) ==
    LET body == PageBody(i, d)
        ret  == Len(body)
        buf1 == CopyToResponseBuf(s.buf, s.pos, s.buf.alloc - s.used, body)
        pos1 == IF s.pos # NULL /\ s.used + ret >= s.buf.alloc THEN NULL ELSE s.pos
    IN  IF ~ten /\ s.used + ret >= 255
        THEN [s EXCEPT !.buf = buf1, !.err = TRUE]
        ELSE [s EXCEPT !.buf = buf1, !.used = @ + ret,
                       !.pos = IF pos1 = NULL THEN NULL ELSE pos1 + ret]

\* The page_code 0x3f loop: every handler in table order, stopping on error.
RECURSIVE AllPages(_, _, _, _)
AllPages(s, i, ten, d) ==
    IF i > Len(Handlers) \/ s.err THEN s
    ELSE AllPages(HandleModeSense(s, i, ten, d), i + 1, ten, d)

(***************************************************************************)
(* The block descriptors.  Both write the BLOCK DESCRIPTOR LENGTH into the *)
(* header, skip the body when header and body do not fit, and return the  *)
(* descriptor length either way.                                           *)
(***************************************************************************)
LongLbaBlockDescriptor(buf, d) ==
    LET b1 == Put(buf, 6, Be16(16)) IN
    IF 8 + 16 > buf.alloc THEN [buf |-> b1, len |-> 16]
    ELSE [buf |-> Put(Put(b1, 8, d.lbas), 8 + 12, Be32(BlockSize)), len |-> 16]

ShortLbaBlockDescriptor(buf, ten, d) ==
    LET hdr == IF ten THEN 8 ELSE 4
        b1  == IF ten THEN Put(buf, 6, Be16(8)) ELSE Put(buf, 3, <<8>>)
    IN  IF hdr + 8 > buf.alloc THEN [buf |-> b1, len |-> 8]
        ELSE [buf |-> Put(Put(b1, hdr, Lba32(d.lbas)), hdr + 6, Be24(BlockSize)),
              len |-> 8]

HeaderLen(ten) == IF ten THEN 8 ELSE 4

(***************************************************************************)
(* tcmu_emulate_mode_sense.  nomem is calloc failing.                      *)
(***************************************************************************)
Outcome(st, buf) == [status |-> st, data |-> buf.b, over |-> buf.over]
Fail(st) == [status |-> st, data |-> <<>>, over |-> FALSE]

EmulateModeSense(r, d, nomem) ==
    LET hdr  == HeaderLen(r.ten)
        buf0 == NewBuf(r.alloc)
        bd   == IF r.dbd THEN [buf |-> buf0, len |-> 0]
                ELSE IF r.ten /\ r.llba THEN LongLbaBlockDescriptor(buf0, d)
                ELSE ShortLbaBlockDescriptor(buf0, r.ten, d)
        used == hdr + bd.len
        s0   == [buf |-> bd.buf, pos |-> IF used < r.alloc THEN used ELSE NULL,
                 used |-> used, err |-> FALSE]
        m    == MatchHandler(r.page, r.subpage)
        s1   == IF r.page = 63 THEN AllPages(s0, 1, r.ten, d)
                ELSE IF m = 0 THEN [s0 EXCEPT !.err = TRUE]
                ELSE HandleModeSense(s0, m, r.ten, d)
        lenf == IF r.ten THEN Be16(s1.used - 2) ELSE <<(s1.used - 1) % 256>>
    IN  CASE r.alloc = 0    -> Outcome("OK", buf0)
          [] hdr > r.alloc  -> Fail("INVALID_CDB")
          [] nomem          -> Fail("NO_RESOURCE")
          [] s1.err         -> Fail("INVALID_CDB")
          [] OTHER          -> Outcome("OK", Put(s1.buf, 0, lenf))
(***************************************************************************)
(* tcmu_emulate_mode_select.  The data-out iovec holds the alloc_len bytes *)
(* of the parameter list r.list; in_buf receives min(512, alloc_len) of    *)
(* them, and the selected page is compared with the current one.           *)
(***************************************************************************)
\* Mutant: no check that some handler served the page (got_sense).
EmulateModeSelectNoSenseCheck(r, d) ==
    LET hdr == HeaderLen(r.ten)
        m   == MatchHandler(r.page, r.subpage)
        ret == IF m = 0 THEN 0 ELSE Len(PageBody(m, d))
        cur == IF m = 0 THEN <<>> ELSE PageBody(m, d)
    IN  CASE r.alloc = 0                         -> "OK"
          [] Min2(InBufSize, r.alloc) >= InBufSize -> "INVALID_PARAM_LIST_LEN"
          [] ~r.pf \/ r.sp                        -> "INVALID_CDB"
          [] ~r.ten /\ hdr + ret >= 255           -> "INVALID_CDB"
          [] r.alloc < hdr + ret                  -> "INVALID_PARAM_LIST_LEN"
          [] SubSeq(r.list, hdr + 1, hdr + ret) # cur -> "INVALID_PARAM_LIST"
          [] OTHER                                -> "OK"

EmulateModeSelect(r, d) ==
    LET hdr == HeaderLen(r.ten)
        m   == MatchHandler(r.page, r.subpage)
        ret == IF m = 0 THEN 0 ELSE Len(PageBody(m, d))
    IN  CASE r.alloc = 0                         -> "OK"
          [] Min2(InBufSize, r.alloc) >= InBufSize -> "INVALID_PARAM_LIST_LEN"
          [] ~r.pf \/ r.sp                        -> "INVALID_CDB"
          [] m = 0                                -> "INVALID_CDB"
          [] ~r.ten /\ hdr + ret >= 255           -> "INVALID_CDB"
          [] r.alloc < hdr + ret                  -> "INVALID_PARAM_LIST_LEN"
          [] SubSeq(r.list, hdr + 1, hdr + ret) # PageBody(m, d) -> "INVALID_PARAM_LIST"
          [] OTHER                                -> "OK"

(***************************************************************************)
(* Requests.  Page codes: the three served pages, 0x3f (all pages) and an  *)
(* unserved one; subpages 0 and 1.  A MODE SELECT parameter list is a      *)
(* header of zeros followed by one of the pages as built for either cache  *)
(* setting, cut to the list length.                                        *)
(***************************************************************************)
PageCodes == {1, 8, 10, 63, 2}
Devices   == [wce : BOOLEAN, lbas : NumLbasChoices]

SenseReqs ==
    [op : {"sense"}, ten : BOOLEAN, dbd : BOOLEAN, llba : BOOLEAN,
     page : PageCodes, subpage : {0, 1}, alloc : 0..MaxAlloc]

ParamList(ten, src, alloc) ==
    SubSeq(Zeros(HeaderLen(ten)) \o PageBody(src.h, [wce |-> src.wce]) \o Zeros(InBufSize),
           1, alloc)

SelectReqs ==
    { [op |-> "select", ten |-> t, pf |-> f.pf, sp |-> f.sp, page |-> p, subpage |-> sp,
       alloc |-> a, src |-> src, list |-> ParamList(t, src, a)] :
        t \in BOOLEAN, f \in {[pf |-> TRUE, sp |-> FALSE], [pf |-> FALSE, sp |-> FALSE],
                              [pf |-> TRUE, sp |-> TRUE]},
        p \in PageCodes, sp \in {0, 1}, a \in SelectAllocs,
        src \in [h : 1..Len(Handlers), wce : BOOLEAN] }

NoResp == [status |-> "none", data |-> <<>>, over |-> FALSE]

Init ==
    /\ dev \in Devices
    /\ req \in SenseReqs \cup SelectReqs
    /\ resp = NoResp

\* tcmu_emulate_mode_sense handling the request; calloc may fail.
ModeSense ==
    /\ req.op = "sense" /\ resp = NoResp
    /\ \E nomem \in BOOLEAN : resp' = EmulateModeSense(req, dev, nomem)
    /\ UNCHANGED <<dev, req>>

\* tcmu_emulate_mode_select handling the request.
ModeSelect ==
    /\ req.op = "select" /\ resp = NoResp
    /\ resp' = [NoResp EXCEPT !.status = EmulateModeSelect(req, dev)]
    /\ UNCHANGED <<dev, req>>

Next == ModeSense \/ ModeSelect

Spec == Init /\ [][Next]_vars

-----------------------------------------------------------------------------
(***************************************************************************)
(* The full MODE SENSE response as the spec and SPC lay it out: header     *)
(* with the untruncated mode data length and the block descriptor length,  *)
(* the block descriptor (long: 8-byte LBA count, 4 reserved, 4-byte block  *)
(* length; short: 4-byte saturated LBA count, 1 reserved, 3-byte block     *)
(* length), then the pages.                                                *)
(***************************************************************************)
ServedPages == {<<1, 0>>, <<8, 0>>, <<10, 0>>}
Known(r) == r.page = 63 \/ <<r.page, r.subpage>> \in ServedPages

PageFor(p, d) == CASE p = 1 -> RwRecoveryPage [] p = 8 -> CachePage(d.wce)
                   [] p = 10 -> ControlPage

FullDescriptor(r, d) ==
    IF r.dbd THEN <<>>
    ELSE IF r.ten /\ r.llba THEN d.lbas \o Zeros(4) \o Be32(BlockSize)
    ELSE Lba32(d.lbas) \o <<0>> \o Be24(BlockSize)

FullPages(r, d) ==
    IF r.page = 63 THEN PageFor(1, d) \o PageFor(8, d) \o PageFor(10, d)
    ELSE PageFor(r.page, d)

FullResponse(r, d) ==
    LET bd == FullDescriptor(r, d)
        total == HeaderLen(r.ten) + Len(bd) + Len(FullPages(r, d))
        hdr == IF r.ten THEN Be16(total - 2) \o Zeros(4) \o Be16(Len(bd))
               ELSE <<total - 1, 0, 0, Len(bd)>>
    IN  hdr \o bd \o FullPages(r, d)

\* Byte i (from 0) of the full response, zero past its end.
Expected(i) ==
    LET f == FullResponse(req, dev) IN IF i < Len(f) THEN f[i + 1] ELSE 0

Answered(op) == req.op = op /\ resp # NoResp

Statuses == {"none", "OK", "INVALID_CDB", "NO_RESOURCE", "INVALID_PARAM_LIST",
             "INVALID_PARAM_LIST_LEN"}

\* Every byte MODE SENSE hands over is a defined byte of the buffer.
TypeOK ==
    /\ dev \in Devices
    /\ resp.status \in Statuses
    /\ resp.over \in BOOLEAN
    /\ Answered("sense") /\ resp.status = "OK" =>
           resp.data \in [0..req.alloc - 1 -> 0..255]

\* MODE SENSE with room for the header answers exactly the served pages
\* (0x3f or a registered page/subpage pair), and the page bytes it hands
\* over, after header and block descriptor, are the first bytes of the
\* pages the spec lists, in table order, truncated by handle_mode_sense's
\* running used_len and NULLed buffer pointer.
SensePagesFollowSpec ==
    Answered("sense") /\ req.alloc >= HeaderLen(req.ten) /\ resp.status # "NO_RESOURCE" =>
        /\ resp.status = "OK" <=> Known(req)
        /\ resp.status = "OK" =>
               \A i \in HeaderLen(req.ten) + Len(FullDescriptor(req, dev))..req.alloc - 1 :
                   resp.data[i] = Expected(i)

\* The MODE DATA LENGTH field reports the untruncated response however
\* short the allocation length (SPC 4.3.5.6): used_len keeps counting after
\* the buffer pointer is NULLed.
LengthFieldUntruncated ==
    Answered("sense") /\ resp.status = "OK" /\ req.alloc >= HeaderLen(req.ten) =>
        \A i \in 0..(IF req.ten THEN 1 ELSE 0) : resp.data[i] = Expected(i)

\* MODE SELECT succeeds only as a confirmation: an empty list, or PF set,
\* SP clear, a served page addressed, and the list carrying that very page
\* with the device's current settings.
SelectOnlyConfirms ==
    Answered("select") /\ resp.status = "OK" =>
        \/ req.alloc = 0
        \/ /\ req.pf /\ ~req.sp
           /\ <<req.page, req.subpage>> \in ServedPages
           /\ Handlers[req.src.h].page = req.page
           /\ req.page = 8 => req.src.wce = dev.wce

\* The allocation-length rule (spec 4.5, SPC 4.3.5.6) for MODE SENSE: a
\* request for served pages that does not run out of memory succeeds, hands
\* over the first alloc_len bytes of the full response, zero padded, however
\* short alloc_len is, and writes nothing outside its calloc(1, alloc_len)
\* buffer.
SenseFollowsAllocationRule ==
    Answered("sense") /\ Known(req) /\ resp.status # "NO_RESOURCE" =>
        /\ resp.status = "OK"
        /\ \A i \in 0..req.alloc - 1 : resp.data[i] = Expected(i)
        /\ ~resp.over
=============================================================================
