# TLA+ models of tcmu-runner's device recovery and SCSI emulation

This directory holds TLA+ models of the two subsystems in `src/`. They are checked
with TLC:

* `src/tcmur_device.c`: the per-device recovery and lock state machine. It covers
  connection loss, reopen, lock loss, and cancelling recovery and the lock thread
  at device removal.
* `src/api.c`: the SCSI emulation library. It covers CDB decoding, iovec helpers,
  sense data, INQUIRY/EVPD, READ CAPACITY, MODE SENSE/SELECT, START STOP and CDB
  logging.

`PROJECT.json` lists the components, runs, mutants, the source lines each
definition models, findings and hazards. Each run is `tlc -workers 2 -config
<cfg> <MC module>`.

## 1. Inventory

### 1.1 Components, their state and operations

| component | source | state | operations |
|---|---|---|---|
| Recovery / lock state machine | `tcmur_device.c` | `rdev->flags` ⊆ {IN_RECOVERY, SHUTTING_DOWN, IS_OPEN}, `rdev->lock_state` ∈ {UNLOCKED, LOCKING, LOCKED}, pthread handles `recovery_thread` and `lock_thread`, all under `rdev->state_lock` | `tcmu_dev_in_recovery`, `tcmu_reopen_dev` → `__tcmu_reopen_dev`, `tcmu_cancel_recovery`, `dev_recovery_thread_fn`, `tcmu_notify_conn_lost`, `tcmu_notify_lock_lost`, `tcmu_cancel_lock_thread` |
| Callers of the state machine (not in `src/`) | spec §4.7, §5 | outstanding-command queue, lock thread, device removal, backend handler open/close | queue drain, lock acquisition, removal |
| CDB decoder | `api.c` 32-98 | none (pure) | `tcmu_get_cdb_length`, `tcmu_get_lba`, `tcmu_get_xfer_length` |
| IOVec helpers | `api.c` 100-183, 219-292 | the iovec array (base, len per segment) and the command's `iov_cnt`, consumed in place | `tcmu_compare_with_iovec`, `tcmu_seek_in_iovec`, `tcmu_seek_in_cmd_iovec`, `tcmu_iovec_length`, `tcmu_zero_iovec`, `tcmu_memcpy_into_iovec`, `tcmu_memcpy_from_iovec` |
| Sense encoder | `api.c` 185-217 | an 18-byte sense buffer | `__tcmu_set_sense_data`, `tcmu_set_sense_data`, `tcmu_set_sense_key_specific_info`, `tcmu_set_sense_info` |
| INQUIRY / EVPD | `api.c` 294-757 | a local response buffer (36, 16, 512 or 64 bytes) copied to the iovec | `tcmu_emulate_std_inquiry`, `char_to_hex`, `tcmu_emulate_evpd_inquiry` (pages 00, 80, 83, b0, b1, b2), `tcmu_emulate_inquiry` |
| READ CAPACITY, TEST UNIT READY, START STOP | `api.c` 759-841, 1249-1264 | 8- and 32-byte responses | `tcmu_emulate_read_capacity_10/16`, `tcmu_emulate_test_unit_ready`, `tcmu_emulate_start_stop` |
| MODE SENSE / SELECT | `api.c` 843-1247 | a response buffer of the allocation length, a table of three mode-page handlers | `copy_to_response_buf`, `handle_rwrecovery_page`, `handle_cache_page`, `handle_control_page`, `handle_mode_sense`, `handle_long/short_lba_block_descriptor`, `tcmu_emulate_mode_sense`, `tcmu_emulate_mode_select` |
| CDB logging | `api.c` 1266-1307 | a 193-byte stack buffer or a heap buffer | `tcmu_print_cdb_info` |

### 1.2 How the parts interact

* Command-processing threads (outside `src/`) call the emulators one command at a
  time. An emulator decodes the CDB, builds a response in a local buffer and
  copies it into the command's iovec with the truncating
  `tcmu_memcpy_into_iovec`. MODE SELECT reads the parameter list with
  `tcmu_memcpy_from_iovec`. Handlers consume a command's iovec with
  `tcmu_seek_in_cmd_iovec`.
* The recovery state machine is shared state under one mutex. Several threads
  use it:
  * backend I/O completion contexts call `tcmu_notify_conn_lost` and
    `tcmu_notify_lock_lost`;
  * reopen callers (reconfigure, and the lock thread itself) call
    `tcmu_reopen_dev`;
  * a joinable recovery thread, started by `tcmu_notify_conn_lost`, which
    reopens the device (through `tcmu_reset_tpgs`, outside `src/`) and exits;
  * the lock thread (outside `src/`), which owns LOCKING;
  * device removal (outside `src/`), which sets SHUTTING_DOWN and calls
    `tcmu_cancel_recovery` and `tcmu_cancel_lock_thread`.

  The reopen sequence calls out without holding the mutex to
  `aio_wait_for_empty_queue`, `pthread_join`, and the handler's `close` and
  `open`.

### 1.3 What is hard

* **Interleavings and stale reads.** Every call made without the mutex
  (`pthread_join`, handler `close`/`open`, the queue drain, the poll sleep) lets
  other threads change the flags and `lock_state` in between. The code re-checks
  some of them and not others.
* **Thread lifecycle.** `pthread_join` must target a created, not-yet-joined
  thread. The code joins on the strength of a flag (IN_RECOVERY, LOCKING) that
  other paths also set.
* **Retry and liveness.** The open loop retries forever, and removal polls until
  IN_RECOVERY clears. Something must eventually clear it.
* **Byte layout at numeric edges.** SCSI allocation-length truncation, one-byte
  length fields that can overflow (`ptr[3] = len`), the 6-byte MODE SENSE limit
  (`>= 255`), READ CAPACITY with zero or more than 2^32 blocks, and `snprintf`
  return values used as lengths.
* **Consuming an iovec in place.** `tcmu_seek_in_cmd_iovec` changes `iov_cnt`,
  while `tcmu_seek_in_iovec` advances only its local pointer.

### 1.4 What makes each component correct

* Recovery:
  * reopen is single-flight;
  * the backend is closed and reopened only with no command in flight and no
    other lock thread running;
  * LOCKING holds exactly while the lock thread runs;
  * handler close/open calls stay balanced;
  * removal finishes only after reopen and lock activity have stopped;
  * `pthread_join` only targets joinable threads, and no two threads join the
    same lock thread;
  * no LOCKED state survives into the close and reopen of the backend;
  * IN_RECOVERY is set only while a reopen, the recovery thread's included,
    owns it;
  * reopen calls and removal eventually return.
* IOVec:
  * copies move exactly `min(len, remaining)` bytes, in order, into the
    remaining bytes;
  * after any sequence of seeks and copies, the command's (iovec, iov_cnt) still
    describes the unconsumed part of the buffer.
* MODE SENSE:
  * the delivered bytes are the first `alloc_len` bytes of the full response;
  * the length field is the untruncated total;
  * the 6-byte form rejects totals that do not fit.
* MODE SELECT succeeds iff the page is byte-identical to the current page.
* EVPD 0x83: every designator-length byte equals the bytes of its descriptor,
  and the page length equals the bytes sent.
* READ CAPACITY: last LBA = count − 1, saturating in RC10.
* CDB decoder: decode(encode(x)) = x for every supported length.
* Sense encoder: whatever order the helpers run in, the buffer decodes as
  fixed-format sense carrying the fields of the last call; each helper is a
  field-level operation of `SenseAbstract`.

## 2. Plan

Modules, in order of importance:

1. `TcmurDevice` + `MCTcmurDevice` (**done**): the whole of
   `tcmur_device.c`, composed with models of its callers from the spec.
2. `IOVec` + `IOVecBuffer` + `MCIOVec` (**done**): the iovec helpers as RECURSIVE operators that follow
   the C loops, checked against flat reference definitions. Also a command-level
   state machine of seeks and copies on one command's iovec (hazard
   `api.c:169`).
3. `ModeSense` + `MCModeSense` (**done**): MODE SENSE/SELECT byte for byte,
   with the real bytes of the header, block descriptor and pages.
4. `Evpd` + `MCEvpd` (**done**): page 0x83 (and 0x80) layout as lengths. String contents
   are abstracted to their lengths, because only the lengths reach the length
   fields and the `used` offset. Also the NAA hex packing as a RECURSIVE
   operator over small strings.
5. `ScsiCdb` + `MCScsiCdb` (**done**): CDB length and decode against an encoder; READ
   CAPACITY 10/16 with 32/64-bit modular arithmetic; the `tcmu_print_cdb_info`
   buffer sizing; START STOP.
6. `ReopenAbstract` (**done**): what the reopen sequence promises, with
   `TcmurDevice` shown to refine it (`INSTANCE ... WITH` a mapping from pcs
   and handler handles), checked in the `device` run.

7. `Sense` (**done**, second sitting): the four sense helpers as actions on
   one sense buffer, composed into `ScsiCdb` and checked in its run.
8. `SenseAbstract` (**done**, third sitting): the sense helpers as operations
   on fixed-format fields, with `Sense` shown to refine it. Also in the third
   sitting: `RecoveryFlagOwned` for the failed `pthread_create` of
   `tcmu_notify_conn_lost`, and larger device bounds. Fourth sitting:
   `LockDroppedByReopen`. Fifth sitting: the recovery thread runs the reopen
   sequence, and `TeardownCompletes` moves into the `device` run.

TEST UNIT READY only returns a status and is left out.

## 3. Device recovery and lock state machine (`TcmurDevice`, `ReopenAbstract`)

**State.** `flags` and `lock_state` as in the code. `recovery_thread` and
`lock_thread` record what each pthread handle refers to: none, running, exited,
or joined. `pc` is the position of each thread:

* the reopen callers (`Callers`);
* the lock thread `LockThr`, which can itself call `tcmu_reopen_dev`;
* the recovery thread `RecoveryThr`, which runs `__tcmu_reopen_dev` from the
  `drain` step and exits when it returns (`ReturnFrom`);
* the removal thread `Teardown`.

The remaining variables are:

* `outstanding`: commands in the aio queue;
* `handles`: the backend handler's open count, saturated to -1..2;
* `open_fails`: handler `open` failures so far;
* `calls`: reopen calls each caller has made, and, under `RecoveryThr`, the
  recovery threads started so far.

**Steps.** Each critical section of the code is one step, and so is each call
made without the mutex:

* `ReopenDev` (`tcmu_reopen_dev`);
* `ReopenDrain` (the drain and the SHUTTING_DOWN check, lines 52-63);
* `CancelLockCheck` / `JoinLockThread` (`tcmu_cancel_lock_thread`);
* `ReopenForceUnlock` (77-80), `ReopenClose` (83), `ReopenClearOpen` (85-88);
* `ReopenOpen`: one round of the loop, 88-102;
* `NotifyConnLost` (a successful `pthread_create`; a failed one changes
  nothing and is a stuttering step), `RecoveryStep` (the recovery thread's
  reopen), `NotifyLockLost`;
* `CancelRecoveryCheck` / `CancelRecoveryJoin` / `CancelRecoveryPoll`
  (`tcmu_cancel_recovery`).

A poll round that finds IN_RECOVERY set changes nothing, so it is not a step.

**Undefined behaviour.** `pthread_join` on a handle that was never created, or
was already joined, is undefined. It is modelled as a choice between ESRCH and a
fault that ends the daemon (`td_crashed`). Liveness properties exempt the
crashed state.

**Callers, from the spec** (marked `spec_modelled` in the map):

* A command is queued only when `tcmu_dev_in_recovery` is false and the device
  is not being removed. This is the contract stated at lines 175-177.
* The recovery thread (`dev_recovery_thread_fn`) calls `tcmu_reset_tpgs`,
  which is not in `src/`. The comments at lines 43-45, 149-151 and 175-177
  say that connection-loss recovery reopens the device with IN_RECOVERY
  already set, and `tcmu_cancel_recovery` joins the thread before waiting for
  the *other* reopens. So the thread runs the body of `__tcmu_reopen_dev`
  and exits in the step that returns from it.
* A queued command's implicit ALUA transition starts the lock thread from
  UNLOCKED.
* The lock thread either finishes (LOCKED or UNLOCKED) or reopens first. It
  sets its result and exits in one step.
* Removal sets SHUTTING_DOWN, waits for in-flight commands, then calls
  `tcmu_cancel_recovery` and `tcmu_cancel_lock_thread`, and closes the handler
  if IS_OPEN is set.

**Bounds** (`MCTcmurDevice.cfg`):

* three callers with two calls each, and two recovery threads, so two
  callers can be refused with EBUSY while a third reopens, reopens can follow
  one another, and a connection loss can come again after a recovery;
* three outstanding commands, so a drain has to wait while a queued command
  starts the lock thread and others are still in flight;
* two handler `open` failures, so the retry loop turns more than once and
  removal can arrive between two rounds.

About 218,000 distinct states, in under a minute. Three calls and three
open failures (1,017,000 states) give the same results in five minutes.

**Fairness.** Weak fairness on every thread already running: reopen bodies, the
lock thread, the recovery thread's reopen, removal once started, and command completion.
In the code these are ordinary runnable threads with nothing else holding them
back. Calls, notifications, new commands and the start of removal are external
events and get no fairness. Handler `open` fails at most `MaxOpenFails` times,
which is the spec's premise that the backend eventually comes back.

**Runs.**

| run | checks | result |
|---|---|---|
| `device` | ReopenSingleFlight, QuiescentReopen, LockStateTracksLockThread, BackendHandlesBalanced, RemovalQuiesces, LockJoinTargetsLiveThread, RecoveryFlagOwned, LockDroppedByReopen, ReopenReturns, LockThreadFinishes, TeardownCompletes, ReopenRefinesAbstract | pass |
| `device_join_undefined` | JoinsTargetCreatedThreads | violated: removal during a reconfigure/lock reopen joins a recovery thread that was never created (`tcmur_device.c:145`) |

Each passing property has a mutant in `PROJECT.json`. Each mutant is a plausible
slip in the code that TLC then catches:

* the busy check dropped;
* the drain dropped;
* the SHUTTING_DOWN re-check dropped;
* `notify_lock_lost` without its LOCKING guard;
* `cancel_recovery` without its poll;
* an open loop that ignores success;
* a `pthread_join` of the calling thread that blocks instead of returning
  EDEADLK, which hangs the lock thread when it reopens the device
  (`LockThreadFinishes`);
* `tcmu_notify_conn_lost` setting IN_RECOVERY even when `pthread_create`
  fails (`RecoveryFlagOwned`, and `TeardownCompletes`: nothing clears the
  flag and removal polls forever);
* a reopen that skips the forced unlock of lines 77-80
  (`LockDroppedByReopen`).

The `device` run also checks `LockJoinTargetsLiveThread`. Removal and every
reopen call `tcmu_cancel_lock_thread`, which reads LOCKING under the mutex
and joins after dropping it. The property says that at most one thread other
than the lock thread waits in that join, on a lock thread that exists and has
not been joined yet. Dropping the SHUTTING_DOWN re-check (line 59) lets a
reopen join the lock thread while removal is joining it too, and the property
then fails. The recovery-thread join is the separate `JoinsTargetCreatedThreads`,
which `device_join_undefined` shows violated.

`RecoveryFlagOwned` says that IN_RECOVERY always has an owner: a reopener
inside `__tcmu_reopen_dev` (a caller, the lock thread or the recovery thread),
which clears the flag on every way out (the drain error, the shutdown check,
the end of the open loop). When
`pthread_create` fails (line 191), the code only logs, and the device must
stay in the normal state. Were the flag set there anyway, commands would stay
refused, no reopen could clear it, and removal would join a thread that never
existed. The property relates the flag to the pcs of every reopener.

`TeardownCompletes` says that removal, once it calls `tcmu_cancel_recovery`,
gets past the join of the recovery thread and the poll of IN_RECOVERY. Both
wait on reopens that removal does not control; they end because every reopen
leaves its drain and open loop once SHUTTING_DOWN is set (lines 59 and 100).

`LockDroppedByReopen` says that while any reopener closes or reopens the
backend, `lock_state` is not LOCKED. A lock taken on the old connection must
not survive the reopen; the comment at lines 72-75 asks for a reacquisition.
The lock thread may finish LOCKED while a caller's reopen is draining, and a
stale `notify_lock_lost` may race with it. The forced unlock runs after the
drain and the lock-thread join, so it still sees the final state. A reopen
from the lock thread itself keeps LOCKING, which the property allows.

**Refinement (`ReopenAbstract`).** The abstract specification has no
threads, mutexes, drains or lock cancellation. It has three variables:

* `owner`: the reopener inside the sequence, or `{}`;
* `backend`: open or closed;
* `shutting`: SHUTTING_DOWN is set.

Its actions:

* `Begin`: a reopen starts, only with no owner and no shutdown;
* `Close`: the owner closes the backend;
* `Open`: the owner reopens it and gives ownership back;
* `End`: the owner gives ownership back with the backend closed, only on shutdown;
* `Shut`: removal sets SHUTTING_DOWN;
* `RemovalClose`: removal closes the backend, only with no owner.

The mapping from `TcmurDevice` is as follows:

* `owner` is the reopener whose pc is past the drain and shutdown check
  (`ReopenOwner`).
* `backend` is open exactly when one handler handle is open (`BackendView`).
* `shutting` is the SHUTTING_DOWN flag.

Every other step of the detailed model is a stutter: calls that return EBUSY,
the drain itself, the lock-thread cancellation, failed opens, notifications and
commands. The `device` run checks `ReopenRefinesAbstract == Abstract!Spec`.
Dropping the SHUTTING_DOWN re-check of line 59 lets a reopen begin during
removal, and the refinement then fails.

## 4. IOVec helpers (`IOVec`, `IOVecBuffer`)

**State.** `SegLens` gives the lengths of the segments the kernel delivered.
Segment i covers flat positions `Off(i)+1 .. Off(i)+SegLens[i]`.

* `iov[i]` is the segment's current `(iov_base, iov_len)`, with the base as an
  offset into the segment.
* `iov_cnt` is `cmd->iov_cnt`.
* `mem` holds the byte at each flat position. A byte is a *stream tag*: the
  initiator's bytes are 1..Total, and bytes the emulator writes continue the
  count. Reordered, lost or misplaced bytes are therefore visible.
* `got` is what the last `tcmu_memcpy_from_iovec` returned.

**Operators.** Each C loop is a RECURSIVE operator that takes the same steps:

* `CopyLoop`: the loop shared by `memcpy_into` and `memcpy_from`;
* `SeekLoop`: a covered segment gets `iov_len = 0` and its `iov_base` is left
  alone;
* `LengthLoop`;
* `CompareLoop`: a bulk compare per segment, then a byte scan;
* `ZeroedBy`.

**Actions.** One per call on the command:

* `CopyInto`, `CopyFrom`, `Seek` and `Zero`, in `Next`: how the emulators use
  the helpers, where a seek leaves the count alone;
* `SeekCmd` (`tcmu_seek_in_cmd_iovec`), added only in `NextCmd`.

The comments at lines 141 and 164 give callers the precondition that a seek
count is at most the bytes left. The model keeps that precondition as a guard.

**Abstract specification.** `IOVecBuffer` is a cursor over a flat buffer:

* `Consume` moves the cursor;
* `Write` and `Read` move `min(len, remaining)` bytes at the cursor;
* `Clear` zeroes the bytes left.

`IOVec` maps its state onto it with `cursor <- Total - IovecLength(iov,
iov_cnt)`, i.e. the cursor is what the command's view says is left.

**Bounds** (`MCIOVec.cfg`):

* segments of 2, 1 and 2 bytes, so copies and seeks end inside a segment, on a
  boundary, and across two boundaries;
* lengths 0..6, one more than the 5 bytes, so copies truncate;
* four calls per command;
* compare probes of bytes {0, 1, 2}, which both match and differ from the
  buffer.

1,636 states.

| run | checks | result |
|---|---|---|
| `iovec` | TypeOK; CompareMatchesReference (compare's `mem_off` bookkeeping against a flat first-mismatch search, at every reachable consumption state and every probe); BufferRefinement (`IOVecBuffer!ASpec` under the mapping) | pass |
| `iovec_cmd_seek` | CmdViewCoversRemaining under `SpecCmd` | violated: `tcmu_seek_in_cmd_iovec` lowers `iov_cnt` by the segments emptied but never advances `cmd->iovec`, so a 2-byte seek over segments 2,1,2 leaves 2 live bytes outside the view (`api.c:169`) |

## 5. MODE SENSE / MODE SELECT (`ModeSense`)

**Shape.** Each behaviour is one command:

* `Init` ranges over every request within the bounds, on every device
  configuration (write cache on or off; 2^20 or 2^32 LBAs, the latter being the
  first count that does not fit 32 bits);
* one step handles the request.

This is how the emulator runs. The calls are synchronous, and nothing carries
over between commands except the device settings.

**Response buffer.** It is modelled byte for byte, as a function over offsets
`0..alloc_len-1`. Every `put_unaligned_*` and `memcpy` is a `Put`, and a write
that reaches past `alloc_len` sets `over`.

**Operators.** The code's structure is kept:

* `HandleModeSense` carries the caller's `buf` / `used_len` pair, with NULL once
  the allocation length is used up;
* `AllPages` is the 0x3f loop;
* `LongLbaBlockDescriptor`, `ShortLbaBlockDescriptor` and `EmulateModeSense`;
* `EmulateModeSelect`, where the parameter list is built from one of the pages
  and cut to the list length.

**Reference.** `FullResponse` is the response the spec (§4.5) and SPC lay out:

* the untruncated mode data length;
* the descriptor layout: long is 8+4+4 bytes, short is 4 + 1 reserved + 3;
* the pages, in table order.

**Bounds** (`MCModeSense.cfg`):

* MODE SENSE:
  * both CDB sizes, DBD and LLBA;
  * page codes 1, 8, 10, 0x3f and an unserved one, with subpages 0 and 1;
  * allocation lengths 0..60, past the largest full response of 56 bytes.
* MODE SELECT:
  * list lengths 0..30 (one past 8 + 20) and 511/512 around `in_buf`;
  * three PF/SP combinations;
  * lists carrying each page as built for either cache setting.

151,680 states, in 5 s.

| run | checks | result |
|---|---|---|
| `mode_sense` | TypeOK (every delivered byte is defined); SensePagesFollowSpec; LengthFieldUntruncated; SelectOnlyConfirms | pass |
| `mode_sense_alloc_rule` | SenseFollowsAllocationRule (SPC's allocation-length rule) | violated, see below |

`mode_sense_alloc_rule` is violated three ways:

* TLC's trace: an allocation length of 1 is refused with INVALID CDB
  (`api.c:1101`). SPC instead truncates the header.
* Restricted to allocations of at least the header, the property fails at
  MODE SENSE(6) alloc 6. The short block descriptor is dropped whole when it
  does not fit.
* At alloc 12 (header + 8), the block length is written one byte late
  (`api.c:1070`: `&buf[6]`), so 512 reads back as 2. That write's third byte
  lands one past the calloc'd buffer.

**Composition.** The emulators finish with `tcmu_memcpy_into_iovec(iovec,
iov_cnt, buf, alloc_len)`. The `iovec` run shows this delivers the buffer's
first min(alloc_len, iovec length) bytes in order. `ModeSense` therefore takes
the delivered data to be the buffer.

## 6. INQUIRY and the VPD pages (`Evpd`)

**Shape.** `Evpd` follows `ModeSense`: a behaviour is one INQUIRY command
(`req`) and the step `Respond` that answers it with `Inquiry(req)`, the model
of `tcmu_emulate_inquiry`. `req` holds:

* the EVPD bit and the page code;
* whether `tcmu_get_wwn` returns a string, and which one;
* the length of `dev->cfgstring`;
* no port, or the length of `port->wwn`.

**What is kept.** The constant pages are kept to what the properties tell
apart: the bytes copied out and the length field (`StdInquiry`,
`ConstantPage`), plus the page list for page 0x00 (`SupportedPages`).

Page 0x83 is where the code goes wrong, so it is kept as the code's
arithmetic. `Page83Layout` threads a record `[ptr, used, descs]` through one
operator per descriptor, in code order:

* `VendorIdDesc`;
* `NaaDesc`;
* `VendorSpecificDesc`;
* `PortIdDesc` twice;
* `NameDesc` for the SCSI name string, then for the target device.

Each operator advances `ptr` and `used` by the code's own expressions. For
example, `ptr += used` after the first descriptor, and
`(uint8_t)ptr[3] + 4` after the third. Each descriptor records:

* its offset;
* the DESIGNATOR LENGTH byte the code stores (`Byte`, mod 256);
* how far the code advanced past it;
* the byte ranges it writes.

`Written` gives the bytes `snprintf` stores for a size and a string length.
The return value is the full length, whatever was stored. `SizeArg` models
`sizeof(data) - used - 4` wrapping as a `size_t`. Strings enter the layout
only through their lengths. The WWN is a sequence of character codes, because
`NaaLoop` (the `for` loop over `char_to_hex`) packs its hex digits.

**Reference.** `NaaReference` packs the hex digits the way SPC and the kernel
describe it: the digits taken in order, one nibble each. `SpanBefore` is the
offset each descriptor must start at, given the ones before it.

**Bounds** (`MCEvpd.cfg`):

* WWNs:
  * every string of up to three of the 12 characters on each side of a
    `char_to_hex` range;
  * the spec's `"naa.5000"`;
  * 36, 246, 247 and 254 bytes of a repeated `"naa.6001405f-"`. 246 and 247
    straddle the wrap of `8 + len + 1`, and 254 is the kernel's limit.
* cfgstring lengths 0, 100, 254 and 255. 255 is the longest of the kernel's
  256-byte config, and wraps `len + 1`.
* Port WWN lengths 20 (an FC or loopback WWN) and 223 (the longest iSCSI name,
  RFC 3720).
* The page codes page 0x00 lists, and their neighbours.

15,368 states, in 2 s.

| run | checks | result |
|---|---|---|
| `evpd` | SupportedPagesServed (the dispatcher serves exactly the pages page 0x00 lists); Page80SerialWhole; NaaMatchesReference; PtrTracksUsed (`ptr` and `used` stay in step, and the page length and copy count cover exactly the descriptors); DesignatorsPadded | pass |
| `evpd_stack_buffer` | Page83StaysInBuffer | violated, see below |
| `evpd_length_bytes` | DescriptorsHoldTheirBytes | violated: a 255-byte cfgstring stores DESIGNATOR LENGTH 0 over 256 bytes. WWNs of 247 bytes or more, and names capped at 256, do the same |

Why `evpd_stack_buffer` is violated. The trace is a 223-byte iSCSI name with
a short WWN and no cfgstring (`MCEvpd_Page83StaysInBuffer.cfg` drops the
longer strings):

* Every `snprintf(&ptr[4], sizeof(data) - used - 4, ...)` starts at
  `data[used + 8]`, so its room is 4 bytes too large. A truncated string
  writes up to 4 bytes past the stack buffer (`api.c:482`, 523, 548).
* Once `used` passes 508, the room wraps and is unbounded.
* `used` counts the lengths `snprintf` reports, not what it stored. It reaches
  558, and `used + 4` bytes are copied out of `data[512]`, handing 50 bytes of
  stack to the initiator (`api.c:571`).

## 7. CDB decoding, READ CAPACITY, START STOP and CDB logging (`ScsiCdb`)

**Shape.** One request per behaviour, as in `Evpd`. There is one action per
entry point:

* `Decode`: `tcmu_get_lba` and `tcmu_get_xfer_length`;
* `ReadCap10` and `ReadCap16`;
* `StartStopUnit`;
* `PrintInfo`: `tcmu_print_cdb_info`, where `malloc` may fail.

A CDB is a function from offsets to bytes. `CdbLength` is
`tcmu_get_cdb_length`. When the decoders reach `assert_perror(EINVAL)`, the
outcome is `Aborted`.

**Wide values.** A 64-bit LBA and the `uint64_t` block count are sequences of
8 bytes. `Dec` is `num_lbas - 1`, done with the borrow, so the wrap at 0 is
the code's. The reference `Inc` is the carry-propagating increment.

**Logging.** `tcmu_print_cdb_info` is kept to two numbers:

* the size of the buffer it formats into: `fix[193]`, or `3 * bytes + 1`
  from the heap when `bytes > 193`;
* the extent its `sprintf` calls write. Each byte is one or two hex digits
  and a space, then the info string, then `"\n"` and its NUL.

**Reference.** `Encode` builds CDBs from the field layouts of the spec and
SBC. The top three bits of READ(6)'s byte 1 and every byte outside the fields
hold a fill value, 0 or 0xff.

**Bounds** (`MCScsiCdb.cfg`):

* LBAs at each field width's edge (2^21 - 1, 2^32 - 1, 2^64 - 1), and values
  with a different byte in each position.
* Transfer lengths 0, 255, 2^16 - 1, 2^32 - 1 and mixed values.
* Block counts:
  * 0;
  * 1;
  * 5, the spec's scenario;
  * 256, which borrows across a byte;
  * 2^32 - 1, 2^32 and 2^32 + 5, around the READ CAPACITY (10) limit;
  * 2^64 - 1.
* Every value of cdb[4] for START STOP.
* For `tcmu_print_cdb_info`:
  * every CDB group;
  * 0x7f CDBs of 8, 63, 64, 193, 194 and 263 bytes;
  * bytes all below or all at least 0x10;
  * no info string, or one of 16 characters.

1,380 states, in 1 s.

| run | checks | result |
|---|---|---|
| `scsi_cdb` | FixedCdbRoundTrip (decode inverts the encoder for 6/10/12/16-byte CDBs); ReadCapacityReportsLastLba (RC16 is count - 1, and RC10 agrees with it or saturates exactly when count >= 2^32) | pass |
| `scsi_cdb` (sense) | SenseDataWellFormed; SenseRefinesAbstract (§7.1) | pass |
| `print_cdb_overflow` | PrintStaysInBuffer | violated, see below |

Why `print_cdb_overflow` is violated:

* TLC's trace is a 64-byte 0x7f CDB whose bytes are all 0x10 or more. It
  writes 194 bytes into `fix[193]`.
* `bytes > CDB_FIX_SIZE` compares a CDB length with a character count. CDBs
  of 64 to 193 bytes stay on the 193-byte stack buffer, and a 193-byte one
  writes 581 bytes (`api.c:1282`).
* The heap buffer is one byte short of the final NUL, and has no room for
  the info string.

**Not stated as properties.** Two behaviours are computed but no property
states an expected answer for them:

* A device with 0 blocks. `Dec` wraps, so RC16 reports 2^64 - 1, and the spec
  gives no answer.
* Variable-length CDBs. `tcmu_get_cdb_length` accepts them, yet the decoders
  abort on them, or decode them with a fixed layout when 8 + cdb[7] is 10, 12
  or 16. Their callers are outside `src/`.

### 7.1 The sense encoder (`Sense`, `SenseAbstract`)

**Shape.** `Sense` is a component of its own. It has three variables:

* `sense`: the 18 bytes of the sense buffer;
* `senseLast`: the last helper called and its arguments (a history variable);
* `senseCalls`: a count of the calls.

There is one action per helper, with its arguments drawn from small sets:

* `__tcmu_set_sense_data`: writes the fixed fields, without clearing the buffer;
* `tcmu_set_sense_data`: clears 18 bytes, then does the same;
* `tcmu_set_sense_key_specific_info`: clears, writes bytes 16-17 and sets SKSV;
* `tcmu_set_sense_info`: clears, writes bytes 3-6 and sets VALID.

`ScsiCdb` extends `Sense`. A request of kind `sense` is a failed command. Its
buffer starts zeroed, and up to `MaxSenseCalls` helper calls then run on it in
any order (`BuildSense`). The other request kinds leave the buffer alone. The
callers of the helpers are outside `src/`. This is why the composition, not
the helpers, is marked `spec_modelled`.

**Reference.** `DecodeSense` reads the fixed format as SPC defines it:

* byte 0: VALID and the response code;
* byte 2: the FILEMARK/EOM/ILI bits and the sense key;
* bytes 3-6: INFORMATION;
* byte 7: the additional length;
* bytes 12-13: ASC and ASCQ;
* bytes 15-17: SKSV and the key-specific field.

**Bounds.**

* Sense keys ILLEGAL REQUEST and MISCOMPARE.
* ASC/ASCQ 0x2400, 0x1d00 and 0x0401. The last has both bytes nonzero, so a
  byte swap shows.
* Key-specific values 2 and 515.
* INFORMATION 0, 42 and 2^31 - 1, TLC's largest integer.
* Up to three calls, so every ordered pair of helpers, and a helper between
  two others, is tried.

**Properties.**

* `SenseDataWellFormed`: after either set-sense-data helper, whatever ran
  before, the decoder reads current fixed-format sense with the key and
  ASC/ASCQ asked for, additional length 10 and no VALID bit. After
  `tcmu_set_sense_data`, nothing from an earlier call survives. This is the
  "last writer wins" of spec §4.3.
* `SenseRefinesAbstract`: the helpers, read through `DecodeSense`, implement
  `SenseAbstract`. That module states the helpers as operations on the fields
  of fixed-format sense, from spec §3 and §4.3, with no bytes:
  * set the header, keeping INFORMATION and the key-specific field;
  * set sense from a cleared buffer;
  * set INFORMATION with VALID from a cleared buffer;
  * set the key-specific field with SKSV from a cleared buffer.

  The mapping is `fields <- DecodeSense(sense)`. Every helper call must then
  be one of these field operations, and every other step must leave the
  decoded fields alone. So each helper must write its value at the right
  offsets, in big-endian order, without spilling into a neighbouring field,
  and must clear or keep the others as its memset says. The refinement cannot
  tell `tcmu_set_sense_data` from `__tcmu_set_sense_data` on a buffer that
  happens to be clear. `SenseDataWellFormed`, which knows the last helper
  called, covers that case.

Mutants:

* `tcmu_set_sense_data` without its memset;
* `put_unaligned_be32(info, &sense_buf[4])`, one byte late, which overwrites
  the additional length (`SenseRefinesAbstract`).

## 8. Not modelled

* Backend I/O itself, the kernel ring, ALUA group state, and logging text.
  Of `tcmu_reset_tpgs`, called by the recovery thread and not in `src/`, only
  the device reopen that the comments of `tcmur_device.c` attribute to it is
  modelled.
* TEST UNIT READY only returns a status. It has no branch worth a model.
* The callers of the recovery state machine (the lock-acquisition thread,
  the command queue and device removal) are not in `src/`. They are modelled
  only at the interface the recovery code sees, so that component stays
  `partly`. CDB logging stays `partly` because its log calls are I/O; the
  buffer choice and the extent of its writes are modelled.
* Every code line of `src/` outside the modules above is mapped, except
  unreachable `break`s after `return` in `tcmu_emulate_evpd_inquiry` and
  TEST UNIT READY.
* Five hazards have no property. A property about each would either restate
  a guard or contradict what the code does. The run cap leaves no room for a
  further violation run:
  * a seek past the end (`api.c:148`) is a caller precondition;
  * the refused 512-byte parameter list (`api.c:1211`) is the safe reading of
    a truncating copy;
  * the short data-out iovec of MODE SELECT (`api.c:1243`) depends on what the
    target core delivers;
  * `num_lbas = 0` (`api.c:809`) has no answer in the spec;
  * whether a 0x7f CDB reaches the decoders (`api.c:46`) is decided by callers
    outside `src/`.
