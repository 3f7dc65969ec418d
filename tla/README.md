# EDS: TLA+ models, checks and proofs

EDS (Embedded Diagnostics Stack) is a UDS server (ISO 14229-1) in C for small
ECUs: request dispatch, sessions, SecurityAccess, flash download and upload,
deferred answers, DTCs, periodic data, with ISO-TP over CAN and DoIP as
transports and ports to FreeRTOS and Zephyr. This directory models the parts
where state outlives a call and several actors touch it: the tester, the 1 ms
tick, the polling loop, a monitor thread, the bus, power failures, the flash,
and a connection that may drop. Paths below are relative to the repository's
root.

## 1. The system

One diagnostic task (`examples/basic_ecu/src/main.c`) receives a request,
has `uds_server_process` answer it, sends the answer, calls
`uds_server_poll` while a deferred job is pending, and sends periodic
identifiers that are due. A tick calls `uds_server_tick_1ms` every millisecond.
Over DoIP (`transport/doip/doip_server.c`) a second task ticks. Requests, ticks
and polls exclude each other through `s_session_lock`; the sending of a frame
and the cleanup of a lost connection are outside it. Monitors report trouble
codes from threads of their own.

| component | code | state | operations | what is hard | what makes it correct | module |
|---|---|---|---|---|---|---|
| SecurityAccess | `core/uds_security.c`, `uds_security_nvm.c`, `services/service_0x27.c` | level, pending seed, failed attempts, lockout timer; the same attempts and a lockout length in NVM | init/load, request_seed, send_key/save, reset, tick | power fails around the save; saves and loads fail; session changes during a lockout | attempts are bounded across reboots, a lockout is served and ends, a seed is good for one key | `Security` |
| Session | `core/uds_session.c`, `service_0x10.c`, `service_0x3E.c` | active session, S3 timer | transition, refresh, tick | S3 may expire with anything open | nothing outlives its session, S3 measures silence | `DiagServer` |
| Dispatch, access | `core/uds_server.c`, `uds_access_table.c` | pending reset, pending slot | process, tick, poll | order of the checks, busy while pending | a refused request changes nothing | `DiagServer` |
| Communication / DTC control | `core/uds_comm_control.c`, `service_0x28.c`, `service_0x85.c` | mode, setting, and what the callbacks did outside | set, restore | callbacks fail | the default session is clean | `DiagServer` |
| ECUReset | `service_0x11.c` | pending reset type | record, execute | between answer and reset; an answer that cannot be sent | the tester that asked has its answer | `DiagServer`, `DoipServer`, `Dtc` |
| Deferred answers | `core/uds_server.c` | the pending slot, two clocks, the owed frame | defer, poll, frame_sent, abort, tick | slow steps, refused frames, expiry during any of it, a second thread | a frame at least every P2\*, a cap, one final answer, one abort | `Pending` |
| Data transfer | `service_0x34.c`..`service_0x37.c`, `service_0x3D.c`, `core/uds_transfer_ctx.c` | transfer context, write buffer, CRC, readback CRC, erase job | request, block, exit, erase step, abort, write by address | lost answers and repeated blocks, counter wrap, address wrap, flash faults, takeover by an upload | what is accepted is the image; nothing outside the region changes; the policy hears of every byte once and of the end | `Download` |
| Flash ops, image policy | `platform/uds_flash_ops.*`, `uds_image_policy.*`, `uds_mcuboot_image.c`, drivers | the flash, the policy's own state | callbacks | they fail | (external to the services) | `Download` |
| ISO-TP | `transport/isotp.c`, `can_transport.c` | one receiver, one sender, timers, a pointer to the caller's buffer | rx frame, transmit, tick, reset | lost, repeated, late frames; sequence wrap; the buffer is overwritten | a delivered message is one that was sent | `IsoTp` |
| DoIP | `transport/doip/doip_server.c` | the connection, its polls and age, routing activation, reconnect back-off | accept, header, activation, diagnostic message, close | trickling and silent testers, failed sends, cleanup | the slot is given back, the next tester starts from nothing | `DoipServer` |
| Append-only NVM | `platform/zephyr/nvm_store_append.c` | two banks, an index | write, read, delete, erase-all, compaction, scan | power loss at any flash primitive, misreads | a record is the old or the new one | `NvmAppend` |
| DTCs | `config/dtc_database.c`, `dtc_mirror.c`, `service_0x14.c`, `service_0x19.c` | status, first/recent records, a two-record mirror | report, clear, flush, restore | a monitor between any two calls; a crash between the two records | what was cleared stays cleared, a permanent fault stays, a reset keeps what it flushed | `Dtc` |
| Periodic data | `core/uds_periodic.c`, `service_0x2A.c` | slots, counters, due flags | start, stop, tick, pop, requeue | a full table, the first slot always first, a refused frame | no identifier starves, subscriptions end with their session | `Periodic` |
| DIDs, I/O control, routines | `config/*.c`, `service_0x22/2E/2F/31.c` | tables, routine states, controlled outputs | read, write, control, start/stop | a session change in the middle | outputs return, no routine runs twice | - |
| Safety gate, statistics, algorithms, ports, tools | the rest | little | | | | - |

Calls go downwards: transport → server → services → contexts → callbacks of the
platform. Upwards there are only results and, through the deferred job, the
step and abort functions the server calls later. `PROJECT.json` lists every
component with its sources and says what of it is modelled; its `hazards` are
the list of what is hard to test, with the properties that cover each.

## 2. The modules

```
SecurityCtx            operators: the context, its record, every call on them
 ├─ Security           one context, its NVM record, power
 │   └─ MCSecurity
 └─ DiagServer         requests, ticks, resets over the whole server
     └─ MCDiagServer
SecurityProofs         proofs about Security and DiagServer
DeferredAnswer         abstract: what NRC 0x78 promises the tester
 └─ Pending            the pending slot and its loop, implements DeferredAnswer
     └─ MCPending, PendingProofs
Download               0x34 to 0x37 and 0x3D, flash, policy, tester
 └─ MCDownload, DownloadProofs
KvStore                abstract: a dictionary that survives power losses
 └─ NvmAppend          two banks, a log, an index; implements KvStore
     └─ MCNvmAppend, NvmAppendProofs
IsoTp                  two ISO-TP ends and a CAN bus with faults
 └─ MCIsoTp, IsoTpProofs
Dtc                    trouble codes, a monitor, the mirror, 0x14, the flush
 └─ MCDtc, DtcProofs
DoipServer             testers, one TCP connection, what it leaves behind
 └─ MCDoipServer, DoipServerProofs
Periodic               0x2A, the table, the loop and a driver that refuses
 └─ MCPeriodic, PeriodicProofs
```

The modules compose by assumption. `Security` and `Dtc` take one NVM write as
atomic, which `KvStore` promises and `NvmAppend` implements except where the
store reclaims flash: a fault inside a compaction or an erase-all may lose records
that were acknowledged (`Interrupted`, "broken"). What `Security` and `Dtc` show of
their records does not hold then, since neither models a boot that finds a record
it once wrote gone. `DiagServer` runs the very operators of `SecurityCtx` that
`Security` checks over power losses; `Download`'s transfer and `Pending`'s job are
one value each in `DiagServer`; `Pending` takes "the frame is handed over" where
`IsoTp` sends the frames.

`PROJECT.json` ("map") gives the source lines of every definition. Definitions
commented `Mutant` are the same step with a plausible mistake in it. The
specifications never use them; each shows that one property notices that mistake.

### SecurityCtx, Security

`SecurityCtx` has `uds_security_ctx_t` as a record (the code's field names) and
each API call as an operator from a context to a context (`SeedContext`,
`KeyContext`, `ResetContext`, `TickContext`, `InitLoaded`, `InitFault`), to a
status (`SeedStatus`, `KeyStatus`) and to what the call saves (`KeySave`), so
that both machines run the same code. A seed is only "pending or not": a key is
right, wrong or empty for it; the generator gives a seed, gives the all-zero
seed, does not support the level, or fails. The algorithms
(`uds_security_algo.c`, AES-CMAC) are data here.

`Security` splits `uds_security_send_key` where the code does: `SendKey` is the
RAM half, `Save` the call of `nvm_save_cb`, and power may fail before
the call, during it (the record landed or did not), or at any other time. The
answer to the tester comes after the save. History variables: `owed` and
`bootOwed` (lockout still to be served), `wrong` (failed keys since the last
right key or served lockout), `tries` (keys evaluated for the seed), `store`
("lost" once a save failed or a boot opened without its record: from then on
the budget cannot be promised, and the properties that need the store say
`store = "kept"`).

### DiagServer

One action per service that has server state, `OtherService` for the ones that
have none, `Denied` for the access table's refusals, and `Tick` (three cases:
default session, S3 running, S3 expired). `S3Timeout` and a successful
`SessionControl` make all the calls of the code: security reset, transfer abort,
pending abort, restoring communication and DTC setting. The callbacks may fail
and the code does not look at their result when it restores; `bus` and `dtcHw`
are what the platform made of the calls. `uds_comm_control_restore_defaults`
asks only for the type "normal" (0x01), so a network-management type that was
disabled stays so on the bus: `DefaultSessionIsClean` states what the code gives,
the normal type. A transfer and a job are one value each here; `Download` and
`Pending` have their detail. SafetyGate refusals appear as the answer "not ok" a
service may give. Suppressed positive responses and response bytes are left out.

### DeferredAnswer, Pending

`Pending` is the slot of `uds_server.c`: `Defer` (0x78), one `Poll` per round of
the loop (cap reached, keep-alive due, frame owed again, or a job step that is in
progress, over, or returned nonsense), `TransmitOk` / `TransmitBusy`,
`FrameSent`, `Tick`, `S3Timeout`. The step of a job takes real time during which
the tick cannot run (it waits for the lock): `gap` and `waited` measure real
milliseconds, `since` and `total` are the code's clocks, which `Poll` credits with
`step_max_ms`. `threaded` is chosen in `Init`: FALSE is the CAN loop of
`basic_ecu`; TRUE is DoIP, where the abort after S3's expiry (`Expiry`, the tick task) and the
cleanup of a lost connection (`Teardown`), which takes no lock, run between
each other's accesses of the slot: the test of `active`, the read of `owed_is_final`, the call of
`job.abort` and the zeroing are a step each (`AbortUnlocked`). A call that finds the
slot zeroed goes through a null pointer; `AbortOfNothing` takes this as a trap and a restart. The history
variable `loop` tells how the current request has been served: "prompt" while
the loop polled and transmitted once per tick, "late" once a tick came without,
"cut" once the connection was lost. The timing properties are about "prompt" loops,
all the others about every loop. Where a DoIP tick task catches up several
milliseconds, they are just ticks of a late loop. `isotp_transmit` answering OK
counts as sent: its consecutive frames are `IsoTp`'s affair. The deprecated shims
(`uds_server_pending_release`, `uds_service_0x34_pending_tick`) are not modelled.

`DeferredAnswer` is the promise: a deferred request is worked on, then its final
answer is owed, then it is given, or the session ends. `Phase` maps the slot to
it, and `Promised` is its fair specification.

### Download

The transfer context, the erase job, the flash, the image policy and the tester.
The image has byte *i* at offset *i* and a CRC-32 is the sequence of bytes it was
computed over, so that order, gaps and repetitions are visible and no collision
hides a mistake. The memory has the writable region in its middle, with bytes
outside that are `Foreign`; a request may name any address and size, and
`address + size` wraps at `Top` as the code's `uint32_t` does. A driver may fail
with any part of its work done, or write something else silently (`"silent"`);
only erased flash takes a byte. A tester keeps its own offset and counter,
repeats a block whose answer it did not get, and may damage one byte of a payload
(`Noise`); stray blocks and early exits come from elsewhere. 0x3D writes into the
same region while a transfer runs (`patched` notes where), 0x35 takes an active
download over. `verify_cb` is external and compares the CRC it is given, as
`platform/uds_flash_ops.h:118-131` says it must. A policy that requires a parameter
record accepts only an image whose bytes it saw. `config` is the set of registered
callbacks, chosen in `Init`. Left out: the production-build switches and swapping
ops or policy during a transfer.

### KvStore, NvmAppend

`NvmAppend` is the store of `nvm_store_append.c`: a call is the list of flash
steps it still has to do (`todo`: erase a bank, write its header, append a
record, copy the live records one by one, switch), each step is an action, and
power may be lost before, in the middle of, or after each (`Cut` leaves a torn
cell). A flash step may also report an error (`StepFails`), and a boot may misread
a header or a record (`MountMisread`). A record is one cell whatever its length;
a cell that fails its CRC is `Torn`, and the boot scan stops there. `stored` is what a
boot would find in the flash as it is.

`KvStore` is what a caller of `platform/nvm_store.h` may rely on: a write or a delete
takes effect at one instant or not at all; a fault outside of a reclamation takes
nothing away. It has the code's two windows open and says so: while the store
reclaims flash (compaction after the new bank has its header, erase-all) an
interruption may leave anything (`Interrupted`), and a store that went on over a
misread or half-compacted bank is "broken" until its next boot.
`AckedIsDurable` and `BanksOrdered` are about the store itself, `Atomic` is the
refinement.

### IsoTp

Both ends run the same machine: `isotp.c`'s channel with its receive half
(`ReceiveSingle`, `ReceiveFirst`, `ReceiveNext`, `ReceiveLast`, `ReceiveStray`) and its
transmit half (`Transmit`, `ReceiveFlow`, and a `Tick` that expires N_Cr or N_Bs,
counts STmin, or pumps consecutive frames). The frames of a message are counted,
not their bytes; a message longer than `RxBuf` gets an overflow. The receiver may
answer FC(WAIT) and the driver may refuse a frame; the bus may lose or repeat a
frame. Frames wait in a queue until the addressee's loop takes them, at most `Lag`
ticks. As `isotp_transmit` keeps a pointer to the caller's bytes, the sender's
buffer is a variable of its own: `Patient` says whether the application leaves
it alone until the last frame is out.

### Dtc

The table (`status`, `record`, `permanent`) in RAM, the two NVM records, and the
diagnostic task as the list of calls a 0x14 or a flush makes, one database lock at
a time: clear, serialise the entries one by one, write the mirror, serialise the
records, write them. The monitor (`SetStatus`, `SetPermanent`) runs between any two
of them. Each NVM write may fail, power may be lost anywhere, and a boot may fail to
load either record. The history variables note what was asked to be cleared, what
was cleared and not reported since, and whether a report came since a flush began.

### DoipServer

One thread: it accepts a connection, polls it, reads header and payload in
attempts that time out, dispatches routing activation and diagnostic messages,
rounds in the pending loop, and closes. All the code's limits are counted in the
waits that the code counts. A tester connects, sends any of the frames the code
tells apart, trickles, stays silent, or closes, and every send may fail. `uds` is the set
of things that requests leave in the UDS server, `armed` a recorded ECUReset,
`rapid` and `rejects` the reconnect back-off. `PROJECT.json` names the lines of each
step.

### Periodic

The table of slots in its order, one `Tick` per turn of the loop, and then the
due slots one at a time: pop (refused when session or security no longer allow the
identifier), read (may fail), push to the CAN driver, requeue when the driver refuses. 0x2A starts
a list of identifiers all or none, and stops some or all. `calm`, chosen in
`Init`, says that the driver takes a frame every turn and the tester asks for nothing
while a frame is owed; without both the code cannot keep its periods.

## 3. The runs

`tlc -config <cfg> MC<module>.tla`. Every passing run finishes; deadlock is
checked in all of them.

| run | instance | states | shows |
|---|---|---|---|
| `Security` | levels {1,3}, sub-functions 0-5, 3 attempts, lockout 3 ms, `Forever` 5 ms; read and save faults, fail-closed boot | 4,233 | wrong keys stay within the budget over any number of power cycles, a lockout is served in powered time and ends, a fail-closed boot too, a seed is evaluated once |
| `DiagServer` | levels {1,3}, 2 attempts, lockout 2 ms, S3 3 ms, two communication modes, callbacks may fail | 172,376 | nothing given in a session reaches the next, the default session is clean, no request shortens a lockout, a refused request changes nothing, a silent tester loses its session |
| `Pending` | P2\* 6, S3 5, cap 9, clocks saturate at 15, steps of at most 1, 2, 3, 5, (refused) 6 ms; CAN and DoIP loops, prompt, late and cut | 711,502 | no silence above P2\*, no wait above the cap and the running step, S3 never expires under a job of a prompt loop; for every loop one final answer, no orphaned job, and `DeferredAnswer`; one abort unless a connection is lost |
| `Download` | memory of 8 bytes, region of 4, requests of 0 to 4 bytes in, across and around the region, buffer 2, counter 0-2; three sets of callbacks, faults, noise, 0x3D, uploads | 159,179 | what is accepted is the image and the policy saw it, buffer/flash/CRC agree, the tester stays in step, uploads are faithful, nothing outside the region changes, the policy hears of the end |
| `NvmAppend` | three keys, two payloads, banks of four records, generations up to 3, one fault | 790,545 | what was acknowledged is what a boot finds, the bank a boot takes is the newer one, the store is `KvStore` |
| `IsoTp` | messages of 1, 3, 4 and 5 frames both ways at once, receive buffer 4, block size 2, sequence modulo 3, N_Bs 3, N_Cr 4, two faults | 157,592 | what is delivered was sent, whole; no transmission waits for ever, and the next message arrives |
| `Dtc` | two DTCs, one status bit, both records | 473,080 | what was cleared stays cleared, a permanent fault stays, a reset keeps what it flushed |
| `DoipServer` | two testers, backlog 2, bounds 2 < 3 < 5 < 9, two read attempts, threshold 3, two rejects | 187,080 | the next tester starts from nothing, the slot is given back in time, refusals only follow a burst, a waiting tester gets its turn |
| `Periodic` | four identifiers, three slots, intervals 3 and 4, three sessions, one frame per turn | 139,838 | no slot starves, all or none are started, the default session is quiet |
| `Pending_teardown` | as `Pending` | violated | finding 1 |
| `IsoTp_response` | as `IsoTp`, no faults, the buffer reused | violated | finding 2 |
| `DoipServer_reset` | as `DoipServer` | violated | finding 3 |

**Why the bounds are enough.** A lockout of 3 ms can be cut at its first,
middle and last tick. Three attempts leave room for a counter that is neither
empty nor full, and two levels for a key of the wrong one. An S3 of 3 ms in
`DiagServer` lets one request fall between two ticks and the expiry. In
`Pending` the step lengths lie below, at and above the keep-alive interval (2 or
3 ms), the cap of 9 ms is hit by many short steps and in the middle of a long
one, and `ClockMax` is the smallest that `TimesAssumption` allows. In `Download`
blocks of 1 or 2 bytes against a buffer of 2 give partial, exact and straddling
fills, a counter of 3 values wraps for 3 or 4 bytes with a repeat at the wrap, and
the requests begin before, in, and end after the region or wrap around to below
it. In `NvmAppend` a bank of four records is full after three writes on top of
the schema, a generation of 3 means that both banks were reclaimed at least once, and one
fault falls on any primitive of any of these calls; the fault may be
followed by any number of clean calls and boots. In `IsoTp` a message of 4
against a modulus of 3 wraps the sequence number, 5 overflows the buffer of 4,
blocks of 2 need a second flow control, and two faults hit the first frame, flow
control or data of one or of two messages. Two faults are also the limit of what
holds: a repeated frame together with a lost consecutive frame and a lost first
frame of the next message can splice two messages, since ISO-TP numbers
frames and not messages. Losses alone or repetitions alone never do, however many
(proved, section 4). The end that sends two messages sends none longer than the
buffer of its peer: a first frame that is refused with FC(OVFLW) leaves the reassembly
before it open (`transport/isotp.c:361-379`), and then a repeated clear-to-send and
a refused consecutive frame are enough to splice the message before it with the one after.
The timeouts exceed STmin and the lag of the bus, as 1000 ms do.
`Dtc` has no bound but its sets. In `DoipServer` the bounds keep the order of `doip_server.h`
(initial < general < idle ≤ lifetime), so that each ends some connection. In
`Periodic` there are as many slots as milliseconds in the fast interval, which is tighter
than the code's 8 slots and 10 ms. `GapBound`, `WaitBound`, `AgeMax`, `MaxAttempts` (for `wrong`), and `S3Ms`
(for `quiet`, in the default session only) are where histories saturate, always beyond the value a property
looks at. `MaxGen`, `MaxFaults` and `Lag` are the only bounds on behaviour, and
no proof depends on a bound except as a parameter.

**Fairness.** `WF(SecurityTick)` in `Security` and `WF(Tick)` in `DiagServer`: the loop or the timer
calls `uds_server_tick_1ms` every millisecond whatever the tester does
(`examples/basic_ecu/src/main.c`). `WF(Save)`: `nvm_save_cb` returns.
`WF(ResetNow)`: the loop executes a recorded reset after the answer. In `Pending`
`WF(Poll)`, `WF(FrameSent)`: the loop goes round; `WF(Expiry)`, `WF(Teardown)`: a task that has begun a
cleanup completes it; `SF(TransmitOk)`: the transport may refuse a frame any
finite number of times, but poll hands it over again each round and one gets
through. In `IsoTp` `WF(Progress)`: some end takes a received frame or ticks, which is
the loop again; the bus and the applications owe nothing. In `DoipServer`
`WF(Serve)`: the server thread goes on, since every wait it makes has a
timeout. No fairness is assumed of the tester, of power, of a send, or of the flash.
`LockoutExpires` ends at a power loss, because a boot reloads the whole duration.

### Findings

1. `Pending_teardown` / `AbortCalledOnce`: the cleanup of a lost DoIP connection
   (`transport/doip/doip_server.c:1552`) aborts the pending job without the
   session lock. If S3 expires at the same time, job.abort() is called by both;
   `core/uds_server.h:40` and `:434` promise one call. In the same race either of
   the two may call job.abort of a slot the other has just zeroed, a null pointer
   (`core/uds_server.c:474-482`): `AbortOfNothing`, which the run `Pending` reaches.
2. `IsoTp_response` / `DeliveredWhole`: the loop of `basic_ecu`
   (`examples/basic_ecu/src/main.c:126`, `:144`) answers every request from one static
   `s_resp`, and `isotp_transmit` keeps a pointer to it
   (`transport/isotp.c:691`). A request that arrives while consecutive frames
   are still to be sent overwrites it, and the tester assembles the first frame of one
   answer and the rest of another. `transport/isotp.h:462` says "The pointed data
   must remain valid until transmission completes." The other loops have the
   same buffer (`examples/bms_ecu/src/main.c:843`, `examples/ardep_ecu/src/main.c:684`,
   `examples/safeboot_ecu/src/main.c:362`, `platform/freertos/freertos_platform_api.c:562-624`).
3. `DoipServer_reset` / `ResetForItsAsker`: when the answer to an ECUReset
   cannot be sent, the reset is not performed, but stays recorded; the cleanup
   (`transport/doip/doip_server.c:1503-1554`) does not clear it, and the first
   answered request of the next connection resets the ECU. The comment at
   `:505-507` says the reset is not done because the connection is torn down.

Differences between text and code that were met on the way, without a run of
their own:

- `docs/SECURITY_NOTICE.md:221-225` says the failed-attempt counter stays at its
  limit when a lockout expires; the code clears it when it takes the lockout
  (`core/uds_security.c:310`, `:362`). `:228-231` says the residual lockout
  survives a power cycle; the code stores the full duration once, so that a boot
  restores more than what was left (`:312`, `:366`).
- `docs/INTEGRATION_GUIDE.md:45` has the 0x28 state reset on return to the
  default session; the callback is asked for normal messages only
  (`core/uds_comm_control.c:135`). `:53` and `service_0x37.c:57-58` name NRC
  0x31 for an incomplete transfer, the code gives 0x24; `service_0x36.c:75-78`
  names 0x31 where the code gives 0x71.
- `service_0x35.c:205` resets an active download without notify_abort;
  `platform/uds_image_policy.h:228-236` says abort_cb is invoked wherever an
  in-progress download is torn down without a successful exit. This is why
  `PolicyToldWithoutUploads` leaves configurations with `read_cb` out.
- `service_0x37.c:302` gives `verify_cb` the CRC accumulator for an upload, too.
  Nothing feeds it there, so a `verify_cb` that compares refuses every complete
  upload, although `service_0x35.c:36-43` shows a 0x77.
- `service_0x37.c:355` says the written region must read back as received; what
  0x3D writes over a block after that block's readback goes unnoticed. This is why
  `AcceptedIsImage` excepts `patched` bytes.
- `platform/zephyr/nvm_store_append.c:46-49` says every record's CRC-32 is
  checked on read; a read after the boot scan copies the payload unchecked (`:814`).
- `config/dtc_mirror.h:22` says the mirror is saved on any status change; only
  0x14 and the flush before a reset save it. A crash between its two writes
  leaves new statuses next to old records, a boot that could not load and then
  flushes loses the permanent codes of the mirror, and `is_permanent` itself is not persisted.
- `examples/sensor_ecu/src/sensor_monitor.c:188` passes true or false as a status byte, so the
  confirmed bit is lost.
- `transport/doip/doip_server.c:380` overwrites the tester's address on a denied activation
  while routing stays active, against `:378-379`; the back-off counts a connection
  as useful after any frame of a known type (`:1497`), against
  `doip_server.h:366-375`, which says a diagnostic message.
- `core/uds_periodic.c:13-15` says that session and security are not checked
  again when a frame is due; they are (`:234-239`).
- `platform/freertos/freertos_platform_api.c:684-690` drains due identifiers without requeueing a
  refused one; the example in `uds_periodic.h` sends them with
  `isotp_transmit`, which one busy channel refuses.
- `docs/INTEGRATION_GUIDE.md:46` shows a response byte 0x6A before periodic data, the code
  sends the identifier first.
- `sensor_ecu`'s loop (`examples/sensor_ecu/src/main.c:251`) never calls
  `uds_server_poll`; it registers nothing that defers.

## 4. The proofs

All theorems hold for every value of the constants that the `ASSUME`s of the
modules allow: odd seed levels up to 255, 1 to 255 attempts, any lockout not
longer than `Forever`, any S3, P2\* and cap (with a clock that has room for cap
and P2\*), any set of modes, step lengths and sub-functions; any memory, region,
requests, buffer and counter; any table of DTCs; any bounds of the DoIP server; any
number of periodic slots and any intervals; any keys, payloads and banks that hold
more records than there are keys, with any number of flash faults; any two ISO-TP
ends with any messages, buffer, block sizes, timeouts and number of faults.

**SecurityProofs** says first what each operator of `SecurityCtx` does to types,
lockout and seed, for both systems built on it. For `Security` the inductive invariant is `TypeOK`,
`LockoutInv`, `SavingInv`, `StoreInv`, `RamInv`. The properties are about RAM,
the store and the call between the two, and no one of them carries the argument: a power loss
before the write falls back on what the store says (`StoreInv`: it bounds `wrong` and
`owed`), a completed save moves what the call was about to store (`SavingInv`)
into the store and RAM, and a boot moves the store into RAM (`RamInv`). Theorems:
`SecurityTypeCorrect`, `LockoutAlwaysHasTimer`, `AttemptsAreBudgeted`,
`LockoutsAreServed`, `FailClosedIsServed`, and, from `SeedInv` (a pending seed
has not been tried), `SeedsAreSingleUse`. The proofs cover both settings of
`FailClosed` and the faults; the run has them all on.

For `DiagServer`, in the same module, `IInv` is `SecOK` (types, flag and timer agree, and a
lockout in RAM is covered by the stored record, which is why a reset does not
shorten one), `ModesOK`, `ServerOK`, `TimersOK`, and the three session
properties, which are inductive together. Theorems: `TypeCorrect`,
`PrivilegesEndWithTheirSession`, `TransfersEndWithTheirSession`,
`DefaultSessionIsAlwaysClean`, `S3MeasuresSilence`; and the action properties
`LockoutsEndOnlyByTime`, `RefusalsChangeNothing`.

**PendingProofs**. `Safe` (types, a slot about to be zeroed has no running job,
a frame in the loop's hands is the one owed) gives `WorkNeverOrphaned` and
`OneFinalAnswer` under every interleaving. `AbortCount` gives
`AbortedAtMostOnce` as long as the connection was not lost under a second
thread: finding 1 is what happens otherwise. `Clocks` compares the code's clocks with real time
(`GapClock`, `CapClock`, `S3Clock`): a step is credited with at least what it
took, so the code's clocks never run behind. When a step may begin after a poll,
either nothing has been counted since the last frame and the step alone fits
P2\*, or both the count and the step are below the keep-alive interval, which is
at most half of P2\*. It gives `P2StarKept`, `CapKept`,
`SessionKept`, assuming `S3Ms > 1` (with S3 = 1 ms the keep-alive interval is 0
and the session expires first). `PromiseIsKept`: every step of `Pending` is a
step of `DeferredAnswer` or a stutter under `Phase`.

**DownloadProofs**. `IInv` joins `TypeOK`, `OutsideUntouched`, `UploadFaithful` with ten parts:
`Placed` (a transfer is inside the region, `RegionIsWritable` turns that into addresses even where
the request wraps), `Buffered` (address plus buffer equal base plus what was
fed to the CRC, and the buffer is its tail), `Written` (what lies before the address is in the flash, or the
flash may lie and no readback is registered, or 0x3D was there; what lies after
is erased), `Wiping` (a chunked erase has done what its counters say),
`ReadFaithful` (the readback CRC is the CRC of what was received), `Unharmed`,
`InStep` (what the tester has sent and its counter agree with the
server's, or are one answered block behind), `UploadInStep`, `Accepted` and
`ToldOf` (the policy's state and the transfer's). They need each other: a repeated
block is recognised only because the counters agree, a flush is
right only because the buffer is the tail of the CRC. The lemmas are one per step of the
services (begin, block stored, block flushed, exit, abort, 0x3D, erase
step, upload), with one per operator below (`NewTransferOK`,
`ProgrammedInside`, `NextCounter`, `Offset`...). Theorems: `TypeCorrect`, `OutsideStaysUntouched`,
`NothingGetsLost`, `PolicySeesEveryByte`, `TesterStaysInStep`,
`UploadsAreFaithful`, `AcceptedDownloadsAreImages`, `PolicyIsTold`.

**DtcProofs**. `IInv` is `TypeOK`, `ClearInv` (what is in the task's hands
while a clear is saving has nothing that was cleared and not reported since),
`MirrorInv` (the NVM mirror keeps permanent codes) and `QuietInv` (without a
report, what has been serialised is what the table says). Theorems:
`TypeCorrect`, `ClearsAreDurable`, `PermanentFaultsSurvive`, `ResetsKeep`.

**DoipServerProofs**. `IInv` is `TypeOK`, `Clean` (nothing is left without a
connection), `Aged` (age against the waits a started frame still may take: a
frame begins within the lifetime and takes at most `FrameMax`) and `Bursts` (the
reject counter against the rapid count). Theorems: `TypeCorrect`,
`NothingIsInherited`, `SlotAlwaysBounded`, `RefusalsFollowABurst`.

**NvmAppendProofs**. `IInv` joins the types, the generations of the two headers, the
history and `Phase`, which says where in a call the store is: `AtRest`, `Writing` one record,
`MakingRoom` and `Moving` in a compaction, `Wiping`, `Founding` and `Restoring`. In
each phase the steps still to do are known exactly. Outside of a reclamation
`Mirrors` holds: the bank a boot would take is the one RAM is about, its scan finds every whole
record, and a power loss leaves at most one torn cell after the last of them. Inside
of a compaction `Moved` holds: every live record is in the new log or still on the list of what
is to be copied, so that none is missing at the switch. This needs the banks to hold more
records than there are keys (`Cap`); a sector of the code is 128 KB and its live records
"comfortably under 1 KB" (`platform/zephyr/nvm_store_append.c:14,28-30`). Theorems: `InductiveInvariant`,
`TypeCorrect`, `BanksAlwaysOrdered`, `AcknowledgedIsDurable`, and `StoreIsDictionary`: every
step of the store is a step of `KvStore` or a stutter. Generations are naturals, the code's are
`uint32_t`: 2^32 compactions are beyond the wear of the flash.

**IsoTpProofs**. `Linked` is what holds under every fault: a sender reads one
message and is at the cell its counter says, a frame on the bus is what it claims to
be (its number is its cell's, modulo `SnMod`), a reassembly is of a message that was
sent and counts right. It does not say that the cells gathered are the right ones, and
they need not be, as the numbers wrap and do not tell messages apart. Two
different arguments close this, each for one kind of fault:

- `LossesNeverMix`, for a bus that loses frames: `Order` says that cell numbers only
  grow from the reassembly along the queue to the sender, that a first frame is alone on
  the bus, that flow control meets a sender that waits for it, and that what follows a
  gap in a reassembly can never complete it (the cells left are fewer than the
  cells missing). Without a block size, or past a gap, this leans on time: when N_Bs runs out nothing of
  the transmission is under way any more (`Timing` compares the sender's timer with the age of
  frames), which needs `BsTimeout > Lag`. A frame that completes the expected length is then
  the last cell, and the numbers leave no room for a gap.
- `RepeatsNeverMix`, for a bus that repeats frames: `Chain` says that, from
  the reassembly along the queue to the sender, each data frame repeats the one before
  or is the next, whichever message a new first frame begins. A repetition has the number before the one
  expected, so a receiver that takes a frame takes the next cell; this needs
  `SnMod > 1` and messages that fit the receiver (a refused first frame would break the chain).

Both assume that the application leaves its buffer alone (`Patient`; finding 2 is what happens
otherwise), allow refused frames and FC(WAIT) without limit, and say of the bus only what it does
not do: the theorems are about `Spec` and "no step is a `Repeat`" or "no
step is a `Lose`". `TypeCorrect` (with `InBuffer`: a sender never reads beyond its
buffer) needs none of these.

**PeriodicProofs**. `NoPeriodLost` looks like a schedule analysis and is one:
`Busy` says that while slots are due there is a stretch of turns, begun when a
slot came due while none was, in which each turn has served one of
the slots that came due in it (`Stretch`). A slot's counter has been running
no longer than the stretch, and a stretch has at most as many turns as there are slots, so
with intervals not shorter than that no slot comes due twice in it (`NotAgain`). A refused frame
keeps the count because a `calm` driver has taken one before it refuses.
`AllOrNone` is about counting: the positions of a request that have no slot yet are no more than the free
slots (`RoomForAll`), ranks are one to one (`RankOf`) and leave none out (`RankedSo`), so that each
finds a slot of its own (`AllSubscribed`).
Theorems: `TypeCorrect`, `DefaultIsQuiet`, `NoSlotStarves`, `StartIsAllOrNone`.

**Only model-checked**: the liveness properties `LockoutExpires`, `SessionEnds`,
`Recovers`, `WaitingEnds` and the fairness half of `Promised` (liveness and
ENABLED are beyond the prover), `DeliveredWhole` when losses and repetitions
mix (where it holds for two faults and fails for three). What a recursive definition
computes for all inputs could not be proved either (no induction); the modules have
none. Some theorems state what no run needs
to check: the types, `LockoutAlwaysHasTimer`, `S3MeasuresSilence`.

## 5. Not modelled

`PROJECT.json` gives the reason at each component. The cryptography, the code
generator, the statistics and the RTOS ports have no state that others depend
on, or are I/O. The generated DID and safety tables of the examples
(`examples/*/generated`) are data that the access checks take as a parameter, and the
mains of the larger examples repeat the loop of `basic_ecu` around simulated
sensors. Response bytes, message lengths and suppressed answers are left out, and so is
everything that happens with a server that is not initialised. The UDP discovery
of DoIP answers each datagram from constants. The flash drivers are external; one that rounds an
erase to sectors (`platform/freertos/freertos_flash_ops.c:92`) touches more
than it was asked for, which `OutsideUntouched` does not see. CAN FD frames
change only how many bytes a frame holds. I/O control (0x2F), routines (0x31) and
the DID tables (0x22, 0x2E) appear as services with access rights; a
deferring routine appears as a job.

Limits of single models: `Pending` does not know of the transport's consecutive
frames, `NvmAppend` takes all records as equally long, `IsoTp` resets a sender
only on an error (`isotp_reset_tx` in the middle of a transmission followed by a lost first
frame splices messages as above), and FC(WAIT) has no limit of its own in the code, so `Recovers`
bounds the waits by `MaxFaults`.

## 6. Plan

In this order, the most important behaviour first. 1 to 9 are done.

1. `SecurityCtx`, `Security`: SecurityAccess over power cycles, proved.
2. `DiagServer`: sessions and everything they own, proved.
3. `Pending`, `DeferredAnswer`: deferred answers and their refinement, proved.
4. `Download`: transfers, 0x3D and the address range, proved.
5. `IsoTp`: two ISO-TP ends and a faulty bus, proved for losses and for repetitions.
6. `NvmAppend`, `KvStore`: the append-only store and its refinement, proved.
7. `Dtc`: trouble codes and their mirror, proved.
8. `DoipServer`: the TCP connection and its slot, proved.
9. `Periodic`: periodic identifiers, proved.
10. Next: `DeliveredWhole` for one fault of each kind.
11. `Routine` and `IoControl`: what a session end stops, a deferred start.
12. DoIP discovery and several connections, if the server grows them.
