------------------------------- MODULE Download -------------------------------
(***************************************************************************)
(* A data transfer with RequestDownload / RequestUpload (0x34, 0x35),      *)
(* TransferData (0x36) and RequestTransferExit (0x37): the transfer        *)
(* context of core/uds_transfer_ctx.h, the chunked erase, the flash behind *)
(* uds_flash_ops_t, the image policy of platform/uds_image_policy.h, and a *)
(* tester that sends a block again when the answer to it was lost.         *)
(*                                                                         *)
(* WriteMemoryByAddress (0x3D) writes the same flash next to the transfer. *)
(*                                                                         *)
(* Bytes: the tester's image has byte i at offset i, so that order, holes  *)
(* and repetitions show.  A CRC-32 is abstracted to the sequence of bytes  *)
(* it was computed over.                                                   *)
(***************************************************************************)
EXTENDS Integers, Sequences

CONSTANTS
    Top,            \* UINT32_MAX
    Base, Extent,   \* base_address and size_bytes of the writable region
    Asked,          \* [address, size] of the requests
    Capacity,       \* write_buf_capacity
    MaxSeq,         \* SVC_0x36_MAX_BLOCK_SEQ: the counter wraps to 0 after it
    Configs,        \* what the application may have registered: see Config
    Records,        \* what 0x37 may carry: subset of {"none", "crc", "bad crc", "record"}
    FlashFaults,    \* flash callbacks may fail, a write may store something else
    Noise           \* a payload may arrive damaged

ASSUME MemoryAssumption ==
    /\ Top \in Nat /\ Base \in 0..Top /\ Extent \in 1..Top
    /\ Asked \subseteq [address : 0..Top, size : 0..Top]
ASSUME CapacityAssumption == Capacity \in Nat \ {0}
ASSUME MaxSeqAssumption == MaxSeq \in Nat \ {0}
ASSUME SwitchesAssumption ==
    /\ Records \subseteq {"none", "crc", "bad crc", "record"}
    /\ {FlashFaults, Noise} \subseteq BOOLEAN

\* The image policy, "record" when it has the flag
\* UDS_IMAGE_POLICY_REQUIRE_PARAM_RECORD; and which of erase_step_cb,
\* verify_step_cb and read_cb are registered.
Config == [policy : {"none", "crc", "record"},
           chunked : BOOLEAN, readback : BOOLEAN, reads : BOOLEAN]

ASSUME ConfigsAssumption == Configs \subseteq Config

VARIABLES
    config,         \* the registered callbacks, set once before the first request
    t,              \* uds_transfer_ctx_t
    erase,          \* s_erase_pending
    flash,          \* the memory's bytes
    policy,         \* image policy: "idle", or "begun" since begin_cb
    seen,           \* the bytes update_cb got since begin_cb
    answer,         \* to the last request: "positive", "negative", "none"
    tester,         \* the tester's own view of its transfer
    accepted,       \* history: the download last answered 0x77, size 0 once the
                    \* region is written again; checked = against a CRC or a policy;
                    \* patched = what 0x3D wrote of it before
    patched         \* history: the addresses 0x3D wrote since the transfer began

vars == <<config, t, erase, flash, policy, seen, answer, tester, accepted, patched>>

Erased == -1
Bad    == -2        \* neither erased nor what anybody wrote
Foreign == -3       \* outside of the writable region, as it always was
Addresses == 0..Top

Writable == Base..(Base + Extent - 1)

Lesser(a, b) == IF a < b THEN a ELSE b

Image(from, len) == [i \in 1..len |-> from + i - 1]
Region(from, len) == [i \in 1..len |-> flash[from + i - 1]]
Span(at, len) == at..(at + len - 1)

\* Mutant of InRange: the sum wraps around.
InRangeWrapped(ask) ==
    /\ ask.size # 0
    /\ Base <= Top - Extent
    /\ ask.address >= Base
    /\ (ask.address + ask.size) % (Top + 1) <= Base + Extent

\* uds_transfer_validate_memory_range
InRange(ask) ==
    /\ ask.size # 0
    /\ ask.address <= Top - ask.size
    /\ Base <= Top - Extent
    /\ ask.address >= Base
    /\ ask.address + ask.size <= Base + Extent

\* Mutant of NextSeq: 0 is skipped.
NextSeqFrom1(seq) == IF seq = MaxSeq THEN 1 ELSE seq + 1

NextSeq(seq) == IF seq = MaxSeq THEN 0 ELSE seq + 1

TesterNext(seq) == (seq + 1) % (MaxSeq + 1)

NoBlock == [seq |-> -1, data |-> <<>>]

\* uds_transfer_ctx_reset
NoTransfer == [state |-> "IDLE", base |-> 0, total |-> 0, remaining |-> 0,
               addr |-> 0, seq |-> 0, last |-> NoBlock, buf |-> <<>>, crc |-> <<>>, readback |-> <<>>]

NewTransfer(state, address, size) ==
    [NoTransfer EXCEPT !.state = state, !.base = address, !.addr = address,
                       !.total = size, !.remaining = size, !.seq = 1]

NoErase == [active |-> FALSE, base |-> 0, addr |-> 0, remaining |-> 0, total |-> 0]

NoTester == [doing |-> "nothing", base |-> 0, size |-> 0, sent |-> 0, seq |-> 1, out |-> 0, got |-> <<>>]

NewTester(doing, address, size) ==
    [NoTester EXCEPT !.doing = doing, !.base = address, !.size = size]

NoneAccepted == [base |-> 0, size |-> 0, checked |-> FALSE, patched |-> {}]

Policy == config.policy
Chunked == config.chunked
Readback == config.readback
ReadCb == config.reads

Init ==
    /\ config \in Configs
    /\ t = NoTransfer /\ erase = NoErase
    /\ flash = [i \in Addresses |-> IF i \in Writable THEN Bad ELSE Foreign]
    /\ policy = "idle" /\ seen = <<>>
    /\ answer = "none" /\ tester = NoTester
    /\ accepted = NoneAccepted /\ patched = {}

-----------------------------------------------------------------------------
(* External: the flash driver and the image policy, as the services use    *)
(* them.                                                                   *)

WriteOutcomes == IF FlashFaults THEN {"good", "silent", "failed"} ELSE {"good"}

\* write_cb: only erased flash takes a byte.
Programmed(at, data, outcome) ==
    [i \in Addresses |->
        IF i \notin Span(at, Len(data)) THEN flash[i]
        ELSE IF outcome = "good" /\ flash[i] = Erased THEN data[i - at + 1] ELSE Bad]

Wiped(at, len, content) ==
    [i \in Addresses |-> IF i \in Span(at, len) THEN content ELSE flash[i]]

Begin == policy' = IF Policy = "none" THEN "idle" ELSE "begun"
NotifyAbort == policy' = "idle" /\ UNCHANGED seen

-----------------------------------------------------------------------------
(* 0x34 and 0x35. *)

\* The server is busy while an erase is pending.
Requests == ~erase.active

RefuseRequest ==
    /\ answer' = "negative"
    /\ UNCHANGED <<config, t, erase, flash, policy, seen, tester, accepted, patched>>

\* No such region, an active download, or the policy refuses: nothing has
\* happened yet.
DownloadRefused(ask) ==
    /\ Requests
    /\ ~InRange(ask) \/ t.state = "DOWNLOAD" \/ Policy # "none"
    /\ RefuseRequest

\* The server does not take the deferral after the policy has begun.
DownloadNotDeferred(ask) ==
    /\ Requests /\ InRange(ask) /\ t.state # "DOWNLOAD" /\ Chunked
    /\ answer' = "negative"
    /\ NotifyAbort
    /\ UNCHANGED <<config, t, erase, flash, tester, accepted, patched>>

\* erase_cb wipes the region in one call.  The 0x74 may be lost.
DownloadErased(ask, lost) ==
    /\ Requests /\ InRange(ask) /\ t.state # "DOWNLOAD" /\ ~Chunked
    /\ Begin /\ seen' = <<>>
    /\ flash' = Wiped(ask.address, ask.size, Erased)
    /\ t' = NewTransfer("DOWNLOAD", ask.address, ask.size)
    /\ answer' = "positive"
    /\ tester' = IF lost THEN NoTester ELSE NewTester("download", ask.address, ask.size)
    /\ accepted' = NoneAccepted
    /\ patched' = {}
    /\ UNCHANGED <<config, erase>>

DownloadEraseFails(ask) ==
    /\ Requests /\ InRange(ask) /\ t.state # "DOWNLOAD" /\ ~Chunked /\ FlashFaults
    /\ flash' = Wiped(ask.address, ask.size, Bad)
    /\ NotifyAbort
    /\ answer' = "negative"
    /\ tester' = NoTester
    /\ accepted' = NoneAccepted
    /\ patched' = {}
    /\ UNCHANGED <<config, t, erase>>

DownloadDeferred(ask) ==
    /\ Requests /\ InRange(ask) /\ t.state # "DOWNLOAD" /\ Chunked
    /\ Begin /\ seen' = <<>>
    /\ erase' = [active |-> TRUE, base |-> ask.address, addr |-> ask.address,
                remaining |-> ask.size, total |-> ask.size]
    /\ answer' = "none"                         \* 0x78
    /\ tester' = NoTester
    /\ accepted' = NoneAccepted
    /\ patched' = {}
    /\ UNCHANGED <<config, t, flash>>

\* s_erase_step: erase_step_cb reports n bytes.
EraseOutOfSpan(n) == n = 0 \/ n > erase.remaining

\* Mutant of EraseStepFails: the policy is not told.
EraseStepUntold(n) ==
    /\ erase.active /\ FlashFaults
    /\ EraseOutOfSpan(n)
    /\ flash' = Wiped(erase.addr, erase.remaining, Bad)
    /\ erase' = NoErase
    /\ answer' = "negative"
    /\ UNCHANGED <<config, t, policy, seen, tester, accepted, patched>>

EraseStepFails(n) ==
    /\ erase.active /\ FlashFaults
    /\ EraseOutOfSpan(n)
    /\ flash' = Wiped(erase.addr, erase.remaining, Bad)
    /\ NotifyAbort
    /\ erase' = NoErase
    /\ answer' = "negative"
    /\ UNCHANGED <<config, t, tester, accepted, patched>>

EraseStep(n) ==
    /\ erase.active /\ ~EraseOutOfSpan(n) /\ n < erase.remaining
    /\ flash' = Wiped(erase.addr, n, Erased)
    /\ erase' = [erase EXCEPT !.addr = @ + n, !.remaining = @ - n]
    /\ UNCHANGED <<config, t, policy, seen, answer, tester, accepted, patched>>

EraseDone(lost) ==
    /\ erase.active
    /\ flash' = Wiped(erase.addr, erase.remaining, Erased)
    /\ t' = NewTransfer("DOWNLOAD", erase.base, erase.total)
    /\ erase' = NoErase
    /\ answer' = "positive"
    /\ tester' = IF lost THEN NoTester ELSE NewTester("download", erase.base, erase.total)
    /\ UNCHANGED <<config, policy, seen, accepted, patched>>

\* 0x35 takes the context over, whatever it was used for.
RequestUpload(ask, lost) ==
    /\ Requests /\ ReadCb /\ InRange(ask)
    /\ t' = NewTransfer("UPLOAD", ask.address, ask.size)
    /\ answer' = "positive"
    /\ tester' = IF lost THEN NoTester ELSE NewTester("upload", ask.address, ask.size)
    /\ patched' = {}
    /\ UNCHANGED <<config, erase, flash, policy, seen, accepted>>

-----------------------------------------------------------------------------
(* 0x36, download: the checks in their order. *)

Downloading == Requests /\ t.state = "DOWNLOAD"

Repeated(seq, data) == Len(data) <= Capacity /\ seq = t.last.seq

InTurn(seq, data) ==
    /\ Len(data) <= Capacity /\ seq # t.last.seq
    /\ Len(data) <= t.remaining
    /\ seq = t.seq

TooMuch(seq, data) ==
    /\ Len(data) <= Capacity /\ seq # t.last.seq
    /\ t.remaining > 0 /\ Len(data) > t.remaining

\* The block fills the buffer: uds_service_0x36_flush writes it.
Full(data) == Len(t.buf \o data) >= Capacity

Chunk(data) == SubSeq(t.buf \o data, 1, Capacity)

\* Mutant of Rest: what did not fit the buffer is lost.
RestDropped(data) == IF Full(data) THEN <<>> ELSE t.buf \o data

Rest(data) == IF Full(data) THEN SubSeq(t.buf \o data, Capacity + 1, Len(t.buf \o data))
              ELSE t.buf \o data

\* There is nothing to write, or the write, and the readback of what it left,
\* are good.
FlushOk(data, outcome) ==
    data = <<>> \/ /\ outcome # "failed"
                   /\ Readback => \A i \in 1..Len(data) :
                         Programmed(t.addr, data, outcome)[t.addr + i - 1] = data[i]

ReadBack(data) == IF Readback THEN t.readback \o data ELSE t.readback

Abort == t' = NoTransfer /\ NotifyAbort /\ answer' = "negative"

BlockRefused(seq, data) ==          \* 0x24, 0x13, 0x73
    /\ ~ (Downloading /\ (Repeated(seq, data) \/ InTurn(seq, data) \/ TooMuch(seq, data)))
    /\ answer' = "negative"
    /\ UNCHANGED <<t, flash, policy, seen>>

\* Mutant of BlockRepeated: the policy gets the block again.
BlockSeenAgain(seq, data) ==
    /\ Downloading /\ Repeated(seq, data)
    /\ answer' = "positive"
    /\ seen' = IF Policy # "none" THEN seen \o data ELSE seen
    /\ UNCHANGED <<t, flash, policy>>

BlockRepeated(seq, data) ==
    /\ Downloading /\ Repeated(seq, data)
    /\ answer' = "positive"
    /\ UNCHANGED <<t, flash, policy, seen>>

BlockTooMuch(seq, data) ==
    /\ Downloading /\ TooMuch(seq, data)
    /\ Abort
    /\ UNCHANGED flash

BlockVetoed(seq, data) ==           \* update_cb refuses
    /\ Downloading /\ InTurn(seq, data) /\ Policy # "none"
    /\ Abort
    /\ UNCHANGED flash

BlockNotWritten(seq, data) ==
    /\ Downloading /\ InTurn(seq, data) /\ Full(data)
    /\ \E outcome \in WriteOutcomes :
          /\ ~FlushOk(Chunk(data), outcome)
          /\ flash' = Programmed(t.addr, Chunk(data), outcome)
    /\ Abort

Progress(seq, data) ==
    [t EXCEPT !.remaining = @ - Len(data),
              !.seq = NextSeq(t.seq), !.last = [seq |-> seq, data |-> <<>>],
              !.buf = Rest(data), !.crc = @ \o data,
              !.addr = IF Full(data) THEN @ + Capacity ELSE @,
              !.readback = IF Full(data) THEN ReadBack(Chunk(data)) ELSE @]

BlockTaken(seq, data) ==
    /\ Downloading /\ InTurn(seq, data)
    /\ \/ ~Full(data) /\ UNCHANGED flash
       \/ Full(data) /\ \E outcome \in WriteOutcomes :
            /\ FlushOk(Chunk(data), outcome)
            /\ flash' = Programmed(t.addr, Chunk(data), outcome)
    /\ t' = Progress(seq, data)
    /\ seen' = IF Policy # "none" THEN seen \o data ELSE seen
    /\ answer' = "positive"
    /\ UNCHANGED policy

TransferBlock(seq, data) ==
    /\ Requests /\ t.state # "UPLOAD"
    /\ UNCHANGED <<config, erase, accepted, patched>>
    /\ \/ BlockRefused(seq, data) \/ BlockRepeated(seq, data) \/ BlockTooMuch(seq, data)
       \/ BlockVetoed(seq, data) \/ BlockNotWritten(seq, data) \/ BlockTaken(seq, data)

\* What the tester makes of an answer it got; one it did not get leaves the
\* block outstanding, to be sent again.
Told(len) ==
    IF answer' = "positive"
    THEN [tester EXCEPT !.sent = @ + len, !.seq = TesterNext(@), !.out = 0]
    ELSE NoTester

Payloads(len) ==
    {Image(tester.sent, len)} \cup
    IF Noise THEN {[i \in 1..len |-> IF i = k THEN Bad ELSE tester.sent + i - 1] : k \in 1..len}
    ELSE {}

\* The tester's next block, or again the one it has no answer to.
TransferData(len, data, lost) ==
    /\ tester.doing = "download"
    /\ len = tester.out \/ (tester.out = 0 /\ len \in 1..Lesser(Capacity, tester.size - tester.sent))
    /\ data \in Payloads(len)
    /\ TransferBlock(tester.seq, data)
    /\ tester' = IF lost THEN [tester EXCEPT !.out = len] ELSE Told(len)

\* A block that does not belong: its counter is wrong, or it is too long.
StrayBlock(seq, len) ==
    /\ ~(t.state = "DOWNLOAD" /\ InTurn(seq, Image(0, len)))
    /\ TransferBlock(seq, [i \in 1..len |-> Bad])
    /\ UNCHANGED tester

-----------------------------------------------------------------------------
(* 0x36, upload. *)

Uploading == Requests /\ t.state = "UPLOAD"

UploadBlock == Region(t.addr, Lesser(Capacity, t.remaining))

UploadTaken(seq) ==
    /\ Uploading /\ seq # t.last.seq /\ t.remaining > 0 /\ seq = t.seq
    /\ t' = [t EXCEPT !.addr = @ + Len(UploadBlock), !.remaining = @ - Len(UploadBlock),
                      !.last = [seq |-> seq, data |-> UploadBlock], !.seq = NextSeq(seq)]
    /\ answer' = "positive"

UploadReadFails(seq) ==
    /\ Uploading /\ seq # t.last.seq /\ t.remaining > 0 /\ seq = t.seq
    /\ FlashFaults
    /\ t' = NoTransfer
    /\ answer' = "negative"

\* Mutant of UploadRepeated: the buffer is read again from where the ECU is now.
UploadReread(seq) ==
    /\ Uploading /\ seq = t.last.seq
    /\ answer' = "positive"
    /\ t' = [t EXCEPT !.last = [seq |-> seq, data |-> UploadBlock]]

UploadRepeated(seq) ==              \* what write_buf still holds
    /\ Uploading /\ seq = t.last.seq
    /\ answer' = "positive"
    /\ UNCHANGED t

UploadRefused(seq) ==
    /\ Requests
    /\ ~ (t.state = "UPLOAD" /\ (seq = t.last.seq \/ (t.remaining > 0 /\ seq = t.seq)))
    /\ answer' = "negative"
    /\ UNCHANGED t

\* The tester asks for its next block, or again for the one it did not get.
TransferUpload(lost) ==
    /\ tester.doing = "upload"
    /\ tester.out = 1 \/ Len(tester.got) < tester.size
    /\ \/ UploadTaken(tester.seq) \/ UploadReadFails(tester.seq)
       \/ UploadRepeated(tester.seq) \/ UploadRefused(tester.seq)
    /\ tester' =
         IF lost THEN [tester EXCEPT !.out = 1]
         ELSE IF answer' = "positive"
         THEN [tester EXCEPT !.got = @ \o t'.last.data, !.seq = TesterNext(@), !.out = 0]
         ELSE NoTester
    /\ UNCHANGED <<config, erase, flash, policy, seen, accepted, patched>>

-----------------------------------------------------------------------------
(* 0x37. *)

RecordRequired == Policy = "record" /\ t.state = "DOWNLOAD"

\* The record is malformed for this transfer, or there is no transfer.
Unparsed(record) ==
    \/ t.state = "IDLE"
    \/ RecordRequired /\ record = "none"
    \/ ~RecordRequired /\ record = "record"

CrcSupplied(record) == ~RecordRequired /\ record \in {"crc", "bad crc"}

\* Mutant of CrcMatches: the comparison is lost.
CrcMatchesAll(record) == TRUE

\* What the tester computed its CRC over, and whether the ECU finds the same.
\* The accumulator is never fed in an upload.
CrcMatches(record) ==
    record = "crc" /\ t.crc = IF t.state = "DOWNLOAD" THEN Image(0, t.total)
                              ELSE Region(t.base, t.total)

\* A download with a policy needs a CRC or a record.
CrcMissing(record) ==
    Policy # "none" /\ t.state = "DOWNLOAD" /\ ~RecordRequired /\ ~CrcSupplied(record)

\* The last, partial buffer.
Flushed(outcome) ==
    /\ FlushOk(t.buf, outcome)
    /\ flash' = Programmed(t.addr, t.buf, outcome)

\* verify_cb, or the CRC of what verify_step_cb read back.
Verified(region) ==
    IF t.state = "DOWNLOAD" /\ Len(ReadBack(t.buf)) = t.total
    THEN ReadBack(t.buf) = t.crc
    ELSE region = t.crc

ExitUnparsed(record) ==
    /\ Unparsed(record)
    /\ answer' = "negative"
    /\ UNCHANGED <<t, flash, policy, seen, accepted>>

ExitShort(record) ==
    /\ ~Unparsed(record) /\ t.remaining # 0
    /\ Abort
    /\ UNCHANGED <<flash, accepted>>

ExitNotWritten(record) ==
    /\ ~Unparsed(record) /\ t.remaining = 0
    /\ \E outcome \in WriteOutcomes :
          /\ ~FlushOk(t.buf, outcome)
          /\ flash' = Programmed(t.addr, t.buf, outcome)
    /\ Abort
    /\ UNCHANGED accepted

\* From here on the buffer has been written.
ExitWritten(record) ==
    /\ ~Unparsed(record) /\ t.remaining = 0
    /\ \E outcome \in WriteOutcomes : Flushed(outcome)

\* No CRC although the policy wants one: the transfer stays open.
ExitNoCrc(record) ==
    /\ ExitWritten(record) /\ CrcMissing(record)
    /\ t' = [t EXCEPT !.buf = <<>>, !.addr = @ + Len(t.buf), !.readback = ReadBack(t.buf)]
    /\ answer' = "negative"
    /\ UNCHANGED <<policy, seen, accepted>>

GoodSoFar(record) ==
    /\ CrcSupplied(record) => CrcMatches(record)
    /\ Verified([i \in 1..t.total |-> flash'[t.base + i - 1]])

\* The CRC or the readback is wrong, verify_cb fails, the policy rejects the
\* image or cannot commit it.
ExitRejected(record) ==
    /\ ExitWritten(record) /\ ~CrcMissing(record)
    /\ GoodSoFar(record) => FlashFaults \/ (Policy # "none" /\ t.state = "DOWNLOAD")
    /\ Abort
    /\ UNCHANGED accepted

\* A policy that asks for a record accepts only the image it belongs to.
ExitAccepted(record) ==
    /\ ExitWritten(record) /\ ~CrcMissing(record)
    /\ GoodSoFar(record)
    /\ RecordRequired => seen = Image(0, t.total)
    /\ t' = NoTransfer
    /\ policy' = IF t.state = "DOWNLOAD" THEN "idle" ELSE policy
    /\ accepted' = IF t.state = "UPLOAD" THEN accepted
                   ELSE [base |-> t.base, size |-> t.total,
                         patched |-> patched, checked |-> Policy # "none" \/ CrcSupplied(record)]
    /\ answer' = "positive"
    /\ UNCHANGED seen

RequestTransferExit(record, lost) ==
    /\ Requests
    /\ \/ ExitUnparsed(record) \/ ExitShort(record) \/ ExitNotWritten(record)
       \/ ExitNoCrc(record) \/ ExitRejected(record) \/ ExitAccepted(record)
    /\ tester' = IF lost \/ t' = t \/ t'.state = "DOWNLOAD" THEN tester ELSE NoTester
    /\ UNCHANGED <<config, erase, patched>>

-----------------------------------------------------------------------------
(* 0x3D: write_cb is called at once, whatever a transfer has written or is *)
(* still going to write there.                                             *)

MemoryWritten(ask) ==
    /\ Requests /\ InRange(ask)
    /\ flash' = Wiped(ask.address, ask.size, Bad)
    /\ patched' = patched \cup Span(ask.address, ask.size)
    /\ accepted' = NoneAccepted
    /\ UNCHANGED <<config, t, erase, policy, seen, tester>>

\* The bytes are the sender's: none of an image.
WriteMemory(ask) == MemoryWritten(ask) /\ answer' = "positive"

WriteMemoryFails(ask) ==
    \/ FlashFaults /\ MemoryWritten(ask) /\ answer' = "negative"
    \/ Requests /\ ~InRange(ask) /\ RefuseRequest

-----------------------------------------------------------------------------
\* The session ends (0x10, S3, a lost connection): the job is aborted and
\* uds_service_0x34_abort_transfer runs.  The tester may not know.
SessionEnds(known) ==
    /\ t.state # "IDLE" \/ erase.active
    /\ NotifyAbort
    /\ t' = NoTransfer /\ erase' = NoErase
    /\ answer' = "none"
    /\ tester' = IF known THEN NoTester ELSE tester
    /\ UNCHANGED <<config, flash, accepted, patched>>

Next ==
    \/ \E ask \in Asked, lost \in BOOLEAN :
          DownloadErased(ask, lost) \/ RequestUpload(ask, lost)
    \/ \E ask \in Asked :
          \/ DownloadRefused(ask) \/ DownloadNotDeferred(ask)
          \/ DownloadEraseFails(ask) \/ DownloadDeferred(ask)
          \/ WriteMemory(ask) \/ WriteMemoryFails(ask)
    \/ \E n \in 0..(erase.total + 1) : EraseStep(n) \/ EraseStepFails(n)
    \/ \E lost \in BOOLEAN : EraseDone(lost) \/ TransferUpload(lost)
    \/ \E len \in 1..Capacity, lost \in BOOLEAN :
          \E data \in Payloads(len) : TransferData(len, data, lost)
    \/ \E seq \in 0..MaxSeq, len \in 1..(Capacity + 1) : StrayBlock(seq, len)
    \/ \E record \in Records, lost \in BOOLEAN : RequestTransferExit(record, lost)
    \/ \E known \in BOOLEAN : SessionEnds(known)

Spec == Init /\ [][Next]_vars

-----------------------------------------------------------------------------
(* Properties *)

Content == Nat \cup {Erased, Bad}
Counters == 0..MaxSeq

\* uds_transfer_ctx_t, and what 0x34 keeps of a pending erase.
Transfer ==
    [state : {"IDLE", "DOWNLOAD", "UPLOAD"}, base : Nat, total : Nat, remaining : Nat, addr : Nat,
     seq : Counters, last : [seq : Counters \cup {-1}, data : Seq(Content)],
     buf : Seq(Content), crc : Seq(Content), readback : Seq(Content)]
EraseJob == [active : BOOLEAN, base : Nat, addr : Nat, remaining : Nat, total : Nat]
Tester ==
    [doing : {"nothing", "download", "upload"}, base : Nat, size : Nat, sent : Nat,
     seq : Counters, out : Nat, got : Seq(Content)]
Acceptance == [base : Nat, size : Nat, checked : BOOLEAN, patched : SUBSET Addresses]

\* Every counter and address is a number, every buffer a sequence of content, and the flash
\* holds nothing but content and what was there before.
TypeOK ==
    /\ config \in Configs
    /\ t \in Transfer /\ erase \in EraseJob /\ tester \in Tester /\ accepted \in Acceptance
    /\ flash \in [Addresses -> Content \cup {Foreign}]
    /\ policy \in {"idle", "begun"} /\ seen \in Seq(Content)
    /\ answer \in {"none", "positive", "negative"}
    /\ patched \subseteq Addresses

(* No service erases or writes a byte outside of the writable region,      *)
(* whatever address and size are asked for, in how many steps the region   *)
(* is erased and however the blocks fall on the write buffer.              *)
OutsideUntouched == \A i \in Addresses : (flash[i] = Foreign) = (i \notin Writable)

(* A download that was answered 0x77 is in flash, whole and in order:      *)
(* whatever answers were lost and blocks repeated, however the driver      *)
(* failed, and whichever transfers were begun and given up before.  A      *)
(* damaged payload is caught where a CRC or a policy is asked for, a 0x3D  *)
(* into the download where verify_cb still reads the region at the end.    *)
AcceptedIsImage ==
    accepted.checked \/ ~Noise =>
        \A i \in 0..(accepted.size - 1) :
            flash[accepted.base + i] = i \/ (Readback /\ accepted.base + i \in accepted.patched)

(* The policy sees every byte of the download once and in order: update_cb *)
(* has had exactly the bytes before the next offset                        *)
(* (platform/uds_image_policy.h:160).                                      *)
PolicySeesAll ==
    Policy # "none" /\ t.state = "DOWNLOAD"
        => seen = t.crc /\ Len(seen) = t.total - t.remaining

(* Buffer, flash and accumulator agree: what was received is what is       *)
(* written plus what is still in the buffer.                               *)
NothingLost ==
    t.state = "DOWNLOAD" =>
        LET written == t.addr - t.base IN
        /\ written + Len(t.buf) = t.total - t.remaining
        /\ t.crc = SubSeq(t.crc, 1, written) \o t.buf
        /\ Readback \/ ~FlashFaults =>
             \A i \in 1..written : t.base + i - 1 \in patched \/ flash[t.base + i - 1] = t.crc[i]

(* Retries never put the two sides out of step: while the ECU has the      *)
(* tester's download, it expects the tester's next byte, or already has    *)
(* the block the tester is going to repeat.                                *)
TesterInStep ==
    tester.doing = "download" /\ t.state = "DOWNLOAD" =>
        \/ t.total - t.remaining = tester.sent /\ t.seq = tester.seq
        \/ /\ t.total - t.remaining = tester.sent + tester.out /\ tester.out > 0
           /\ t.last.seq = tester.seq /\ t.seq = TesterNext(tester.seq)

(* Where no upload can take a download's place, the policy is told of the  *)
(* end of every download it was told of the start of: abort_cb runs        *)
(* "wherever an in-progress DOWNLOAD transfer is torn down without a       *)
(* successful exit" (platform/uds_image_policy.h:231).                     *)
PolicyToldWithoutUploads ==
    ~ReadCb /\ policy = "begun" => t.state = "DOWNLOAD" \/ erase.active

(* An upload gives the tester the region's bytes, in order and once.       *)
UploadFaithful ==
    tester.doing = "upload" =>
        \A i \in DOMAIN tester.got :
            \/ tester.got[i] = flash[tester.base + i - 1]
            \/ tester.base + i - 1 \in patched

=============================================================================
