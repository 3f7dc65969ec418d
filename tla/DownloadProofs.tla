--------------------------- MODULE DownloadProofs ---------------------------
(***************************************************************************)
(* The data transfer, proved for every region, image size, buffer and      *)
(* block counter, and for every set of registered callbacks and of faults. *)
(***************************************************************************)
EXTENDS Download, SequenceTheorems, TLAPS

\* What InRange lets through.
InRegion(at, len) ==
    /\ Base <= at /\ 0 < len /\ at + len <= Base + Extent /\ Base + Extent <= Top

\* A transfer and an erase stay inside of the region they were asked for, and
\* a pending erase keeps a download from running.
Placed ==
    /\ t.state # "IDLE" => InRegion(t.base, t.total) /\ t.remaining <= t.total
    /\ erase.active => /\ InRegion(erase.base, erase.total) /\ erase.base <= erase.addr
                       /\ erase.addr + erase.remaining = erase.base + erase.total
                       /\ t.state # "DOWNLOAD"

\* The buffer is the end of what has been received.
Buffered ==
    t.state = "DOWNLOAD" =>
        /\ Len(t.crc) = t.total - t.remaining
        /\ Len(t.buf) < Capacity /\ t.base <= t.addr
        /\ t.addr + Len(t.buf) = t.base + Len(t.crc)
        /\ \A i \in 1..Len(t.buf) : t.buf[i] = t.crc[t.addr - t.base + i]

\* What was received before it is in flash, or has been since 0x3D wrote there;
\* the rest of the region is still erased.
Written ==
    t.state = "DOWNLOAD" =>
        /\ Readback \/ ~FlashFaults =>
              \A a \in t.base..(t.addr - 1) : a \in patched \/ flash[a] = t.crc[a - t.base + 1]
        /\ ~FlashFaults =>
              \A a \in t.addr..(t.base + t.total - 1) : a \in patched \/ flash[a] = Erased

\* What an erase has done so far; the policy has not been given anything yet.
Wiping ==
    erase.active => /\ \A a \in erase.base..(erase.addr - 1) : flash[a] = Erased
                    /\ Policy # "none" => seen = <<>>

\* What has been read back is what was received and written.
ReadFaithful ==
    t.state = "DOWNLOAD" =>
        /\ Readback => /\ Len(t.readback) = t.addr - t.base
                       /\ \A i \in 1..Len(t.readback) : t.readback[i] = t.crc[i]
        /\ ~Readback => t.readback = <<>>

\* Without noise the tester's image arrives.
Unharmed ==
    t.state = "DOWNLOAD" /\ ~Noise => \A i \in 1..Len(t.crc) : t.crc[i] = i - 1

\* The two sides of a download.
InStep ==
    /\ TesterInStep
    /\ t.state # "IDLE" => t.last.seq # t.seq
    /\ erase.active => tester.doing = "nothing"
    /\ tester.doing = "download" => t.state # "UPLOAD"
    /\ tester.doing = "upload" => t.state # "DOWNLOAD"

\* The two sides of an upload: the tester has what the ECU has sent, or all but
\* the last block, which the ECU still has.
UploadInStep ==
    /\ tester.doing = "upload" => /\ InRegion(tester.base, tester.size)
                                  /\ Len(tester.got) <= tester.size
    /\ t.state = "UPLOAD" => t.buf = <<>> /\ t.crc = <<>> /\ t.base <= t.addr
                             /\ t.addr + t.remaining = t.base + t.total
    /\ t.state = "UPLOAD" /\ tester.doing = "upload" =>
        /\ t.base = tester.base /\ t.total = tester.size
        /\ \/ t.seq = tester.seq /\ t.addr = t.base + Len(tester.got)
           \/ /\ t.last.seq = tester.seq /\ t.seq = TesterNext(tester.seq)
              /\ t.addr = t.base + Len(tester.got) + Len(t.last.data)
              /\ \A i \in 1..Len(t.last.data) :
                    LET a == t.base + Len(tester.got) + i - 1
                    IN t.last.data[i] = flash[a] \/ a \in patched

\* An accepted download is over.
Accepted ==
    /\ AcceptedIsImage
    /\ accepted.size > 0 => /\ InRegion(accepted.base, accepted.size)
                            /\ ~erase.active /\ t.state # "DOWNLOAD"

ToldOf == PolicySeesAll /\ PolicyToldWithoutUploads

IInv ==
    /\ TypeOK /\ OutsideUntouched /\ Placed /\ Buffered /\ Written /\ Wiping /\ ReadFaithful
    /\ Unharmed /\ InStep /\ UploadInStep /\ UploadFaithful /\ Accepted /\ ToldOf

-----------------------------------------------------------------------------
(* The operators. *)

LEMMA Constants ==
    /\ Top \in Nat /\ Base \in Nat /\ Extent \in Nat
    /\ Capacity \in Nat \ {0} /\ MaxSeq \in Nat \ {0}
BY MemoryAssumption, CapacityAssumption, MaxSeqAssumption

\* The server's counter and the tester's take the same way round.
LEMMA NextCounter ==
    ASSUME NEW seq \in Counters
    PROVE /\ NextSeq(seq) \in Counters /\ NextSeq(seq) # seq
          /\ TesterNext(seq) = NextSeq(seq)
<1>1. CASE seq = MaxSeq
  <2>1. (MaxSeq + 1) % (MaxSeq + 1) = 0 BY Constants
  <2> QED BY <1>1, <2>1, Constants DEF NextSeq, TesterNext, Counters
<1>2. CASE seq # MaxSeq
  <2>1. seq \in Nat /\ seq + 1 < MaxSeq + 1 BY <1>2, Constants DEF Counters
  <2>2. (seq + 1) % (MaxSeq + 1) = seq + 1 BY <2>1, Constants
  <2> QED BY <1>2, <2>1, <2>2, Constants DEF NextSeq, TesterNext, Counters
<1> QED BY <1>1, <1>2

\* The range check admits only requests that lie in the region.
LEMMA RangeCheck ==
    ASSUME NEW ask \in Asked, InRange(ask)
    PROVE /\ ask.address \in Nat /\ ask.size \in Nat
          /\ InRegion(ask.address, ask.size)
<1>1. ask.address \in 0..Top /\ ask.size \in 0..Top BY MemoryAssumption
<1> QED BY <1>1, Constants DEF InRange, InRegion

LEMMA RegionIsWritable ==
    ASSUME NEW at \in Nat, NEW len \in Nat, InRegion(at, len), NEW a \in at..(at + len - 1)
    PROVE a \in Addresses /\ a \in Writable
BY Constants DEF InRegion, Addresses, Writable

\* Erasing, or writing a payload, inside of the region.
LEMMA WipedInside ==
    ASSUME flash \in [Addresses -> Content \cup {Foreign}], OutsideUntouched,
           NEW at \in Nat, NEW len \in Nat, Span(at, len) \subseteq Writable,
           NEW content \in {Erased, Bad}, flash' = Wiped(at, len, content)
    PROVE /\ flash' \in [Addresses -> Content \cup {Foreign}] /\ OutsideUntouched'
          /\ \A a \in Span(at, len) : a \in Addresses => flash'[a] = content
          /\ \A a \in Addresses : a \notin Span(at, len) => flash'[a] = flash[a]
<1>1. content \in Content /\ content # Foreign BY DEF Content, Erased, Bad, Foreign
<1>2. \A a \in Addresses : flash'[a] = IF a \in Span(at, len) THEN content ELSE flash[a]
  BY DEF Wiped
<1>3. flash' \in [Addresses -> Content \cup {Foreign}] BY <1>1 DEF Wiped
<1>4. OutsideUntouched' BY <1>1, <1>2 DEF OutsideUntouched
<1> QED BY <1>2, <1>3, <1>4

LEMMA ProgrammedInside ==
    ASSUME flash \in [Addresses -> Content \cup {Foreign}], OutsideUntouched,
           NEW at \in Nat, NEW data \in Seq(Content), Span(at, Len(data)) \subseteq Writable,
           NEW outcome, flash' = Programmed(at, data, outcome)
    PROVE /\ flash' \in [Addresses -> Content \cup {Foreign}] /\ OutsideUntouched'
          /\ \A a \in Addresses : a \notin Span(at, Len(data)) => flash'[a] = flash[a]
          /\ \A a \in Addresses : a \in Span(at, Len(data)) =>
                (outcome = "good" /\ flash[a] = Erased => flash'[a] = data[a - at + 1])
<1>1. Foreign \notin Content /\ Bad \in Content BY DEF Content, Erased, Bad, Foreign
<1>2. \A a \in Addresses :
        flash'[a] = IF a \notin Span(at, Len(data)) THEN flash[a]
                    ELSE IF outcome = "good" /\ flash[a] = Erased THEN data[a - at + 1] ELSE Bad
  BY DEF Programmed
<1>3. \A a \in Span(at, Len(data)) : data[a - at + 1] \in Content
  BY LenProperties, ElementOfSeq DEF Span
<1>4. \A a \in Addresses : a \in Span(at, Len(data)) => flash'[a] \in Content
  BY <1>1, <1>2, <1>3
<1>5. flash' \in [Addresses -> Content \cup {Foreign}]
  <2>1. flash' = [a \in Addresses |-> flash'[a]] BY DEF Programmed
  <2> QED BY <1>2, <1>4, <2>1
<1>6. OutsideUntouched' BY <1>1, <1>2, <1>4 DEF OutsideUntouched
<1> QED BY <1>2, <1>5, <1>6

\* Nothing to write leaves the flash alone.
LEMMA ProgrammedNothing ==
    ASSUME flash \in [Addresses -> Content \cup {Foreign}],
           NEW at \in Nat, NEW outcome
    PROVE Programmed(at, <<>>, outcome) = flash
<1>1. Span(at, 0) = {} BY DEF Span
<1> QED BY <1>1, EmptySeq DEF Programmed

\* What is in the buffer once a block is in it, before it is written out.
Whole(data) == t.buf \o data

\* How a block goes through the write buffer.
LEMMA Buffering ==
    ASSUME t.buf \in Seq(Content), Len(t.buf) < Capacity,
           NEW data \in Seq(Content), Len(data) <= Capacity
    PROVE /\ Whole(data) \in Seq(Content) /\ Len(Whole(data)) = Len(t.buf) + Len(data)
          /\ \A i \in 1..Len(Whole(data)) :
                Whole(data)[i] = IF i <= Len(t.buf) THEN t.buf[i] ELSE data[i - Len(t.buf)]
          /\ Rest(data) \in Seq(Content) /\ Len(Rest(data)) < Capacity
          /\ ~Full(data) => Rest(data) = Whole(data)
          /\ Full(data) =>
                /\ Len(Rest(data)) = Len(Whole(data)) - Capacity
                /\ \A i \in 1..Len(Rest(data)) : Rest(data)[i] = Whole(data)[Capacity + i]
                /\ Chunk(data) \in Seq(Content) /\ Len(Chunk(data)) = Capacity
                /\ \A i \in 1..Capacity : Chunk(data)[i] = Whole(data)[i]
<1>1. Whole(data) \in Seq(Content) /\ Len(Whole(data)) = Len(t.buf) + Len(data)
  BY ConcatProperties DEF Whole
<1>2. \A i \in 1..Len(Whole(data)) :
        Whole(data)[i] = IF i <= Len(t.buf) THEN t.buf[i] ELSE data[i - Len(t.buf)]
  BY ConcatProperties DEF Whole
<1>3. Len(t.buf) \in Nat /\ Len(data) \in Nat BY LenProperties
<1>4. Full(data) <=> Len(Whole(data)) >= Capacity BY DEF Full, Whole
<1>5. CASE ~Full(data)
  <2>1. Rest(data) = Whole(data) BY <1>5 DEF Rest, Whole
  <2>2. Len(Whole(data)) < Capacity BY <1>1, <1>3, <1>4, <1>5, Constants
  <2> QED BY <1>1, <1>2, <1>5, <2>1, <2>2
<1>6. CASE Full(data)
  <2>1. /\ Rest(data) = SubSeq(Whole(data), Capacity + 1, Len(Whole(data)))
        /\ Chunk(data) = SubSeq(Whole(data), 1, Capacity)
        /\ Capacity <= Len(Whole(data))
    BY <1>1, <1>3, <1>4, <1>6, Constants DEF Rest, Chunk, Whole
  <2>2. \A i \in 1..Len(Whole(data)) : Whole(data)[i] \in Content
    BY <1>1, ElementOfSeq
  <2>3. /\ Chunk(data) \in Seq(Content) /\ Len(Chunk(data)) = Capacity
        /\ \A i \in 1..Capacity : Chunk(data)[i] = Whole(data)[i]
    <3>1. \A i \in 1..Capacity : Whole(data)[i] \in Content
      BY <1>1, <1>3, <2>1, <2>2, Constants
    <3> QED BY <2>1, <3>1, Constants, SubSeqProperties
  <2>4. /\ Rest(data) \in Seq(Content) /\ Len(Rest(data)) = Len(Whole(data)) - Capacity
        /\ \A i \in 1..Len(Rest(data)) : Rest(data)[i] = Whole(data)[Capacity + i]
    <3>1. /\ Len(Whole(data)) \in Int /\ Capacity + 1 \in Int
          /\ \A i \in (Capacity + 1)..Len(Whole(data)) : Whole(data)[i] \in Content
      BY <1>1, <1>3, <2>1, <2>2, Constants
    <3>2. /\ Rest(data) \in Seq(Content)
          /\ Len(Rest(data)) = IF Capacity + 1 <= Len(Whole(data))
                               THEN Len(Whole(data)) - (Capacity + 1) + 1 ELSE 0
          /\ \A i \in 1..(Len(Whole(data)) - (Capacity + 1) + 1) :
                Rest(data)[i] = Whole(data)[Capacity + 1 + i - 1]
      BY <2>1, <3>1, SubSeqProperties
    <3>3. Len(Rest(data)) = Len(Whole(data)) - Capacity
      BY <1>1, <1>3, <2>1, <3>2, Constants
    <3>4. ASSUME NEW i \in 1..Len(Rest(data)) PROVE Rest(data)[i] = Whole(data)[Capacity + i]
      <4>1. i \in 1..(Len(Whole(data)) - (Capacity + 1) + 1) /\ Capacity + 1 + i - 1 = Capacity + i
        BY <1>1, <1>3, <3>3, Constants
      <4> QED BY <3>2, <4>1
    <3> QED BY <3>2, <3>3, <3>4
  <2>5. Len(Rest(data)) < Capacity BY <1>1, <1>3, <2>4, Constants
  <2> QED BY <1>1, <1>2, <1>6, <2>3, <2>4, <2>5
<1> QED BY <1>5, <1>6

-----------------------------------------------------------------------------
(* The records. *)

LEMMA NoTransferOK ==
    /\ NoTransfer \in Transfer /\ NoTransfer.state = "IDLE"
    /\ NoErase \in EraseJob /\ ~NoErase.active
    /\ NoTester \in Tester /\ NoTester.doing = "nothing"
    /\ NoneAccepted \in Acceptance /\ NoneAccepted.size = 0
<1>1. <<>> \in Seq(Content) /\ 0 \in Counters /\ 1 \in Counters
  BY EmptySeq, Constants DEF Counters
<1>2. NoBlock \in [seq : Counters \cup {-1}, data : Seq(Content)]
  BY <1>1 DEF NoBlock
<1> QED BY <1>1, <1>2 DEF NoTransfer, Transfer, NoErase, EraseJob, NoTester, Tester,
                          NoneAccepted, Acceptance

LEMMA NewTransferOK ==
    ASSUME NEW state \in {"DOWNLOAD", "UPLOAD"}, NEW address \in Nat, NEW size \in Nat
    PROVE LET new == NewTransfer(state, address, size) IN
          /\ new \in Transfer /\ new.state = state /\ new.base = address /\ new.addr = address
          /\ new.total = size /\ new.remaining = size /\ new.seq = 1 /\ new.last.seq = -1
          /\ new.buf = <<>> /\ new.crc = <<>> /\ new.readback = <<>>
<1>1. NoTransfer \in Transfer /\ 1 \in Counters
  BY NoTransferOK, Constants DEF Counters
<1>2. NewTransfer(state, address, size) \in Transfer BY <1>1 DEF NewTransfer, Transfer
<1> QED BY <1>2 DEF NewTransfer, NoTransfer, NoBlock

LEMMA NewTesterOK ==
    ASSUME NEW doing \in {"download", "upload"}, NEW address \in Nat, NEW size \in Nat
    PROVE LET new == NewTester(doing, address, size) IN
          /\ new \in Tester /\ new.doing = doing /\ new.base = address /\ new.size = size
          /\ new.sent = 0 /\ new.seq = 1 /\ new.out = 0 /\ new.got = <<>>
<1> DEFINE new == [NoTester EXCEPT !.doing = doing, !.base = address, !.size = size]
<1>1. /\ NoTester.sent = 0 /\ NoTester.seq = 1 /\ NoTester.out = 0 /\ NoTester.got = <<>>
  BY DEF NoTester
<1>2. NoTester \in Tester BY NoTransferOK
<1>3. /\ new \in Tester /\ new.doing = doing /\ new.base = address /\ new.size = size
      /\ new.sent = NoTester.sent /\ new.seq = NoTester.seq /\ new.out = NoTester.out
      /\ new.got = NoTester.got
  BY <1>2 DEF Tester
<1> QED BY <1>1, <1>3 DEF NewTester

\* What an erase inside of the region touches.
LEMMA SpanInRegion ==
    ASSUME NEW base \in Nat, NEW total \in Nat, InRegion(base, total),
           NEW at \in Nat, NEW len \in Nat, base <= at, at + len <= base + total
    PROVE Span(at, len) \subseteq Writable /\ Span(at, len) \subseteq Addresses
BY Constants DEF InRegion, Span, Writable, Addresses

\* A download has to be running for most of the invariant to say anything.
LEMMA NoDownload ==
    ASSUME t'.state # "DOWNLOAD"
    PROVE Buffered' /\ Written' /\ ReadFaithful' /\ Unharmed' /\ PolicySeesAll' /\ TesterInStep'
BY DEF Buffered, Written, ReadFaithful, Unharmed, PolicySeesAll, TesterInStep

\* Without an accepted download nothing has to be in flash.
LEMMA NothingAccepted ==
    ASSUME accepted'.size = 0
    PROVE Accepted'
BY DEF AcceptedIsImage, Accepted

-----------------------------------------------------------------------------
(* The steps of an erase. *)

\* A download begins on an erased region.
LEMMA BeginsOK ==
    ASSUME IInv, NEW address \in Nat, NEW size \in Nat, InRegion(address, size),
           NEW lost \in BOOLEAN,
           t' = NewTransfer("DOWNLOAD", address, size),
           tester' = IF lost THEN NoTester ELSE NewTester("download", address, size),
           erase' \in EraseJob, ~erase'.active,
           flash' \in [Addresses -> Content \cup {Foreign}], OutsideUntouched',
           \A a \in address..(address + size - 1) : flash'[a] = Erased,
           policy' \in {"idle", "begun"}, seen' \in Seq(Content), Policy # "none" => seen' = <<>>,
           answer' = "positive", patched' \subseteq Addresses, config' = config,
           accepted' \in Acceptance, accepted'.size = 0
    PROVE IInv'
<1>1. /\ t' \in Transfer /\ t'.state = "DOWNLOAD" /\ t'.base = address /\ t'.addr = address
      /\ t'.total = size /\ t'.remaining = size /\ t'.seq = 1 /\ t'.last.seq = -1
      /\ t'.buf = <<>> /\ t'.crc = <<>> /\ t'.readback = <<>>
  BY NewTransferOK, SMTT(40)
<1>2. /\ tester' \in Tester /\ tester'.doing \in {"nothing", "download"}
      /\ tester'.doing = "download" => tester'.sent = 0 /\ tester'.seq = 1
  BY NoTransferOK, NewTesterOK
<1>3. Accepted' BY NothingAccepted
<1>4. TypeOK' BY <1>1, <1>2, <1>3, EmptySeq DEF IInv, TypeOK
<1>5. Placed' BY <1>1 DEF Placed
<1>6. Buffered'
  BY <1>1, EmptySeq, Constants DEF Buffered
<1>7. Written' BY <1>1 DEF Written
<1>8. Wiping' BY DEF Wiping
<1>9. ReadFaithful' BY <1>1, EmptySeq DEF ReadFaithful
<1>10. Unharmed' BY <1>1, EmptySeq DEF Unharmed
<1>11. InStep'
  <2>1. TesterInStep' BY <1>1, <1>2 DEF TesterInStep
  <2> QED BY <1>1, <1>2, <2>1 DEF InStep
<1>12. UploadInStep' /\ UploadFaithful' BY <1>1, <1>2 DEF UploadInStep, UploadFaithful
<1>13. ToldOf'
  <2>1. PolicySeesAll' BY <1>1, EmptySeq DEF PolicySeesAll, Policy
  <2>2. PolicyToldWithoutUploads' BY <1>1 DEF PolicyToldWithoutUploads
  <2> QED BY <2>1, <2>2 DEF ToldOf
<1> QED BY <1>3, <1>4, <1>5, <1>6, <1>7, <1>8, <1>9, <1>10, <1>11, <1>12, <1>13 DEF IInv

\* A step of an erase, or of its end, that leaves the context alone.
LEMMA ErasingOK ==
    ASSUME IInv, TypeOK', OutsideUntouched', Placed', Wiping', PolicyToldWithoutUploads',
           t.state # "DOWNLOAD", t' = t, tester'.doing = "nothing", accepted'.size = 0
    PROVE IInv'
<1>1. /\ Buffered' /\ Written' /\ ReadFaithful' /\ Unharmed' /\ PolicySeesAll' /\ TesterInStep'
  BY NoDownload
<1>2. InStep' BY <1>1 DEF IInv, InStep
<1>3. UploadInStep' /\ UploadFaithful' BY DEF IInv, UploadInStep, UploadFaithful
<1>4. Accepted' BY NothingAccepted
<1> QED BY <1>1, <1>2, <1>3, <1>4 DEF IInv, ToldOf

LEMMA EraseOK ==
    ASSUME IInv,
           \/ \E ask \in Asked : DownloadEraseFails(ask) \/ DownloadDeferred(ask)
           \/ \E ask \in Asked, lost \in BOOLEAN : DownloadErased(ask, lost)
           \/ \E n \in Nat : EraseStep(n) \/ EraseStepFails(n)
           \/ \E lost \in BOOLEAN : EraseDone(lost)
    PROVE IInv'
<1>0. /\ flash \in [Addresses -> Content \cup {Foreign}] /\ OutsideUntouched /\ config' = config
      /\ t \in Transfer /\ erase \in EraseJob /\ tester \in Tester /\ accepted \in Acceptance
      /\ erase.active \in BOOLEAN /\ erase.base \in Nat /\ erase.addr \in Nat
      /\ erase.remaining \in Nat /\ erase.total \in Nat
  <2>1. /\ flash \in [Addresses -> Content \cup {Foreign}] /\ OutsideUntouched
        /\ t \in Transfer /\ erase \in EraseJob /\ tester \in Tester /\ accepted \in Acceptance
    BY DEF IInv, TypeOK
  <2>2. config' = config
    BY DEF DownloadEraseFails, DownloadDeferred, DownloadErased, EraseStep, EraseStepFails,
           EraseDone
  <2> QED BY <2>1, <2>2 DEF EraseJob
<1>1. ASSUME NEW ask \in Asked, NEW lost \in BOOLEAN, DownloadErased(ask, lost) PROVE IInv'
  <2>1. /\ ask.address \in Nat /\ ask.size \in Nat /\ InRegion(ask.address, ask.size)
        /\ flash' = Wiped(ask.address, ask.size, Erased) /\ ~erase.active /\ erase' = erase
    BY <1>1, RangeCheck DEF DownloadErased, Requests
  <2>2. Span(ask.address, ask.size) \subseteq Writable \cap Addresses
    BY <2>1, SpanInRegion
  <2>3. /\ flash' \in [Addresses -> Content \cup {Foreign}] /\ OutsideUntouched'
        /\ \A a \in Span(ask.address, ask.size) : a \in Addresses => flash'[a] = Erased
    BY <1>0, <2>1, <2>2, WipedInside
  <2>4. \A a \in ask.address..(ask.address + ask.size - 1) : flash'[a] = Erased
    BY <2>2, <2>3 DEF Span
  <2>5. /\ t' = NewTransfer("DOWNLOAD", ask.address, ask.size)
        /\ tester' = IF lost THEN NoTester ELSE NewTester("download", ask.address, ask.size)
        /\ policy' = IF Policy = "none" THEN "idle" ELSE "begun"
        /\ seen' = <<>> /\ answer' = "positive" /\ accepted' = NoneAccepted /\ patched' = {}
    BY <1>1 DEF DownloadErased, Begin
  <2> QED BY <1>0, <2>1, <2>3, <2>4, <2>5, NoTransferOK, EmptySeq, BeginsOK
<1>2. ASSUME erase.active
      PROVE /\ InRegion(erase.base, erase.total) /\ erase.base <= erase.addr
            /\ erase.addr + erase.remaining = erase.base + erase.total
            /\ t.state # "DOWNLOAD" /\ accepted.size = 0 /\ tester.doing = "nothing"
  <2>1. accepted.size \in Nat BY <1>0 DEF Acceptance
  <2> QED BY <1>2, <2>1 DEF IInv, Placed, InStep, Accepted
<1>3. ASSUME NEW lost \in BOOLEAN, EraseDone(lost) PROVE IInv'
  <2>1. /\ erase.active /\ flash' = Wiped(erase.addr, erase.remaining, Erased)
        /\ erase' = NoErase /\ answer' = "positive"
        /\ t' = NewTransfer("DOWNLOAD", erase.base, erase.total)
        /\ tester' = IF lost THEN NoTester ELSE NewTester("download", erase.base, erase.total)
        /\ UNCHANGED <<policy, seen, accepted, patched>>
    BY <1>3 DEF EraseDone
  <2>2. Span(erase.addr, erase.remaining) \subseteq Writable
    BY <1>0, <1>2, <2>1, SpanInRegion
  <2>3. /\ flash' \in [Addresses -> Content \cup {Foreign}] /\ OutsideUntouched'
        /\ \A a \in Span(erase.addr, erase.remaining) : a \in Addresses => flash'[a] = Erased
        /\ \A a \in Addresses : a \notin Span(erase.addr, erase.remaining) => flash'[a] = flash[a]
    BY <1>0, <2>1, <2>2, WipedInside
  <2>4. \A a \in erase.base..(erase.base + erase.total - 1) : flash'[a] = Erased
    <3>1. SUFFICES ASSUME NEW a \in erase.base..(erase.base + erase.total - 1)
                   PROVE flash'[a] = Erased
      OBVIOUS
    <3>2. a \in Addresses BY <1>0, <1>2, <2>1, RegionIsWritable
    <3>3. CASE a \in Span(erase.addr, erase.remaining) BY <2>3, <3>2, <3>3
    <3>4. CASE a \notin Span(erase.addr, erase.remaining)
      <4>1. a \in erase.base..(erase.addr - 1) BY <1>0, <1>2, <2>1, <3>4 DEF Span
      <4> QED BY <2>1, <2>3, <3>2, <3>4, <4>1 DEF IInv, Wiping
    <3> QED BY <3>3, <3>4
  <2>5. /\ policy' \in {"idle", "begun"} /\ seen' \in Seq(Content) /\ (Policy # "none" => seen' = <<>>)
        /\ patched' \subseteq Addresses /\ accepted' \in Acceptance /\ accepted'.size = 0
    BY <1>0, <1>2, <2>1 DEF IInv, TypeOK, Wiping
  <2>6. erase.base \in Nat /\ erase.total \in Nat /\ InRegion(erase.base, erase.total)
    BY <1>0, <1>2, <2>1
  <2> QED BY <1>0, <2>1, <2>3, <2>4, <2>5, <2>6, NoTransferOK, BeginsOK
<1>4. ASSUME NEW ask \in Asked, DownloadEraseFails(ask) PROVE IInv'
  <2>1. /\ ask.address \in Nat /\ ask.size \in Nat /\ InRegion(ask.address, ask.size)
        /\ flash' = Wiped(ask.address, ask.size, Bad) /\ ~erase.active /\ t.state # "DOWNLOAD"
        /\ policy' = "idle" /\ answer' = "negative" /\ tester' = NoTester
        /\ accepted' = NoneAccepted /\ patched' = {} /\ UNCHANGED <<t, erase, seen>>
    BY <1>4, RangeCheck DEF DownloadEraseFails, Requests, NotifyAbort
  <2>2. Span(ask.address, ask.size) \subseteq Writable BY <2>1, SpanInRegion
  <2>3. flash' \in [Addresses -> Content \cup {Foreign}] /\ OutsideUntouched'
    BY <1>0, <2>1, <2>2, WipedInside
  <2>4. TypeOK' BY <1>0, <2>1, <2>3, NoTransferOK DEF IInv, TypeOK
  <2>5. Placed' BY <2>1 DEF IInv, Placed
  <2>6. Wiping' /\ PolicyToldWithoutUploads' BY <2>1 DEF Wiping, PolicyToldWithoutUploads
  <2> QED BY <2>1, <2>3, <2>4, <2>5, <2>6, NoTransferOK, ErasingOK
<1>5. ASSUME NEW ask \in Asked, DownloadDeferred(ask) PROVE IInv'
  <2>1. /\ ask.address \in Nat /\ ask.size \in Nat /\ InRegion(ask.address, ask.size)
        /\ erase' = [active |-> TRUE, base |-> ask.address, addr |-> ask.address,
                     remaining |-> ask.size, total |-> ask.size]
        /\ t.state # "DOWNLOAD" /\ policy' \in {"idle", "begun"} /\ seen' = <<>>
        /\ answer' = "none" /\ tester' = NoTester
        /\ accepted' = NoneAccepted /\ patched' = {} /\ UNCHANGED <<t, flash>>
    BY <1>5, RangeCheck DEF DownloadDeferred, Requests, Begin
  <2>2. /\ erase' \in EraseJob /\ erase'.active /\ erase'.base = ask.address
        /\ erase'.addr = ask.address /\ erase'.remaining = ask.size /\ erase'.total = ask.size
    BY <2>1 DEF EraseJob
  <2>3. TypeOK' BY <1>0, <2>1, <2>2, NoTransferOK, EmptySeq DEF IInv, TypeOK
  <2>4. OutsideUntouched' BY <1>0, <2>1 DEF OutsideUntouched
  <2>5. Placed' BY <2>1, <2>2 DEF IInv, Placed
  <2>6. Wiping' BY <2>1, <2>2 DEF Wiping
  <2>7. PolicyToldWithoutUploads' BY <2>2 DEF PolicyToldWithoutUploads
  <2> QED BY <2>1, <2>3, <2>4, <2>5, <2>6, <2>7, NoTransferOK, ErasingOK
<1>6. ASSUME NEW n \in Nat, EraseStep(n) PROVE IInv'
  <2>1. /\ erase.active /\ n > 0 /\ n < erase.remaining
        /\ flash' = Wiped(erase.addr, n, Erased)
        /\ erase' = [erase EXCEPT !.addr = erase.addr + n, !.remaining = erase.remaining - n]
        /\ UNCHANGED <<t, policy, seen, answer, tester, accepted, patched>>
    <3>1. ~(n = 0 \/ n > erase.remaining) /\ n < erase.remaining
      BY <1>6, Zenon DEF EraseStep, EraseOutOfSpan
    <3>2. n > 0 BY <3>1
    <3> QED BY <1>6, <3>1, <3>2, Zenon DEF EraseStep
  <2>2. /\ erase' \in EraseJob /\ erase'.active = erase.active /\ erase'.base = erase.base
        /\ erase'.total = erase.total
        /\ erase'.addr = erase.addr + n /\ erase'.remaining = erase.remaining - n
    <3>1. erase.addr + n \in Nat /\ erase.remaining - n \in Nat BY <1>0, <2>1
    <3> QED BY <1>0, <2>1, <3>1 DEF EraseJob
  <2>3. Span(erase.addr, n) \subseteq Writable
    BY <1>0, <1>2, <2>1, SpanInRegion
  <2>4. /\ flash' \in [Addresses -> Content \cup {Foreign}] /\ OutsideUntouched'
        /\ \A a \in Span(erase.addr, n) : a \in Addresses => flash'[a] = Erased
        /\ \A a \in Addresses : a \notin Span(erase.addr, n) => flash'[a] = flash[a]
    BY <1>0, <2>1, <2>3, WipedInside
  <2>5. TypeOK' BY <1>0, <2>1, <2>2, <2>4 DEF IInv, TypeOK
  <2>6. Placed' BY <1>0, <1>2, <2>1, <2>2 DEF IInv, Placed
  <2>7. Wiping'
    <3>1. Policy' # "none" => seen' = <<>> BY <1>0, <2>1 DEF IInv, Wiping, Policy
    <3>2. ASSUME NEW a \in erase'.base..(erase'.addr - 1) PROVE flash'[a] = Erased
      <4>1. a \in Addresses
        <5>1. a \in erase.base..(erase.base + erase.total - 1)
          BY <1>0, <1>2, <2>1, <2>2, <3>2
        <5> QED BY <1>0, <1>2, <2>1, <5>1, RegionIsWritable
      <4>2. CASE a \in Span(erase.addr, n) BY <2>4, <4>1, <4>2
      <4>3. CASE a \notin Span(erase.addr, n)
        <5>1. a \in erase.base..(erase.addr - 1) BY <1>0, <2>1, <2>2, <4>3 DEF Span
        <5> QED BY <2>1, <2>4, <4>1, <4>3, <5>1 DEF IInv, Wiping
      <4> QED BY <4>2, <4>3
    <3> QED BY <3>1, <3>2 DEF Wiping
  <2>8. PolicyToldWithoutUploads' BY <2>1, <2>2 DEF PolicyToldWithoutUploads
  <2> QED BY <1>2, <2>1, <2>4, <2>5, <2>6, <2>7, <2>8, ErasingOK
<1>7. ASSUME NEW n \in Nat, EraseStepFails(n) PROVE IInv'
  <2>1. /\ erase.active /\ flash' = Wiped(erase.addr, erase.remaining, Bad) /\ erase' = NoErase
        /\ policy' = "idle" /\ answer' = "negative"
        /\ UNCHANGED <<t, seen, tester, accepted, patched>>
    BY <1>7 DEF EraseStepFails, NotifyAbort
  <2>2. Span(erase.addr, erase.remaining) \subseteq Writable
    BY <1>0, <1>2, <2>1, SpanInRegion
  <2>3. flash' \in [Addresses -> Content \cup {Foreign}] /\ OutsideUntouched'
    BY <1>0, <2>1, <2>2, WipedInside
  <2>4. TypeOK' BY <1>0, <2>1, <2>3, NoTransferOK DEF IInv, TypeOK
  <2>5. Placed' BY <2>1, NoTransferOK DEF IInv, Placed
  <2>6. Wiping' /\ PolicyToldWithoutUploads'
    BY <2>1, NoTransferOK DEF Wiping, PolicyToldWithoutUploads
  <2> QED BY <1>2, <2>1, <2>3, <2>4, <2>5, <2>6, ErasingOK
<1> QED BY <1>1, <1>3, <1>4, <1>5, <1>6, <1>7

-----------------------------------------------------------------------------
(* The steps outside of a transfer. *)

\* Only the answer, or the policy without a download.
LEMMA NothingOK ==
    ASSUME IInv, answer' \in {"none", "positive", "negative"},
           UNCHANGED <<config, t, erase, flash, seen, tester, accepted, patched>>,
           \/ policy' = policy
           \/ policy' = "idle" /\ t.state # "DOWNLOAD"
    PROVE IInv'
<1>1. TypeOK' BY DEF IInv, TypeOK
<1>2. /\ OutsideUntouched' /\ Placed' /\ Buffered' /\ Written' /\ Wiping' /\ ReadFaithful'
      /\ Unharmed' /\ Accepted'
  BY DEF IInv, OutsideUntouched, Placed, Buffered, Written, Wiping, ReadFaithful, Unharmed,
         Accepted, AcceptedIsImage, Readback, Policy
<1>3. InStep' /\ UploadInStep' /\ UploadFaithful'
  BY DEF IInv, InStep, TesterInStep, UploadInStep, UploadFaithful
<1>4. ToldOf'
  BY DEF IInv, ToldOf, PolicySeesAll, PolicyToldWithoutUploads, Policy, ReadCb
<1> QED BY <1>1, <1>2, <1>3, <1>4 DEF IInv

\* 0x35 begins an upload.
LEMMA RequestUploadOK ==
    ASSUME IInv, NEW ask \in Asked, NEW lost \in BOOLEAN, RequestUpload(ask, lost)
    PROVE IInv'
<1>1. /\ ask.address \in Nat /\ ask.size \in Nat /\ InRegion(ask.address, ask.size)
      /\ t' = NewTransfer("UPLOAD", ask.address, ask.size) /\ answer' = "positive"
      /\ tester' = IF lost THEN NoTester ELSE NewTester("upload", ask.address, ask.size)
      /\ patched' = {} /\ ReadCb /\ ~erase.active
      /\ UNCHANGED <<config, erase, flash, policy, seen, accepted>>
  BY RangeCheck DEF RequestUpload, Requests
<1>2. /\ t' \in Transfer /\ t'.state = "UPLOAD" /\ t'.base = ask.address /\ t'.addr = ask.address
      /\ t'.total = ask.size /\ t'.remaining = ask.size /\ t'.seq = 1 /\ t'.last.seq = -1
      /\ t'.buf = <<>> /\ t'.crc = <<>>
  BY <1>1, NewTransferOK
<1>3. /\ tester' \in Tester /\ tester'.doing \in {"nothing", "upload"}
      /\ tester'.doing = "upload" => /\ tester'.base = ask.address /\ tester'.size = ask.size
                                     /\ tester'.seq = 1 /\ tester'.got = <<>>
  BY <1>1, NoTransferOK, NewTesterOK
<1>4. TypeOK' BY <1>1, <1>2, <1>3 DEF IInv, TypeOK
<1>5. /\ Buffered' /\ Written' /\ ReadFaithful' /\ Unharmed' /\ PolicySeesAll' /\ TesterInStep'
  BY <1>2, NoDownload
<1>6. OutsideUntouched' BY <1>1 DEF IInv, OutsideUntouched
<1>7. Placed' /\ Wiping' BY <1>1, <1>2 DEF Placed, Wiping
<1>8. InStep' BY <1>1, <1>2, <1>3, <1>5 DEF InStep
<1>9. UploadInStep' BY <1>1, <1>2, <1>3, EmptySeq DEF UploadInStep
<1>10. UploadFaithful' BY <1>3, EmptySeq DEF UploadFaithful
<1>11. Accepted' BY <1>1, <1>2 DEF IInv, Accepted, AcceptedIsImage, Readback
<1>12. ToldOf' BY <1>1, <1>5 DEF ToldOf, PolicyToldWithoutUploads, ReadCb
<1> QED BY <1>4, <1>5, <1>6, <1>7, <1>8, <1>9, <1>10, <1>11, <1>12 DEF IInv

\* Where a transfer has its addresses.
LEMMA TransferInside ==
    ASSUME IInv, t.state # "IDLE"
    PROVE /\ t.base \in Nat /\ t.total \in Nat /\ t.remaining \in Nat /\ t.addr \in Nat
          /\ InRegion(t.base, t.total) /\ t.remaining <= t.total
          /\ t.base <= t.addr /\ t.addr <= t.base + t.total
          /\ \A a \in t.base..(t.base + t.total - 1) : a \in Addresses /\ a \in Writable
          /\ Len(t.crc) \in Nat /\ Len(t.buf) \in Nat
          /\ t.buf \in Seq(Content) /\ t.crc \in Seq(Content) /\ t.readback \in Seq(Content)
          /\ t.last.data \in Seq(Content)
<1>1. /\ t.base \in Nat /\ t.total \in Nat /\ t.remaining \in Nat /\ t.addr \in Nat
      /\ t.buf \in Seq(Content) /\ t.crc \in Seq(Content) /\ t.readback \in Seq(Content)
      /\ t.state \in {"DOWNLOAD", "UPLOAD"} /\ t.last.data \in Seq(Content)
  BY DEF IInv, TypeOK, Transfer
<1>2. Len(t.crc) \in Nat /\ Len(t.buf) \in Nat BY <1>1, LenProperties
<1>3. InRegion(t.base, t.total) /\ t.remaining <= t.total BY DEF IInv, Placed
<1>4. \A a \in t.base..(t.base + t.total - 1) : a \in Addresses /\ a \in Writable
  BY <1>1, <1>3, RegionIsWritable
<1>5. t.base <= t.addr /\ t.addr <= t.base + t.total
  <2>1. CASE t.state = "DOWNLOAD" BY <1>1, <1>2, <1>3, <2>1, SMTT(40) DEF IInv, Buffered
  <2>2. CASE t.state = "UPLOAD" BY <1>1, <1>3, <2>2 DEF IInv, UploadInStep
  <2> QED BY <1>1, <2>1, <2>2
<1> QED BY <1>1, <1>2, <1>3, <1>4, <1>5

LEMMA Offset ==
    ASSUME NEW b \in Nat, NEW n \in Nat, NEW g \in Nat, NEW l \in Nat, NEW i \in 1..l,
           b + g + l <= b + n
    PROVE b + g + i - 1 \in b..(b + n - 1)
OBVIOUS

\* 0x3D writes into the region.
LEMMA MemoryOK ==
    ASSUME IInv, NEW ask \in Asked, MemoryWritten(ask),
           answer' \in {"none", "positive", "negative"}
    PROVE IInv'
<1>1. /\ ask.address \in Nat /\ ask.size \in Nat /\ InRegion(ask.address, ask.size)
      /\ flash' = Wiped(ask.address, ask.size, Bad) /\ accepted' = NoneAccepted /\ ~erase.active
      /\ patched' = patched \cup Span(ask.address, ask.size)
      /\ UNCHANGED <<config, t, erase, policy, seen, tester>>
  BY RangeCheck DEF MemoryWritten, Requests
<1>2. /\ Span(ask.address, ask.size) \subseteq Writable
      /\ Span(ask.address, ask.size) \subseteq Addresses
  BY <1>1, SpanInRegion
<1>3. /\ flash' \in [Addresses -> Content \cup {Foreign}] /\ OutsideUntouched'
      /\ \A a \in Addresses : flash'[a] = flash[a] \/ a \in patched'
  <2>1. flash \in [Addresses -> Content \cup {Foreign}] /\ OutsideUntouched
    BY DEF IInv, TypeOK
  <2> QED BY <1>1, <1>2, <2>1, WipedInside
<1>4. patched \subseteq patched' BY <1>1
<1>5. TypeOK' BY <1>1, <1>2, <1>3, NoTransferOK DEF IInv, TypeOK
<1>6. Placed' /\ Buffered' /\ ReadFaithful' /\ Unharmed' /\ InStep' /\ Wiping'
  BY <1>1 DEF IInv, Placed, Buffered, ReadFaithful, Unharmed, InStep, TesterInStep, Wiping, Readback
<1>7. Written'
  <2>1. SUFFICES ASSUME t.state = "DOWNLOAD" PROVE Written'
    BY <1>1 DEF Written
  <2>2. \A a \in t.base..(t.base + t.total - 1) : flash'[a] = flash[a] \/ a \in patched'
    BY <1>3, <2>1, TransferInside
  <2>3. t.base..(t.addr - 1) \subseteq t.base..(t.base + t.total - 1)
        /\ t.addr..(t.base + t.total - 1) \subseteq t.base..(t.base + t.total - 1)
    BY <2>1, TransferInside, SMTT(40)
  <2>4. Readback' = Readback BY <1>1 DEF Readback
  <2> QED BY <1>1, <1>4, <2>1, <2>2, <2>3, <2>4 DEF IInv, Written
<1>8. UploadFaithful'
  <2>1. SUFFICES ASSUME tester.doing = "upload", NEW i \in DOMAIN tester.got
                 PROVE \/ tester.got[i] = flash'[tester.base + i - 1]
                       \/ tester.base + i - 1 \in patched'
    BY <1>1 DEF UploadFaithful
  <2>2. tester.base + i - 1 \in Addresses
    <3>1. /\ tester.base \in Nat /\ tester.size \in Nat /\ tester.got \in Seq(Content)
      BY DEF IInv, TypeOK, Tester
    <3>2. i \in 1..Len(tester.got) /\ Len(tester.got) \in Nat BY <2>1, <3>1, LenProperties
    <3>3. Len(tester.got) <= tester.size /\ InRegion(tester.base, tester.size)
      BY <2>1 DEF IInv, UploadInStep
    <3> QED BY <3>1, <3>2, <3>3, Constants DEF InRegion, Addresses
  <2> QED BY <1>3, <1>4, <2>1, <2>2 DEF IInv, UploadFaithful
<1>9. UploadInStep'
  <2>1. SUFFICES ASSUME t.state = "UPLOAD", tester.doing = "upload",
                        t.addr = t.base + Len(tester.got) + Len(t.last.data),
                        NEW i \in 1..Len(t.last.data),
                        LET a == t.base + Len(tester.got) + i - 1
                        IN t.last.data[i] = flash[a] \/ a \in patched
                 PROVE LET a == t.base + Len(tester.got) + i - 1
                       IN t.last.data[i] = flash'[a] \/ a \in patched'
    BY <1>1 DEF IInv, UploadInStep
  <2>2. tester.got \in Seq(Content) /\ Len(tester.got) \in Nat /\ Len(t.last.data) \in Nat
    <3>1. tester.got \in Seq(Content) /\ t.last.data \in Seq(Content)
      BY DEF IInv, TypeOK, Tester, Transfer
    <3> QED BY <3>1, LenProperties
  <2>3. /\ t.base \in Nat /\ t.total \in Nat /\ t.addr \in Nat /\ t.addr <= t.base + t.total
        /\ \A a \in t.base..(t.base + t.total - 1) : a \in Addresses
    BY <2>1, TransferInside
  <2>4. t.base + Len(tester.got) + i - 1 \in Addresses
    <3>1. t.addr = t.base + Len(tester.got) + Len(t.last.data) /\ i \in 1..Len(t.last.data)
      BY <2>1, Zenon
    <3>2. t.base + Len(tester.got) + i - 1 \in t.base..(t.base + t.total - 1)
      BY <2>2, <2>3, <3>1, Offset
    <3> QED BY <2>3, <3>2
  <2> QED BY <1>3, <1>4, <2>1, <2>4
<1>10. Accepted' BY <1>1, NoTransferOK, NothingAccepted
<1>11. ToldOf' BY <1>1 DEF IInv, ToldOf, PolicySeesAll, PolicyToldWithoutUploads, Policy, ReadCb
<1> QED BY <1>3, <1>5, <1>6, <1>7, <1>8, <1>9, <1>10, <1>11 DEF IInv

\* A transfer is given up: whatever its last step left in its region, the tester
\* has no upload from it any more, or nothing was written.
LEMMA EndsOK ==
    ASSUME IInv, TypeOK', OutsideUntouched', t' = NoTransfer, ~erase'.active,
           policy' = "idle" \/ PolicyToldWithoutUploads', UploadFaithful', Accepted',
           tester'.doing = "upload" =>
              tester'.base = tester.base /\ tester'.size = tester.size
              /\ tester'.got = tester.got /\ tester.doing = "upload"
    PROVE IInv'
<1>1. t'.state = "IDLE" BY NoTransferOK
<1>2. /\ Buffered' /\ Written' /\ ReadFaithful' /\ Unharmed' /\ PolicySeesAll' /\ TesterInStep'
  BY <1>1, NoDownload
<1>3. Placed' /\ Wiping' BY <1>1 DEF Placed, Wiping
<1>4. InStep' BY <1>1, <1>2 DEF InStep
<1>5. UploadInStep' BY <1>1 DEF IInv, UploadInStep
<1>6. ToldOf' BY <1>2 DEF ToldOf, PolicyToldWithoutUploads
<1> QED BY <1>2, <1>3, <1>4, <1>5, <1>6 DEF IInv

\* The session ends.
LEMMA SessionEndsOK ==
    ASSUME IInv, NEW known \in BOOLEAN, SessionEnds(known)
    PROVE IInv'
<1>1. /\ t' = NoTransfer /\ erase' = NoErase /\ policy' = "idle" /\ answer' = "none"
      /\ tester' = IF known THEN NoTester ELSE tester
      /\ UNCHANGED <<config, flash, seen, accepted, patched>>
  BY DEF SessionEnds, NotifyAbort
<1>2. TypeOK' BY <1>1, NoTransferOK DEF IInv, TypeOK
<1>3. OutsideUntouched' BY <1>1 DEF IInv, OutsideUntouched
<1>4. UploadFaithful' BY <1>1, NoTransferOK DEF IInv, UploadFaithful
<1>5. Accepted' BY <1>1, NoTransferOK DEF IInv, Accepted, AcceptedIsImage, Readback
<1> QED BY <1>1, <1>2, <1>3, <1>4, <1>5, NoTransferOK, EndsOK

-----------------------------------------------------------------------------
(* The blocks of a download. *)

Received(data) == t.crc \o data

\* A running download in numbers.
LEMMA Running ==
    ASSUME IInv, t.state = "DOWNLOAD"
    PROVE /\ t \in Transfer /\ t.base \in Nat /\ t.total \in Nat /\ t.remaining \in Nat
          /\ t.addr \in Nat /\ t.base <= t.addr /\ t.remaining <= t.total
          /\ t.buf \in Seq(Content) /\ t.crc \in Seq(Content) /\ t.readback \in Seq(Content)
          /\ Len(t.buf) \in Nat /\ Len(t.crc) \in Nat /\ Len(t.buf) < Capacity
          /\ Len(t.crc) = t.total - t.remaining /\ t.addr + Len(t.buf) = t.base + Len(t.crc)
          /\ Len(t.crc) = t.addr + Len(t.buf) - t.base
          /\ \A i \in 1..Len(t.buf) : t.buf[i] = t.crc[t.addr - t.base + i]
<1>1. t \in Transfer BY DEF IInv, TypeOK
<1>2. /\ t.base \in Nat /\ t.addr \in Nat /\ Len(t.buf) \in Nat /\ Len(t.crc) \in Nat
      /\ t.addr + Len(t.buf) = t.base + Len(t.crc)
  BY TransferInside DEF IInv, Buffered
<1>3. Len(t.crc) = t.addr + Len(t.buf) - t.base BY <1>2
<1> QED BY <1>1, <1>3, TransferInside DEF IInv, Buffered

\* The buffer stays the end of what has been received.
LEMMA Receiving ==
    ASSUME IInv, t.state = "DOWNLOAD", NEW data \in Seq(Content), Len(data) <= Capacity
    PROVE /\ Received(data) \in Seq(Content) /\ Len(data) \in Nat
          /\ Len(Received(data)) = Len(t.crc) + Len(data)
          /\ \A i \in 1..Len(t.crc) : Received(data)[i] = t.crc[i]
          /\ \A i \in 1..Len(data) : Received(data)[Len(t.crc) + i] = data[i]
          /\ \A i \in 1..Len(Whole(data)) :
                Whole(data)[i] = Received(data)[t.addr - t.base + i]
<1>0. /\ t.base \in Nat /\ t.addr \in Nat /\ t.base <= t.addr
      /\ Len(t.buf) \in Nat /\ Len(t.crc) \in Nat /\ Len(t.crc) = t.addr + Len(t.buf) - t.base
      /\ \A i \in 1..Len(t.buf) : t.buf[i] = t.crc[t.addr - t.base + i]
  BY Running
<1>1. Len(data) \in Nat BY LenProperties
<1>2. /\ Received(data) \in Seq(Content) /\ Len(Received(data)) = Len(t.crc) + Len(data)
      /\ \A i \in 1..(Len(t.crc) + Len(data)) :
            Received(data)[i] = IF i <= Len(t.crc) THEN t.crc[i] ELSE data[i - Len(t.crc)]
  BY Running, ConcatProperties DEF Received
<1>3. ASSUME NEW i \in 1..Len(t.crc) PROVE Received(data)[i] = t.crc[i]
  <2>1. i \in 1..(Len(t.crc) + Len(data)) /\ i <= Len(t.crc) BY <1>0, <1>1
  <2> QED BY <1>2, <2>1
<1>4. ASSUME NEW i \in 1..Len(data) PROVE Received(data)[Len(t.crc) + i] = data[i]
  <2> DEFINE j == Len(t.crc) + i
  <2>0. Len(t.crc) \in Nat /\ Len(data) \in Nat BY <1>0, <1>1
  <2>1. j \in 1..(Len(t.crc) + Len(data)) /\ ~(j <= Len(t.crc)) /\ j - Len(t.crc) = i
    BY <2>0
  <2> HIDE DEF j
  <2>2. Received(data)[j] = data[i] BY <1>2, <2>1
  <2> QED BY <2>2 DEF j
<1>5. ASSUME NEW i \in 1..Len(Whole(data))
      PROVE Whole(data)[i] = Received(data)[t.addr - t.base + i]
  <2>0. /\ Len(Whole(data)) = Len(t.buf) + Len(data)
        /\ Whole(data)[i] = IF i <= Len(t.buf) THEN t.buf[i] ELSE data[i - Len(t.buf)]
    BY Running, Buffering
  <2>i. i \in 1..(Len(t.buf) + Len(data)) BY <2>0
  <2>n. /\ t.base \in Nat /\ t.addr \in Nat /\ t.base <= t.addr /\ Len(data) \in Nat
        /\ Len(t.buf) \in Nat /\ Len(t.crc) \in Nat
        /\ Len(t.crc) = t.addr + Len(t.buf) - t.base
    BY <1>0, <1>1
  <2> DEFINE j == t.addr - t.base + i
             k == i - Len(t.buf)
  <2>1. CASE i <= Len(t.buf)
    <3>1. i \in 1..Len(t.buf) /\ j \in 1..Len(t.crc)
      BY <2>i, <2>n, <2>1
    <3>2. t.buf[i] = t.crc[j] BY <1>0, <3>1
    <3> HIDE DEF j
    <3>3. Received(data)[j] = t.crc[j] BY <1>3, <3>1
    <3>4. Whole(data)[i] = Received(data)[j] BY <2>0, <2>1, <3>2, <3>3
    <3> QED BY <3>4 DEF j
  <2>2. CASE ~(i <= Len(t.buf))
    <3>1. k \in 1..Len(data) /\ Len(t.crc) + k = j
      <4>1. Len(t.buf) < i BY <2>i, <2>n, <2>2
      <4>2. k \in 1..Len(data) BY <2>i, <2>n, <4>1
      <4>3. i \in Int BY <2>i, <2>n
      <4>4. Len(t.crc) + k = j BY <2>n, <4>3
      <4> QED BY <4>2, <4>4
    <3>2. Whole(data)[i] = data[k] BY <2>0, <2>2
    <3> HIDE DEF j, k
    <3>3. Received(data)[j] = data[k] BY <1>4, <3>1
    <3> QED BY <3>2, <3>3 DEF j
  <2> QED BY <2>1, <2>2
<1> QED BY <1>1, <1>2, <1>3, <1>4, <1>5

\* Writing a payload behind what is written: with a readback, or without
\* faults, it is then in flash.  Used for a full buffer and for the last one.
LEMMA WritingOK ==
    ASSUME IInv, t.state = "DOWNLOAD", NEW data \in Seq(Content), NEW len \in Nat,
           Len(data) = len, t.addr + len <= t.base + t.total,
           NEW outcome \in WriteOutcomes,
           FlushOk(data, outcome), flash' = Programmed(t.addr, data, outcome)
    PROVE /\ \A a \in t.base..(t.base + t.total - 1) :
                a \notin t.addr..(t.addr + len - 1) => flash'[a] = flash[a]
          /\ Readback \/ ~FlashFaults =>
                \A i \in 1..len : t.addr + i - 1 \in patched \/ flash'[t.addr + i - 1] = data[i]
<1>0. /\ t.base \in Nat /\ t.total \in Nat /\ t.addr \in Nat /\ t.base <= t.addr
      /\ \A a \in t.base..(t.base + t.total - 1) : a \in Addresses /\ a \in Writable
  BY TransferInside, Running
<1>1. Span(t.addr, len) = t.addr..(t.addr + len - 1) BY DEF Span
<1>2. \A a \in Span(t.addr, len) : a \in t.base..(t.base + t.total - 1)
  BY <1>0 DEF Span
<1>3. /\ \A a \in Addresses : a \notin Span(t.addr, len) => flash'[a] = flash[a]
      /\ \A a \in Addresses : a \in Span(t.addr, len) =>
            (outcome = "good" /\ flash[a] = Erased => flash'[a] = data[a - t.addr + 1])
  <2>1. flash \in [Addresses -> Content \cup {Foreign}] /\ OutsideUntouched
    BY DEF IInv, TypeOK
  <2>2. Span(t.addr, Len(data)) \subseteq Writable BY <1>0, <1>2
  <2> QED BY <1>0, <2>1, <2>2, ProgrammedInside, Zenon
<1>4. ASSUME Readback \/ ~FlashFaults, NEW i \in 1..len
      PROVE t.addr + i - 1 \in patched \/ flash'[t.addr + i - 1] = data[i]
  <2> DEFINE j == t.addr + i - 1
  <2>1. /\ j \in Span(t.addr, len) /\ j - t.addr + 1 = i /\ t.addr + i - 1 = j
        /\ j \in t.addr..(t.base + t.total - 1) /\ j \in t.base..(t.base + t.total - 1)
    BY <1>0, SMTT(40) DEF Span
  <2> HIDE DEF j
  <2>2. CASE Readback
    <3>1. data # <<>> BY <1>4, EmptySeq
    <3> QED BY <1>4, <2>2, <3>1 DEF FlushOk
  <2>3. CASE ~FlashFaults
    <3>1. outcome = "good" BY <2>3 DEF WriteOutcomes
    <3>2. j \in patched \/ flash[j] = Erased BY <2>1, <2>3 DEF IInv, Written
    <3>3. j \in Addresses BY <1>0, <2>1
    <3>4. flash[j] = Erased => flash'[j] = data[i] BY <1>3, <2>1, <3>1, <3>3
    <3> QED BY <2>1, <3>2, <3>4
  <2> QED BY <1>4, <2>2, <2>3
<1>5. ASSUME NEW a \in t.base..(t.base + t.total - 1), a \notin t.addr..(t.addr + len - 1)
      PROVE flash'[a] = flash[a]
  BY <1>0, <1>1, <1>3, <1>5
<1> QED BY <1>4, <1>5

\* The context after a block.
LEMMA ProgressFields ==
    ASSUME IInv, t.state = "DOWNLOAD", NEW seq \in Counters, NEW data \in Seq(Content),
           InTurn(seq, data), t' = Progress(seq, data)
    PROVE /\ t' \in Transfer /\ t'.state = "DOWNLOAD" /\ t'.base = t.base /\ t'.total = t.total
          /\ Len(data) \in Nat /\ Len(data) <= t.remaining /\ t'.remaining = t.remaining - Len(data)
          /\ seq = t.seq /\ t'.seq = NextSeq(t.seq) /\ t'.last.seq = t.seq
          /\ t'.crc = Received(data) /\ t'.buf = Rest(data)
          /\ t'.addr = (IF Full(data) THEN t.addr + Capacity ELSE t.addr)
          /\ t'.readback = (IF Full(data) THEN ReadBack(Chunk(data)) ELSE t.readback)
<1> DEFINE remaining == t.remaining - Len(data)
           next == NextSeq(t.seq)
           last == [seq |-> seq, data |-> <<>>]
           buf == Rest(data)
           crc == Received(data)
           addr == IF Full(data) THEN t.addr + Capacity ELSE t.addr
           readback == IF Full(data) THEN ReadBack(Chunk(data)) ELSE t.readback
<1>1. Len(data) <= Capacity /\ Len(data) <= t.remaining /\ seq = t.seq BY DEF InTurn
<1>2. t \in Transfer /\ t.addr \in Nat /\ t.remaining \in Nat /\ t.readback \in Seq(Content)
  BY Running
<1>3. Len(data) \in Nat /\ remaining \in Nat /\ crc \in Seq(Content)
  BY <1>1, <1>2, Receiving
<1>4. buf \in Seq(Content) /\ (Full(data) => Chunk(data) \in Seq(Content))
  BY <1>1, Running, Buffering
<1>5. addr \in Nat BY <1>2, Constants
<1>6. readback \in Seq(Content)
  <2>1. CASE Full(data) /\ Readback
    <3>1. t.readback \o Chunk(data) \in Seq(Content) BY <1>2, <1>4, <2>1, ConcatProperties
    <3> QED BY <2>1, <3>1 DEF ReadBack
  <2>2. CASE Full(data) /\ ~Readback BY <1>2, <2>2 DEF ReadBack
  <2>3. CASE ~Full(data) BY <1>2, <2>3
  <2> QED BY <2>1, <2>2, <2>3
<1>7. next \in Counters BY <1>1, NextCounter
<1>8. last \in [seq : Counters \cup {-1}, data : Seq(Content)] /\ last.seq = seq
  BY EmptySeq
<1>9. t' = [t EXCEPT !.remaining = remaining, !.seq = next, !.last = last, !.buf = buf,
                     !.crc = crc, !.addr = addr, !.readback = readback]
  BY DEF Progress, Received
<1> HIDE DEF remaining, next, last, buf, crc, addr, readback
<1>t. t \in Transfer /\ remaining \in Nat /\ buf \in Seq(Content)
  BY <1>2, <1>3, <1>4
<1>10. /\ t' \in Transfer /\ t'.state = t.state /\ t'.base = t.base /\ t'.total = t.total
       /\ t'.remaining = remaining /\ t'.seq = next /\ t'.last = last /\ t'.buf = buf
       /\ t'.crc = crc /\ t'.addr = addr /\ t'.readback = readback
  <2>1. ASSUME NEW y, y = [t EXCEPT !.remaining = remaining, !.seq = next, !.last = last, !.buf = buf,
                                    !.crc = crc, !.addr = addr, !.readback = readback]
        PROVE /\ y \in Transfer /\ y.state = t.state /\ y.base = t.base /\ y.total = t.total
              /\ y.remaining = remaining /\ y.seq = next /\ y.last = last /\ y.buf = buf
              /\ y.crc = crc /\ y.addr = addr /\ y.readback = readback
    BY <1>t, <1>3, <1>5, <1>6, <1>7, <1>8, <2>1 DEF Transfer
  <2> QED BY <1>9, <2>1, Zenon
<1> QED BY <1>1, <1>3, <1>8, <1>10 DEF remaining, next, buf, crc, addr, readback

\* What it writes lies in the region.
LEMMA ChunkInside ==
    ASSUME IInv, t.state = "DOWNLOAD", NEW data \in Seq(Content), Len(data) <= Capacity,
           Len(data) <= t.remaining, Full(data)
    PROVE /\ t.addr + Capacity <= t.base + t.total
          /\ Chunk(data) \in Seq(Content) /\ Len(Chunk(data)) = Capacity
          /\ Span(t.addr, Len(Chunk(data))) \subseteq Writable
          /\ \A i \in 1..Capacity : Chunk(data)[i] = Received(data)[t.addr - t.base + i]
<1>1. /\ Len(Whole(data)) = Len(t.buf) + Len(data) /\ Len(Whole(data)) >= Capacity
      /\ Chunk(data) \in Seq(Content) /\ Len(Chunk(data)) = Capacity
      /\ \A i \in 1..Capacity : Chunk(data)[i] = Whole(data)[i]
  BY Running, Buffering DEF Full, Whole
<1>2. /\ t.addr \in Nat /\ t.base \in Nat /\ t.total \in Nat /\ t.remaining \in Nat
      /\ t.base <= t.addr /\ Len(t.buf) \in Nat /\ Len(t.crc) \in Nat
      /\ Len(t.crc) = t.total - t.remaining /\ t.addr + Len(t.buf) = t.base + Len(t.crc)
  BY Running
<1>3. Len(data) \in Nat BY LenProperties
<1>4. t.addr + Capacity <= t.base + t.total
  <2>1. Capacity <= Len(t.buf) + Len(data) BY <1>1, <1>2, <1>3, Constants
  <2>2. t.addr + Len(t.buf) + t.remaining = t.base + t.total BY <1>2
  <2> QED BY <1>2, <1>3, <2>1, <2>2, Constants
<1>5. Span(t.addr, Len(Chunk(data))) \subseteq Writable
  BY <1>1, <1>2, <1>4, Constants, SpanInRegion, TransferInside
<1>6. ASSUME NEW i \in 1..Capacity
      PROVE Chunk(data)[i] = Received(data)[t.addr - t.base + i]
  <2>1. i \in 1..Len(Whole(data)) BY <1>1, <1>2, <1>3, Constants
  <2>2. Whole(data)[i] = Received(data)[t.addr - t.base + i] BY <2>1, Receiving
  <2> QED BY <1>1, <2>2
<1> QED BY <1>1, <1>4, <1>5, <1>6

\* What may come as a block.
IsBlock(seq, data) == seq \in Counters /\ data \in Seq(Content)

\* A block that is taken.
LEMMA TakenOK ==
    ASSUME IInv, NEW seq, NEW data, IsBlock(seq, data), BlockTaken(seq, data),
           UNCHANGED <<config, erase, accepted, patched>>
    PROVE /\ flash' \in [Addresses -> Content \cup {Foreign}] /\ OutsideUntouched'
          /\ Placed' /\ Buffered' /\ Written' /\ Wiping' /\ ReadFaithful' /\ ToldOf'
          /\ policy' = policy /\ seen' \in Seq(Content) /\ answer' = "positive"
          /\ t.state = "DOWNLOAD" /\ ~erase.active /\ InTurn(seq, data) /\ t' = Progress(seq, data)
<1>0. seq \in Counters /\ data \in Seq(Content) BY DEF IsBlock
<1>1. /\ t.state = "DOWNLOAD" /\ ~erase.active /\ InTurn(seq, data) /\ t' = Progress(seq, data)
      /\ seen' = (IF Policy # "none" THEN seen \o data ELSE seen)
      /\ answer' = "positive" /\ policy' = policy /\ Len(data) <= Capacity /\ Len(data) <= t.remaining
  BY DEF BlockTaken, Downloading, Requests, InTurn
<1>2. /\ t'.state = "DOWNLOAD" /\ t'.base = t.base /\ t'.total = t.total
      /\ Len(data) \in Nat /\ Len(data) <= t.remaining /\ t'.remaining = t.remaining - Len(data)
      /\ t'.crc = Received(data) /\ t'.buf = Rest(data)
      /\ t'.addr = (IF Full(data) THEN t.addr + Capacity ELSE t.addr)
      /\ t'.readback = (IF Full(data) THEN ReadBack(Chunk(data)) ELSE t.readback)
  BY <1>0, <1>1, ProgressFields
<1>3. /\ t.base \in Nat /\ t.total \in Nat /\ t.remaining \in Nat /\ t.addr \in Nat
      /\ t.base <= t.addr /\ t.remaining <= t.total
      /\ Len(t.buf) \in Nat /\ Len(t.crc) \in Nat
      /\ Len(t.crc) = t.total - t.remaining /\ t.addr + Len(t.buf) = t.base + Len(t.crc)
      /\ t.readback \in Seq(Content)
  BY <1>1, Running
<1>n. /\ t.base \in Nat /\ t.addr \in Nat /\ t.base <= t.addr
      /\ Len(t.buf) \in Nat /\ Len(t.crc) \in Nat /\ Len(data) \in Nat
      /\ Len(t.crc) = t.addr + Len(t.buf) - t.base
  BY <1>1, <1>2, Running
<1>4. /\ Len(Received(data)) = Len(t.crc) + Len(data)
      /\ Len(Whole(data)) = Len(t.buf) + Len(data)
      /\ Len(Rest(data)) < Capacity
      /\ ~Full(data) => Rest(data) = Whole(data)
      /\ Full(data) => Len(Rest(data)) = Len(Whole(data)) - Capacity
  BY <1>0, <1>1, Running, Receiving, Buffering
<1>5. /\ \A i \in 1..Len(t.crc) : Received(data)[i] = t.crc[i]
      /\ \A i \in 1..Len(Whole(data)) : Whole(data)[i] = Received(data)[t.addr - t.base + i]
  BY <1>0, <1>1, Receiving
<1>6. flash \in [Addresses -> Content \cup {Foreign}] /\ OutsideUntouched
  BY DEF IInv, TypeOK
<1>7. Placed'
  <2>1. t'.remaining <= t'.total BY <1>2, <1>3
  <2> QED BY <1>1, <1>2, <2>1 DEF IInv, Placed
<1>8. Wiping' BY <1>1 DEF Wiping
<1>9. ToldOf' /\ seen' \in Seq(Content)
  <2>0. seen \in Seq(Content) /\ Policy' = Policy /\ ReadCb' = ReadCb
    BY DEF IInv, TypeOK, Policy, ReadCb
  <2>1. seen' \in Seq(Content) BY <1>0, <1>1, <2>0, ConcatProperties
  <2>2. PolicySeesAll'
    <3>1. Policy # "none" => seen' = Received(data)
      BY <1>1 DEF IInv, ToldOf, PolicySeesAll, Received
    <3>2. Len(Received(data)) = t.total - (t.remaining - Len(data)) BY <1>2, <1>3, <1>4
    <3> QED BY <1>2, <2>0, <3>1, <3>2 DEF PolicySeesAll
  <2>3. PolicyToldWithoutUploads' BY <1>2 DEF PolicyToldWithoutUploads
  <2> QED BY <2>1, <2>2, <2>3 DEF ToldOf
<1>10. CASE ~Full(data)
  <2>1. flash' = flash BY <1>1, <1>10 DEF BlockTaken
  <2>2. t'.addr = t.addr /\ t'.buf = Whole(data) /\ t'.readback = t.readback BY <1>2, <1>4, <1>10
  <2>3. Buffered'
    <3>1. /\ Len(t'.crc) = t'.total - t'.remaining /\ Len(t'.buf) < Capacity /\ t'.base <= t'.addr
          /\ t'.addr + Len(t'.buf) = t'.base + Len(t'.crc)
      <4>1. Len(t'.crc) = t'.total - t'.remaining BY <1>2, <1>3, <1>4
      <4>2. t'.addr + Len(t'.buf) = t'.base + Len(t'.crc)
        <5>1. /\ Len(t'.buf) = Len(t.buf) + Len(data) /\ Len(t'.crc) = Len(t.crc) + Len(data)
              /\ t'.addr = t.addr /\ t'.base = t.base
          BY <1>2, <1>4, <2>2, Zenon
        <5>2. t.addr + (Len(t.buf) + Len(data)) = t.base + (Len(t.crc) + Len(data))
          BY <1>n
        <5> QED BY <5>1, <5>2, Zenon
      <4> QED BY <1>2, <1>4, <1>n, <2>2, <4>1, <4>2, Zenon
    <3>2. \A i \in 1..Len(t'.buf) : t'.buf[i] = t'.crc[t'.addr - t'.base + i]
      BY <1>2, <1>5, <2>2
    <3> QED BY <3>1, <3>2 DEF Buffered
  <2>4. Written'
    <3>0. Readback' = Readback BY DEF Readback
    <3>1. ASSUME Readback \/ ~FlashFaults, NEW a, a \in t.base..(t.addr - 1)
          PROVE a \in patched \/ flash[a] = Received(data)[a - t.base + 1]
      <4>1. a \in patched \/ flash[a] = t.crc[a - t.base + 1]
        BY <1>1, <3>1 DEF IInv, Written
      <4>2. a - t.base + 1 \in 1..Len(t.crc) BY <3>1, <1>n, SMTT(40)
      <4> QED BY <1>5, <4>1, <4>2
    <3> QED BY <1>1, <1>2, <2>1, <2>2, <3>0, <3>1 DEF IInv, Written
  <2>5. ReadFaithful'
    <3>0. Readback' = Readback BY DEF Readback
    <3>1. ASSUME Readback, NEW i, i \in 1..Len(t.readback)
          PROVE t.readback[i] = Received(data)[i]
      <4>1. Len(t.readback) = t.addr - t.base /\ t.readback[i] = t.crc[i]
        BY <1>1, <3>1 DEF IInv, ReadFaithful
      <4>2. i \in 1..Len(t.crc) BY <3>1, <1>n, <4>1
      <4> QED BY <1>5, <4>1, <4>2
    <3> QED BY <1>1, <1>2, <2>2, <3>0, <3>1 DEF IInv, ReadFaithful
  <2>6. flash' \in [Addresses -> Content \cup {Foreign}] /\ OutsideUntouched'
    BY <1>6, <2>1 DEF OutsideUntouched
  <2> QED BY <1>1, <1>7, <1>8, <1>9, <2>3, <2>4, <2>5, <2>6
<1>11. CASE Full(data)
  <2>1. PICK outcome \in WriteOutcomes :
          FlushOk(Chunk(data), outcome) /\ flash' = Programmed(t.addr, Chunk(data), outcome)
    BY <1>11 DEF BlockTaken
  <2>2. /\ t.addr + Capacity <= t.base + t.total
        /\ Chunk(data) \in Seq(Content) /\ Len(Chunk(data)) = Capacity
        /\ Span(t.addr, Len(Chunk(data))) \subseteq Writable
        /\ \A i \in 1..Capacity : Chunk(data)[i] = Received(data)[t.addr - t.base + i]
    BY <1>0, <1>1, <1>11, ChunkInside
  <2>3. flash' \in [Addresses -> Content \cup {Foreign}] /\ OutsideUntouched'
    BY <1>6, <1>n, <2>1, <2>2, ProgrammedInside
  <2>4. /\ \A a \in t.base..(t.base + t.total - 1) :
              a \notin t.addr..(t.addr + Capacity - 1) => flash'[a] = flash[a]
        /\ Readback \/ ~FlashFaults =>
              \A i \in 1..Capacity :
                 t.addr + i - 1 \in patched \/ flash'[t.addr + i - 1] = Chunk(data)[i]
    BY <1>1, <2>1, <2>2, WritingOK, Constants
  <2>c. Capacity \in Nat BY Constants
  <2>n. /\ t.base \in Nat /\ t.addr \in Nat /\ t.total \in Nat /\ Capacity \in Nat
        /\ t.base <= t.addr /\ t.addr + Capacity <= t.base + t.total
    BY <1>3, <2>2, Constants
  <2>5. /\ t'.addr = t.addr + Capacity /\ t'.base = t.base /\ t'.total = t.total
        /\ t'.buf = Rest(data) /\ t'.crc = Received(data)
        /\ t'.readback = ReadBack(Chunk(data))
    BY <1>2, <1>11
  <2>6. Buffered'
    <3>1. Len(t'.crc) = t'.total - t'.remaining BY <1>2, <1>3, <1>4
    <3>2. Len(Rest(data)) = Len(t.buf) + Len(data) - Capacity
      <4>1. Len(Rest(data)) = Len(Whole(data)) - Capacity BY <1>4, <1>11
      <4> QED BY <1>4, <1>n, <2>c, <4>1
    <3>3. t'.addr + Len(t'.buf) = t'.base + Len(t'.crc)
      <4>1. /\ Len(t'.buf) = Len(t.buf) + Len(data) - Capacity
            /\ Len(t'.crc) = Len(t.crc) + Len(data)
            /\ t'.addr = t.addr + Capacity /\ t'.base = t.base
        BY <1>2, <1>4, <2>5, <3>2, Zenon
      <4>2. t.addr + Capacity + (Len(t.buf) + Len(data) - Capacity)
              = t.base + (Len(t.crc) + Len(data))
        BY <1>n, <2>c, SMTT(40)
      <4> QED BY <4>1, <4>2, Zenon
    <3>4. t'.base <= t'.addr BY <1>2, <1>n, <2>5, Constants
    <3>5. ASSUME NEW i, i \in 1..Len(Rest(data))
          PROVE Rest(data)[i] = Received(data)[t.addr + Capacity - t.base + i]
      <4>1. Rest(data)[i] = Whole(data)[Capacity + i] BY <3>5, <1>0, <1>1, <1>11, Running, Buffering
      <4>2. Capacity + i \in 1..Len(Whole(data)) BY <3>5, <1>4, <1>n, <3>2, Constants
      <4>3. Whole(data)[Capacity + i] = Received(data)[t.addr - t.base + (Capacity + i)]
        BY <1>5, <4>2
      <4>4. t.addr - t.base + (Capacity + i) = t.addr + Capacity - t.base + i
        BY <3>5, <1>n, Constants
      <4> QED BY <4>1, <4>3, <4>4
    <3>6. \A i \in 1..Len(t'.buf) : t'.buf[i] = t'.crc[t'.addr - t'.base + i]
      <4>1. t'.addr - t'.base = t.addr + Capacity - t.base BY <2>n, <2>5
      <4> QED BY <2>5, <3>5, <4>1, Zenon
    <3> QED BY <1>4, <2>5, <3>1, <3>3, <3>4, <3>6, Zenon DEF Buffered
  <2>7. Written'
    <3>0. Readback' = Readback BY DEF Readback
    <3>1. ASSUME Readback \/ ~FlashFaults, NEW a, a \in t.base..(t.addr + Capacity - 1)
          PROVE a \in patched \/ flash'[a] = Received(data)[a - t.base + 1]
      <4>0. a \in Int /\ Capacity \in Nat BY <3>1, <1>n, Constants
      <4>1. CASE a < t.addr
        <5>1. a \in t.base..(t.addr - 1) BY <1>n, <3>1, <4>0, <4>1
        <5>2. a \in patched \/ flash[a] = t.crc[a - t.base + 1]
          BY <1>1, <3>1, <5>1 DEF IInv, Written
        <5>3. a - t.base + 1 \in 1..Len(t.crc) BY <1>n, <5>1, SMTT(40)
        <5>4. a \in t.base..(t.base + t.total - 1) /\ a \notin t.addr..(t.addr + Capacity - 1)
          BY <2>n, <5>1
        <5> QED BY <1>5, <2>4, <5>2, <5>3, <5>4
      <4>2. CASE ~(a < t.addr)
        <5> DEFINE i == a - t.addr + 1
        <5>1. i \in 1..Capacity /\ t.addr + i - 1 = a /\ t.addr - t.base + i = a - t.base + 1
          BY <2>n, <3>1, <4>2
        <5> HIDE DEF i
        <5>2. a \in patched \/ flash'[a] = Chunk(data)[i] BY <2>4, <3>1, <5>1
        <5>3. Chunk(data)[i] = Received(data)[t.addr - t.base + i] BY <2>2, <5>1
        <5> QED BY <5>1, <5>2, <5>3
      <4> QED BY <4>1, <4>2
    <3>2. ASSUME ~FlashFaults, NEW a, a \in (t.addr + Capacity)..(t.base + t.total - 1)
          PROVE a \in patched \/ flash'[a] = Erased
      <4>1. a \in patched \/ flash[a] = Erased
        <5>1. a \in t.addr..(t.base + t.total - 1) BY <1>3, <3>2, Constants
        <5> QED BY <1>1, <3>2, <5>1 DEF IInv, Written
      <4>2. a \in t.base..(t.base + t.total - 1) /\ a \notin t.addr..(t.addr + Capacity - 1)
        BY <1>3, <3>2, Constants, SMTT(40)
      <4> QED BY <2>4, <4>1, <4>2
    <3> QED BY <2>n, <2>5, <3>0, <3>1, <3>2 DEF Written
  <2>8. ReadFaithful'
    <3>0. Readback' = Readback BY DEF Readback
    <3>1. CASE Readback
      <4>1. /\ Len(t.readback) = t.addr - t.base
            /\ \A i \in 1..Len(t.readback) : t.readback[i] = t.crc[i]
        BY <1>1, <3>1 DEF IInv, ReadFaithful
      <4>2. t'.readback = t.readback \o Chunk(data) BY <2>5, <3>1 DEF ReadBack
      <4>3. /\ Len(t'.readback) = t.addr - t.base + Capacity
            /\ \A i \in 1..(t.addr - t.base + Capacity) :
                  t'.readback[i] = IF i <= t.addr - t.base THEN t.readback[i]
                                   ELSE Chunk(data)[i - (t.addr - t.base)]
        <5>1. t.readback \in Seq(Content) /\ Chunk(data) \in Seq(Content)
          BY <1>3, <2>2
        <5>2. LET both == t.readback \o Chunk(data) IN
              /\ Len(both) = Len(t.readback) + Len(Chunk(data))
              /\ \A i \in 1..(Len(t.readback) + Len(Chunk(data))) :
                    both[i] = IF i <= Len(t.readback) THEN t.readback[i]
                              ELSE Chunk(data)[i - Len(t.readback)]
          BY <1>0, <5>1, ConcatProperties
        <5> QED BY <2>2, <4>1, <4>2, <5>2, Zenon
      <4>4. ASSUME NEW i, i \in 1..(t.addr - t.base + Capacity)
            PROVE t'.readback[i] = Received(data)[i]
        <5>1. CASE i <= t.addr - t.base
          <6>1. i \in 1..(t.addr - t.base) /\ i \in 1..Len(t.crc) BY <4>4, <1>n, <5>1
          <6> QED BY <4>4, <1>5, <4>1, <4>3, <5>1, <6>1
        <5>2. CASE ~(i <= t.addr - t.base)
          <6> DEFINE k == i - (t.addr - t.base)
          <6>1. k \in 1..Capacity /\ t.addr - t.base + k = i BY <4>4, <1>n, <5>2, Constants
          <6>2. t'.readback[i] = Chunk(data)[k] BY <4>4, <4>3, <5>2
          <6> HIDE DEF k
          <6> QED BY <2>2, <6>1, <6>2
        <5> QED BY <5>1, <5>2
      <4>5. t.addr - t.base + Capacity = t.addr + Capacity - t.base BY <1>n, Constants
      <4>6. Len(t'.readback) = t'.addr - t'.base
        <5>1. t'.addr - t'.base = t.addr + Capacity - t.base BY <2>n, <2>5
        <5> QED BY <4>3, <4>5, <5>1, Zenon
      <4>7. \A i \in 1..Len(t'.readback) : t'.readback[i] = t'.crc[i]
        BY <2>5, <4>3, <4>4, Zenon
      <4> QED BY <3>0, <3>1, <4>6, <4>7, Zenon DEF ReadFaithful
    <3>2. CASE ~Readback
      <4>1. t'.readback = <<>>
        BY <1>1, <2>5, <3>2 DEF ReadBack, IInv, ReadFaithful
      <4> QED BY <3>0, <3>2, <4>1 DEF ReadFaithful
    <3> QED BY <3>1, <3>2
  <2> QED BY <1>1, <1>7, <1>8, <1>9, <2>3, <2>6, <2>7, <2>8
<1> QED BY <1>10, <1>11

\* A function on 1..n is a sequence.
LEMMA Explicit ==
    ASSUME NEW S, NEW n \in Nat, NEW f \in [1..n -> S]
    PROVE f \in Seq(S) /\ Len(f) = n
<1>1. f \in Seq(S) OBVIOUS
<1>2. DOMAIN f = 1..n OBVIOUS
<1>3. Len(f) \in Nat /\ DOMAIN f = 1..Len(f) BY <1>1, LenProperties
<1>4. Len(f) = n BY <1>2, <1>3
<1> QED BY <1>1, <1>4

\* What the tester sends, and without noise its image.
LEMMA PayloadsOK ==
    ASSUME IInv, NEW len \in Nat, NEW data \in Payloads(len)
    PROVE /\ data \in Seq(Content) /\ Len(data) = len
          /\ ~Noise => \A i \in 1..len : data[i] = tester.sent + i - 1
<1>1. tester.sent \in Nat BY DEF IInv, TypeOK, Tester
<1>2. Image(tester.sent, len) \in [1..len -> Content]
  <2>1. \A i \in 1..len : tester.sent + i - 1 \in Content BY <1>1 DEF Content
  <2> QED BY <2>1 DEF Image
<1>3. CASE data = Image(tester.sent, len)
  <2>1. \A i \in 1..len : data[i] = tester.sent + i - 1 BY <1>3 DEF Image
  <2> QED BY <1>2, <1>3, <2>1, Explicit
<1>4. CASE Noise /\ data # Image(tester.sent, len)
  <2>1. PICK k \in 1..len :
          data = [i \in 1..len |-> IF i = k THEN Bad ELSE tester.sent + i - 1]
    BY <1>4 DEF Payloads
  <2>2. \A i \in 1..len : (IF i = k THEN Bad ELSE tester.sent + i - 1) \in Content
    BY <1>1 DEF Content
  <2>3. data \in [1..len -> Content] BY <2>1, <2>2
  <2> QED BY <1>4, <2>3, Explicit
<1> QED BY <1>3, <1>4 DEF Payloads

\* The tester after an answer to its block.
LEMMA TesterAfter ==
    ASSUME IInv, NEW len \in Nat, NEW lost \in BOOLEAN, tester.doing = "download",
           tester' = IF lost THEN [tester EXCEPT !.out = len] ELSE Told(len)
    PROVE /\ tester' \in Tester /\ tester'.doing \in {"nothing", "download"}
          /\ lost => /\ tester'.doing = "download" /\ tester'.sent = tester.sent
                     /\ tester'.seq = tester.seq /\ tester'.out = len
          /\ ~lost /\ answer' # "positive" => tester'.doing = "nothing"
          /\ ~lost /\ answer' = "positive" =>
                /\ tester'.doing = "download" /\ tester'.sent = tester.sent + len
                /\ tester'.seq = TesterNext(tester.seq) /\ tester'.out = 0
<1>1. tester \in Tester /\ tester.sent \in Nat /\ tester.seq \in Counters
  BY DEF IInv, TypeOK, Tester
<1>2. TesterNext(tester.seq) \in Counters BY <1>1, NextCounter
<1>3. tester.sent + len \in Nat BY <1>1
<1>4. CASE lost BY <1>1, <1>4 DEF Tester
<1>5. CASE ~lost /\ answer' = "positive"
  <2> DEFINE next == TesterNext(tester.seq)
             sent == tester.sent + len
  <2>1. tester' = [tester EXCEPT !.sent = sent, !.seq = next, !.out = 0] BY <1>5 DEF Told
  <2>2. next \in Counters /\ sent \in Nat BY <1>2, <1>3
  <2> HIDE DEF next, sent
  <2>3. /\ tester' \in Tester /\ tester'.doing = tester.doing
        /\ tester'.sent = sent /\ tester'.seq = next /\ tester'.out = 0
    <3>1. ASSUME NEW y, y = [tester EXCEPT !.sent = sent, !.seq = next, !.out = 0]
          PROVE y \in Tester /\ y.doing = tester.doing /\ y.sent = sent /\ y.seq = next /\ y.out = 0
      BY <1>1, <2>2, <3>1 DEF Tester
    <3> QED BY <2>1, <3>1, Zenon
  <2> QED BY <1>5, <2>3 DEF next, sent
<1>6. CASE ~lost /\ answer' # "positive" BY <1>6, NoTransferOK DEF Told
<1> QED BY <1>4, <1>5, <1>6

\* The two sides while the ECU does not take the block.
LEMMA StillInStep ==
    ASSUME IInv, NEW len \in 1..Capacity, NEW lost \in BOOLEAN, tester.doing = "download",
           len = tester.out \/ tester.out = 0,
           tester' = (IF lost THEN [tester EXCEPT !.out = len] ELSE Told(len)),
           UNCHANGED <<t, erase>>, ~erase.active,
           \/ answer' # "positive"
           \/ t.state = "DOWNLOAD" /\ tester.seq = t.last.seq
    PROVE InStep'
<1>1. len \in Nat /\ len > 0 BY Constants
<1>2. /\ tester'.doing \in {"nothing", "download"}
      /\ lost => /\ tester'.doing = "download" /\ tester'.sent = tester.sent
                 /\ tester'.seq = tester.seq /\ tester'.out = len
      /\ ~lost /\ answer' # "positive" => tester'.doing = "nothing"
      /\ ~lost /\ answer' = "positive" =>
            /\ tester'.doing = "download" /\ tester'.sent = tester.sent + len
            /\ tester'.seq = TesterNext(tester.seq) /\ tester'.out = 0
  BY <1>1, TesterAfter
<1>3. TesterInStep'
  <2>1. SUFFICES ASSUME tester'.doing = "download", t.state = "DOWNLOAD" PROVE TesterInStep'
    BY DEF TesterInStep
  <2>2. CASE lost BY <1>1, <1>2, <2>1, <2>2 DEF IInv, InStep, TesterInStep
  <2>3. CASE ~lost
    <3>1. answer' = "positive" /\ tester.seq = t.last.seq BY <1>2, <2>1, <2>3
    <3>2. t.total - t.remaining = tester.sent + tester.out /\ tester.out > 0
          /\ t.seq = TesterNext(tester.seq)
      BY <2>1, <3>1 DEF IInv, InStep, TesterInStep
    <3>3. tester.out = len BY <3>2
    <3> QED BY <1>2, <2>1, <2>3, <3>1, <3>2, <3>3 DEF TesterInStep
  <2> QED BY <2>2, <2>3
<1> QED BY <1>2, <1>3 DEF IInv, InStep

\* A download's block: what is the same for each outcome.
BlockStep(len, data, lost) ==
    /\ tester.doing = "download" /\ (len = tester.out \/ tester.out = 0)
    /\ data \in Payloads(len)
    /\ tester' = (IF lost THEN [tester EXCEPT !.out = len] ELSE Told(len))
    /\ UNCHANGED <<config, erase, accepted, patched>>

\* A block that changes nothing in the ECU.
LEMMA IdleBlockOK ==
    ASSUME IInv, NEW len \in 1..Capacity, NEW data, NEW lost \in BOOLEAN,
           BlockStep(len, data, lost), ~erase.active, UNCHANGED <<t, flash, policy, seen>>,
           answer' \in {"positive", "negative"},
           \/ answer' # "positive"
           \/ t.state = "DOWNLOAD" /\ tester.seq = t.last.seq
    PROVE IInv'
<1>1. /\ tester.doing = "download" /\ (len = tester.out \/ tester.out = 0)
      /\ tester' = (IF lost THEN [tester EXCEPT !.out = len] ELSE Told(len))
      /\ UNCHANGED <<config, erase, accepted, patched>> /\ len \in Nat
  BY Constants DEF BlockStep
<1>2. InStep' BY <1>1, StillInStep
<1>3. tester' \in Tester /\ tester'.doing \in {"nothing", "download"}
  BY <1>1, TesterAfter
<1>4. TypeOK' BY <1>1, <1>3 DEF IInv, TypeOK
<1>5. /\ OutsideUntouched' /\ Placed' /\ Buffered' /\ Written' /\ Wiping' /\ ReadFaithful'
      /\ Unharmed' /\ Accepted'
  BY <1>1 DEF IInv, OutsideUntouched, Placed, Buffered, Written, Wiping, ReadFaithful, Unharmed,
              Accepted, AcceptedIsImage, Readback, Policy
<1>6. UploadInStep' /\ UploadFaithful'
  BY <1>1, <1>3 DEF IInv, UploadInStep, UploadFaithful
<1>7. ToldOf'
  BY <1>1 DEF IInv, ToldOf, PolicySeesAll, PolicyToldWithoutUploads, Policy, ReadCb
<1> QED BY <1>2, <1>4, <1>5, <1>6, <1>7 DEF IInv

\* A block, or the end of the transfer, that aborts a download.
LEMMA AbortsOK ==
    ASSUME IInv, Abort, t.state = "DOWNLOAD", ~erase.active,
           UNCHANGED <<config, erase, accepted, patched>>, OutsideUntouched',
           flash' \in [Addresses -> Content \cup {Foreign}],
           tester' \in Tester, tester'.doing # "upload"
    PROVE IInv'
<1>1. t' = NoTransfer /\ policy' = "idle" /\ seen' = seen /\ answer' = "negative"
  BY DEF Abort, NotifyAbort
<1>2. TypeOK' BY <1>1, NoTransferOK DEF IInv, TypeOK
<1>3. UploadFaithful' BY DEF UploadFaithful
<1>4. Accepted'
  <2>1. accepted \in Acceptance BY DEF IInv, TypeOK
  <2>2. accepted.size = 0 BY <2>1 DEF IInv, Accepted, Acceptance
  <2> QED BY <2>2, NothingAccepted
<1> QED BY <1>1, <1>2, <1>3, <1>4, EndsOK

\* A block that is taken, whole.
LEMMA TakenBlockOK ==
    ASSUME IInv, NEW len \in 1..Capacity, NEW data, NEW lost \in BOOLEAN,
           BlockStep(len, data, lost), BlockTaken(tester.seq, data)
    PROVE IInv'
<1>1. /\ tester.doing = "download" /\ (len = tester.out \/ tester.out = 0)
      /\ tester' = (IF lost THEN [tester EXCEPT !.out = len] ELSE Told(len))
      /\ UNCHANGED <<config, erase, accepted, patched>> /\ len \in Nat /\ len > 0
      /\ data \in Payloads(len)
  BY Constants DEF BlockStep
<1>2. /\ data \in Seq(Content) /\ Len(data) = len
      /\ ~Noise => \A i \in 1..len : data[i] = tester.sent + i - 1
  BY <1>1, PayloadsOK
<1>3. tester.seq \in Counters /\ tester.sent \in Nat /\ tester.out \in Nat
  BY DEF IInv, TypeOK, Tester
<1>4. /\ flash' \in [Addresses -> Content \cup {Foreign}] /\ OutsideUntouched'
      /\ Placed' /\ Buffered' /\ Written' /\ Wiping' /\ ReadFaithful' /\ ToldOf'
      /\ policy' = policy /\ seen' \in Seq(Content) /\ answer' = "positive"
      /\ t.state = "DOWNLOAD" /\ ~erase.active /\ InTurn(tester.seq, data)
      /\ t' = Progress(tester.seq, data)
  <2>1. IsBlock(tester.seq, data) BY <1>2, <1>3 DEF IsBlock
  <2> QED BY <1>1, <2>1, TakenOK
<1>5. /\ t' \in Transfer /\ t'.state = "DOWNLOAD" /\ t'.total = t.total
      /\ t'.remaining = t.remaining - len /\ t.seq = tester.seq
      /\ t'.seq = NextSeq(t.seq) /\ t'.last.seq = t.seq /\ t'.crc = Received(data)
  BY <1>2, <1>3, <1>4, ProgressFields
<1>6. /\ tester' \in Tester /\ tester'.doing \in {"nothing", "download"}
      /\ lost => /\ tester'.doing = "download" /\ tester'.sent = tester.sent
                 /\ tester'.seq = tester.seq /\ tester'.out = len
      /\ ~lost => /\ tester'.doing = "download" /\ tester'.sent = tester.sent + len
                  /\ tester'.seq = TesterNext(tester.seq) /\ tester'.out = 0
  BY <1>1, <1>4, TesterAfter
<1>7. TypeOK' BY <1>1, <1>4, <1>5, <1>6 DEF IInv, TypeOK
<1>8. t.total - t.remaining = tester.sent /\ t.total \in Nat /\ t.remaining \in Nat
  <2>1. tester.seq # t.last.seq BY <1>4 DEF InTurn
  <2> QED BY <1>1, <1>4, <2>1, Running DEF IInv, InStep, TesterInStep
<1>9. InStep'
  <2>1. NextSeq(t.seq) # t.seq /\ TesterNext(tester.seq) = NextSeq(t.seq)
    BY <1>3, <1>5, NextCounter
  <2>2. t'.total - t'.remaining = tester.sent + len BY <1>1, <1>3, <1>5, <1>8
  <2>3. TesterInStep' BY <1>1, <1>5, <1>6, <2>1, <2>2 DEF TesterInStep
  <2> QED BY <1>1, <1>4, <1>5, <1>6, <2>1, <2>3 DEF InStep
<1>10. Unharmed'
  <2>1. SUFFICES ASSUME ~Noise, NEW j, j \in 1..Len(Received(data))
                 PROVE Received(data)[j] = j - 1
    BY <1>5 DEF Unharmed
  <2>2. /\ Len(Received(data)) = Len(t.crc) + len /\ Len(t.crc) \in Nat
        /\ \A i \in 1..Len(t.crc) : Received(data)[i] = t.crc[i]
        /\ \A i \in 1..len : Received(data)[Len(t.crc) + i] = data[i]
    <3>1. Len(data) <= Capacity BY <1>4 DEF InTurn
    <3> QED BY <1>2, <1>4, <3>1, Receiving, Running
  <2>3. Len(t.crc) = tester.sent BY <1>4, <1>8, Running
  <2>4. CASE j <= Len(t.crc)
    <3>1. j \in 1..Len(t.crc) BY <1>1, <2>1, <2>2, <2>4
    <3> QED BY <1>4, <2>1, <2>2, <3>1 DEF IInv, Unharmed
  <2>5. CASE ~(j <= Len(t.crc))
    <3> DEFINE i == j - Len(t.crc)
    <3>1. i \in 1..len /\ Len(t.crc) + i = j BY <1>1, <2>1, <2>2, <2>5
    <3>2. tester.sent + i - 1 = j - 1 BY <1>1, <1>3, <2>1, <2>2, <2>3
    <3> HIDE DEF i
    <3>3. Received(data)[j] = data[i] BY <2>2, <3>1
    <3>4. data[i] = tester.sent + i - 1 BY <1>2, <2>1, <3>1
    <3> QED BY <3>2, <3>3, <3>4
  <2> QED BY <2>4, <2>5
<1>11. UploadInStep' /\ UploadFaithful' BY <1>5, <1>6 DEF UploadInStep, UploadFaithful
<1>12. Accepted'
  <2>1. accepted \in Acceptance BY DEF IInv, TypeOK
  <2>2. accepted.size = 0 BY <1>4, <2>1 DEF IInv, Accepted, Acceptance
  <2> QED BY <1>1, <2>2, NothingAccepted
<1> QED BY <1>4, <1>7, <1>9, <1>10, <1>11, <1>12 DEF IInv

\* The tester's blocks.
LEMMA TransferDataOK ==
    ASSUME IInv, NEW len \in 1..Capacity, NEW lost \in BOOLEAN, NEW data \in Payloads(len),
           TransferData(len, data, lost)
    PROVE IInv'
<1>1. BlockStep(len, data, lost) /\ TransferBlock(tester.seq, data)
  BY DEF TransferData, BlockStep, TransferBlock
<1>2. ~erase.active /\ UNCHANGED <<config, erase, accepted, patched>>
  BY <1>1 DEF TransferBlock, Requests
<1>3. tester' \in Tester /\ tester'.doing # "upload"
  BY <1>1, Constants, TesterAfter DEF BlockStep
<1>4. OutsideUntouched /\ flash \in [Addresses -> Content \cup {Foreign}] BY DEF IInv, TypeOK
<1>5. CASE BlockRefused(tester.seq, data)
  BY <1>1, <1>2, <1>5, IdleBlockOK DEF BlockRefused
<1>6. CASE BlockRepeated(tester.seq, data)
  <2>1. t.state = "DOWNLOAD" /\ tester.seq = t.last.seq BY <1>6 DEF BlockRepeated, Downloading, Repeated
  <2> QED BY <1>1, <1>2, <1>6, <2>1, IdleBlockOK DEF BlockRepeated
<1>7. CASE BlockTooMuch(tester.seq, data) \/ BlockVetoed(tester.seq, data)
  <2>1. Abort /\ t.state = "DOWNLOAD" /\ flash' = flash
    BY <1>7 DEF BlockTooMuch, BlockVetoed, Downloading
  <2>2. OutsideUntouched' BY <1>4, <2>1 DEF OutsideUntouched
  <2> QED BY <1>2, <1>3, <1>4, <2>1, <2>2, AbortsOK
<1>8. CASE BlockNotWritten(tester.seq, data)
  <2>1. Abort /\ t.state = "DOWNLOAD" /\ InTurn(tester.seq, data) /\ Full(data)
    BY <1>8 DEF BlockNotWritten, Downloading
  <2>2. PICK outcome \in WriteOutcomes : flash' = Programmed(t.addr, Chunk(data), outcome)
    BY <1>8 DEF BlockNotWritten
  <2>3. /\ Chunk(data) \in Seq(Content) /\ Span(t.addr, Len(Chunk(data))) \subseteq Writable
        /\ t.addr \in Nat
    <3>1. data \in Seq(Content) BY Constants, PayloadsOK
    <3>2. Len(data) <= Capacity /\ Len(data) <= t.remaining BY <2>1 DEF InTurn
    <3> QED BY <2>1, <3>1, <3>2, ChunkInside, Running
  <2>4. flash' \in [Addresses -> Content \cup {Foreign}] /\ OutsideUntouched'
    BY <1>4, <2>2, <2>3, ProgrammedInside
  <2> QED BY <1>2, <1>3, <2>1, <2>4, AbortsOK
<1>9. CASE BlockTaken(tester.seq, data) BY <1>1, <1>9, TakenBlockOK
<1> QED BY <1>1, <1>5, <1>6, <1>7, <1>8, <1>9 DEF TransferBlock

\* A stray block is never taken.
LEMMA StrayBlockOK ==
    ASSUME IInv, NEW seq \in 0..MaxSeq, NEW len \in 1..(Capacity + 1), StrayBlock(seq, len)
    PROVE IInv'
<1> DEFINE data == [i \in 1..len |-> Bad]
<1>1. len \in Nat BY Constants
<1>2. Len(data) = Len(Image(0, len))
  <2>1. \A i \in 1..len : 0 + i - 1 \in Content /\ Bad \in Content BY <1>1 DEF Content
  <2>2. data \in [1..len -> Content] /\ Image(0, len) \in [1..len -> Content]
    BY <2>1 DEF Image
  <2> QED BY <1>1, <2>2, Explicit
<1> HIDE DEF data
<1>3. TransferBlock(seq, data) /\ UNCHANGED tester
      /\ ~(t.state = "DOWNLOAD" /\ InTurn(seq, Image(0, len)))
  BY DEF StrayBlock, data
<1>4. ~(t.state = "DOWNLOAD" /\ InTurn(seq, data)) BY <1>2, <1>3 DEF InTurn
<1>5. ~erase.active /\ UNCHANGED <<config, erase, accepted, patched>>
  BY <1>3 DEF TransferBlock, Requests
<1>6. CASE BlockRefused(seq, data) \/ BlockRepeated(seq, data)
  BY <1>3, <1>5, <1>6, NothingOK DEF BlockRefused, BlockRepeated
<1>7. CASE BlockTooMuch(seq, data)
  <2>1. Abort /\ t.state = "DOWNLOAD" /\ flash' = flash BY <1>7 DEF BlockTooMuch, Downloading
  <2>2. OutsideUntouched' BY <2>1 DEF IInv, OutsideUntouched
  <2>3. tester' \in Tester /\ flash' \in [Addresses -> Content \cup {Foreign}]
    BY <1>3, <2>1 DEF IInv, TypeOK
  <2>4. tester'.doing # "upload" BY <1>3, <2>1 DEF IInv, InStep
  <2> QED BY <1>5, <2>1, <2>2, <2>3, <2>4, AbortsOK
<1> QED BY <1>3, <1>4, <1>6, <1>7 DEF TransferBlock, BlockVetoed, BlockNotWritten, BlockTaken, Downloading

-----------------------------------------------------------------------------
(* The blocks of an upload. *)

\* What the ECU sends lies in the region.
LEMMA UploadBlockOK ==
    ASSUME IInv, t.state = "UPLOAD", t.remaining > 0
    PROVE /\ UploadBlock \in Seq(Content)
          /\ Len(UploadBlock) \in Nat /\ 0 < Len(UploadBlock) /\ Len(UploadBlock) <= t.remaining
          /\ \A i \in 1..Len(UploadBlock) : UploadBlock[i] = flash[t.addr + i - 1]
<1> DEFINE len == Lesser(Capacity, t.remaining)
<1>1. /\ t.base \in Nat /\ t.total \in Nat /\ t.addr \in Nat /\ t.remaining \in Nat
      /\ t.base <= t.addr /\ t.addr + t.remaining = t.base + t.total
      /\ \A a \in t.base..(t.base + t.total - 1) : a \in Addresses /\ a \in Writable
  BY TransferInside DEF IInv, UploadInStep
<1>2. len \in Nat /\ 0 < len /\ len <= t.remaining BY <1>1, Constants DEF Lesser
<1>3. UploadBlock = [i \in 1..len |-> flash[t.addr + i - 1]] BY DEF UploadBlock, Region
<1> HIDE DEF len
<1>4. ASSUME NEW i \in 1..len PROVE flash[t.addr + i - 1] \in Content
  <2>1. t.addr + i - 1 \in t.base..(t.base + t.total - 1) BY <1>1, <1>2
  <2>2. t.addr + i - 1 \in Addresses /\ t.addr + i - 1 \in Writable BY <1>1, <2>1
  <2> QED BY <2>2 DEF IInv, TypeOK, OutsideUntouched
<1>5. UploadBlock \in [1..len -> Content] BY <1>3, <1>4
<1>6. UploadBlock \in Seq(Content) /\ Len(UploadBlock) = len BY <1>2, <1>5, Explicit
<1> QED BY <1>2, <1>3, <1>6

\* The tester after an answer to its request for a block.
UploadAnswered(lost) ==
    tester' = IF lost THEN [tester EXCEPT !.out = 1]
              ELSE IF answer' = "positive"
              THEN [tester EXCEPT !.got = @ \o t'.last.data, !.seq = TesterNext(@), !.out = 0]
              ELSE NoTester

LEMMA UploadTesterAfter ==
    ASSUME IInv, NEW lost \in BOOLEAN, tester.doing = "upload", UploadAnswered(lost),
           t'.last.data \in Seq(Content)
    PROVE /\ tester' \in Tester
          /\ lost => /\ tester'.doing = "upload" /\ tester'.base = tester.base
                     /\ tester'.size = tester.size /\ tester'.seq = tester.seq
                     /\ tester'.got = tester.got
          /\ ~lost /\ answer' # "positive" => tester'.doing = "nothing"
          /\ ~lost /\ answer' = "positive" =>
                /\ tester'.doing = "upload" /\ tester'.base = tester.base
                /\ tester'.size = tester.size /\ tester'.seq = TesterNext(tester.seq)
                /\ tester'.got = tester.got \o t'.last.data
<1>1. tester \in Tester /\ tester.got \in Seq(Content) /\ tester.seq \in Counters
  BY DEF IInv, TypeOK, Tester
<1>2. TesterNext(tester.seq) \in Counters BY <1>1, NextCounter
<1>3. tester.got \o t'.last.data \in Seq(Content) BY <1>1, ConcatProperties
<1>4. CASE lost BY <1>1, <1>4 DEF Tester, UploadAnswered
<1>5. CASE ~lost /\ answer' = "positive"
  <2> DEFINE next == TesterNext(tester.seq)
             got == tester.got \o t'.last.data
  <2>1. tester' = [tester EXCEPT !.got = got, !.seq = next, !.out = 0]
    BY <1>5 DEF UploadAnswered
  <2>2. next \in Counters /\ got \in Seq(Content) BY <1>2, <1>3
  <2> HIDE DEF next, got
  <2>3. /\ tester' \in Tester /\ tester'.doing = tester.doing /\ tester'.base = tester.base
        /\ tester'.size = tester.size /\ tester'.got = got /\ tester'.seq = next
    <3>1. ASSUME NEW y, y = [tester EXCEPT !.got = got, !.seq = next, !.out = 0]
          PROVE /\ y \in Tester /\ y.doing = tester.doing /\ y.base = tester.base
                /\ y.size = tester.size /\ y.got = got /\ y.seq = next
      BY <1>1, <2>2, <3>1 DEF Tester
    <3> QED BY <2>1, <3>1, Zenon
  <2> QED BY <1>5, <2>3 DEF next, got
<1>6. CASE ~lost /\ answer' # "positive" BY <1>6, NoTransferOK DEF UploadAnswered
<1> QED BY <1>4, <1>5, <1>6

\* What a step of an upload has to show.
LEMMA UploadStepOK ==
    ASSUME IInv, tester.doing = "upload", ~erase.active, answer' \in {"positive", "negative"},
           UNCHANGED <<config, erase, flash, policy, seen, accepted, patched>>,
           t' \in Transfer, t'.state # "DOWNLOAD", tester' \in Tester,
           tester'.doing \in {"nothing", "upload"},
           t'.state # "IDLE" => t'.last.seq # t'.seq,
           Placed', UploadInStep', UploadFaithful'
    PROVE IInv'
<1>1. TypeOK' BY DEF IInv, TypeOK
<1>2. /\ Buffered' /\ Written' /\ ReadFaithful' /\ Unharmed' /\ PolicySeesAll' /\ TesterInStep'
  BY NoDownload
<1>3. OutsideUntouched' /\ Wiping' BY DEF IInv, OutsideUntouched, Wiping
<1>4. InStep' BY <1>2 DEF InStep
<1>5. Accepted' BY DEF IInv, Accepted, AcceptedIsImage, Readback
<1>6. ToldOf'
  <2>1. t.state # "DOWNLOAD" BY DEF IInv, InStep
  <2>2. PolicyToldWithoutUploads' BY <2>1 DEF IInv, ToldOf, PolicyToldWithoutUploads, ReadCb
  <2> QED BY <1>2, <2>2 DEF ToldOf
<1> QED BY <1>1, <1>2, <1>3, <1>4, <1>5, <1>6 DEF IInv

\* Bytes that are what the flash holds, or held before 0x3D wrote there.
FromFlash(bytes, at) ==
    \A i \in 1..Len(bytes) : bytes[i] = flash[at + i - 1] \/ at + i - 1 \in patched

LEMMA FromFlashJoined ==
    ASSUME NEW got \in Seq(Content), NEW data \in Seq(Content), NEW at \in Nat,
           FromFlash(got, at), FromFlash(data, at + Len(got))
    PROVE FromFlash(got \o data, at) /\ Len(got \o data) = Len(got) + Len(data)
<1>1. Len(got) \in Nat /\ Len(data) \in Nat BY LenProperties
<1>2. /\ Len(got \o data) = Len(got) + Len(data)
      /\ \A i \in 1..(Len(got) + Len(data)) :
            (got \o data)[i] = IF i <= Len(got) THEN got[i] ELSE data[i - Len(got)]
  BY ConcatProperties
<1>3. ASSUME NEW i \in 1..(Len(got) + Len(data))
      PROVE (got \o data)[i] = flash[at + i - 1] \/ at + i - 1 \in patched
  <2>1. CASE i <= Len(got)
    <3>1. i \in 1..Len(got) BY <1>1, <2>1
    <3> QED BY <1>2, <2>1, <3>1 DEF FromFlash
  <2>2. CASE ~(i <= Len(got))
    <3> DEFINE k == i - Len(got)
    <3>1. k \in 1..Len(data) /\ at + Len(got) + k - 1 = at + i - 1 BY <1>1, <2>2
    <3>2. (got \o data)[i] = data[k] BY <1>2, <2>2
    <3> HIDE DEF k
    <3>3. data[k] = flash[at + Len(got) + k - 1] \/ at + Len(got) + k - 1 \in patched
      BY <3>1 DEF FromFlash
    <3> QED BY <3>1, <3>2, <3>3
  <2> QED BY <2>1, <2>2
<1> QED BY <1>2, <1>3, Zenon DEF FromFlash

\* An upload in numbers.
LEMMA Sending ==
    ASSUME IInv, t.state = "UPLOAD", tester.doing = "upload"
    PROVE /\ t \in Transfer /\ t.base \in Nat /\ t.total \in Nat /\ t.addr \in Nat
          /\ t.remaining \in Nat /\ t.base <= t.addr /\ t.addr + t.remaining = t.base + t.total
          /\ t.remaining <= t.total /\ InRegion(t.base, t.total)
          /\ tester.base = t.base /\ tester.size = t.total /\ tester.got \in Seq(Content)
          /\ Len(tester.got) \in Nat /\ tester.seq \in Counters /\ t.seq \in Counters
          /\ t.last.seq # t.seq /\ t.last.data \in Seq(Content) /\ Len(t.last.data) \in Nat
          /\ FromFlash(tester.got, t.base)
<1>1. tester.got \in Seq(Content) /\ tester.seq \in Counters BY DEF IInv, TypeOK, Tester
<1>2. Len(tester.got) \in Nat /\ DOMAIN tester.got = 1..Len(tester.got) BY <1>1, LenProperties
<1>3. t \in Transfer /\ t.seq \in Counters /\ t.last.data \in Seq(Content)
  BY DEF IInv, TypeOK, Transfer
<1>4. Len(t.last.data) \in Nat BY <1>3, LenProperties
<1>5. tester.base = t.base /\ tester.size = t.total /\ t.addr + t.remaining = t.base + t.total
  BY DEF IInv, UploadInStep
<1>6. FromFlash(tester.got, t.base)
  BY <1>2, <1>5 DEF IInv, UploadFaithful, FromFlash
<1>7. t.last.seq # t.seq BY DEF IInv, InStep
<1> QED BY <1>1, <1>2, <1>3, <1>4, <1>5, <1>6, <1>7, TransferInside

\* The ECU has put the block that the tester asks for into its buffer, or still
\* has it there.
BlockSent ==
    /\ UNCHANGED <<flash, patched>> /\ answer' = "positive"
    /\ t' \in Transfer /\ t'.state = "UPLOAD" /\ t'.base = t.base /\ t'.total = t.total
    /\ t'.buf = <<>> /\ t'.crc = <<>>
    /\ t'.base <= t'.addr /\ t'.addr + t'.remaining = t'.base + t'.total
    /\ t'.last.seq = tester.seq /\ t'.seq = TesterNext(tester.seq)
    /\ t'.last.data \in Seq(Content)
    /\ t'.addr = t.base + Len(tester.got) + Len(t'.last.data)
    /\ FromFlash(t'.last.data, t.base + Len(tester.got))

LEMMA SentBlockOK ==
    ASSUME IInv, t.state = "UPLOAD", tester.doing = "upload", NEW lost \in BOOLEAN,
           UploadAnswered(lost), BlockSent
    PROVE /\ UploadInStep' /\ UploadFaithful' /\ tester' \in Tester /\ tester'.doing = "upload"
<1>1. /\ t.base \in Nat /\ t.total \in Nat /\ tester.got \in Seq(Content)
      /\ InRegion(t.base, t.total)
      /\ Len(tester.got) \in Nat /\ FromFlash(tester.got, t.base)
      /\ tester.base = t.base /\ tester.size = t.total
  BY Sending
<1>2. /\ tester' \in Tester /\ tester'.doing = "upload" /\ tester'.base = t.base
      /\ tester'.size = t.total
  BY <1>1, UploadTesterAfter DEF BlockSent
<1>3. t'.remaining \in Nat /\ t'.addr \in Nat /\ Len(t'.last.data) \in Nat
  <2>1. t'.remaining \in Nat /\ t'.addr \in Nat BY DEF Transfer, BlockSent
  <2>2. t'.last.data \in Seq(Content) BY DEF BlockSent
  <2> QED BY <2>1, <2>2, LenProperties
<1>4. Len(tester.got) <= t.total /\ Len(tester.got) + Len(t'.last.data) <= t.total
  <2> DEFINE got == Len(tester.got)
             new == Len(t'.last.data)
             left == t'.remaining
  <2>1. t.base + got + new + left = t.base + t.total BY DEF BlockSent
  <2>2. /\ t.base \in Nat /\ t.total \in Nat /\ got \in Nat /\ new \in Nat /\ left \in Nat
    BY <1>1, <1>3
  <2> HIDE DEF got, new, left
  <2>3. got <= t.total /\ got + new <= t.total BY <2>1, <2>2
  <2> QED BY <2>3 DEF got, new
<1>5. DOMAIN tester'.got = 1..Len(tester'.got) /\ Len(tester'.got) \in Nat
  <2>1. tester'.got \in Seq(Content) BY <1>2 DEF Tester
  <2> QED BY <2>1, LenProperties
<1>6. CASE lost
  <2>1. tester'.seq = tester.seq /\ tester'.got = tester.got
    BY <1>6, UploadTesterAfter DEF BlockSent
  <2>2. UploadFaithful'
    <3>1. FromFlash(tester'.got, tester'.base) BY <1>1, <1>2, <2>1, Zenon
    <3> QED BY <1>5, <3>1 DEF UploadFaithful, FromFlash, BlockSent
  <2>3. \A i \in 1..Len(t'.last.data) :
           LET a == t.base + Len(tester.got) + i - 1
           IN t'.last.data[i] = flash'[a] \/ a \in patched'
    BY DEF FromFlash, BlockSent
  <2> QED BY <1>1, <1>2, <1>4, <2>1, <2>2, <2>3 DEF UploadInStep, BlockSent
<1>7. CASE ~lost
  <2>1. /\ tester'.seq = TesterNext(tester.seq)
        /\ tester'.got = tester.got \o t'.last.data
    BY <1>7, UploadTesterAfter DEF BlockSent
  <2>2. /\ FromFlash(tester'.got, t.base)
        /\ Len(tester'.got) = Len(tester.got) + Len(t'.last.data)
    BY <1>1, <2>1, FromFlashJoined DEF BlockSent
  <2>3. UploadFaithful' BY <1>2, <1>5, <2>2 DEF UploadFaithful, FromFlash, BlockSent
  <2>4. t'.addr = t.base + Len(tester'.got)
    <3> DEFINE got == Len(tester.got)
               new == Len(t'.last.data)
    <3>1. t'.addr = t.base + got + new BY DEF BlockSent
    <3>2. t.base \in Nat /\ got \in Nat /\ new \in Nat BY <1>1, <1>3
    <3> HIDE DEF got, new
    <3>3. t'.addr = t.base + (got + new) BY <3>1, <3>2
    <3> QED BY <2>2, <3>3 DEF got, new
  <2>5. Len(tester'.got) <= t.total BY <1>4, <2>2
  <2> QED BY <1>1, <1>2, <2>1, <2>3, <2>4, <2>5 DEF UploadInStep, BlockSent
<1> QED BY <1>2, <1>6, <1>7

\* Bytes move from what remains to what is behind the address.
LEMMA Advance ==
    ASSUME NEW base \in Nat, NEW total \in Nat, NEW addr \in Nat, NEW remaining \in Nat,
           NEW len \in Nat, base <= addr, addr + remaining = base + total,
           remaining <= total, len <= remaining
    PROVE /\ (addr + len) + (remaining - len) = base + total /\ base <= addr + len
          /\ addr + len \in Nat /\ remaining - len \in Nat /\ remaining - len <= total
OBVIOUS

\* The block after those the tester has.
LEMMA UploadTakenOK ==
    ASSUME IInv, tester.doing = "upload", NEW lost \in BOOLEAN, UploadAnswered(lost),
           UploadTaken(tester.seq), UNCHANGED <<config, erase, flash, policy, seen, accepted, patched>>
    PROVE IInv'
<1> DEFINE len == Len(UploadBlock)
           last == [seq |-> tester.seq, data |-> UploadBlock]
           next == NextSeq(tester.seq)
           addr == t.addr + len
           remaining == t.remaining - len
<1>1. /\ t.state = "UPLOAD" /\ ~erase.active /\ tester.seq # t.last.seq /\ t.remaining > 0
      /\ tester.seq = t.seq /\ answer' = "positive"
      /\ t' = [t EXCEPT !.addr = addr, !.remaining = remaining, !.last = last, !.seq = next]
  BY DEF UploadTaken, Uploading, Requests
<1>2. /\ t \in Transfer /\ t.base \in Nat /\ t.total \in Nat /\ t.addr \in Nat
      /\ t.remaining \in Nat /\ t.base <= t.addr /\ t.addr + t.remaining = t.base + t.total
      /\ t.remaining <= t.total /\ tester.seq \in Counters
  BY <1>1, Sending
<1>3. /\ UploadBlock \in Seq(Content) /\ len \in Nat /\ 0 < len /\ len <= t.remaining
      /\ \A i \in 1..len : UploadBlock[i] = flash[t.addr + i - 1]
  BY <1>1, UploadBlockOK
<1>4. next \in Counters /\ next # tester.seq /\ TesterNext(tester.seq) = next
  BY <1>2, NextCounter
<1>5. last \in [seq : Counters \cup {-1}, data : Seq(Content)] /\ last.seq = tester.seq
      /\ last.data = UploadBlock
  BY <1>2, <1>3
<1>6. addr + remaining = t.base + t.total /\ t.base <= addr
      /\ addr \in Nat /\ remaining \in Nat /\ remaining <= t.total
  <2> HIDE DEF len
  <2>1. /\ t.base \in Nat /\ t.total \in Nat /\ t.addr \in Nat /\ t.remaining \in Nat
        /\ t.base <= t.addr /\ t.addr + t.remaining = t.base + t.total
        /\ t.remaining <= t.total /\ len \in Nat /\ len <= t.remaining
    BY <1>2, <1>3, Zenon
  <2> QED BY <2>1, Advance, SMTT(40)
<1> HIDE DEF addr, remaining, last, next
<1>7. /\ t' \in Transfer /\ t'.state = "UPLOAD" /\ t'.base = t.base /\ t'.total = t.total
      /\ t'.buf = t.buf /\ t'.crc = t.crc /\ t'.addr = addr /\ t'.remaining = remaining
      /\ t'.last = last /\ t'.seq = next
  <2>1. ASSUME NEW y, y = [t EXCEPT !.addr = addr, !.remaining = remaining, !.last = last, !.seq = next]
        PROVE /\ y \in Transfer /\ y.state = "UPLOAD" /\ y.base = t.base /\ y.total = t.total
              /\ y.buf = t.buf /\ y.crc = t.crc /\ y.addr = addr /\ y.remaining = remaining
              /\ y.last = last /\ y.seq = next
    BY <1>1, <1>2, <1>4, <1>5, <1>6, <2>1 DEF Transfer
  <2> QED BY <1>1, <2>1, Zenon
<1>8. t.addr = t.base + Len(tester.got)
  BY <1>1 DEF IInv, UploadInStep
<1>9. BlockSent
  <2>1. FromFlash(UploadBlock, t.base + Len(tester.got))
    BY <1>3, <1>8 DEF FromFlash
  <2>2. t'.addr = t.base + Len(tester.got) + Len(t'.last.data)
    BY <1>5, <1>7, <1>8, Zenon DEF addr
  <2>3. t.buf = <<>> /\ t.crc = <<>> BY <1>1 DEF IInv, UploadInStep
  <2> QED BY <1>1, <1>3, <1>4, <1>5, <1>6, <1>7, <2>1, <2>2, <2>3, Zenon DEF BlockSent
<1>10. UploadInStep' /\ UploadFaithful' /\ tester' \in Tester /\ tester'.doing = "upload"
  BY <1>1, <1>9, SentBlockOK
<1>11. Placed'
  <2>1. InRegion(t.base, t.total) BY <1>1 DEF IInv, Placed
  <2> QED BY <1>1, <1>6, <1>7, <2>1 DEF Placed
<1> QED BY <1>1, <1>4, <1>5, <1>7, <1>10, <1>11, UploadStepOK

\* The block that the tester missed, as write_buf still holds it.
LEMMA UploadRepeatedOK ==
    ASSUME IInv, tester.doing = "upload", NEW lost \in BOOLEAN, UploadAnswered(lost),
           UploadRepeated(tester.seq), UNCHANGED <<config, erase, flash, policy, seen, accepted, patched>>
    PROVE IInv'
<1>1. /\ t.state = "UPLOAD" /\ ~erase.active /\ tester.seq = t.last.seq
      /\ answer' = "positive" /\ t' = t
  BY DEF UploadRepeated, Uploading, Requests
<1>2. /\ t \in Transfer /\ t.base <= t.addr /\ t.addr + t.remaining = t.base + t.total
      /\ t.last.seq # t.seq /\ t.last.data \in Seq(Content)
  BY <1>1, Sending
<1>3. /\ t.buf = <<>> /\ t.crc = <<>> /\ t.seq = TesterNext(tester.seq)
      /\ t.addr = t.base + Len(tester.got) + Len(t.last.data)
      /\ FromFlash(t.last.data, t.base + Len(tester.got))
  BY <1>1, <1>2 DEF IInv, UploadInStep, FromFlash
<1>4. BlockSent BY <1>1, <1>2, <1>3 DEF BlockSent
<1>5. UploadInStep' /\ UploadFaithful' /\ tester' \in Tester /\ tester'.doing = "upload"
  BY <1>1, <1>4, SentBlockOK
<1>6. Placed' BY <1>1 DEF IInv, Placed
<1> QED BY <1>1, <1>2, <1>5, <1>6, UploadStepOK

\* No block: the read has failed, or the request does not fit.
LEMMA UploadNoBlockOK ==
    ASSUME IInv, tester.doing = "upload", NEW lost \in BOOLEAN, UploadAnswered(lost),
           UploadReadFails(tester.seq) \/ UploadRefused(tester.seq),
           UNCHANGED <<config, erase, flash, policy, seen, accepted, patched>>
    PROVE IInv'
<1>1. /\ ~erase.active /\ answer' = "negative" /\ t' \in {t, NoTransfer}
  BY DEF UploadReadFails, UploadRefused, Uploading, Requests
<1>2. t \in Transfer /\ t.state # "DOWNLOAD" BY DEF IInv, TypeOK, InStep
<1>3. /\ t' \in Transfer /\ t'.state # "DOWNLOAD" /\ t'.last.data \in Seq(Content)
      /\ t'.state # "IDLE" => t' = t
  <2>1. t' \in Transfer /\ t'.state # "DOWNLOAD" /\ (t'.state # "IDLE" => t' = t)
    BY <1>1, <1>2, NoTransferOK
  <2> QED BY <1>1, <1>2, <2>1, NoTransferOK DEF Transfer
<1>4. /\ tester' \in Tester
      /\ lost => /\ tester'.doing = "upload" /\ tester'.base = tester.base
                 /\ tester'.size = tester.size /\ tester'.seq = tester.seq
                 /\ tester'.got = tester.got
      /\ ~lost => tester'.doing = "nothing"
  BY <1>1, <1>3, UploadTesterAfter
<1>5. Placed' BY <1>1, <1>3 DEF IInv, Placed
<1>6. UploadFaithful' BY <1>4 DEF IInv, UploadFaithful
<1>7. UploadInStep' BY <1>3, <1>4 DEF IInv, UploadInStep
<1>8. t'.state # "IDLE" => t'.last.seq # t'.seq BY <1>3 DEF IInv, InStep
<1> QED BY <1>1, <1>3, <1>4, <1>5, <1>6, <1>7, <1>8, UploadStepOK

LEMMA TransferUploadOK ==
    ASSUME IInv, NEW lost \in BOOLEAN, TransferUpload(lost)
    PROVE IInv'
<1>1. /\ tester.doing = "upload" /\ UploadAnswered(lost)
      /\ UNCHANGED <<config, erase, flash, policy, seen, accepted, patched>>
  BY DEF TransferUpload, UploadAnswered
<1>2. CASE UploadTaken(tester.seq) BY <1>1, <1>2, UploadTakenOK
<1>3. CASE UploadRepeated(tester.seq) BY <1>1, <1>3, UploadRepeatedOK
<1>4. CASE UploadReadFails(tester.seq) \/ UploadRefused(tester.seq)
  BY <1>1, <1>4, UploadNoBlockOK
<1> QED BY <1>2, <1>3, <1>4 DEF TransferUpload

-----------------------------------------------------------------------------
(* The end of a transfer. *)

\* The last buffer: it completes what is written.
LEMMA FlushingOK ==
    ASSUME IInv, t.state = "DOWNLOAD", t.remaining = 0, NEW outcome \in WriteOutcomes,
           flash' = Programmed(t.addr, t.buf, outcome)
    PROVE /\ flash' \in [Addresses -> Content \cup {Foreign}] /\ OutsideUntouched'
          /\ t.addr + Len(t.buf) = t.base + t.total /\ Len(t.crc) = t.total
          /\ FlushOk(t.buf, outcome) /\ (Readback \/ ~FlashFaults) =>
                \A a \in t.base..(t.base + t.total - 1) :
                   a \in patched \/ flash'[a] = t.crc[a - t.base + 1]
<1> DEFINE len == Len(t.buf)
<1>1. /\ t.base \in Nat /\ t.total \in Nat /\ t.addr \in Nat /\ t.base <= t.addr /\ len \in Nat
      /\ t.buf \in Seq(Content) /\ InRegion(t.base, t.total)
  BY Running, TransferInside
<1>2. t.addr + len = t.base + t.total /\ Len(t.crc) = t.total
  <2>1. Len(t.crc) = t.total BY <1>1, Running
  <2>2. t.addr + Len(t.buf) = t.base + Len(t.crc) BY Running
  <2> QED BY <2>1, <2>2, Zenon
<1>3. OutsideUntouched /\ flash \in [Addresses -> Content \cup {Foreign}] BY DEF IInv, TypeOK
<1>4. flash' \in [Addresses -> Content \cup {Foreign}] /\ OutsideUntouched'
  <2> HIDE DEF len
  <2>1. Span(t.addr, len) \subseteq Writable BY <1>1, <1>2, SpanInRegion
  <2> QED BY <1>1, <1>3, <2>1, ProgrammedInside DEF len
<1>5. ASSUME FlushOk(t.buf, outcome), Readback \/ ~FlashFaults,
             NEW a, a \in t.base..(t.base + t.total - 1)
      PROVE a \in patched \/ flash'[a] = t.crc[a - t.base + 1]
  <2>1. /\ \A b \in t.base..(t.base + t.total - 1) :
              b \notin t.addr..(t.addr + len - 1) => flash'[b] = flash[b]
        /\ \A i \in 1..len : t.addr + i - 1 \in patched \/ flash'[t.addr + i - 1] = t.buf[i]
    <3>1. len = Len(t.buf) /\ t.addr + len <= t.base + t.total BY <1>1, <1>2
    <3> HIDE DEF len
    <3> QED BY <1>1, <1>5, <3>1, WritingOK
  <2>2. \A i \in 1..len : t.buf[i] = t.crc[t.addr - t.base + i] BY Running
  <2> HIDE DEF len
  <2>3. CASE a < t.addr
    <3>1. a \in t.base..(t.addr - 1) /\ a \notin t.addr..(t.addr + len - 1)
      BY <1>1, <1>5, <2>3
    <3>2. a \in patched \/ flash[a] = t.crc[a - t.base + 1]
      BY <1>5, <3>1 DEF IInv, Written
    <3> QED BY <1>5, <2>1, <3>1, <3>2
  <2>4. CASE ~(a < t.addr)
    <3> DEFINE i == a - t.addr + 1
    <3>0. /\ t.base \in Nat /\ t.total \in Nat /\ t.addr \in Nat /\ len \in Nat
          /\ t.addr + len = t.base + t.total /\ a \in t.base..(t.base + t.total - 1)
      BY <1>1, <1>2, <1>5
    <3>1. i \in 1..len /\ t.addr + i - 1 = a /\ t.addr - t.base + i = a - t.base + 1
      BY <2>4, <3>0
    <3> HIDE DEF i
    <3>2. a \in patched \/ flash'[a] = t.buf[i] BY <2>1, <3>1
    <3>3. t.buf[i] = t.crc[a - t.base + 1] BY <2>2, <3>1
    <3> QED BY <3>2, <3>3
  <2> QED BY <2>3, <2>4
<1> QED BY <1>2, <1>4, <1>5

\* What 0x37 does to the tester, and the transfers it is asked about.
ExitStep(lost) ==
    /\ tester' = (IF lost \/ t' = t \/ t'.state = "DOWNLOAD" THEN tester ELSE NoTester)
    /\ ~erase.active /\ UNCHANGED <<config, erase, patched>>

LEMMA ExitTester ==
    ASSUME IInv, NEW lost \in BOOLEAN, ExitStep(lost)
    PROVE tester' \in Tester /\ tester' \in {tester, NoTester}
BY NoTransferOK DEF ExitStep, IInv, TypeOK

\* A transfer that ends without being accepted.
LEMMA ExitAbortsOK ==
    ASSUME IInv, NEW lost \in BOOLEAN, ExitStep(lost), Abort, accepted' = accepted,
           OutsideUntouched', flash' \in [Addresses -> Content \cup {Foreign}],
           t.state # "DOWNLOAD" => flash' = flash
    PROVE IInv'
<1>1. /\ tester' \in Tester /\ tester' \in {tester, NoTester}
      /\ ~erase.active /\ UNCHANGED <<config, erase, accepted, patched>>
  BY ExitTester DEF ExitStep
<1>2. CASE t.state = "DOWNLOAD"
  <2>1. tester'.doing # "upload" BY <1>1, <1>2, NoTransferOK DEF IInv, InStep
  <2> QED BY <1>1, <1>2, <2>1, AbortsOK
<1>3. CASE t.state # "DOWNLOAD"
  <2>1. t' = NoTransfer /\ policy' = "idle" /\ seen' = seen /\ answer' = "negative" /\ flash' = flash
    BY <1>3 DEF Abort, NotifyAbort
  <2>2. TypeOK' BY <1>1, <2>1, NoTransferOK DEF IInv, TypeOK
  <2>3. UploadFaithful' BY <1>1, <2>1, NoTransferOK DEF IInv, UploadFaithful
  <2>4. Accepted' BY <1>1, <2>1, NoTransferOK DEF IInv, Accepted, AcceptedIsImage, Readback
  <2>5. tester'.doing = "upload" => tester' = tester BY <1>1, NoTransferOK
  <2> QED BY <1>1, <2>1, <2>2, <2>3, <2>4, <2>5, EndsOK
<1> QED BY <1>2, <1>3

\* The context once its buffer has been written, and the transfer stays open.
LEMMA NoCrcOK ==
    ASSUME IInv, NEW record \in Records, NEW lost \in BOOLEAN, ExitStep(lost), ExitNoCrc(record)
    PROVE IInv'
<1> DEFINE len == Len(t.buf)
           addr == t.addr + len
           readback == ReadBack(t.buf)
<1>1. PICK outcome \in WriteOutcomes : Flushed(outcome)
  BY DEF ExitNoCrc, ExitWritten
<1>2. /\ t.state = "DOWNLOAD" /\ t.remaining = 0 /\ answer' = "negative"
      /\ t' = [t EXCEPT !.buf = <<>>, !.addr = addr, !.readback = readback]
      /\ UNCHANGED <<policy, seen, accepted>>
  BY DEF ExitNoCrc, ExitWritten, CrcMissing
<1>3. FlushOk(t.buf, outcome) /\ flash' = Programmed(t.addr, t.buf, outcome)
  BY <1>1 DEF Flushed
<1>4. /\ flash' \in [Addresses -> Content \cup {Foreign}] /\ OutsideUntouched'
      /\ addr = t.base + t.total /\ Len(t.crc) = t.total
      /\ Readback \/ ~FlashFaults =>
            \A a \in t.base..(t.base + t.total - 1) :
               a \in patched \/ flash'[a] = t.crc[a - t.base + 1]
  BY <1>2, <1>3, FlushingOK
<1>5. /\ t \in Transfer /\ t.base \in Nat /\ t.total \in Nat /\ t.addr \in Nat /\ len \in Nat
      /\ t.base <= t.addr /\ t.buf \in Seq(Content) /\ t.readback \in Seq(Content)
      /\ \A i \in 1..len : t.buf[i] = t.crc[t.addr - t.base + i]
  BY <1>2, Running
<1>6. readback \in Seq(Content)
  <2>1. CASE Readback
    <3>1. t.readback \o t.buf \in Seq(Content) BY <1>5, ConcatProperties
    <3> QED BY <2>1, <3>1 DEF ReadBack
  <2>2. CASE ~Readback BY <1>5, <2>2 DEF ReadBack
  <2> QED BY <2>1, <2>2
<1>7. addr \in Nat /\ t.base <= addr
  <2> HIDE DEF len
  <2> QED BY <1>5
<1> HIDE DEF addr, readback
<1>8. /\ t' \in Transfer /\ t'.state = "DOWNLOAD" /\ t'.base = t.base /\ t'.total = t.total
      /\ t'.remaining = 0 /\ t'.seq = t.seq /\ t'.last = t.last /\ t'.crc = t.crc
      /\ t'.buf = <<>> /\ t'.addr = addr /\ t'.readback = readback
  <2>1. ASSUME NEW y, y = [t EXCEPT !.buf = <<>>, !.addr = addr, !.readback = readback]
        PROVE /\ y \in Transfer /\ y.state = t.state /\ y.base = t.base /\ y.total = t.total
              /\ y.remaining = t.remaining /\ y.seq = t.seq /\ y.last = t.last /\ y.crc = t.crc
              /\ y.buf = <<>> /\ y.addr = addr /\ y.readback = readback
    BY <1>5, <1>6, <1>7, <2>1, EmptySeq DEF Transfer
  <2> QED BY <1>2, <2>1, Zenon
<1>9. /\ tester' = tester /\ ~erase.active /\ UNCHANGED <<config, erase, patched>>
  BY <1>8 DEF ExitStep
<1>10. Policy' = Policy /\ Readback' = Readback /\ ReadCb' = ReadCb
  BY <1>9 DEF Policy, Readback, ReadCb
<1>11. TypeOK' BY <1>2, <1>4, <1>8, <1>9 DEF IInv, TypeOK
<1>12. Placed'
  <2>1. t.remaining <= t.total /\ InRegion(t.base, t.total) BY <1>2 DEF IInv, Placed
  <2> QED BY <1>2, <1>8, <1>9, <2>1 DEF Placed
<1>13. Buffered'
  <2>1. Len(t'.crc) = t'.total - t'.remaining BY <1>4, <1>5, <1>8
  <2>2. Len(t'.buf) = 0 /\ Len(t'.buf) < Capacity BY <1>8, EmptySeq, Constants
  <2>3. t'.addr + Len(t'.buf) = t'.base + Len(t'.crc)
    <3>1. t'.addr = t'.base + Len(t'.crc) BY <1>4, <1>8, Zenon
    <3>2. t'.addr \in Nat BY <1>7, <1>8
    <3>3. t'.addr + 0 = t'.addr BY <3>2
    <3> QED BY <2>2, <3>1, <3>3, Zenon
  <2> QED BY <1>7, <1>8, <2>1, <2>2, <2>3 DEF Buffered
<1>14. Written'
  <2>1. \A a \in t'.base..(t'.addr - 1) : a \in t.base..(t.base + t.total - 1)
    BY <1>4, <1>5, <1>8
  <2>2. Readback' \/ ~FlashFaults =>
          \A a \in t'.base..(t'.addr - 1) : a \in patched' \/ flash'[a] = t'.crc[a - t'.base + 1]
    BY <1>4, <1>8, <1>9, <1>10, <2>1, Zenon
  <2>3. t'.addr..(t'.base + t'.total - 1) = {}
    BY <1>4, <1>5, <1>8
  <2> QED BY <2>2, <2>3 DEF Written
<1>15. ReadFaithful'
  <2>1. CASE Readback
    <3>1. /\ Len(t.readback) = t.addr - t.base
          /\ \A i \in 1..Len(t.readback) : t.readback[i] = t.crc[i]
      BY <1>2, <2>1 DEF IInv, ReadFaithful
    <3>0. t.readback \in Seq(Content) /\ t.buf \in Seq(Content) BY <1>5
    <3>2. /\ Len(t.readback \o t.buf) = Len(t.readback) + Len(t.buf)
          /\ \A i \in 1..(Len(t.readback) + Len(t.buf)) :
                (t.readback \o t.buf)[i] = IF i <= Len(t.readback) THEN t.readback[i]
                                          ELSE t.buf[i - Len(t.readback)]
      BY ONLY <3>0, ConcatProperties
    <3>3. readback = t.readback \o t.buf BY <2>1 DEF readback, ReadBack
    <3>4. /\ Len(readback) = t.addr - t.base + len
          /\ \A i \in 1..(t.addr - t.base + len) :
                readback[i] = IF i <= t.addr - t.base THEN t.readback[i]
                              ELSE t.buf[i - (t.addr - t.base)]
      BY <3>1, <3>2, <3>3, Zenon
    <3>5. ASSUME NEW i, i \in 1..(t.addr - t.base + len) PROVE readback[i] = t.crc[i]
      <4>1. CASE i <= t.addr - t.base
        <5>1. i \in 1..(t.addr - t.base) BY <1>5, <3>5, <4>1
        <5> QED BY <3>1, <3>4, <3>5, <4>1, <5>1
      <4>2. CASE ~(i <= t.addr - t.base)
        <5> DEFINE k == i - (t.addr - t.base)
        <5> HIDE DEF len
        <5>1. k \in 1..len /\ t.addr - t.base + k = i BY <1>5, <3>5, <4>2
        <5>2. readback[i] = t.buf[k] BY <3>4, <3>5, <4>2
        <5> HIDE DEF k
        <5> QED BY <1>5, <5>1, <5>2
      <4> QED BY <4>1, <4>2
    <3>6. t.addr - t.base + len = addr - t.base
      <4> HIDE DEF len
      <4> QED BY <1>5 DEF addr
    <3>7. Len(t'.readback) = t'.addr - t'.base BY <1>8, <3>4, <3>6, Zenon
    <3>8. \A i \in 1..Len(t'.readback) : t'.readback[i] = t'.crc[i]
      BY <1>8, <3>4, <3>5, Zenon
    <3> QED BY <1>10, <2>1, <3>7, <3>8, Zenon DEF ReadFaithful
  <2>2. CASE ~Readback
    <3>1. t'.readback = <<>> BY <1>2, <1>8, <2>2 DEF readback, ReadBack, IInv, ReadFaithful
    <3> QED BY <1>10, <2>2, <3>1, Zenon DEF ReadFaithful
  <2> QED BY <2>1, <2>2
<1>16. Unharmed' /\ Wiping'
  BY <1>2, <1>8, <1>9 DEF IInv, Unharmed, Wiping
<1>17. InStep' BY <1>2, <1>8, <1>9 DEF IInv, InStep, TesterInStep
<1>18. UploadInStep' /\ UploadFaithful'
  <2>1. tester.doing # "upload" BY <1>2 DEF IInv, InStep
  <2> QED BY <1>8, <1>9, <2>1 DEF UploadInStep, UploadFaithful
<1>19. Accepted'
  <2>1. accepted \in Acceptance BY DEF IInv, TypeOK
  <2>2. accepted.size = 0 BY <1>2, <2>1 DEF IInv, Accepted, Acceptance
  <2> QED BY <1>2, <2>2, NothingAccepted
<1>20. ToldOf'
  <2>1. PolicySeesAll' BY <1>2, <1>8, <1>10 DEF IInv, ToldOf, PolicySeesAll
  <2>2. PolicyToldWithoutUploads' BY <1>8 DEF PolicyToldWithoutUploads
  <2> QED BY <2>1, <2>2 DEF ToldOf
<1> QED BY <1>4, <1>11, <1>12, <1>13, <1>14, <1>15, <1>16, <1>17, <1>18, <1>19, <1>20 DEF IInv

\* The transfer ends without being accepted, its last buffer written or not.
LEMMA RejectedOK ==
    ASSUME IInv, NEW lost \in BOOLEAN, ExitStep(lost), Abort, accepted' = accepted,
           t.state # "IDLE", t.remaining = 0, NEW outcome \in WriteOutcomes,
           flash' = Programmed(t.addr, t.buf, outcome)
    PROVE IInv'
<1>1. OutsideUntouched /\ flash \in [Addresses -> Content \cup {Foreign}] BY DEF IInv, TypeOK
<1>2. CASE t.state = "DOWNLOAD"
  <2>1. flash' \in [Addresses -> Content \cup {Foreign}] /\ OutsideUntouched'
    BY <1>2, FlushingOK
  <2> QED BY <1>2, <2>1, ExitAbortsOK
<1>3. CASE t.state # "DOWNLOAD"
  <2>1. t.state = "UPLOAD" BY <1>3 DEF IInv, TypeOK, Transfer
  <2>2. t.buf = <<>> /\ t.addr \in Nat BY <2>1, TransferInside DEF IInv, UploadInStep
  <2>3. flash' = flash BY <1>1, <2>2, ProgrammedNothing
  <2>4. OutsideUntouched' BY <1>1, <2>3 DEF OutsideUntouched
  <2> QED BY <1>1, <2>3, <2>4, ExitAbortsOK
<1> QED BY <1>2, <1>3

\* What a checked download was compared with.
LEMMA CheckedIsImage ==
    ASSUME IInv, NEW record \in Records, t.state = "DOWNLOAD", t.remaining = 0,
           ~CrcMissing(record), CrcSupplied(record) => CrcMatches(record),
           RecordRequired => seen = Image(0, t.total),
           Policy # "none" \/ CrcSupplied(record) \/ ~Noise
    PROVE \A i \in 1..t.total : t.crc[i] = i - 1
<1>1. Len(t.crc) = t.total /\ t.total \in Nat
  <2>1. /\ Len(t.crc) = t.total - t.remaining /\ t.total \in Nat BY Running
  <2> QED BY <2>1
<1>2. CASE ~Noise BY <1>1, <1>2 DEF IInv, Unharmed
<1>3. ASSUME t.crc = Image(0, t.total) PROVE \A i \in 1..t.total : t.crc[i] = i - 1
  BY <1>1, <1>3 DEF Image
<1>4. CASE CrcSupplied(record) BY <1>3, <1>4 DEF CrcMatches
<1>5. CASE Policy # "none" /\ ~CrcSupplied(record)
  <2>1. RecordRequired BY <1>5 DEF CrcMissing
  <2>2. seen = t.crc BY <1>5 DEF IInv, ToldOf, PolicySeesAll
  <2> QED BY <1>3, <2>1, <2>2
<1> QED BY <1>2, <1>4, <1>5

\* What was verified is in flash, or has been since 0x3D wrote there.
LEMMA VerifiedIsWritten ==
    ASSUME IInv, t.state = "DOWNLOAD", t.remaining = 0, NEW outcome \in WriteOutcomes,
           flash' = Programmed(t.addr, t.buf, outcome), FlushOk(t.buf, outcome),
           Verified([i \in 1..t.total |-> flash'[t.base + i - 1]])
    PROVE \A i \in 1..t.total :
             \/ flash'[t.base + i - 1] = t.crc[i]
             \/ Readback /\ t.base + i - 1 \in patched
<1>1. t.base \in Nat /\ t.total \in Nat /\ t.total > 0
  BY TransferInside DEF InRegion
<1>2. CASE Readback
  <2>1. \A a \in t.base..(t.base + t.total - 1) : a \in patched \/ flash'[a] = t.crc[a - t.base + 1]
    BY <1>2, FlushingOK
  <2>2. ASSUME NEW i, i \in 1..t.total
        PROVE flash'[t.base + i - 1] = t.crc[i] \/ t.base + i - 1 \in patched
    <3> DEFINE a == t.base + i - 1
    <3>1. a \in t.base..(t.base + t.total - 1) /\ a - t.base + 1 = i BY <1>1, <2>2
    <3> HIDE DEF a
    <3>2. a \in patched \/ flash'[a] = t.crc[i] BY <2>1, <3>1
    <3> QED BY <3>2 DEF a
  <2> QED BY <1>2, <2>2
<1>3. CASE ~Readback
  <2>1. ReadBack(t.buf) = <<>> BY <1>3 DEF ReadBack, IInv, ReadFaithful
  <2>2. Len(ReadBack(t.buf)) # t.total BY <1>1, <2>1, EmptySeq
  <2>3. [i \in 1..t.total |-> flash'[t.base + i - 1]] = t.crc BY <2>2 DEF Verified
  <2>4. \A i \in 1..t.total : t.crc[i] = flash'[t.base + i - 1]
    <3> DEFINE region == [i \in 1..t.total |-> flash'[t.base + i - 1]]
    <3>1. \A i \in 1..t.total : region[i] = flash'[t.base + i - 1] OBVIOUS
    <3>2. region = t.crc BY <2>3
    <3> HIDE DEF region
    <3> QED BY <3>1, <3>2
  <2> QED BY <2>4
<1> QED BY <1>2, <1>3

\* A transfer is accepted: a download is in flash.
LEMMA AcceptedOK ==
    ASSUME IInv, NEW record \in Records, NEW lost \in BOOLEAN, ExitStep(lost), ExitAccepted(record)
    PROVE IInv'
<1>1. PICK outcome \in WriteOutcomes : Flushed(outcome) BY DEF ExitAccepted, ExitWritten
<1>2. FlushOk(t.buf, outcome) /\ flash' = Programmed(t.addr, t.buf, outcome) BY <1>1 DEF Flushed
<1>3. /\ t.state # "IDLE" /\ t.remaining = 0 /\ t' = NoTransfer /\ answer' = "positive" /\ seen' = seen
      /\ policy' = (IF t.state = "DOWNLOAD" THEN "idle" ELSE policy)
      /\ accepted' = (IF t.state = "UPLOAD" THEN accepted
                      ELSE [base |-> t.base, size |-> t.total, patched |-> patched,
                            checked |-> Policy # "none" \/ CrcSupplied(record)])
      /\ ~CrcMissing(record) /\ (CrcSupplied(record) => CrcMatches(record))
      /\ RecordRequired => seen = Image(0, t.total)
      /\ Verified([i \in 1..t.total |-> flash'[t.base + i - 1]])
  BY DEF ExitAccepted, ExitWritten, GoodSoFar, Unparsed
<1>4. /\ tester' \in Tester /\ tester' \in {tester, NoTester}
      /\ ~erase.active /\ UNCHANGED <<config, erase, patched>>
  BY ExitTester DEF ExitStep
<1>5. tester'.doing = "upload" => tester' = tester BY <1>4, NoTransferOK
<1>6. Readback' = Readback BY <1>4 DEF Readback
<1>7. OutsideUntouched /\ flash \in [Addresses -> Content \cup {Foreign}] BY DEF IInv, TypeOK
<1>8. CASE t.state = "DOWNLOAD"
  <2>1. flash' \in [Addresses -> Content \cup {Foreign}] /\ OutsideUntouched'
    BY <1>2, <1>3, <1>8, FlushingOK
  <2>2. t.base \in Nat /\ t.total \in Nat /\ InRegion(t.base, t.total) BY <1>8, TransferInside
  <2>3. /\ accepted'.base = t.base /\ accepted'.size = t.total /\ accepted'.patched = patched
        /\ accepted'.checked = (Policy # "none" \/ CrcSupplied(record))
        /\ accepted' \in Acceptance
    <3>1. patched \subseteq Addresses BY DEF IInv, TypeOK
    <3>2. (Policy # "none" \/ CrcSupplied(record)) \in BOOLEAN OBVIOUS
    <3> QED BY <1>3, <1>8, <2>2, <3>1, <3>2 DEF Acceptance
  <2>4. AcceptedIsImage'
    <3>1. SUFFICES ASSUME Policy # "none" \/ CrcSupplied(record) \/ ~Noise,
                          NEW j, j \in 0..(t.total - 1)
                   PROVE flash'[t.base + j] = j \/ (Readback /\ t.base + j \in patched)
      BY <1>6, <2>3 DEF AcceptedIsImage
    <3> DEFINE i == j + 1
    <3>2. i \in 1..t.total /\ t.base + i - 1 = t.base + j /\ i - 1 = j BY <2>2, <3>1
    <3> HIDE DEF i
    <3>3. t.crc[i] = i - 1 BY <1>3, <1>8, <3>1, <3>2, CheckedIsImage
    <3>4. \/ flash'[t.base + i - 1] = t.crc[i]
          \/ Readback /\ t.base + i - 1 \in patched
      BY <1>2, <1>3, <1>8, <3>2, VerifiedIsWritten
    <3> QED BY <3>2, <3>3, <3>4
  <2>5. Accepted' BY <1>3, <1>4, <2>2, <2>3, <2>4, NoTransferOK DEF Accepted
  <2>6. policy' = "idle" BY <1>3, <1>8
  <2>7. TypeOK' BY <1>3, <1>4, <2>1, <2>3, <2>6, NoTransferOK DEF IInv, TypeOK
  <2>8. tester'.doing # "upload" BY <1>5, <1>8 DEF IInv, InStep
  <2>9. UploadFaithful' BY <2>8 DEF UploadFaithful
  <2> QED BY <1>3, <1>4, <2>1, <2>5, <2>6, <2>7, <2>8, <2>9, EndsOK
<1>9. CASE t.state = "UPLOAD"
  <2>1. t.buf = <<>> /\ t.addr \in Nat BY <1>9, TransferInside DEF IInv, UploadInStep
  <2>2. flash' = flash BY <1>2, <1>7, <2>1, ProgrammedNothing
  <2>3. OutsideUntouched' BY <1>7, <2>2 DEF OutsideUntouched
  <2>4. accepted' = accepted /\ policy' = policy BY <1>3, <1>9
  <2>5. TypeOK' BY <1>3, <1>4, <1>7, <2>2, <2>4, NoTransferOK DEF IInv, TypeOK
  <2>6. UploadFaithful' BY <1>4, <1>5, <2>2 DEF IInv, UploadFaithful
  <2>7. Accepted' BY <1>3, <1>4, <1>6, <2>2, <2>4, NoTransferOK DEF IInv, Accepted, AcceptedIsImage
  <2>8. PolicyToldWithoutUploads'
    BY <1>4, <1>9, <2>4 DEF IInv, ToldOf, PolicyToldWithoutUploads, ReadCb
  <2> QED BY <1>3, <1>4, <1>5, <2>3, <2>5, <2>6, <2>7, <2>8, EndsOK
<1> QED BY <1>3, <1>8, <1>9 DEF IInv, TypeOK, Transfer

LEMMA RequestTransferExitOK ==
    ASSUME IInv, NEW record \in Records, NEW lost \in BOOLEAN, RequestTransferExit(record, lost)
    PROVE IInv'
<1>1. ExitStep(lost) BY DEF RequestTransferExit, ExitStep, Requests
<1>2. OutsideUntouched /\ flash \in [Addresses -> Content \cup {Foreign}] BY DEF IInv, TypeOK
<1>3. CASE ExitUnparsed(record)
  <2>1. /\ answer' = "negative" /\ tester' = tester
        /\ UNCHANGED <<config, t, erase, flash, policy, seen, accepted, patched>>
    BY <1>1, <1>3 DEF ExitUnparsed, ExitStep
  <2> QED BY <2>1, NothingOK
<1>4. CASE ExitShort(record)
  <2>1. Abort /\ flash' = flash /\ accepted' = accepted BY <1>4 DEF ExitShort
  <2>2. OutsideUntouched' BY <1>2, <2>1 DEF OutsideUntouched
  <2> QED BY <1>1, <1>2, <2>1, <2>2, ExitAbortsOK
<1>5. CASE ExitNotWritten(record)
  <2>1. /\ Abort /\ accepted' = accepted /\ t.state # "IDLE" /\ t.remaining = 0
        /\ \E outcome \in WriteOutcomes : flash' = Programmed(t.addr, t.buf, outcome)
    BY <1>5 DEF ExitNotWritten, Unparsed
  <2> QED BY <1>1, <2>1, RejectedOK
<1>6. CASE ExitNoCrc(record) BY <1>1, <1>6, NoCrcOK
<1>7. CASE ExitRejected(record)
  <2>1. /\ Abort /\ accepted' = accepted /\ t.state # "IDLE" /\ t.remaining = 0
        /\ \E outcome \in WriteOutcomes : flash' = Programmed(t.addr, t.buf, outcome)
    BY <1>7 DEF ExitRejected, ExitWritten, Unparsed, Flushed
  <2> QED BY <1>1, <2>1, RejectedOK
<1>8. CASE ExitAccepted(record) BY <1>1, <1>8, AcceptedOK
<1> QED BY <1>3, <1>4, <1>5, <1>6, <1>7, <1>8 DEF RequestTransferExit

-----------------------------------------------------------------------------
(* The invariant. *)

LEMMA InitOK == Init => IInv
<1> SUFFICES ASSUME Init PROVE IInv
  OBVIOUS
<1>1. /\ config \in Configs /\ t = NoTransfer /\ erase = NoErase
      /\ flash = [i \in Addresses |-> IF i \in Writable THEN Bad ELSE Foreign]
      /\ policy = "idle" /\ seen = <<>> /\ answer = "none" /\ tester = NoTester
      /\ accepted = NoneAccepted /\ patched = {}
  BY DEF Init
<1>2. /\ t.state = "IDLE" /\ ~erase.active /\ tester.doing = "nothing" /\ accepted.size = 0
  BY <1>1, NoTransferOK
<1>3. Bad \in Content /\ Bad # Foreign BY DEF Content, Bad, Foreign
<1>4. flash \in [Addresses -> Content \cup {Foreign}] BY <1>1, <1>3
<1>5. TypeOK BY <1>1, <1>4, NoTransferOK, EmptySeq DEF TypeOK
<1>6. OutsideUntouched BY <1>1, <1>3 DEF OutsideUntouched
<1>7. /\ Placed /\ Buffered /\ Written /\ Wiping /\ ReadFaithful /\ Unharmed
      /\ UploadInStep /\ UploadFaithful
  BY <1>2 DEF Placed, Buffered, Written, Wiping, ReadFaithful, Unharmed, UploadInStep, UploadFaithful
<1>8. InStep BY <1>2 DEF InStep, TesterInStep
<1>9. Accepted BY <1>2 DEF Accepted, AcceptedIsImage
<1>10. ToldOf BY <1>1, <1>2 DEF ToldOf, PolicySeesAll, PolicyToldWithoutUploads
<1> QED BY <1>5, <1>6, <1>7, <1>8, <1>9, <1>10 DEF IInv

LEMMA StepOK == IInv /\ [Next]_vars => IInv'
<1> SUFFICES ASSUME IInv, [Next]_vars PROVE IInv'
  OBVIOUS
<1>1. ASSUME NEW ask \in Asked, NEW lost \in BOOLEAN, DownloadErased(ask, lost) PROVE IInv'
  BY <1>1, EraseOK
<1>2. ASSUME NEW ask \in Asked, NEW lost \in BOOLEAN, RequestUpload(ask, lost) PROVE IInv'
  BY <1>2, RequestUploadOK
<1>3. ASSUME NEW ask \in Asked, DownloadEraseFails(ask) \/ DownloadDeferred(ask) PROVE IInv'
  BY <1>3, EraseOK
<1>4. ASSUME NEW ask \in Asked, DownloadRefused(ask) PROVE IInv'
  BY <1>4, NothingOK DEF DownloadRefused, RefuseRequest
<1>5. ASSUME NEW ask \in Asked, DownloadNotDeferred(ask) PROVE IInv'
  BY <1>5, NothingOK DEF DownloadNotDeferred, NotifyAbort
<1>6. ASSUME NEW ask \in Asked, WriteMemory(ask) \/ WriteMemoryFails(ask) PROVE IInv'
  <2>1. CASE MemoryWritten(ask) /\ answer' \in {"positive", "negative"} BY <2>1, MemoryOK
  <2>2. CASE RefuseRequest BY <2>2, NothingOK DEF RefuseRequest
  <2> QED BY <1>6, <2>1, <2>2 DEF WriteMemory, WriteMemoryFails
<1>7. ASSUME NEW n \in 0..(erase.total + 1), EraseStep(n) \/ EraseStepFails(n) PROVE IInv'
  <2>1. erase.total \in Nat BY DEF IInv, TypeOK, EraseJob
  <2>2. n \in Nat BY <2>1
  <2> QED BY <1>7, <2>2, EraseOK
<1>8. ASSUME NEW lost \in BOOLEAN, EraseDone(lost) PROVE IInv'
  BY <1>8, EraseOK
<1>9. ASSUME NEW lost \in BOOLEAN, TransferUpload(lost) PROVE IInv'
  BY <1>9, TransferUploadOK
<1>10. ASSUME NEW len \in 1..Capacity, NEW lost \in BOOLEAN, NEW data \in Payloads(len),
              TransferData(len, data, lost)
       PROVE IInv'
  BY <1>10, TransferDataOK
<1>11. ASSUME NEW seq \in 0..MaxSeq, NEW len \in 1..(Capacity + 1), StrayBlock(seq, len) PROVE IInv'
  BY <1>11, StrayBlockOK
<1>12. ASSUME NEW record \in Records, NEW lost \in BOOLEAN, RequestTransferExit(record, lost)
       PROVE IInv'
  BY <1>12, RequestTransferExitOK
<1>13. ASSUME NEW known \in BOOLEAN, SessionEnds(known) PROVE IInv'
  BY <1>13, SessionEndsOK
<1>14. CASE UNCHANGED vars
  <2>1. answer \in {"none", "positive", "negative"} BY DEF IInv, TypeOK
  <2> QED BY <1>14, <2>1, NothingOK DEF vars
<1> QED BY <1>1, <1>2, <1>3, <1>4, <1>5, <1>6, <1>7, <1>8, <1>9, <1>10, <1>11, <1>12, <1>13,
           <1>14 DEF Next

\* The invariant holds from the start on.
THEOREM Invariant == Spec => []IInv
<1> QED BY InitOK, StepOK, PTL DEF Spec

-----------------------------------------------------------------------------
(* What it shows. *)

\* Types of the transfer context, the flash and the tester.
THEOREM TypeCorrect == Spec => []TypeOK
<1>1. IInv => TypeOK BY DEF IInv
<1> QED BY <1>1, Invariant, PTL

\* Nothing outside of the writable region is ever written, for every region,
\* request and split into blocks and erase steps.
THEOREM OutsideStaysUntouched == Spec => []OutsideUntouched
<1>1. IInv => OutsideUntouched BY DEF IInv
<1> QED BY <1>1, Invariant, PTL

\* What 0x37 accepts is in flash, whole and in order.
THEOREM AcceptedDownloadsAreImages == Spec => []AcceptedIsImage
<1>1. IInv => AcceptedIsImage BY DEF IInv, Accepted
<1> QED BY <1>1, Invariant, PTL

\* The image policy is given every byte of a download once and in order.
THEOREM PolicySeesEveryByte == Spec => []PolicySeesAll
<1>1. IInv => PolicySeesAll BY DEF IInv, ToldOf
<1> QED BY <1>1, Invariant, PTL

\* The policy is told of the end of every download it was told of.
THEOREM PolicyIsTold == Spec => []PolicyToldWithoutUploads
<1>1. IInv => PolicyToldWithoutUploads BY DEF IInv, ToldOf
<1> QED BY <1>1, Invariant, PTL

\* A tester that sends a block again when it has no answer stays in step.
THEOREM TesterStaysInStep == Spec => []TesterInStep
<1>1. IInv => TesterInStep BY DEF IInv, InStep
<1> QED BY <1>1, Invariant, PTL

\* An upload gives the region's bytes, in order and once.
THEOREM UploadsAreFaithful == Spec => []UploadFaithful
<1>1. IInv => UploadFaithful BY DEF IInv
<1> QED BY <1>1, Invariant, PTL

\* Buffer, flash and accumulator agree at every point of a download.
THEOREM NothingGetsLost == Spec => []NothingLost
<1>1. ASSUME IInv, t.state = "DOWNLOAD"
      PROVE LET written == t.addr - t.base IN
            /\ written + Len(t.buf) = t.total - t.remaining
            /\ t.crc = SubSeq(t.crc, 1, written) \o t.buf
            /\ Readback \/ ~FlashFaults =>
                 \A i \in 1..written : t.base + i - 1 \in patched \/ flash[t.base + i - 1] = t.crc[i]
  <2> DEFINE written == t.addr - t.base
             len == Len(t.buf)
             start == SubSeq(t.crc, 1, written)
  <2>1. /\ t.base \in Nat /\ t.addr \in Nat /\ t.base <= t.addr /\ len \in Nat
        /\ t.crc \in Seq(Content) /\ t.buf \in Seq(Content)
        /\ Len(t.crc) = t.addr + Len(t.buf) - t.base /\ Len(t.crc) = t.total - t.remaining
        /\ \A i \in 1..Len(t.buf) : t.buf[i] = t.crc[t.addr - t.base + i]
    BY <1>1, Running
  <2>2. Len(t.crc) = written + len /\ written \in Nat
    <3> HIDE DEF len
    <3>1. Len(t.crc) = t.addr + len - t.base BY <2>1 DEF len
    <3> QED BY <2>1, <3>1
  <2>3. /\ start \in Seq(Content) /\ Len(start) = written
        /\ \A i \in 1..written : start[i] = t.crc[i]
    <3> HIDE DEF written, len
    <3>1. \A i \in 1..written : i \in 1..Len(t.crc) BY <2>1, <2>2
    <3>2. \A i \in 1..written : t.crc[i] \in Content BY <2>1, <3>1, ElementOfSeq
    <3> QED BY <2>2, <3>2, SubSeqProperties
  <2>4. t.crc = start \o t.buf
    <3> HIDE DEF written, start
    <3>0. /\ start \in Seq(Content) /\ t.buf \in Seq(Content)
          /\ Len(start) = written /\ Len(t.buf) = len
      BY <2>1, <2>3
    <3>c. /\ start \o t.buf \in Seq(Content) /\ Len(start \o t.buf) = Len(start) + Len(t.buf)
          /\ \A i \in 1..(Len(start) + Len(t.buf)) :
                (start \o t.buf)[i] = IF i <= Len(start) THEN start[i] ELSE t.buf[i - Len(start)]
      BY ONLY <3>0, ConcatProperties
    <3>1. /\ start \o t.buf \in Seq(Content) /\ Len(start \o t.buf) = written + len
          /\ \A i \in 1..(written + len) :
                (start \o t.buf)[i] = IF i <= written THEN start[i] ELSE t.buf[i - written]
      BY <3>0, <3>c
    <3>2. \A i \in 1..len : t.buf[i] = t.crc[written + i] BY <2>1 DEF written
    <3> HIDE DEF len
    <3>3. ASSUME NEW i, i \in 1..(written + len) PROVE (start \o t.buf)[i] = t.crc[i]
      <4>0. len \in Nat /\ written \in Nat BY <2>1, <2>2
      <4>1. CASE i <= written
        <5>1. i \in 1..written BY <3>3, <4>0, <4>1
        <5> QED BY <2>3, <3>1, <3>3, <4>1, <5>1
      <4>2. CASE ~(i <= written)
        <5> DEFINE k == i - written
        <5>1. k \in 1..len /\ written + k = i BY <3>3, <4>0, <4>2
        <5>2. (start \o t.buf)[i] = t.buf[k] BY <3>1, <3>3, <4>2
        <5> HIDE DEF k
        <5> QED BY <3>2, <5>1, <5>2
      <4> QED BY <4>1, <4>2
    <3> QED BY <2>1, <2>2, <3>1, <3>3, SeqEqual
  <2>5. ASSUME Readback \/ ~FlashFaults, NEW i \in 1..written
        PROVE t.base + i - 1 \in patched \/ flash[t.base + i - 1] = t.crc[i]
    <3> DEFINE a == t.base + i - 1
    <3>1. a \in t.base..(t.addr - 1) /\ a - t.base + 1 = i BY <2>1
    <3> HIDE DEF a
    <3>2. a \in patched \/ flash[a] = t.crc[a - t.base + 1]
      BY <1>1, <2>5, <3>1 DEF IInv, Written
    <3> QED BY <3>1, <3>2 DEF a
  <2>6. written + Len(t.buf) = t.total - t.remaining BY <2>1, <2>2, Zenon
  <2> QED BY <2>4, <2>5, <2>6
<1>2. IInv => NothingLost BY <1>1 DEF NothingLost
<1> QED BY <1>2, Invariant, PTL

=============================================================================
