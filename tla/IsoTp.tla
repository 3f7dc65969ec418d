------------------------------- MODULE IsoTp -------------------------------
(***************************************************************************)
(* The ISO-TP transport of transport/isotp.c at both ends of a CAN bus:    *)
(* segmented transmission and reassembly, flow control and the N_Bs and    *)
(* N_Cr timeouts, driven as examples/basic_ecu/src/main.c drives them:     *)
(* received frames first, then the tick.  The bus loses and repeats        *)
(* frames, the driver may refuse one, and a receiver may ask to wait.      *)
(*                                                                         *)
(* A payload is counted in frames: cell i of message m is what frame i of  *)
(* it carries.  Bus and clocks: a frame spends at most Lag ticks on the    *)
(* wire, and the two ends tick in turn.                                    *)
(***************************************************************************)
EXTENDS Integers, Sequences

CONSTANTS
    Nodes,          \* the two ends
    Msgs,           \* messages
    Plans,          \* choices of: node -> the messages its application sends
    Cells,          \* message -> its length in frames
    RxBuf,          \* ISOTP_RX_BUF_LEN, in frames
    BlockSize,      \* node -> local_block_size, 0 for no limit
    StMin,          \* node -> local_stmin_ms
    SnMod,          \* the sequence number counts modulo this (16 in the code)
    First,          \* the end that ticks first
    BsTimeout,      \* ISOTP_TIMEOUT_BS_MS
    CrTimeout,      \* ISOTP_TIMEOUT_CR_MS
    Lag,            \* bound: ticks a frame spends on the wire
    Patient,        \* the application leaves its buffer alone while it is being sent
    MaxFaults,      \* bound on lost, repeated, refused frames and waits
    None

ASSUME NodesAssumption == \E a, b \in Nodes : a # b /\ Nodes = {a, b} /\ First \in {a, b}
ASSUME MsgsAssumption ==
    /\ Cells \in [Msgs -> Nat \ {0}] /\ Plans \subseteq [Nodes -> SUBSET Msgs]
    /\ \E l \in Msgs : \A m \in Msgs : Cells[m] <= Cells[l]
    /\ None \notin Msgs
ASSUME NumbersAssumption ==
    /\ RxBuf \in Nat \ {0} /\ SnMod \in Nat \ {0} /\ MaxFaults \in Nat /\ Lag \in Nat
    /\ BlockSize \in [Nodes -> Nat] /\ StMin \in [Nodes -> Nat]
    /\ BsTimeout \in Nat \ {0} /\ CrTimeout \in Nat \ {0}
    /\ Patient \in BOOLEAN

Peer(n) == CHOOSE p \in Nodes : p # n
Longest == CHOOSE l \in {Cells[m] : m \in Msgs} : \A m \in Msgs : Cells[m] <= l

VARIABLES
    tx,         \* node -> transmit channel
    rx,         \* node -> receive channel
    buf,        \* node -> what each cell of its message buffer holds: the message it is of
    unsent,     \* node -> messages its application has not tried to send yet
    wire,       \* node -> frames on their way to it
    got,        \* node -> the last message its callback was given, cell by cell
    owed,       \* history: node -> the message it sends since the last fault, until it arrives
    turn,       \* whose tick is next
    faults

vars == <<tx, rx, buf, unsent, wire, got, owed, turn, faults>>

-----------------------------------------------------------------------------
TxIdle == [st |-> "IDLE", len |-> 0, sent |-> 0, sn |-> 0, bs |-> 0, stmin |-> 0,
           blocks |-> 0, timer |-> 0]
TxError == [TxIdle EXCEPT !.st = "ERROR"]
RxIdle == [st |-> "IDLE", len |-> 0, data |-> <<>>, sn |-> 0, blocks |-> 0, timer |-> 0]
RxError == [RxIdle EXCEPT !.st = "ERROR"]

Init ==
    /\ tx = [n \in Nodes |-> TxIdle]
    /\ rx = [n \in Nodes |-> RxIdle]
    /\ buf = [n \in Nodes |-> [i \in 1..Longest |-> None]]
    /\ unsent \in Plans
    /\ wire = [n \in Nodes |-> <<>>]
    /\ got = [n \in Nodes |-> <<>>]
    /\ owed = [n \in Nodes |-> None]
    /\ turn = First
    /\ faults = 0

Frame(t, len, sn, cell, bs, stmin) ==
    [type |-> t, len |-> len, sn |-> sn, cell |-> cell, bs |-> bs, stmin |-> stmin, age |-> 0]

SF(cell) == Frame("SF", 1, 0, cell, 0, 0)
Func(cell) == Frame("FUNC", 1, 0, cell, 0, 0)
FF(len, cell) == Frame("FF", len, 0, cell, 0, 0)
CF(sn, cell) == Frame("CF", 0, sn, cell, 0, 0)
FC(fs, n) == Frame(fs, 0, 0, <<None, 0>>, BlockSize[n], StMin[n])

Fault == faults < MaxFaults /\ faults' = faults + 1

\* can_transport_transmit takes the frames, or the driver refuses them.
Accepted(w, n, frames) == wire' = [w EXCEPT ![Peer(n)] = @ \o frames]

-----------------------------------------------------------------------------
(* isotp_transmit, and the application that calls it. *)

\* The callback writes its answer into the buffer before it calls isotp_transmit.
Filled(n, m) == [buf EXCEPT ![n] = [i \in 1..Longest |-> IF i <= Cells[m] THEN m ELSE @[i]]]

\* The channel after the first frame of m went out; a single frame leaves it idle.
Started(m) ==
    IF Cells[m] = 1 THEN TxIdle
    ELSE [TxIdle EXCEPT !.st = "WAIT_FC", !.len = Cells[m], !.sent = 1, !.sn = 1,
                        !.timer = BsTimeout]

\* A message of one frame may also go to the functional CAN id.
FirstFrames(m) ==
    IF Cells[m] = 1 THEN {SF(<<m, 1>>), Func(<<m, 1>>)} ELSE {FF(Cells[m], <<m, 1>>)}

Offer(n, m) ==
    /\ m \in unsent[n]
    /\ unsent' = [unsent EXCEPT ![n] = @ \ {m}]
    /\ UNCHANGED <<rx, got, turn>>

Transmit(n, m) ==
    /\ Offer(n, m)
    /\ tx[n].st \in {"IDLE", "ERROR"}
    /\ tx' = [tx EXCEPT ![n] = Started(m)]
    /\ buf' = Filled(n, m)
    /\ \E f \in FirstFrames(m) : Accepted(wire, n, <<f>>)
    /\ owed' = [owed EXCEPT ![n] = IF faults = MaxFaults /\ Cells[m] <= RxBuf THEN m ELSE @]
    /\ UNCHANGED faults

\* The first frame is refused: ERR_TP_TX_FAILED, and the channel is idle.
TransmitRefused(n, m) ==
    /\ Offer(n, m)
    /\ tx[n].st \in {"IDLE", "ERROR"}
    /\ tx' = [tx EXCEPT ![n] = TxIdle]
    /\ buf' = Filled(n, m)
    /\ Fault
    /\ UNCHANGED <<wire, owed>>

\* ERR_BUSY: the message is dropped; an application with a single buffer has
\* overwritten the message under way by then.
TransmitBusy(n, m) ==
    /\ Offer(n, m)
    /\ tx[n].st \in {"WAIT_FC", "SEND_CF"}
    /\ buf' = IF Patient THEN buf ELSE Filled(n, m)
    /\ UNCHANGED <<tx, wire, owed, faults>>

-----------------------------------------------------------------------------
(* isotp_process_rx_frame. *)

Popped(n) == [wire EXCEPT ![n] = Tail(@)]

Arrives(n, type) == wire[n] # <<>> /\ Head(wire[n]).type = type

Deliver(n, data) ==
    /\ got' = [got EXCEPT ![n] = data]
    /\ owed' = [owed EXCEPT ![Peer(n)] = IF @ = data[1][1] THEN None ELSE @]

\* A functional single frame has a buffer of its own and leaves the reassembly alone.
ReceiveSingle(n) ==
    /\ \/ Arrives(n, "SF") /\ rx' = [rx EXCEPT ![n] = RxIdle]
       \/ Arrives(n, "FUNC") /\ UNCHANGED rx
    /\ Deliver(n, <<Head(wire[n]).cell>>)
    /\ wire' = Popped(n)
    /\ UNCHANGED <<tx, buf, unsent, turn, faults>>

\* isotp_send_fc: a receiver that is not this code may ask to wait before it lets go on.
\* Refused, the reception is over.
FlowControl(n, fs, go) ==
    \/ Accepted(Popped(n), n, <<FC(fs, n)>>) /\ rx' = [rx EXCEPT ![n] = go] /\ UNCHANGED faults
    \/ Accepted(Popped(n), n, <<FC("WAIT", n), FC(fs, n)>>) /\ rx' = [rx EXCEPT ![n] = go] /\ Fault
    \/ wire' = Popped(n) /\ rx' = [rx EXCEPT ![n] = RxError] /\ Fault

\* Mutant: a first frame is ignored while a message is being reassembled or has failed.
ReceiveFirstIfIdle(n) ==
    /\ Arrives(n, "FF")
    /\ LET f == Head(wire[n])
           reassembly == [st |-> "WAIT_CF", len |-> f.len, data |-> <<f.cell>>, sn |-> 1,
                          blocks |-> 0, timer |-> CrTimeout]
       IN IF f.len > RxBuf THEN FlowControl(n, "OVFLW", rx[n])
          ELSE IF rx[n].st # "IDLE" THEN wire' = Popped(n) /\ UNCHANGED <<rx, faults>>
          ELSE FlowControl(n, "CTS", reassembly)
    /\ UNCHANGED <<tx, buf, unsent, got, owed, turn>>

ReceiveFirst(n) ==
    /\ Arrives(n, "FF")
    /\ LET f == Head(wire[n])
           reassembly == [st |-> "WAIT_CF", len |-> f.len, data |-> <<f.cell>>, sn |-> 1,
                          blocks |-> 0, timer |-> CrTimeout]
       IN IF f.len > RxBuf THEN FlowControl(n, "OVFLW", rx[n])
          ELSE FlowControl(n, "CTS", reassembly)
    /\ UNCHANGED <<tx, buf, unsent, got, owed, turn>>

\* A consecutive frame nobody waits for is dropped, one out of sequence ends the reception.
ReceiveStray(n) ==
    /\ Arrives(n, "CF")
    /\ \/ rx[n].st # "WAIT_CF" /\ UNCHANGED rx
       \/ /\ rx[n].st = "WAIT_CF" /\ Head(wire[n]).sn # rx[n].sn % SnMod
          /\ rx' = [rx EXCEPT ![n] = RxError]
    /\ wire' = Popped(n)
    /\ UNCHANGED <<tx, buf, unsent, got, owed, turn, faults>>

\* Mutant: the sequence number is not compared.
InSequenceAny(n) == Arrives(n, "CF") /\ rx[n].st = "WAIT_CF"

InSequence(n) ==
    Arrives(n, "CF") /\ rx[n].st = "WAIT_CF" /\ Head(wire[n]).sn = rx[n].sn % SnMod

Extended(n) == Append(rx[n].data, Head(wire[n]).cell)

ReceiveLast(n) ==
    /\ InSequence(n)
    /\ Len(Extended(n)) = rx[n].len
    /\ Deliver(n, Extended(n))
    /\ rx' = [rx EXCEPT ![n] = RxIdle]
    /\ wire' = Popped(n)
    /\ UNCHANGED <<tx, buf, unsent, turn, faults>>

\* The local block size asks for flow control after every full block.
ReceiveNext(n) ==
    /\ InSequence(n)
    /\ Len(Extended(n)) < rx[n].len
    /\ LET full == BlockSize[n] # 0 /\ rx[n].blocks + 1 >= BlockSize[n]
           next == [rx[n] EXCEPT !.data = Extended(n), !.sn = @ + 1, !.timer = CrTimeout,
                                 !.blocks = IF full \/ BlockSize[n] = 0 THEN 0 ELSE @ + 1]
       IN IF full THEN FlowControl(n, "CTS", next)
          ELSE wire' = Popped(n) /\ rx' = [rx EXCEPT ![n] = next] /\ UNCHANGED faults
    /\ UNCHANGED <<tx, buf, unsent, got, owed, turn>>

\* Flow control counts only while the channel waits for it.
ReceiveFlow(n) ==
    /\ wire[n] # <<>> /\ Head(wire[n]).type \in {"CTS", "WAIT", "OVFLW"}
    /\ LET f == Head(wire[n])
           go == [tx[n] EXCEPT !.st = "SEND_CF", !.bs = f.bs, !.stmin = f.stmin,
                               !.blocks = 0, !.timer = f.stmin]
       IN tx' = [tx EXCEPT ![n] =
                    IF @.st # "WAIT_FC" THEN @
                    ELSE CASE f.type = "CTS" -> go
                           [] f.type = "WAIT" -> [@ EXCEPT !.timer = BsTimeout]
                           [] f.type = "OVFLW" -> TxError]
    /\ wire' = Popped(n)
    /\ UNCHANGED <<rx, buf, unsent, got, owed, turn, faults>>

Receive(n) ==
    \/ ReceiveSingle(n) \/ ReceiveFirst(n) \/ ReceiveStray(n)
    \/ ReceiveLast(n) \/ ReceiveNext(n) \/ ReceiveFlow(n)

-----------------------------------------------------------------------------
(* isotp_tick_1ms. *)

Minus1(x) == IF x = 0 THEN 0 ELSE x - 1

\* isotp_tx_pump: the channel after the next consecutive frame went out.
Pumped(c) ==
    LET sent == [c EXCEPT !.sent = @ + 1, !.sn = @ + 1, !.blocks = @ + 1, !.timer = c.stmin]
    IN IF sent.sent >= sent.len THEN TxIdle
       ELSE IF c.bs # 0 /\ sent.blocks >= c.bs
       THEN [sent EXCEPT !.st = "WAIT_FC", !.blocks = 0, !.timer = BsTimeout]
       ELSE sent

NextFrame(n) == CF(tx[n].sn % SnMod, <<buf[n][tx[n].sent + 1], tx[n].sent + 1>>)

Aged == [n \in Nodes |-> [i \in 1..Len(wire[n]) |-> [wire[n][i] EXCEPT !.age = @ + 1]]]

\* The end whose turn it is has taken every frame that is due.
Due(n) ==
    /\ turn = n
    /\ \A p \in Nodes : \A i \in 1..Len(wire[p]) : wire[p][i].age < Lag
    /\ turn' = Peer(n)
    /\ UNCHANGED <<buf, unsent, got, owed>>

RxExpires(n) == rx[n].st = "WAIT_CF" /\ rx[n].timer <= 1

RxTicked(n) == [rx EXCEPT ![n].timer = IF rx[n].st = "WAIT_CF" THEN @ - 1 ELSE @]

\* N_Cr has passed: the tick returns before it looks at the transmission.
TickCr(n) ==
    /\ Due(n)
    /\ RxExpires(n)
    /\ rx' = [rx EXCEPT ![n] = RxError]
    /\ wire' = Aged
    /\ UNCHANGED <<tx, faults>>

\* Nothing to send: the N_Bs and STmin timers run.
TickWait(n) ==
    /\ Due(n)
    /\ ~RxExpires(n)
    /\ ~(tx[n].st = "SEND_CF" /\ Minus1(tx[n].timer) = 0)
    /\ rx' = RxTicked(n)
    /\ tx' = [tx EXCEPT ![n] = IF tx[n].st = "WAIT_FC" /\ tx[n].timer <= 1 THEN TxError
                               ELSE [tx[n] EXCEPT !.timer = Minus1(@)]]
    /\ wire' = Aged
    /\ UNCHANGED faults

\* STmin has passed: the next consecutive frame goes out, or is refused.
TickPump(n) ==
    /\ Due(n)
    /\ ~RxExpires(n)
    /\ tx[n].st = "SEND_CF" /\ Minus1(tx[n].timer) = 0
    /\ rx' = RxTicked(n)
    /\ \/ /\ tx' = [tx EXCEPT ![n] = Pumped(@)]
          /\ Accepted(Aged, n, <<NextFrame(n)>>)
          /\ UNCHANGED faults
       \/ tx' = [tx EXCEPT ![n] = TxError] /\ wire' = Aged /\ Fault

Tick(n) == TickCr(n) \/ TickWait(n) \/ TickPump(n)

-----------------------------------------------------------------------------
(* The bus, and the resets an integration may call. *)

Lose(n) ==
    /\ wire[n] # <<>>
    /\ wire' = Popped(n)
    /\ Fault
    /\ UNCHANGED <<tx, rx, buf, unsent, got, owed, turn>>

Repeat(n) ==
    /\ wire[n] # <<>>
    /\ wire' = [wire EXCEPT ![n] = <<Head(@)>> \o @]
    /\ Fault
    /\ UNCHANGED <<tx, rx, buf, unsent, got, owed, turn>>

\* The application resets a channel that has reported an error (isotp_reset_rx,
\* isotp_reset_tx; isotp_reset does both).
ResetRx(n) ==
    /\ rx[n].st = "ERROR"
    /\ rx' = [rx EXCEPT ![n] = RxIdle]
    /\ UNCHANGED <<tx, buf, unsent, wire, got, owed, turn, faults>>

ResetTx(n) ==
    /\ tx[n].st = "ERROR"
    /\ tx' = [tx EXCEPT ![n] = TxIdle]
    /\ UNCHANGED <<rx, buf, unsent, wire, got, owed, turn, faults>>

Next ==
    \E n \in Nodes :
        \/ \E m \in Msgs : Transmit(n, m) \/ TransmitRefused(n, m) \/ TransmitBusy(n, m)
        \/ Receive(n)
        \/ Tick(n)
        \/ Lose(n) \/ Repeat(n) \/ ResetRx(n) \/ ResetTx(n)

Spec == Init /\ [][Next]_vars

\* The loop of either end runs each millisecond and drains the frames it was sent;
\* Lag makes the one wait for the other.
Progress == \E n \in Nodes : Receive(n) \/ Tick(n)

FairSpec == Spec /\ WF_vars(Progress)

-----------------------------------------------------------------------------
Whole(m) == [i \in 1..Cells[m] |-> <<m, i>>]

\* What a node is given is a message of its peer, complete and unmixed.  Frames are
\* numbered and messages are not, so that this has a limit: neither losses nor repetitions
\* alone, nor any two faults, mix messages that fit the receiver's buffer, but a repeated
\* frame and two lost ones may, and so may two faults around a first frame that is too
\* long, as refusing it leaves the reassembly before it open.
DeliveredWhole ==
    \A n \in Nodes : got[n] # <<>> => \E p \in Plans : \E m \in p[Peer(n)] : got[n] = Whole(m)

\* No transmission waits for ever, and once the faults are over the next message arrives,
\* whatever state they left behind.
Recovers ==
    \A n \in Nodes : /\ (tx[n].st \in {"WAIT_FC", "SEND_CF"}) ~> (tx[n].st \in {"IDLE", "ERROR"})
                     /\ (owed[n] # None) ~> (owed[n] = None)

=============================================================================
