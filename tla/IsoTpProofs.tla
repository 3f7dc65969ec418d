---------------------------- MODULE IsoTpProofs ----------------------------
(***************************************************************************)
(* Proofs about IsoTp, for any two ends, messages, buffer and block sizes, *)
(* timeouts and number of faults.                                          *)
(*                                                                         *)
(* Linked     what the two ends of each direction agree on, whatever the   *)
(*            bus does: a sender reads one message and is where its number *)
(*            says, a frame is what it claims, a reassembly is of a message*)
(*            that was sent.                                               *)
(* Order      holds while no frame is repeated: numbers only grow, and a   *)
(*            frame a reassembly could mistake for its next one is never on*)
(*            the bus.  It needs Timing: when N_Bs runs out, nothing of the*)
(*            transmission is under way any more.                          *)
(* Chain      holds while no frame is lost: from the reassembly along the  *)
(*            queue to the sender, each cell is the last again or the next.*)
(***************************************************************************)
EXTENDS IsoTp, SequenceTheorems, TLAPS

Cell == (Msgs \cup {None}) \X Nat

Frames ==
    [type : {"SF", "FUNC", "FF", "CF", "CTS", "WAIT", "OVFLW"}, len : Nat, sn : Nat,
     cell : Cell, bs : Nat, stmin : Nat, age : Nat]

Channels ==
    [st : {"IDLE", "WAIT_FC", "SEND_CF", "ERROR"}, len : Nat, sent : Nat, sn : Nat, bs : Nat,
     stmin : Nat, blocks : Nat, timer : Nat]

Reassemblies ==
    [st : {"IDLE", "WAIT_CF", "ERROR"}, len : Nat, data : Seq(Cell), sn : Nat, blocks : Nat,
     timer : Nat]

TypeOK ==
    /\ tx \in [Nodes -> Channels]
    /\ rx \in [Nodes -> Reassemblies]
    /\ buf \in [Nodes -> [1..Longest -> Msgs \cup {None}]]
    /\ unsent \in [Nodes -> SUBSET Msgs]
    /\ wire \in [Nodes -> Seq(Frames)]
    /\ got \in [Nodes -> Seq(Cell)]
    /\ owed \in [Nodes -> Msgs \cup {None}]
    /\ turn \in Nodes
    /\ faults \in Nat

Busy(T) == T.st \in {"WAIT_FC", "SEND_CF"}

\* The next cell a sender reads is inside its buffer.
InBuffer == \A n \in Nodes : Busy(tx[n]) => tx[n].sent < tx[n].len /\ tx[n].len <= Longest

-----------------------------------------------------------------------------
(* Nodes, lengths, queues. *)

LEMMA Ends ==
    ASSUME NEW n \in Nodes
    PROVE  /\ Peer(n) \in Nodes /\ Peer(n) # n /\ Peer(Peer(n)) = n
           /\ Nodes = {n, Peer(n)} /\ First \in Nodes
<1>1. PICK a, b \in Nodes : a # b /\ Nodes = {a, b} /\ First \in {a, b}
  BY NodesAssumption
<1>2. \A k \in Nodes : \A p \in Nodes : p # k => Peer(k) = p
  <2>1. SUFFICES ASSUME NEW k \in Nodes, NEW p \in Nodes, p # k PROVE Peer(k) = p
    OBVIOUS
  <2>2. \A q \in Nodes : q # k => q = p
    BY <1>1, <2>1
  <2>3. Peer(k) \in Nodes /\ Peer(k) # k
    BY <2>1 DEF Peer
  <2> QED BY <2>2, <2>3
<1> QED BY <1>1, <1>2

LEMMA Lengths ==
    /\ Longest \in Nat
    /\ \A m \in Msgs : Cells[m] \in Nat \ {0} /\ Cells[m] <= Longest
<1> DEFINE Sizes == {Cells[m] : m \in Msgs}
<1>1. \E l \in Sizes : \A m \in Msgs : Cells[m] <= l
  BY MsgsAssumption
<1>2. Longest \in Sizes /\ \A m \in Msgs : Cells[m] <= Longest
  BY <1>1 DEF Longest
<1> QED BY <1>2, MsgsAssumption

LEMMA TailFacts ==
    ASSUME NEW S, NEW q \in Seq(S), q # <<>>
    PROVE  /\ Tail(q) \in Seq(S) /\ Head(q) = q[1] /\ Head(q) \in S
           /\ Len(q) \in Nat \ {0} /\ Len(Tail(q)) = Len(q) - 1
           /\ \A i \in 1..Len(Tail(q)) : i + 1 \in 1..Len(q) /\ Tail(q)[i] = q[i + 1]
<1>1. Len(q) \in Nat \ {0}
  BY EmptySeq, LenProperties
<1> QED BY <1>1, HeadTailProperties

LEMMA JoinFacts ==
    ASSUME NEW S, NEW q \in Seq(S), NEW fs \in Seq(S)
    PROVE  /\ q \o fs \in Seq(S) /\ Len(q \o fs) = Len(q) + Len(fs)
           /\ Len(q) \in Nat /\ Len(fs) \in Nat
           /\ \A i \in 1..Len(q) : (q \o fs)[i] = q[i]
           /\ \A i \in 1..Len(fs) : (q \o fs)[Len(q) + i] = fs[i]
           /\ \A i \in 1..Len(q \o fs) :
                 i \in 1..Len(q) \/ (i - Len(q) \in 1..Len(fs) /\ (q \o fs)[i] = fs[i - Len(q)])
<1>1. /\ q \o fs \in Seq(S) /\ Len(q \o fs) = Len(q) + Len(fs)
      /\ Len(q) \in Nat /\ Len(fs) \in Nat
  BY ConcatProperties, LenProperties
<1>2. \A i \in 1..Len(q) + Len(fs) :
         (q \o fs)[i] = IF i <= Len(q) THEN q[i] ELSE fs[i - Len(q)]
  BY ConcatProperties
<1> QED BY <1>1, <1>2

\* A queue whose frames are one tick older.
Older(q) == [i \in 1..Len(q) |-> [q[i] EXCEPT !.age = @ + 1]]

LEMMA OlderFacts ==
    ASSUME NEW q \in Seq(Frames)
    PROVE  /\ Older(q) \in Seq(Frames) /\ Len(Older(q)) = Len(q) /\ Len(q) \in Nat
           /\ \A i \in 1..Len(q) : q[i] \in Frames /\ Older(q)[i] = [q[i] EXCEPT !.age = @ + 1]
           /\ \A i \in 1..Len(q) : /\ Older(q)[i].type = q[i].type /\ Older(q)[i].cell = q[i].cell
                                    /\ Older(q)[i].age = q[i].age + 1 /\ q[i].age \in Nat
<1>1. Len(q) \in Nat /\ \A i \in 1..Len(q) : q[i] \in Frames
  BY LenProperties, ElementOfSeq
<1>2. ASSUME NEW f \in Frames PROVE [f EXCEPT !.age = @ + 1] \in Frames
  <2>1. f.age + 1 \in Nat
    BY DEF Frames
  <2> QED BY <2>1 DEF Frames
<1>3. Older(q) \in [1..Len(q) -> Frames]
  BY <1>1, <1>2 DEF Older
<1>4. Older(q) \in Seq(Frames)
  BY <1>1, <1>3, SeqDef
<1>5. Len(Older(q)) = Len(q)
  BY <1>1, <1>3, <1>4, LenProperties
<1>6. \A i \in 1..Len(q) : q[i] \in Frames /\ Older(q)[i] = [q[i] EXCEPT !.age = @ + 1]
  BY <1>1 DEF Older
<1>7. ASSUME NEW f \in Frames, NEW g, g = [f EXCEPT !.age = @ + 1]
      PROVE  g.type = f.type /\ g.cell = f.cell /\ g.age = f.age + 1 /\ f.age \in Nat
  BY <1>7 DEF Frames
<1> QED BY <1>1, <1>4, <1>5, <1>6, <1>7

LEMMA OneFrame ==
    ASSUME NEW S, NEW x \in S
    PROVE  <<x>> \in Seq(S) /\ Len(<<x>>) = 1 /\ <<x>>[1] = x
  OBVIOUS

LEMMA TwoFrames ==
    ASSUME NEW S, NEW x \in S, NEW y \in S
    PROVE  <<x, y>> \in Seq(S) /\ Len(<<x, y>>) = 2 /\ <<x, y>>[1] = x /\ <<x, y>>[2] = y
  OBVIOUS

LEMMA TwoJoined ==
    ASSUME NEW S, NEW q \in Seq(S), NEW x \in S, NEW y \in S
    PROVE  \A i \in 1..Len(q \o <<x, y>>) :
              \/ i \in 1..Len(q) /\ (q \o <<x, y>>)[i] = q[i]
              \/ (q \o <<x, y>>)[i] \in {x, y}
<1> DEFINE fs == <<x, y>>
<1>1. fs \in Seq(S) /\ Len(fs) = 2 /\ fs[1] = x /\ fs[2] = y
  BY TwoFrames
<1> HIDE DEF fs
<1>2. /\ \A i \in 1..Len(q) : (q \o fs)[i] = q[i]
      /\ \A i \in 1..Len(q \o fs) :
            i \in 1..Len(q) \/ (i - Len(q) \in 1..Len(fs) /\ (q \o fs)[i] = fs[i - Len(q)])
  BY <1>1, JoinFacts
<1>3. \A j \in 1..Len(fs) : fs[j] \in {x, y}
  <2>1. \A j \in 1..2 : j = 1 \/ j = 2
    OBVIOUS
  <2> QED BY <1>1, <2>1
<1> QED BY <1>2, <1>3 DEF fs

LEMMA PoppedFacts ==
    ASSUME wire \in [Nodes -> Seq(Frames)], NEW n \in Nodes, wire[n] # <<>>
    PROVE  /\ Popped(n) \in [Nodes -> Seq(Frames)]
           /\ Popped(n)[n] = Tail(wire[n]) /\ Popped(n)[Peer(n)] = wire[Peer(n)]
           /\ Head(wire[n]) \in Frames
<1>1. Tail(wire[n]) \in Seq(Frames) /\ Head(wire[n]) \in Frames
  BY TailFacts
<1> QED BY <1>1, Ends DEF Popped

LEMMA AgedFacts ==
    ASSUME wire \in [Nodes -> Seq(Frames)]
    PROVE  Aged \in [Nodes -> Seq(Frames)] /\ \A k \in Nodes : Aged[k] = Older(wire[k])
<1>1. Aged = [k \in Nodes |-> Older(wire[k])]
  BY DEF Aged, Older
<1>2. \A k \in Nodes : Older(wire[k]) \in Seq(Frames)
  BY OlderFacts
<1> QED BY <1>1, <1>2

LEMMA AcceptedFacts ==
    ASSUME NEW w \in [Nodes -> Seq(Frames)], NEW n \in Nodes, NEW fs \in Seq(Frames),
           Accepted(w, n, fs)
    PROVE  /\ wire' \in [Nodes -> Seq(Frames)]
           /\ wire'[n] = w[n] /\ wire'[Peer(n)] = w[Peer(n)] \o fs
<1>1. w[Peer(n)] \o fs \in Seq(Frames)
  BY JoinFacts, Ends
<1> QED BY <1>1, Ends DEF Accepted

LEMMA FrameTypes ==
    /\ \A m \in Msgs : \A f \in FirstFrames(m) : f \in Frames
    /\ \A k \in Nodes : \A fs \in {"CTS", "WAIT", "OVFLW"} : FC(fs, k) \in Frames
    /\ \A s \in Nat : \A c \in Cell : CF(s, c) \in Frames
<1>1. ASSUME NEW m \in Msgs, NEW f \in FirstFrames(m) PROVE f \in Frames
  <2>1. <<m, 1>> \in Cell /\ Cells[m] \in Nat
    BY Lengths DEF Cell
  <2> QED BY <2>1 DEF FirstFrames, SF, Func, FF, Frame, Frames
<1>2. ASSUME NEW k \in Nodes, NEW fs \in {"CTS", "WAIT", "OVFLW"} PROVE FC(fs, k) \in Frames
  <2>1. <<None, 0>> \in Cell /\ BlockSize[k] \in Nat /\ StMin[k] \in Nat
    BY NumbersAssumption DEF Cell
  <2> QED BY <2>1 DEF FC, Frame, Frames
<1>3. ASSUME NEW s \in Nat, NEW c \in Cell PROVE CF(s, c) \in Frames
  BY DEF CF, Frame, Frames
<1> QED BY <1>1, <1>2, <1>3

LEMMA ChannelTypes ==
    /\ TxIdle \in Channels /\ TxError \in Channels
    /\ RxIdle \in Reassemblies /\ RxError \in Reassemblies
    /\ ~Busy(TxIdle) /\ ~Busy(TxError)
    /\ RxIdle.st # "WAIT_CF" /\ RxError.st # "WAIT_CF"
<1>1. <<>> \in Seq(Cell)
  BY EmptySeq
<1> QED BY <1>1 DEF TxIdle, TxError, RxIdle, RxError, Channels, Reassemblies, Busy

\* The initial state.
LEMMA InitTyped == Init => TypeOK /\ InBuffer
<1> SUFFICES ASSUME Init PROVE TypeOK /\ InBuffer
  OBVIOUS
<1>1. /\ tx \in [Nodes -> Channels] /\ rx \in [Nodes -> Reassemblies]
      /\ \A n \in Nodes : ~Busy(tx[n])
  BY ChannelTypes DEF Init
<1>2. buf \in [Nodes -> [1..Longest -> Msgs \cup {None}]] /\ owed \in [Nodes -> Msgs \cup {None}]
  BY DEF Init
<1>3. unsent \in [Nodes -> SUBSET Msgs]
  BY MsgsAssumption DEF Init
<1>4. wire \in [Nodes -> Seq(Frames)] /\ got \in [Nodes -> Seq(Cell)]
  BY EmptySeq DEF Init
<1>5. turn \in Nodes /\ faults \in Nat
  BY NodesAssumption DEF Init
<1> QED BY <1>1, <1>2, <1>3, <1>4, <1>5 DEF TypeOK, InBuffer

-----------------------------------------------------------------------------
(* What each action does to the two ends of the bus. *)

\* Nothing of the other end changes but its queue.
Alone(n) ==
    /\ tx'[Peer(n)] = tx[Peer(n)] /\ rx'[Peer(n)] = rx[Peer(n)]
    /\ buf'[Peer(n)] = buf[Peer(n)] /\ unsent'[Peer(n)] = unsent[Peer(n)]
    /\ got'[Peer(n)] = got[Peer(n)]

LEMMA OfferFacts ==
    ASSUME TypeOK, NEW n \in Nodes, NEW m \in Msgs, Offer(n, m)
    PROVE  /\ m \in unsent[n] /\ unsent'[n] = unsent[n] \ {m}
           /\ unsent'[Peer(n)] = unsent[Peer(n)]
           /\ unsent' \in [Nodes -> SUBSET Msgs]
           /\ rx' = rx /\ got' = got /\ turn' = turn
  BY Ends DEF Offer, TypeOK

LEMMA FilledFacts ==
    ASSUME TypeOK, NEW n \in Nodes, NEW m \in Msgs
    PROVE  /\ Filled(n, m) \in [Nodes -> [1..Longest -> Msgs \cup {None}]]
           /\ Filled(n, m)[Peer(n)] = buf[Peer(n)]
           /\ \A i \in 1..Cells[m] : Filled(n, m)[n][i] = m
<1>1. \A i \in 1..Cells[m] : i \in 1..Longest
  BY Lengths
<1> DEFINE B == [i \in 1..Longest |-> IF i <= Cells[m] THEN m ELSE buf[n][i]]
<1>2. B \in [1..Longest -> Msgs \cup {None}]
  <2>1. buf[n] \in [1..Longest -> Msgs \cup {None}]
    BY DEF TypeOK
  <2> QED BY <2>1
<1>3. Filled(n, m) = [buf EXCEPT ![n] = B]
  BY DEF Filled, TypeOK
<1>4. \A i \in 1..Cells[m] : B[i] = m
  BY <1>1, Lengths
<1> HIDE DEF B
<1> QED BY <1>2, <1>3, <1>4, Ends DEF TypeOK

LEMMA TransmitStep ==
    ASSUME TypeOK, InBuffer, NEW n \in Nodes, NEW m \in Msgs, Transmit(n, m)
    PROVE  /\ TypeOK' /\ InBuffer' /\ Alone(n)
           /\ ~Busy(tx[n]) /\ tx'[n] = Started(m)
           /\ m \in unsent[n] /\ unsent'[n] = unsent[n] \ {m}
           /\ \A i \in 1..Cells[m] : buf'[n][i] = m
           /\ rx' = rx /\ got' = got /\ turn' = turn
           /\ wire'[n] = wire[n]
           /\ \E f \in FirstFrames(m) : f \in Frames /\ wire'[Peer(n)] = wire[Peer(n)] \o <<f>>
<1>1. PICK f \in FirstFrames(m) : Accepted(wire, n, <<f>>)
  BY DEF Transmit
<1>2. f \in Frames /\ <<f>> \in Seq(Frames)
  BY FrameTypes
<1>3. /\ wire' \in [Nodes -> Seq(Frames)]
      /\ wire'[n] = wire[n] /\ wire'[Peer(n)] = wire[Peer(n)] \o <<f>>
  BY <1>1, <1>2, AcceptedFacts DEF TypeOK
<1>4. Started(m) \in Channels /\ (Busy(Started(m)) => 1 < Started(m).len /\ Started(m).len <= Longest
                                                     /\ Started(m).sent = 1)
  <2>1. Cells[m] \in Nat \ {0} /\ Cells[m] <= Longest
    BY Lengths
  <2>2. CASE Cells[m] = 1
    BY <2>2, ChannelTypes DEF Started
  <2>3. CASE Cells[m] # 1
    <3>1. Started(m) = [st |-> "WAIT_FC", len |-> Cells[m], sent |-> 1, sn |-> 1, bs |-> 0,
                        stmin |-> 0, blocks |-> 0, timer |-> BsTimeout]
      BY <2>3 DEF Started, TxIdle
    <3> QED BY <2>1, <2>3, <3>1, NumbersAssumption DEF Channels
  <2> QED BY <2>2, <2>3
<1>5. /\ tx' \in [Nodes -> Channels] /\ tx'[n] = Started(m) /\ tx'[Peer(n)] = tx[Peer(n)]
      /\ ~Busy(tx[n])
  BY <1>4, Ends DEF Transmit, TypeOK, Busy
<1>6. /\ buf' \in [Nodes -> [1..Longest -> Msgs \cup {None}]]
      /\ buf'[Peer(n)] = buf[Peer(n)] /\ \A i \in 1..Cells[m] : buf'[n][i] = m
  BY FilledFacts DEF Transmit
<1>7. owed' \in [Nodes -> Msgs \cup {None}] /\ faults' = faults
  BY DEF Transmit, TypeOK
<1>8. Offer(n, m)
  BY DEF Transmit
<1>9. TypeOK'
  BY <1>3, <1>5, <1>6, <1>7, <1>8, OfferFacts DEF TypeOK
<1>10. InBuffer'
  BY <1>4, <1>5, Ends DEF InBuffer
<1> QED BY <1>1, <1>2, <1>3, <1>5, <1>6, <1>8, <1>9, <1>10, OfferFacts DEF Alone

LEMMA TransmitRefusedStep ==
    ASSUME TypeOK, InBuffer, NEW n \in Nodes, NEW m \in Msgs, TransmitRefused(n, m)
    PROVE  /\ TypeOK' /\ InBuffer' /\ Alone(n)
           /\ ~Busy(tx[n]) /\ tx'[n] = TxIdle
           /\ unsent'[n] \subseteq unsent[n]
           /\ rx' = rx /\ got' = got /\ turn' = turn /\ wire' = wire
<1>1. Offer(n, m)
  BY DEF TransmitRefused
<1>2. /\ tx' \in [Nodes -> Channels] /\ tx'[n] = TxIdle /\ tx'[Peer(n)] = tx[Peer(n)]
      /\ ~Busy(tx[n])
  BY ChannelTypes, Ends DEF TransmitRefused, TypeOK, Busy
<1>3. /\ buf' \in [Nodes -> [1..Longest -> Msgs \cup {None}]]
      /\ buf'[Peer(n)] = buf[Peer(n)]
  BY FilledFacts DEF TransmitRefused
<1>4. faults' \in Nat /\ wire' = wire /\ owed' = owed
  BY DEF TransmitRefused, Fault, TypeOK
<1>5. TypeOK'
  BY <1>1, <1>2, <1>3, <1>4, OfferFacts DEF TypeOK
<1>6. InBuffer'
  BY <1>2, ChannelTypes, Ends DEF InBuffer
<1> QED BY <1>1, <1>2, <1>3, <1>4, <1>5, <1>6, OfferFacts DEF Alone

LEMMA TransmitBusyStep ==
    ASSUME TypeOK, InBuffer, NEW n \in Nodes, NEW m \in Msgs, TransmitBusy(n, m)
    PROVE  /\ TypeOK' /\ InBuffer' /\ Alone(n)
           /\ (Patient => buf' = buf)
           /\ m \in unsent[n] /\ unsent'[n] = unsent[n] \ {m}
           /\ tx' = tx /\ rx' = rx /\ got' = got /\ turn' = turn /\ wire' = wire
<1>1. Offer(n, m)
  BY DEF TransmitBusy
<1>2. tx' = tx /\ wire' = wire /\ owed' = owed /\ faults' = faults
  BY DEF TransmitBusy
<1>3. /\ buf' \in [Nodes -> [1..Longest -> Msgs \cup {None}]]
      /\ buf'[Peer(n)] = buf[Peer(n)] /\ (Patient => buf' = buf)
  BY FilledFacts DEF TransmitBusy, TypeOK
<1>4. TypeOK'
  BY <1>1, <1>2, <1>3, OfferFacts DEF TypeOK
<1>5. InBuffer'
  BY <1>2 DEF InBuffer
<1> QED BY <1>1, <1>2, <1>3, <1>4, <1>5, OfferFacts DEF Alone

LEMMA SingleStep ==
    ASSUME TypeOK, InBuffer, NEW n \in Nodes, ReceiveSingle(n)
    PROVE  /\ TypeOK' /\ InBuffer'
           /\ tx' = tx /\ buf' = buf /\ unsent' = unsent /\ turn' = turn
           /\ wire[n] # <<>> /\ wire[n][1].type \in {"SF", "FUNC"}
           /\ wire'[n] = Tail(wire[n]) /\ wire'[Peer(n)] = wire[Peer(n)]
           /\ rx'[n] = rx[n] \/ rx'[n] = RxIdle
           /\ rx'[Peer(n)] = rx[Peer(n)]
           /\ got'[n] = <<wire[n][1].cell>> /\ got'[Peer(n)] = got[Peer(n)]
<1>1. wire[n] # <<>> /\ Head(wire[n]).type \in {"SF", "FUNC"} /\ wire' = Popped(n)
  BY DEF ReceiveSingle, Arrives
<1>2. /\ wire' \in [Nodes -> Seq(Frames)]
      /\ wire'[n] = Tail(wire[n]) /\ wire'[Peer(n)] = wire[Peer(n)]
      /\ Head(wire[n]) \in Frames /\ Head(wire[n]) = wire[n][1]
  BY <1>1, PoppedFacts, TailFacts DEF TypeOK
<1>3. /\ rx' \in [Nodes -> Reassemblies]
      /\ rx'[n] = rx[n] \/ rx'[n] = RxIdle
      /\ rx'[Peer(n)] = rx[Peer(n)]
  <2>1. rx \in [Nodes -> Reassemblies] /\ Peer(n) \in Nodes /\ Peer(n) # n
    BY Ends DEF TypeOK
  <2>2. CASE rx' = rx
    BY <2>1, <2>2
  <2>3. CASE rx' = [rx EXCEPT ![n] = RxIdle]
    BY <2>1, <2>3, ChannelTypes
  <2> QED BY <2>2, <2>3 DEF ReceiveSingle
<1>4. Head(wire[n]).cell \in Cell /\ <<Head(wire[n]).cell>> \in Seq(Cell)
  <2>1. Head(wire[n]).cell \in Cell
    BY <1>2 DEF Frames
  <2> QED BY <2>1
<1>5. /\ got' \in [Nodes -> Seq(Cell)] /\ owed' \in [Nodes -> Msgs \cup {None}]
      /\ got'[n] = <<Head(wire[n]).cell>> /\ got'[Peer(n)] = got[Peer(n)]
  BY <1>4, Ends DEF ReceiveSingle, Deliver, TypeOK
<1>6. tx' = tx /\ buf' = buf /\ unsent' = unsent /\ turn' = turn /\ faults' = faults
  BY DEF ReceiveSingle
<1>7. TypeOK'
  BY <1>2, <1>3, <1>5, <1>6 DEF TypeOK
<1>8. InBuffer'
  BY <1>6 DEF InBuffer
<1> QED BY <1>1, <1>2, <1>3, <1>5, <1>6, <1>7, <1>8

LEMMA FlowControlFacts ==
    ASSUME TypeOK, NEW n \in Nodes, wire[n] # <<>>, NEW fs \in {"CTS", "OVFLW"},
           NEW go \in Reassemblies, FlowControl(n, fs, go)
    PROVE  /\ wire' \in [Nodes -> Seq(Frames)] /\ wire'[n] = Tail(wire[n])
           /\ rx' \in [Nodes -> Reassemblies] /\ rx'[Peer(n)] = rx[Peer(n)]
           /\ faults' \in Nat
           /\ \/ rx'[n] = RxError /\ wire'[Peer(n)] = wire[Peer(n)]
              \/ /\ rx'[n] = go
                 /\ \/ wire'[Peer(n)] = wire[Peer(n)] \o <<FC(fs, n)>>
                    \/ wire'[Peer(n)] = wire[Peer(n)] \o <<FC("WAIT", n), FC(fs, n)>>
<1>1. /\ Popped(n) \in [Nodes -> Seq(Frames)]
      /\ Popped(n)[n] = Tail(wire[n]) /\ Popped(n)[Peer(n)] = wire[Peer(n)]
  BY PoppedFacts DEF TypeOK
<1>2. /\ <<FC(fs, n)>> \in Seq(Frames) /\ <<FC("WAIT", n), FC(fs, n)>> \in Seq(Frames)
  <2>1. FC(fs, n) \in Frames /\ FC("WAIT", n) \in Frames
    BY FrameTypes
  <2> QED BY <2>1
<1>3. CASE Accepted(Popped(n), n, <<FC(fs, n)>>) /\ rx' = [rx EXCEPT ![n] = go] /\ UNCHANGED faults
  <2>1. /\ wire' \in [Nodes -> Seq(Frames)] /\ wire'[n] = Popped(n)[n]
        /\ wire'[Peer(n)] = Popped(n)[Peer(n)] \o <<FC(fs, n)>>
    BY <1>1, <1>2, <1>3, AcceptedFacts
  <2>2. rx' \in [Nodes -> Reassemblies] /\ rx'[Peer(n)] = rx[Peer(n)] /\ rx'[n] = go
    BY <1>3, Ends DEF TypeOK
  <2> QED BY <1>1, <1>3, <2>1, <2>2 DEF TypeOK
<1>4. CASE /\ Accepted(Popped(n), n, <<FC("WAIT", n), FC(fs, n)>>)
           /\ rx' = [rx EXCEPT ![n] = go] /\ Fault
  <2>1. /\ wire' \in [Nodes -> Seq(Frames)] /\ wire'[n] = Popped(n)[n]
        /\ wire'[Peer(n)] = Popped(n)[Peer(n)] \o <<FC("WAIT", n), FC(fs, n)>>
    BY <1>1, <1>2, <1>4, AcceptedFacts
  <2>2. rx' \in [Nodes -> Reassemblies] /\ rx'[Peer(n)] = rx[Peer(n)] /\ rx'[n] = go
    BY <1>4, Ends DEF TypeOK
  <2>3. faults' \in Nat
    BY <1>4 DEF Fault, TypeOK
  <2> QED BY <1>1, <2>1, <2>2, <2>3
<1>5. CASE wire' = Popped(n) /\ rx' = [rx EXCEPT ![n] = RxError] /\ Fault
  <2>1. rx' \in [Nodes -> Reassemblies] /\ rx'[Peer(n)] = rx[Peer(n)] /\ rx'[n] = RxError
    BY <1>5, Ends, ChannelTypes DEF TypeOK
  <2>2. faults' \in Nat
    BY <1>5 DEF Fault, TypeOK
  <2> QED BY <1>1, <1>5, <2>1, <2>2
<1> QED BY <1>3, <1>4, <1>5 DEF FlowControl

\* The reassembly a first frame begins.
Begun(f) == [st |-> "WAIT_CF", len |-> f.len, data |-> <<f.cell>>, sn |-> 1, blocks |-> 0,
             timer |-> CrTimeout]

\* The peer's queue after flow control of status fs was sent, perhaps after a wait.
Answered(n, fs) ==
    \/ wire'[Peer(n)] = wire[Peer(n)] \o <<FC(fs, n)>>
    \/ wire'[Peer(n)] = wire[Peer(n)] \o <<FC("WAIT", n), FC(fs, n)>>

LEMMA FirstStep ==
    ASSUME TypeOK, InBuffer, NEW n \in Nodes, ReceiveFirst(n)
    PROVE  /\ TypeOK' /\ InBuffer'
           /\ tx' = tx /\ buf' = buf /\ unsent' = unsent /\ got' = got /\ turn' = turn
           /\ wire[n] # <<>> /\ wire[n][1].type = "FF"
           /\ wire'[n] = Tail(wire[n]) /\ rx'[Peer(n)] = rx[Peer(n)]
           /\ \/ rx'[n] = RxError /\ wire'[Peer(n)] = wire[Peer(n)]
              \/ /\ wire[n][1].len > RxBuf
                 /\ rx'[n] = rx[n] /\ Answered(n, "OVFLW")
              \/ /\ wire[n][1].len <= RxBuf
                 /\ rx'[n] = Begun(wire[n][1]) /\ Answered(n, "CTS")
<1> DEFINE f == wire[n][1]
<1>1. wire[n] # <<>> /\ f.type = "FF" /\ f = Head(wire[n]) /\ f \in Frames
  BY TailFacts DEF ReceiveFirst, Arrives, TypeOK
<1>2. Begun(f) \in Reassemblies
  <2>1. f.len \in Nat /\ f.cell \in Cell
    BY <1>1 DEF Frames
  <2>2. <<f.cell>> \in Seq(Cell) /\ CrTimeout \in Nat
    BY <2>1, NumbersAssumption
  <2> HIDE DEF f
  <2> QED BY <2>1, <2>2 DEF Begun, Reassemblies
<1>3. IF f.len > RxBuf THEN FlowControl(n, "OVFLW", rx[n]) ELSE FlowControl(n, "CTS", Begun(f))
  BY <1>1 DEF ReceiveFirst, Begun
<1>4. /\ wire' \in [Nodes -> Seq(Frames)] /\ wire'[n] = Tail(wire[n])
      /\ rx' \in [Nodes -> Reassemblies] /\ rx'[Peer(n)] = rx[Peer(n)]
      /\ faults' \in Nat
      /\ \/ rx'[n] = RxError /\ wire'[Peer(n)] = wire[Peer(n)]
         \/ f.len > RxBuf /\ rx'[n] = rx[n] /\ Answered(n, "OVFLW")
         \/ f.len <= RxBuf /\ rx'[n] = Begun(f) /\ Answered(n, "CTS")
  <2>1. CASE f.len > RxBuf
    <3>1. FlowControl(n, "OVFLW", rx[n]) /\ rx[n] \in Reassemblies
      BY <1>3, <2>1 DEF TypeOK
    <3> HIDE DEF f
    <3> QED BY <1>1, <2>1, <3>1, FlowControlFacts DEF Answered
  <2>2. CASE ~(f.len > RxBuf)
    <3>1. FlowControl(n, "CTS", Begun(f))
      BY <1>3, <2>2
    <3>2. f.len <= RxBuf
      BY <1>1, <2>2, NumbersAssumption DEF Frames
    <3> HIDE DEF f
    <3> QED BY <1>1, <1>2, <3>1, <3>2, FlowControlFacts DEF Answered
  <2> QED BY <2>1, <2>2
<1>5. /\ tx' = tx /\ buf' = buf /\ unsent' = unsent /\ got' = got /\ turn' = turn
      /\ owed' = owed
  BY DEF ReceiveFirst
<1>6. TypeOK'
  BY <1>4, <1>5 DEF TypeOK
<1>7. InBuffer'
  BY <1>5 DEF InBuffer
<1> HIDE DEF f
<1> QED BY <1>1, <1>4, <1>5, <1>6, <1>7 DEF f

LEMMA StrayStep ==
    ASSUME TypeOK, InBuffer, NEW n \in Nodes, ReceiveStray(n)
    PROVE  /\ TypeOK' /\ InBuffer'
           /\ tx' = tx /\ buf' = buf /\ unsent' = unsent /\ got' = got /\ turn' = turn
           /\ wire[n] # <<>> /\ wire[n][1].type = "CF"
           /\ wire'[n] = Tail(wire[n]) /\ wire'[Peer(n)] = wire[Peer(n)]
           /\ rx'[Peer(n)] = rx[Peer(n)]
           /\ rx'[n].st # "WAIT_CF"
<1>1. wire[n] # <<>> /\ Head(wire[n]).type = "CF" /\ wire' = Popped(n)
  BY DEF ReceiveStray, Arrives
<1>2. /\ wire' \in [Nodes -> Seq(Frames)]
      /\ wire'[n] = Tail(wire[n]) /\ wire'[Peer(n)] = wire[Peer(n)]
      /\ Head(wire[n]) = wire[n][1]
  BY <1>1, PoppedFacts, TailFacts DEF TypeOK
<1>3. /\ rx' \in [Nodes -> Reassemblies] /\ rx'[Peer(n)] = rx[Peer(n)]
      /\ rx'[n].st # "WAIT_CF"
  <2>1. rx \in [Nodes -> Reassemblies] /\ Peer(n) \in Nodes /\ Peer(n) # n
    BY Ends DEF TypeOK
  <2>2. CASE rx[n].st # "WAIT_CF" /\ rx' = rx
    BY <2>1, <2>2
  <2>3. CASE rx' = [rx EXCEPT ![n] = RxError]
    BY <2>1, <2>3, ChannelTypes
  <2> QED BY <2>2, <2>3 DEF ReceiveStray
<1>4. /\ tx' = tx /\ buf' = buf /\ unsent' = unsent /\ got' = got /\ turn' = turn
      /\ owed' = owed /\ faults' = faults
  BY DEF ReceiveStray
<1>5. TypeOK'
  BY <1>2, <1>3, <1>4 DEF TypeOK
<1>6. InBuffer'
  BY <1>4 DEF InBuffer
<1> QED BY <1>1, <1>2, <1>3, <1>4, <1>5, <1>6

LEMMA ExtendedFacts ==
    ASSUME TypeOK, NEW n \in Nodes, InSequence(n)
    PROVE  /\ wire[n] # <<>> /\ wire[n][1].type = "CF" /\ wire[n][1] = Head(wire[n])
           /\ wire[n][1] \in Frames
           /\ rx[n] \in Reassemblies /\ rx[n].st = "WAIT_CF"
           /\ wire[n][1].sn = rx[n].sn % SnMod
           /\ Extended(n) \in Seq(Cell) /\ Extended(n) # <<>>
           /\ Len(rx[n].data) \in Nat /\ Len(Extended(n)) = Len(rx[n].data) + 1
           /\ \A i \in 1..Len(rx[n].data) : Extended(n)[i] = rx[n].data[i]
           /\ Extended(n)[Len(rx[n].data) + 1] = wire[n][1].cell
<1>1. wire[n] # <<>> /\ wire[n][1].type = "CF" /\ wire[n][1] = Head(wire[n]) /\ wire[n][1] \in Frames
  BY TailFacts DEF InSequence, Arrives, TypeOK
<1>2. rx[n] \in Reassemblies /\ rx[n].st = "WAIT_CF" /\ wire[n][1].sn = rx[n].sn % SnMod
  BY <1>1 DEF InSequence, TypeOK
<1>3. rx[n].data \in Seq(Cell) /\ wire[n][1].cell \in Cell
  BY <1>1, <1>2 DEF Frames, Reassemblies
<1>4. Extended(n) = Append(rx[n].data, wire[n][1].cell)
  BY <1>1 DEF Extended
<1>5. /\ Extended(n) \in Seq(Cell)
      /\ Len(rx[n].data) \in Nat /\ Len(Extended(n)) = Len(rx[n].data) + 1
      /\ \A i \in 1..Len(rx[n].data) : Extended(n)[i] = rx[n].data[i]
      /\ Extended(n)[Len(rx[n].data) + 1] = wire[n][1].cell
  BY <1>3, <1>4, AppendProperties, LenProperties
<1>6. Extended(n) # <<>>
  BY <1>5, EmptySeq
<1> QED BY <1>1, <1>2, <1>5, <1>6

LEMMA LastStep ==
    ASSUME TypeOK, InBuffer, NEW n \in Nodes, ReceiveLast(n)
    PROVE  /\ TypeOK' /\ InBuffer'
           /\ tx' = tx /\ buf' = buf /\ unsent' = unsent /\ turn' = turn
           /\ InSequence(n) /\ Len(Extended(n)) = rx[n].len
           /\ wire'[n] = Tail(wire[n]) /\ wire'[Peer(n)] = wire[Peer(n)]
           /\ rx'[Peer(n)] = rx[Peer(n)] /\ rx'[n] = RxIdle
           /\ got'[n] = Extended(n) /\ got'[Peer(n)] = got[Peer(n)]
<1>1. InSequence(n) /\ Len(Extended(n)) = rx[n].len /\ wire' = Popped(n)
  BY DEF ReceiveLast
<1>2. /\ wire' \in [Nodes -> Seq(Frames)]
      /\ wire'[n] = Tail(wire[n]) /\ wire'[Peer(n)] = wire[Peer(n)]
  BY <1>1, PoppedFacts, ExtendedFacts DEF TypeOK
<1>3. rx' \in [Nodes -> Reassemblies] /\ rx'[Peer(n)] = rx[Peer(n)] /\ rx'[n] = RxIdle
  BY ChannelTypes, Ends DEF ReceiveLast, TypeOK
<1>4. Extended(n) \in Seq(Cell)
  BY <1>1, ExtendedFacts
<1>5. /\ got' \in [Nodes -> Seq(Cell)] /\ owed' \in [Nodes -> Msgs \cup {None}]
      /\ got'[n] = Extended(n) /\ got'[Peer(n)] = got[Peer(n)]
  BY <1>4, Ends DEF ReceiveLast, Deliver, TypeOK
<1>6. tx' = tx /\ buf' = buf /\ unsent' = unsent /\ turn' = turn /\ faults' = faults
  BY DEF ReceiveLast
<1>7. TypeOK'
  BY <1>2, <1>3, <1>5, <1>6 DEF TypeOK
<1>8. InBuffer'
  BY <1>6 DEF InBuffer
<1> QED BY <1>1, <1>2, <1>3, <1>5, <1>6, <1>7, <1>8

\* The frame in hand fills the block the receiver has allowed.
Full(n) == BlockSize[n] # 0 /\ rx[n].blocks + 1 >= BlockSize[n]

LEMMA NextStep ==
    ASSUME TypeOK, InBuffer, NEW n \in Nodes, ReceiveNext(n)
    PROVE  /\ TypeOK' /\ InBuffer'
           /\ tx' = tx /\ buf' = buf /\ unsent' = unsent /\ got' = got /\ turn' = turn
           /\ InSequence(n) /\ Len(Extended(n)) < rx[n].len
           /\ wire'[n] = Tail(wire[n]) /\ rx'[Peer(n)] = rx[Peer(n)]
           /\ \/ rx'[n] = RxError /\ wire'[Peer(n)] = wire[Peer(n)]
              \/ /\ rx'[n].st = "WAIT_CF" /\ rx'[n].len = rx[n].len
                 /\ rx'[n].data = Extended(n) /\ rx'[n].sn = rx[n].sn + 1
                 /\ IF Full(n) THEN rx'[n].blocks = 0 /\ Answered(n, "CTS")
                    ELSE /\ rx'[n].blocks = IF BlockSize[n] = 0 THEN 0 ELSE rx[n].blocks + 1
                         /\ wire'[Peer(n)] = wire[Peer(n)]
<1> DEFINE next == [rx[n] EXCEPT !.data = Extended(n), !.sn = @ + 1, !.timer = CrTimeout,
                         !.blocks = IF Full(n) \/ BlockSize[n] = 0 THEN 0 ELSE @ + 1]
<1>1. InSequence(n) /\ Len(Extended(n)) < rx[n].len
  BY DEF ReceiveNext
<1>2. IF Full(n) THEN FlowControl(n, "CTS", next)
      ELSE wire' = Popped(n) /\ rx' = [rx EXCEPT ![n] = next] /\ UNCHANGED faults
  BY DEF ReceiveNext, Full
<1>3. /\ next \in Reassemblies
      /\ next.st = "WAIT_CF" /\ next.len = rx[n].len /\ next.data = Extended(n)
      /\ next.sn = rx[n].sn + 1
      /\ next.blocks = IF Full(n) \/ BlockSize[n] = 0 THEN 0 ELSE rx[n].blocks + 1
  <2>1. Extended(n) \in Seq(Cell) /\ rx[n] \in Reassemblies /\ CrTimeout \in Nat
        /\ rx[n].st = "WAIT_CF"
    BY <1>1, ExtendedFacts, NumbersAssumption
  <2>2. rx[n].sn + 1 \in Nat /\ (IF Full(n) \/ BlockSize[n] = 0 THEN 0 ELSE rx[n].blocks + 1) \in Nat
    BY <2>1 DEF Reassemblies
  <2> QED BY <2>1, <2>2 DEF Reassemblies
<1> HIDE DEF next
<1>4. wire[n] # <<>>
  BY <1>1, ExtendedFacts
<1>5. /\ wire' \in [Nodes -> Seq(Frames)] /\ wire'[n] = Tail(wire[n])
      /\ rx' \in [Nodes -> Reassemblies] /\ rx'[Peer(n)] = rx[Peer(n)]
      /\ faults' \in Nat
      /\ \/ rx'[n] = RxError /\ wire'[Peer(n)] = wire[Peer(n)]
         \/ rx'[n] = next /\ IF Full(n) THEN Answered(n, "CTS") ELSE wire'[Peer(n)] = wire[Peer(n)]
  <2>1. CASE Full(n)
    <3>1. FlowControl(n, "CTS", next)
      BY <1>2, <2>1
    <3> QED BY <1>3, <1>4, <2>1, <3>1, FlowControlFacts DEF Answered
  <2>2. CASE ~Full(n)
    <3>1. wire' = Popped(n) /\ rx' = [rx EXCEPT ![n] = next] /\ UNCHANGED faults
      BY <1>2, <2>2
    <3>2. rx' \in [Nodes -> Reassemblies] /\ rx'[n] = next /\ rx'[Peer(n)] = rx[Peer(n)]
      BY <1>3, <3>1, Ends DEF TypeOK
    <3> QED BY <1>4, <2>2, <3>1, <3>2, PoppedFacts DEF TypeOK
  <2> QED BY <2>1, <2>2
<1>6. /\ tx' = tx /\ buf' = buf /\ unsent' = unsent /\ got' = got /\ turn' = turn
      /\ owed' = owed
  BY DEF ReceiveNext
<1>7. TypeOK'
  BY <1>5, <1>6 DEF TypeOK
<1>8. InBuffer'
  BY <1>6 DEF InBuffer
<1> QED BY <1>1, <1>3, <1>5, <1>6, <1>7, <1>8

\* The channel after a clear to send.
Cleared(T, f) ==
    [T EXCEPT !.st = "SEND_CF", !.bs = f.bs, !.stmin = f.stmin, !.blocks = 0, !.timer = f.stmin]

LEMMA FlowStep ==
    ASSUME TypeOK, InBuffer, NEW n \in Nodes, ReceiveFlow(n)
    PROVE  /\ TypeOK' /\ InBuffer'
           /\ rx' = rx /\ buf' = buf /\ unsent' = unsent /\ got' = got /\ turn' = turn
           /\ wire[n] # <<>> /\ wire[n][1].type \in {"CTS", "WAIT", "OVFLW"}
           /\ wire'[n] = Tail(wire[n]) /\ wire'[Peer(n)] = wire[Peer(n)]
           /\ tx'[Peer(n)] = tx[Peer(n)]
           /\ \/ tx[n].st # "WAIT_FC" /\ tx'[n] = tx[n]
              \/ /\ tx[n].st = "WAIT_FC" /\ wire[n][1].type = "CTS"
                 /\ tx'[n] = Cleared(tx[n], wire[n][1])
              \/ /\ tx[n].st = "WAIT_FC" /\ wire[n][1].type = "WAIT"
                 /\ tx'[n] = [tx[n] EXCEPT !.timer = BsTimeout]
              \/ /\ tx[n].st = "WAIT_FC" /\ wire[n][1].type = "OVFLW"
                 /\ tx'[n] = TxError
<1> DEFINE f == wire[n][1]
<1>1. /\ wire[n] # <<>> /\ f.type \in {"CTS", "WAIT", "OVFLW"} /\ f = Head(wire[n]) /\ f \in Frames
      /\ wire' = Popped(n)
  BY TailFacts DEF ReceiveFlow, TypeOK
<1>2. /\ wire' \in [Nodes -> Seq(Frames)]
      /\ wire'[n] = Tail(wire[n]) /\ wire'[Peer(n)] = wire[Peer(n)]
  BY <1>1, PoppedFacts DEF TypeOK
<1>3. tx' = [tx EXCEPT ![n] = IF tx[n].st # "WAIT_FC" THEN tx[n]
                              ELSE CASE f.type = "CTS" -> Cleared(tx[n], f)
                                     [] f.type = "WAIT" -> [tx[n] EXCEPT !.timer = BsTimeout]
                                     [] f.type = "OVFLW" -> TxError]
  BY <1>1 DEF ReceiveFlow, Cleared, TypeOK
<1>4. tx[n] \in Channels
  BY DEF TypeOK
<1> HIDE DEF f
<1>5. Cleared(tx[n], f) \in Channels /\ [tx[n] EXCEPT !.timer = BsTimeout] \in Channels
  <2>1. f.bs \in Nat /\ f.stmin \in Nat /\ BsTimeout \in Nat
    BY <1>1, NumbersAssumption DEF Frames
  <2> QED BY <1>4, <2>1 DEF Cleared, Channels
<1>6. \/ tx[n].st # "WAIT_FC" /\ tx' = [tx EXCEPT ![n] = tx[n]]
      \/ tx[n].st = "WAIT_FC" /\ f.type = "CTS" /\ tx' = [tx EXCEPT ![n] = Cleared(tx[n], f)]
      \/ tx[n].st = "WAIT_FC" /\ f.type = "WAIT"
            /\ tx' = [tx EXCEPT ![n] = [tx[n] EXCEPT !.timer = BsTimeout]]
      \/ tx[n].st = "WAIT_FC" /\ f.type = "OVFLW" /\ tx' = [tx EXCEPT ![n] = TxError]
  BY <1>1, <1>3
<1>7. /\ tx' \in [Nodes -> Channels] /\ tx'[Peer(n)] = tx[Peer(n)]
      /\ \/ tx[n].st # "WAIT_FC" /\ tx'[n] = tx[n]
         \/ tx[n].st = "WAIT_FC" /\ f.type = "CTS" /\ tx'[n] = Cleared(tx[n], f)
         \/ tx[n].st = "WAIT_FC" /\ f.type = "WAIT" /\ tx'[n] = [tx[n] EXCEPT !.timer = BsTimeout]
         \/ tx[n].st = "WAIT_FC" /\ f.type = "OVFLW" /\ tx'[n] = TxError
  <2>1. ASSUME NEW c \in Channels, tx' = [tx EXCEPT ![n] = c]
        PROVE  tx' \in [Nodes -> Channels] /\ tx'[Peer(n)] = tx[Peer(n)] /\ tx'[n] = c
    BY <2>1, Ends DEF TypeOK
  <2>2. TxError \in Channels
    BY ChannelTypes
  <2> QED BY <1>4, <1>5, <1>6, <2>1, <2>2
<1>8. /\ rx' = rx /\ buf' = buf /\ unsent' = unsent /\ got' = got /\ turn' = turn
      /\ owed' = owed /\ faults' = faults
  BY DEF ReceiveFlow
<1>9. TypeOK'
  BY <1>2, <1>7, <1>8 DEF TypeOK
<1>10. Busy(tx'[n]) => tx'[n].sent < tx'[n].len /\ tx'[n].len <= Longest
  <2>1. Busy(tx[n]) => tx[n].sent < tx[n].len /\ tx[n].len <= Longest
    BY DEF InBuffer
  <2>2. Cleared(tx[n], f).sent = tx[n].sent /\ Cleared(tx[n], f).len = tx[n].len
    BY <1>4 DEF Cleared, Channels
  <2>3. /\ [tx[n] EXCEPT !.timer = BsTimeout].sent = tx[n].sent
        /\ [tx[n] EXCEPT !.timer = BsTimeout].len = tx[n].len
    BY <1>4 DEF Channels
  <2>4. tx[n].st = "WAIT_FC" => Busy(tx[n])
    BY DEF Busy
  <2> QED BY <1>7, <2>1, <2>2, <2>3, <2>4, ChannelTypes
<1>11. InBuffer'
  BY <1>7, <1>10, Ends DEF InBuffer
<1> QED BY <1>1, <1>2, <1>7, <1>8, <1>9, <1>11 DEF f

\* A tick ages every frame, after it has seen that the bus owes nothing overdue.
Passes(n) ==
    /\ turn = n /\ turn' = Peer(n)
    /\ \A p \in Nodes : \A i \in 1..Len(wire[p]) : wire[p][i].age < Lag
    /\ buf' = buf /\ unsent' = unsent /\ got' = got
    /\ wire'[n] = Older(wire[n])
    /\ tx'[Peer(n)] = tx[Peer(n)] /\ rx'[Peer(n)] = rx[Peer(n)]

LEMMA TickCrStep ==
    ASSUME TypeOK, InBuffer, NEW n \in Nodes, TickCr(n)
    PROVE  /\ TypeOK' /\ InBuffer' /\ Passes(n)
           /\ tx' = tx /\ rx'[n] = RxError /\ wire'[Peer(n)] = Older(wire[Peer(n)])
<1>1. /\ turn = n /\ turn' = Peer(n)
      /\ \A p \in Nodes : \A i \in 1..Len(wire[p]) : wire[p][i].age < Lag
      /\ buf' = buf /\ unsent' = unsent /\ got' = got /\ owed' = owed
      /\ tx' = tx /\ faults' = faults /\ wire' = Aged
  BY DEF TickCr, Due
<1>2. /\ wire' \in [Nodes -> Seq(Frames)]
      /\ wire'[n] = Older(wire[n]) /\ wire'[Peer(n)] = Older(wire[Peer(n)])
  BY <1>1, AgedFacts, Ends DEF TypeOK
<1>3. rx' \in [Nodes -> Reassemblies] /\ rx'[n] = RxError /\ rx'[Peer(n)] = rx[Peer(n)]
  BY ChannelTypes, Ends DEF TickCr, TypeOK
<1>4. TypeOK'
  BY <1>1, <1>2, <1>3, Ends DEF TypeOK
<1>5. InBuffer'
  BY <1>1 DEF InBuffer
<1> QED BY <1>1, <1>2, <1>3, <1>4, <1>5 DEF Passes

\* The receiver is the same but for its timer.
SameReception(n) ==
    /\ rx'[n].st = rx[n].st /\ rx'[n].len = rx[n].len /\ rx'[n].data = rx[n].data
    /\ rx'[n].sn = rx[n].sn /\ rx'[n].blocks = rx[n].blocks

LEMMA TickedFacts ==
    ASSUME TypeOK, NEW n \in Nodes, ~RxExpires(n), rx' = RxTicked(n)
    PROVE  rx' \in [Nodes -> Reassemblies] /\ SameReception(n) /\ rx'[Peer(n)] = rx[Peer(n)]
<1> DEFINE t == IF rx[n].st = "WAIT_CF" THEN rx[n].timer - 1 ELSE rx[n].timer
           R == [rx[n] EXCEPT !.timer = t]
<1>1. rx[n] \in Reassemblies
  BY DEF TypeOK
<1>2. t \in Nat
  BY <1>1 DEF RxExpires, Reassemblies
<1>3. rx' = [rx EXCEPT ![n] = R]
  BY DEF RxTicked, TypeOK
<1> HIDE DEF t
<1>4. /\ R \in Reassemblies /\ R.st = rx[n].st /\ R.len = rx[n].len /\ R.data = rx[n].data
      /\ R.sn = rx[n].sn /\ R.blocks = rx[n].blocks
  BY <1>1, <1>2 DEF Reassemblies
<1> HIDE DEF R
<1> QED BY <1>3, <1>4, Ends DEF TypeOK, SameReception

LEMMA TickWaitStep ==
    ASSUME TypeOK, InBuffer, NEW n \in Nodes, TickWait(n)
    PROVE  /\ TypeOK' /\ InBuffer' /\ Passes(n) /\ SameReception(n)
           /\ wire'[Peer(n)] = Older(wire[Peer(n)])
           /\ \/ tx[n].st = "WAIT_FC" /\ tx[n].timer <= 1 /\ tx'[n] = TxError
              \/ /\ ~(tx[n].st = "WAIT_FC" /\ tx[n].timer <= 1)
                 /\ tx'[n] = [tx[n] EXCEPT !.timer = Minus1(@)]
<1>1. /\ turn = n /\ turn' = Peer(n)
      /\ \A p \in Nodes : \A i \in 1..Len(wire[p]) : wire[p][i].age < Lag
      /\ buf' = buf /\ unsent' = unsent /\ got' = got /\ owed' = owed
      /\ faults' = faults /\ wire' = Aged
      /\ ~RxExpires(n) /\ rx' = RxTicked(n)
  BY DEF TickWait, Due
<1>2. /\ wire' \in [Nodes -> Seq(Frames)]
      /\ wire'[n] = Older(wire[n]) /\ wire'[Peer(n)] = Older(wire[Peer(n)])
  BY <1>1, AgedFacts, Ends DEF TypeOK
<1>3. rx' \in [Nodes -> Reassemblies] /\ SameReception(n) /\ rx'[Peer(n)] = rx[Peer(n)]
  BY <1>1, TickedFacts
<1> DEFINE Ticked == [tx[n] EXCEPT !.timer = Minus1(@)]
<1>4. tx[n] \in Channels
  BY DEF TypeOK
<1>5. /\ Ticked \in Channels /\ Ticked.st = tx[n].st /\ Ticked.len = tx[n].len
      /\ Ticked.sent = tx[n].sent
  <2>1. Minus1(tx[n].timer) \in Nat
    BY <1>4 DEF Minus1, Channels
  <2> QED BY <1>4, <2>1 DEF Channels
<1>6. \/ tx[n].st = "WAIT_FC" /\ tx[n].timer <= 1 /\ tx' = [tx EXCEPT ![n] = TxError]
      \/ ~(tx[n].st = "WAIT_FC" /\ tx[n].timer <= 1) /\ tx' = [tx EXCEPT ![n] = Ticked]
  <2>1. tx' = [tx EXCEPT ![n] = IF tx[n].st = "WAIT_FC" /\ tx[n].timer <= 1 THEN TxError
                                ELSE Ticked]
    BY DEF TickWait
  <2> HIDE DEF Ticked
  <2>2. CASE tx[n].st = "WAIT_FC" /\ tx[n].timer <= 1
    BY <2>1, <2>2
  <2>3. CASE ~(tx[n].st = "WAIT_FC" /\ tx[n].timer <= 1)
    BY <2>1, <2>3
  <2> QED BY <2>2, <2>3
<1> HIDE DEF Ticked
<1>7. /\ tx' \in [Nodes -> Channels] /\ tx'[Peer(n)] = tx[Peer(n)]
      /\ \/ tx[n].st = "WAIT_FC" /\ tx[n].timer <= 1 /\ tx'[n] = TxError
         \/ ~(tx[n].st = "WAIT_FC" /\ tx[n].timer <= 1) /\ tx'[n] = Ticked
  <2>1. ASSUME NEW c \in Channels, tx' = [tx EXCEPT ![n] = c]
        PROVE  tx' \in [Nodes -> Channels] /\ tx'[Peer(n)] = tx[Peer(n)] /\ tx'[n] = c
    BY <2>1, Ends DEF TypeOK
  <2>2. TxError \in Channels
    BY ChannelTypes
  <2>3. CASE tx[n].st = "WAIT_FC" /\ tx[n].timer <= 1 /\ tx' = [tx EXCEPT ![n] = TxError]
    BY <2>1, <2>2, <2>3
  <2>4. CASE ~(tx[n].st = "WAIT_FC" /\ tx[n].timer <= 1) /\ tx' = [tx EXCEPT ![n] = Ticked]
    BY <1>5, <2>1, <2>4
  <2> QED BY <1>6, <2>3, <2>4
<1>8. TypeOK'
  BY <1>1, <1>2, <1>3, <1>7, Ends DEF TypeOK
<1>9. InBuffer'
  <2>1. Busy(tx'[n]) => tx'[n].sent < tx'[n].len /\ tx'[n].len <= Longest
    BY <1>5, <1>7, ChannelTypes DEF InBuffer, Busy
  <2> QED BY <1>7, <2>1, Ends DEF InBuffer
<1> QED BY <1>1, <1>2, <1>3, <1>7, <1>8, <1>9 DEF Passes, Ticked

LEMMA PumpedFacts ==
    ASSUME NEW T \in Channels, T.st = "SEND_CF"
    PROVE  /\ Pumped(T) \in Channels
           /\ \/ Pumped(T) = TxIdle /\ T.sent + 1 >= T.len
              \/ /\ T.sent + 1 < T.len
                 /\ Pumped(T).len = T.len /\ Pumped(T).sent = T.sent + 1
                 /\ Pumped(T).sn = T.sn + 1 /\ Pumped(T).bs = T.bs
                 /\ \/ /\ T.bs # 0 /\ T.blocks + 1 >= T.bs
                       /\ Pumped(T).st = "WAIT_FC" /\ Pumped(T).blocks = 0
                       /\ Pumped(T).timer = BsTimeout
                    \/ /\ T.bs = 0 \/ T.blocks + 1 < T.bs
                       /\ Pumped(T).st = "SEND_CF" /\ Pumped(T).blocks = T.blocks + 1
<1> DEFINE P == [T EXCEPT !.sent = @ + 1, !.sn = @ + 1, !.blocks = @ + 1, !.timer = T.stmin]
           Q == [P EXCEPT !.st = "WAIT_FC", !.blocks = 0, !.timer = BsTimeout]
<1>1. /\ P \in Channels /\ P.len = T.len /\ P.sent = T.sent + 1 /\ P.sn = T.sn + 1
      /\ P.bs = T.bs /\ P.blocks = T.blocks + 1 /\ P.st = "SEND_CF"
  <2> DEFINE a == T.sent + 1
             b == T.sn + 1
             c == T.blocks + 1
             d == T.stmin
  <2>1. a \in Nat /\ b \in Nat /\ c \in Nat /\ d \in Nat
    BY DEF Channels
  <2>2. P = [T EXCEPT !.sent = a, !.sn = b, !.blocks = c, !.timer = d]
    OBVIOUS
  <2> HIDE DEF a, b, c, d, P
  <2>3. /\ P \in Channels /\ P.len = T.len /\ P.sent = a /\ P.sn = b
        /\ P.bs = T.bs /\ P.blocks = c /\ P.st = "SEND_CF"
    BY <2>1, <2>2 DEF Channels
  <2> QED BY <2>3 DEF a, b, c
<1>2. Pumped(T) = IF P.sent >= P.len THEN TxIdle
                  ELSE IF T.bs # 0 /\ P.blocks >= T.bs THEN Q ELSE P
  BY DEF Pumped
<1>3. T.sent \in Nat /\ T.len \in Nat /\ T.blocks \in Nat /\ T.bs \in Nat
  BY DEF Channels
<1> HIDE DEF P
<1>4. /\ Q \in Channels /\ Q.len = P.len /\ Q.sent = P.sent /\ Q.sn = P.sn /\ Q.bs = P.bs
      /\ Q.st = "WAIT_FC" /\ Q.blocks = 0 /\ Q.timer = BsTimeout
  BY <1>1, NumbersAssumption DEF Channels
<1> HIDE DEF Q
<1>5. CASE P.sent >= P.len
  BY <1>1, <1>2, <1>3, <1>5, ChannelTypes
<1>6. CASE ~(P.sent >= P.len) /\ T.bs # 0 /\ P.blocks >= T.bs
  BY <1>1, <1>2, <1>3, <1>4, <1>6
<1>7. CASE ~(P.sent >= P.len) /\ ~(T.bs # 0 /\ P.blocks >= T.bs)
  BY <1>1, <1>2, <1>3, <1>7
<1> QED BY <1>5, <1>6, <1>7

LEMMA TickPumpStep ==
    ASSUME TypeOK, InBuffer, NEW n \in Nodes, TickPump(n)
    PROVE  /\ TypeOK' /\ InBuffer' /\ Passes(n) /\ SameReception(n)
           /\ tx[n].st = "SEND_CF"
           /\ \/ /\ tx'[n] = Pumped(tx[n]) /\ NextFrame(n) \in Frames
                 /\ wire'[Peer(n)] = Older(wire[Peer(n)]) \o <<NextFrame(n)>>
              \/ tx'[n] = TxError /\ wire'[Peer(n)] = Older(wire[Peer(n)])
<1>1. /\ turn = n /\ turn' = Peer(n)
      /\ \A p \in Nodes : \A i \in 1..Len(wire[p]) : wire[p][i].age < Lag
      /\ buf' = buf /\ unsent' = unsent /\ got' = got /\ owed' = owed
      /\ ~RxExpires(n) /\ rx' = RxTicked(n) /\ tx[n].st = "SEND_CF"
  BY DEF TickPump, Due
<1>2. rx' \in [Nodes -> Reassemblies] /\ SameReception(n) /\ rx'[Peer(n)] = rx[Peer(n)]
  BY <1>1, TickedFacts
<1>3. tx[n] \in Channels /\ tx[n].sent < tx[n].len /\ tx[n].len <= Longest
  BY <1>1 DEF TypeOK, InBuffer, Busy
<1>4. NextFrame(n) \in Frames
  <2>1. tx[n].sent + 1 \in 1..Longest /\ tx[n].sn \in Nat /\ tx[n].sent + 1 \in Nat
    BY <1>3, Lengths DEF Channels
  <2>2. buf[n] \in [1..Longest -> Msgs \cup {None}]
    BY DEF TypeOK
  <2>3. <<buf[n][tx[n].sent + 1], tx[n].sent + 1>> \in Cell
    BY <2>1, <2>2 DEF Cell
  <2>4. tx[n].sn % SnMod \in Nat
    BY <2>1, NumbersAssumption
  <2> QED BY <2>3, <2>4, FrameTypes DEF NextFrame
<1>5. /\ Aged \in [Nodes -> Seq(Frames)]
      /\ Aged[n] = Older(wire[n]) /\ Aged[Peer(n)] = Older(wire[Peer(n)])
  BY AgedFacts, Ends DEF TypeOK
<1>6. ASSUME NEW c \in Channels, tx' = [tx EXCEPT ![n] = c]
      PROVE  tx' \in [Nodes -> Channels] /\ tx'[Peer(n)] = tx[Peer(n)] /\ tx'[n] = c
  BY <1>6, Ends DEF TypeOK
<1>7. /\ wire' \in [Nodes -> Seq(Frames)] /\ wire'[n] = Older(wire[n])
      /\ tx' \in [Nodes -> Channels] /\ tx'[Peer(n)] = tx[Peer(n)]
      /\ faults' \in Nat
      /\ \/ /\ tx'[n] = Pumped(tx[n])
            /\ wire'[Peer(n)] = Older(wire[Peer(n)]) \o <<NextFrame(n)>>
         \/ tx'[n] = TxError /\ wire'[Peer(n)] = Older(wire[Peer(n)])
  <2>1. CASE tx' = [tx EXCEPT ![n] = Pumped(@)] /\ Accepted(Aged, n, <<NextFrame(n)>>)
             /\ UNCHANGED faults
    <3>1. Pumped(tx[n]) \in Channels
      BY <1>1, <1>3, PumpedFacts
    <3>2. tx' = [tx EXCEPT ![n] = Pumped(tx[n])]
      BY <2>1
    <3>3. <<NextFrame(n)>> \in Seq(Frames)
      BY <1>4, OneFrame
    <3>4. /\ wire' \in [Nodes -> Seq(Frames)] /\ wire'[n] = Aged[n]
          /\ wire'[Peer(n)] = Aged[Peer(n)] \o <<NextFrame(n)>>
      BY <1>5, <2>1, <3>3, AcceptedFacts
    <3>5. faults' \in Nat
      BY <2>1 DEF TypeOK
    <3> QED BY <1>5, <1>6, <3>1, <3>2, <3>4, <3>5
  <2>2. CASE tx' = [tx EXCEPT ![n] = TxError] /\ wire' = Aged /\ Fault
    <3>1. faults' \in Nat
      BY <2>2 DEF Fault, TypeOK
    <3>2. tx' \in [Nodes -> Channels] /\ tx'[Peer(n)] = tx[Peer(n)] /\ tx'[n] = TxError
      BY <1>6, <2>2, ChannelTypes
    <3> QED BY <1>5, <2>2, <3>1, <3>2
  <2> QED BY <2>1, <2>2 DEF TickPump
<1>8. TypeOK'
  BY <1>1, <1>2, <1>7, Ends DEF TypeOK
<1>9. InBuffer'
  <2>1. Busy(tx'[n]) => tx'[n].sent < tx'[n].len /\ tx'[n].len <= Longest
    BY <1>1, <1>3, <1>7, PumpedFacts, ChannelTypes
  <2> QED BY <1>7, <2>1, Ends DEF InBuffer
<1> QED BY <1>1, <1>2, <1>4, <1>7, <1>8, <1>9 DEF Passes

LEMMA LoseStep ==
    ASSUME TypeOK, InBuffer, NEW n \in Nodes, Lose(n)
    PROVE  /\ TypeOK' /\ InBuffer' /\ wire[n] # <<>>
           /\ tx' = tx /\ rx' = rx /\ buf' = buf /\ unsent' = unsent /\ got' = got /\ turn' = turn
           /\ wire'[n] = Tail(wire[n]) /\ wire'[Peer(n)] = wire[Peer(n)]
<1>1. /\ wire[n] # <<>> /\ wire' = Popped(n)
      /\ tx' = tx /\ rx' = rx /\ buf' = buf /\ unsent' = unsent /\ got' = got /\ turn' = turn
      /\ owed' = owed
  BY DEF Lose
<1>2. /\ wire' \in [Nodes -> Seq(Frames)]
      /\ wire'[n] = Tail(wire[n]) /\ wire'[Peer(n)] = wire[Peer(n)]
  BY <1>1, PoppedFacts DEF TypeOK
<1>3. faults' \in Nat
  BY DEF Lose, Fault, TypeOK
<1>4. TypeOK'
  BY <1>1, <1>2, <1>3 DEF TypeOK
<1>5. InBuffer'
  BY <1>1 DEF InBuffer
<1> QED BY <1>1, <1>2, <1>4, <1>5

LEMMA RepeatStep ==
    ASSUME TypeOK, InBuffer, NEW n \in Nodes, Repeat(n)
    PROVE  /\ TypeOK' /\ InBuffer' /\ wire[n] # <<>>
           /\ tx' = tx /\ rx' = rx /\ buf' = buf /\ unsent' = unsent /\ got' = got /\ turn' = turn
           /\ wire[n][1] \in Frames
           /\ wire'[n] = <<wire[n][1]>> \o wire[n] /\ wire'[Peer(n)] = wire[Peer(n)]
<1>1. /\ wire[n] # <<>>
      /\ tx' = tx /\ rx' = rx /\ buf' = buf /\ unsent' = unsent /\ got' = got /\ turn' = turn
      /\ owed' = owed
  BY DEF Repeat
<1>2. wire[n][1] = Head(wire[n]) /\ wire[n][1] \in Frames /\ <<wire[n][1]>> \in Seq(Frames)
  BY <1>1, TailFacts, OneFrame DEF TypeOK
<1>3. <<wire[n][1]>> \o wire[n] \in Seq(Frames)
  BY <1>2, JoinFacts DEF TypeOK
<1>4. /\ wire' \in [Nodes -> Seq(Frames)]
      /\ wire'[n] = <<wire[n][1]>> \o wire[n] /\ wire'[Peer(n)] = wire[Peer(n)]
  <2>1. wire' = [wire EXCEPT ![n] = <<wire[n][1]>> \o wire[n]]
    BY <1>2 DEF Repeat
  <2> QED BY <1>3, <2>1, Ends DEF TypeOK
<1>5. faults' \in Nat
  BY DEF Repeat, Fault, TypeOK
<1>6. TypeOK'
  BY <1>1, <1>4, <1>5 DEF TypeOK
<1>7. InBuffer'
  BY <1>1 DEF InBuffer
<1> QED BY <1>1, <1>2, <1>4, <1>6, <1>7

LEMMA ResetRxStep ==
    ASSUME TypeOK, InBuffer, NEW n \in Nodes, ResetRx(n)
    PROVE  /\ TypeOK' /\ InBuffer'
           /\ tx' = tx /\ buf' = buf /\ unsent' = unsent /\ wire' = wire /\ got' = got
           /\ turn' = turn
           /\ rx'[n] = RxIdle /\ rx'[Peer(n)] = rx[Peer(n)]
<1>1. rx' \in [Nodes -> Reassemblies] /\ rx'[n] = RxIdle /\ rx'[Peer(n)] = rx[Peer(n)]
  BY ChannelTypes, Ends DEF ResetRx, TypeOK
<1>2. /\ tx' = tx /\ buf' = buf /\ unsent' = unsent /\ wire' = wire /\ got' = got
      /\ turn' = turn /\ owed' = owed /\ faults' = faults
  BY DEF ResetRx
<1>3. TypeOK'
  BY <1>1, <1>2 DEF TypeOK
<1>4. InBuffer'
  BY <1>2 DEF InBuffer
<1> QED BY <1>1, <1>2, <1>3, <1>4

LEMMA ResetTxStep ==
    ASSUME TypeOK, InBuffer, NEW n \in Nodes, ResetTx(n)
    PROVE  /\ TypeOK' /\ InBuffer'
           /\ rx' = rx /\ buf' = buf /\ unsent' = unsent /\ wire' = wire /\ got' = got
           /\ turn' = turn
           /\ ~Busy(tx[n]) /\ tx'[n] = TxIdle /\ tx'[Peer(n)] = tx[Peer(n)]
<1>1. /\ tx' \in [Nodes -> Channels] /\ tx'[n] = TxIdle /\ tx'[Peer(n)] = tx[Peer(n)]
      /\ ~Busy(tx[n])
  BY ChannelTypes, Ends DEF ResetTx, TypeOK, Busy
<1>2. /\ rx' = rx /\ buf' = buf /\ unsent' = unsent /\ wire' = wire /\ got' = got
      /\ turn' = turn /\ owed' = owed /\ faults' = faults
  BY DEF ResetTx
<1>3. TypeOK'
  BY <1>1, <1>2 DEF TypeOK
<1>4. InBuffer'
  BY <1>1, ChannelTypes, Ends DEF InBuffer
<1> QED BY <1>1, <1>2, <1>3, <1>4

LEMMA IdleStep ==
    ASSUME TypeOK, InBuffer, UNCHANGED vars
    PROVE  TypeOK' /\ InBuffer'
  BY DEF TypeOK, InBuffer, vars

\* The channels are always well formed, and a sender never reads beyond its buffer,
\* whatever the bus does and however the application behaves.
THEOREM TypeCorrect == Spec => [](TypeOK /\ InBuffer)
<1>1. TypeOK /\ InBuffer /\ [Next]_vars => TypeOK' /\ InBuffer'
  <2> SUFFICES ASSUME TypeOK, InBuffer, [Next]_vars PROVE TypeOK' /\ InBuffer'
    OBVIOUS
  <2>1. ASSUME NEW n \in Nodes, NEW m \in Msgs,
               Transmit(n, m) \/ TransmitRefused(n, m) \/ TransmitBusy(n, m)
        PROVE  TypeOK' /\ InBuffer'
    BY <2>1, TransmitStep, TransmitRefusedStep, TransmitBusyStep
  <2>2. ASSUME NEW n \in Nodes, Receive(n) PROVE TypeOK' /\ InBuffer'
    BY <2>2, SingleStep, FirstStep, StrayStep, LastStep, NextStep, FlowStep DEF Receive
  <2>3. ASSUME NEW n \in Nodes, Tick(n) PROVE TypeOK' /\ InBuffer'
    BY <2>3, TickCrStep, TickWaitStep, TickPumpStep DEF Tick
  <2>4. ASSUME NEW n \in Nodes, Lose(n) \/ Repeat(n) \/ ResetRx(n) \/ ResetTx(n)
        PROVE  TypeOK' /\ InBuffer'
    BY <2>4, LoseStep, RepeatStep, ResetRxStep, ResetTxStep
  <2> QED BY <2>1, <2>2, <2>3, <2>4, IdleStep DEF Next
<1> QED BY <1>1, InitTyped, PTL DEF Spec

-----------------------------------------------------------------------------
(* What the two ends of a link agree on under every fault: a transmission  *)
(* reads one whole message, a frame says truly what it carries, and a      *)
(* reassembly has begun with a first cell.                                 *)

Data == {"FF", "CF"}
Flow == {"CTS", "WAIT", "OVFLW"}

\* Messages an application may send.
Sendable(n) == UNION {p[n] : p \in Plans}

Reassembling(R) == R.st = "WAIT_CF"

\* The message a reassembly is of, and the number of the cell at place i.
Of(R) == R.data[1][1]
Num(R, i) == R.data[i][2]

Sender(n, T, B, U) ==
    Busy(T) =>
        /\ B[1] \in Sendable(n) \ U /\ T.len = Cells[B[1]]
        /\ T.sent \in 1..T.len - 1 /\ T.sn = T.sent
        /\ \A i \in 1..T.len : B[i] = B[1]
        /\ T.st = "SEND_CF" => /\ T.bs = BlockSize[Peer(n)] /\ T.blocks < T.sent
                               /\ T.bs # 0 => T.blocks < T.bs
        /\ T.st = "WAIT_FC" /\ BlockSize[Peer(n)] = 0 => T.sent = 1

\* A frame that n has sent.
Sound(n, f, U) ==
    /\ f.age <= Lag
    /\ f.type \notin Flow =>
          f.cell[1] \in Sendable(n) \ U /\ f.cell[2] \in 1..Cells[f.cell[1]]
    /\ f.type \in {"SF", "FUNC"} => Cells[f.cell[1]] = 1
    /\ f.type = "FF" => f.cell[2] = 1 /\ f.len = Cells[f.cell[1]] /\ f.len > 1
    /\ f.type = "CF" => f.cell[2] > 1 /\ f.sn = (f.cell[2] - 1) % SnMod
    /\ f.type \in Flow => f.bs = BlockSize[n]

SoundQueue(n, q, U) == \A i \in 1..Len(q) : Sound(n, q[i], U)

\* The reception of what n sends.
Receiver(n, R, U) ==
    Reassembling(R) =>
        /\ Of(R) \in Sendable(n) \ U /\ R.len = Cells[Of(R)] /\ Num(R, 1) = 1
        /\ Len(R.data) \in 1..R.len - 1 /\ R.sn = Len(R.data)
        /\ R.blocks < R.sn
        /\ R.blocks < BlockSize[Peer(n)] \/ R.blocks = 0

Link(n) ==
    /\ unsent[n] \subseteq Sendable(n)
    /\ Sender(n, tx[n], buf[n], unsent[n])
    /\ SoundQueue(n, wire[Peer(n)], unsent[n])
    /\ Receiver(n, rx[Peer(n)], unsent[n])

Linked == TypeOK /\ InBuffer /\ \A n \in Nodes : Link(n)

LEMMA SoundTail ==
    ASSUME NEW n \in Nodes, NEW U, NEW q \in Seq(Frames), q # <<>>, SoundQueue(n, q, U)
    PROVE  SoundQueue(n, Tail(q), U) /\ Sound(n, q[1], U)
<1>1. 1 \in 1..Len(q) /\ \A i \in 1..Len(Tail(q)) : i + 1 \in 1..Len(q) /\ Tail(q)[i] = q[i + 1]
  BY TailFacts
<1> QED BY <1>1 DEF SoundQueue

LEMMA SoundJoin ==
    ASSUME NEW n \in Nodes, NEW U, NEW q \in Seq(Frames), NEW f \in Frames,
           SoundQueue(n, q, U), Sound(n, f, U)
    PROVE  SoundQueue(n, q \o <<f>>, U)
<1>1. <<f>> \in Seq(Frames) /\ Len(<<f>>) = 1 /\ <<f>>[1] = f
  BY OneFrame
<1>2. \A i \in 1..Len(q \o <<f>>) :
         \/ i \in 1..Len(q) /\ (q \o <<f>>)[i] = q[i]
         \/ (q \o <<f>>)[i] = f
  BY <1>1, JoinFacts
<1> QED BY <1>2 DEF SoundQueue

LEMMA SoundJoinTwo ==
    ASSUME NEW n \in Nodes, NEW U, NEW q \in Seq(Frames), NEW f \in Frames, NEW g \in Frames,
           SoundQueue(n, q, U), Sound(n, f, U), Sound(n, g, U)
    PROVE  SoundQueue(n, q \o <<f, g>>, U)
<1>1. <<f, g>> \in Seq(Frames) /\ Len(<<f, g>>) = 2 /\ <<f, g>>[1] = f /\ <<f, g>>[2] = g
  BY TwoFrames
<1>2. \A i \in 1..Len(q \o <<f, g>>) :
         \/ i \in 1..Len(q) /\ (q \o <<f, g>>)[i] = q[i]
         \/ (q \o <<f, g>>)[i] \in {f, g}
  BY <1>1, JoinFacts
<1> QED BY <1>2 DEF SoundQueue

LEMMA SoundOlder ==
    ASSUME NEW n \in Nodes, NEW U, NEW q \in Seq(Frames), SoundQueue(n, q, U),
           \A i \in 1..Len(q) : q[i].age < Lag
    PROVE  SoundQueue(n, Older(q), U)
<1>1. SUFFICES ASSUME NEW i \in 1..Len(Older(q)) PROVE Sound(n, Older(q)[i], U)
  BY DEF SoundQueue
<1> DEFINE f == q[i]
           g == Older(q)[i]
<1>2. i \in 1..Len(q) /\ f \in Frames /\ g = [f EXCEPT !.age = @ + 1]
  BY <1>1, OlderFacts
<1>3. Sound(n, f, U) /\ f.age < Lag
  BY <1>2 DEF SoundQueue
<1> HIDE DEF f, g
<1>4. /\ g.type = f.type /\ g.len = f.len /\ g.sn = f.sn /\ g.cell = f.cell /\ g.bs = f.bs
      /\ g.age = f.age + 1 /\ f.age \in Nat
  BY <1>2 DEF Frames
<1>5. g.age <= Lag
  BY <1>3, <1>4, NumbersAssumption
<1>6. Sound(n, g, U)
  BY <1>3, <1>4, <1>5 DEF Sound
<1> QED BY <1>6 DEF g

LEMMA SoundLess ==
    ASSUME NEW n \in Nodes, NEW U, NEW U2 \in SUBSET U
    PROVE  /\ \A q : SoundQueue(n, q, U) => SoundQueue(n, q, U2)
           /\ \A R : Receiver(n, R, U) => Receiver(n, R, U2)
           /\ \A T, B : Sender(n, T, B, U) => Sender(n, T, B, U2)
<1>1. \A f : Sound(n, f, U) => Sound(n, f, U2)
  BY DEF Sound
<1>2. \A q : SoundQueue(n, q, U) => SoundQueue(n, q, U2)
  BY <1>1 DEF SoundQueue
<1>3. \A R : Receiver(n, R, U) => Receiver(n, R, U2)
  BY DEF Receiver
<1>4. \A T, B : Sender(n, T, B, U) => Sender(n, T, B, U2)
  BY DEF Sender
<1> QED BY <1>2, <1>3, <1>4

LEMMA SoundAnswers ==
    ASSUME NEW n \in Nodes, NEW U, NEW fs \in Flow
    PROVE  Sound(n, FC(fs, n), U) /\ FC(fs, n) \in Frames
<1>1. FC(fs, n) \in Frames
  BY FrameTypes DEF Flow
<1>2. FC(fs, n).age = 0 /\ FC(fs, n).type = fs /\ FC(fs, n).bs = BlockSize[n]
  BY DEF FC, Frame
<1> QED BY <1>1, <1>2, NumbersAssumption DEF Sound, Flow

\* Receivers that wait for nothing, senders that send nothing.
LEMMA QuietEnds ==
    ASSUME NEW n \in Nodes, NEW U
    PROVE  /\ \A R : R.st # "WAIT_CF" => Receiver(n, R, U)
           /\ \A T, B : ~Busy(T) => Sender(n, T, B, U)
  BY DEF Receiver, Sender, Reassembling

LEMMA InitLinked == Init => Linked
<1> SUFFICES ASSUME Init PROVE Linked
  OBVIOUS
<1>1. TypeOK /\ InBuffer
  BY InitTyped
<1>2. ASSUME NEW n \in Nodes PROVE Link(n)
  <2>1. unsent[n] \subseteq Sendable(n)
    BY MsgsAssumption DEF Init, Sendable
  <2>2. ~Busy(tx[n]) /\ rx[Peer(n)].st # "WAIT_CF"
    BY ChannelTypes, Ends DEF Init
  <2>3. wire[Peer(n)] = <<>>
    BY Ends DEF Init
  <2>4. SoundQueue(n, <<>>, unsent[n])
    BY EmptySeq DEF SoundQueue
  <2> QED BY <2>1, <2>2, <2>3, <2>4, QuietEnds DEF Link
<1> QED BY <1>1, <1>2 DEF Linked

LEMMA LinkedByEnds ==
    ASSUME TypeOK', InBuffer', NEW n \in Nodes, Link(n)', Link(Peer(n))'
    PROVE  Linked'
<1>1. \A k \in Nodes : k = n \/ k = Peer(n)
  BY Ends
<1> QED BY <1>1 DEF Linked

LEMMA LinkedTransmit ==
    ASSUME Linked, NEW n \in Nodes, NEW m \in Msgs, Transmit(n, m)
    PROVE  Linked'
<1> DEFINE p == Peer(n)
<1>1. TypeOK /\ InBuffer /\ Link(n) /\ Link(p) /\ p \in Nodes /\ Peer(p) = n
  BY Ends DEF Linked
<1>2. /\ TypeOK' /\ InBuffer' /\ Alone(n)
      /\ ~Busy(tx[n]) /\ tx'[n] = Started(m)
      /\ m \in unsent[n] /\ unsent'[n] = unsent[n] \ {m}
      /\ \A i \in 1..Cells[m] : buf'[n][i] = m
      /\ rx' = rx /\ wire'[n] = wire[n]
  BY <1>1, TransmitStep
<1>3. PICK f \in FirstFrames(m) : f \in Frames /\ wire'[p] = wire[p] \o <<f>>
  BY <1>1, TransmitStep
<1>4. m \in Sendable(n) \ unsent'[n] /\ unsent'[n] \in SUBSET unsent[n]
  BY <1>1, <1>2 DEF Link
<1>5. Cells[m] \in Nat \ {0}
  BY Lengths
<1>6. Sender(n, tx'[n], buf'[n], unsent'[n])
  <2>1. CASE Cells[m] = 1
    BY <1>2, <2>1, ChannelTypes, QuietEnds DEF Started
  <2>2. CASE Cells[m] # 1
    <3>1. /\ tx'[n].st = "WAIT_FC" /\ tx'[n].len = Cells[m] /\ tx'[n].sent = 1 /\ tx'[n].sn = 1
      BY <1>2, <2>2 DEF Started, TxIdle
    <3>2. buf'[n][1] = m /\ \A i \in 1..Cells[m] : buf'[n][i] = m
      BY <1>2, <1>5
    <3>3. 1 \in 1..Cells[m] - 1
      BY <1>5, <2>2
    <3> QED BY <1>4, <3>1, <3>2, <3>3 DEF Sender
  <2> QED BY <2>1, <2>2
<1>7. Sound(n, f, unsent'[n])
  <2>1. CASE Cells[m] = 1
    <3>1. f.type \in {"SF", "FUNC"} /\ f.age = 0 /\ f.cell = <<m, 1>>
      BY <2>1 DEF FirstFrames, SF, Func, Frame
    <3> QED BY <1>4, <2>1, <3>1, NumbersAssumption DEF Sound, Flow
  <2>2. CASE Cells[m] # 1
    <3>1. f.type = "FF" /\ f.age = 0 /\ f.cell = <<m, 1>> /\ f.len = Cells[m]
      BY <2>2 DEF FirstFrames, FF, Frame
    <3>2. Cells[m] > 1 /\ 1 \in 1..Cells[m]
      BY <1>5, <2>2
    <3> QED BY <1>4, <3>1, <3>2, NumbersAssumption DEF Sound, Flow
  <2> QED BY <2>1, <2>2
<1>8. SoundQueue(n, wire'[p], unsent'[n])
  <2>1. SoundQueue(n, wire[p], unsent'[n]) /\ wire[p] \in Seq(Frames)
    BY <1>1, <1>4, SoundLess DEF Link, TypeOK
  <2> QED BY <1>3, <1>7, <2>1, SoundJoin
<1>9. Receiver(n, rx'[p], unsent'[n])
  BY <1>1, <1>2, <1>4, SoundLess DEF Link
<1>10. Link(n)'
  BY <1>1, <1>4, <1>6, <1>8, <1>9 DEF Link
<1>11. Link(p)'
  BY <1>1, <1>2 DEF Link, Alone
<1> QED BY <1>2, <1>10, <1>11, LinkedByEnds

LEMMA LinkedRefused ==
    ASSUME Linked, NEW n \in Nodes, NEW m \in Msgs, TransmitRefused(n, m)
    PROVE  Linked'
<1> DEFINE p == Peer(n)
<1>1. TypeOK /\ InBuffer /\ Link(n) /\ Link(p) /\ p \in Nodes /\ Peer(p) = n
  BY Ends DEF Linked
<1>2. /\ TypeOK' /\ InBuffer' /\ Alone(n) /\ tx'[n] = TxIdle
      /\ unsent'[n] \in SUBSET unsent[n] /\ rx' = rx /\ wire' = wire
  BY <1>1, TransmitRefusedStep
<1>3. Link(n)'
  BY <1>1, <1>2, ChannelTypes, QuietEnds, SoundLess DEF Link
<1>4. Link(p)'
  BY <1>1, <1>2 DEF Link, Alone
<1> QED BY <1>2, <1>3, <1>4, LinkedByEnds

LEMMA LinkedBusy ==
    ASSUME Patient, Linked, NEW n \in Nodes, NEW m \in Msgs, TransmitBusy(n, m)
    PROVE  Linked'
<1> DEFINE p == Peer(n)
<1>1. TypeOK /\ InBuffer /\ Link(n) /\ Link(p) /\ p \in Nodes /\ Peer(p) = n
  BY Ends DEF Linked
<1>2. /\ TypeOK' /\ InBuffer' /\ Alone(n) /\ buf' = buf
      /\ unsent'[n] \in SUBSET unsent[n] /\ tx' = tx /\ rx' = rx /\ wire' = wire
  BY <1>1, TransmitBusyStep
<1>3. Link(n)'
  BY <1>1, <1>2, SoundLess DEF Link
<1>4. Link(p)'
  BY <1>1, <1>2 DEF Link, Alone
<1> QED BY <1>2, <1>3, <1>4, LinkedByEnds

\* A frame leaves the queue of n, and n sends none but flow control: for the link from the
\* peer only the reception of n can have changed, for the link from n only the queue.
LEMMA LinkedReceive ==
    ASSUME Linked, NEW n \in Nodes, TypeOK', InBuffer', wire[n] # <<>>,
           buf' = buf, unsent' = unsent, wire'[n] = Tail(wire[n]),
           tx'[Peer(n)] = tx[Peer(n)], rx'[Peer(n)] = rx[Peer(n)],
           \/ wire'[Peer(n)] = wire[Peer(n)]
           \/ \E fs \in Flow : Answered(n, fs),
           Sender(n, tx'[n], buf[n], unsent[n]),
           Receiver(Peer(n), rx'[n], unsent[Peer(n)])
    PROVE  Linked'
<1> DEFINE p == Peer(n)
<1>1. TypeOK /\ InBuffer /\ Link(n) /\ Link(p) /\ p \in Nodes /\ Peer(p) = n
  BY Ends DEF Linked
<1>2. wire[n] \in Seq(Frames) /\ wire[p] \in Seq(Frames)
  BY <1>1 DEF TypeOK
<1>3. SoundQueue(n, wire'[p], unsent[n])
  <2>1. SoundQueue(n, wire[p], unsent[n])
    BY <1>1 DEF Link
  <2>2. ASSUME NEW fs \in Flow, Answered(n, fs) PROVE SoundQueue(n, wire'[p], unsent[n])
    <3>1. /\ Sound(n, FC(fs, n), unsent[n]) /\ Sound(n, FC("WAIT", n), unsent[n])
          /\ FC(fs, n) \in Frames /\ FC("WAIT", n) \in Frames
      BY SoundAnswers DEF Flow
    <3>2. CASE wire'[p] = wire[p] \o <<FC(fs, n)>>
      BY <1>2, <2>1, <3>1, <3>2, SoundJoin
    <3>3. CASE wire'[p] = wire[p] \o <<FC("WAIT", n), FC(fs, n)>>
      BY <1>2, <2>1, <3>1, <3>3, SoundJoinTwo
    <3> QED BY <2>2, <3>2, <3>3 DEF Answered
  <2> QED BY <2>1, <2>2
<1>4. SoundQueue(p, wire'[n], unsent[p])
  BY <1>1, <1>2, SoundTail DEF Link
<1>5. Link(n)'
  BY <1>1, <1>3 DEF Link
<1>6. Link(p)'
  BY <1>1, <1>4 DEF Link
<1> QED BY <1>5, <1>6, LinkedByEnds

\* What a received frame says, and that a sender is undisturbed by other frames.
LEMMA AtHead ==
    ASSUME Linked, NEW n \in Nodes, wire[n] # <<>>
    PROVE  /\ wire[n][1] \in Frames /\ Sound(Peer(n), wire[n][1], unsent[Peer(n)])
           /\ Sender(n, tx[n], buf[n], unsent[n])
           /\ Receiver(Peer(n), rx[n], unsent[Peer(n)])
           /\ rx[n] \in Reassemblies /\ tx[n] \in Channels
<1>1. TypeOK /\ Link(n) /\ Link(Peer(n)) /\ Peer(n) \in Nodes /\ Peer(Peer(n)) = n
  BY Ends DEF Linked
<1>2. wire[n] \in Seq(Frames) /\ rx[n] \in Reassemblies /\ tx[n] \in Channels
  BY <1>1 DEF TypeOK
<1>3. SoundQueue(Peer(n), wire[n], unsent[Peer(n)])
  BY <1>1 DEF Link
<1>4. Sound(Peer(n), wire[n][1], unsent[Peer(n)])
  BY <1>1, <1>2, <1>3, SoundTail
<1>5. wire[n][1] \in Frames
  BY <1>2, TailFacts
<1> QED BY <1>1, <1>2, <1>4, <1>5 DEF Link

LEMMA LinkedSingle ==
    ASSUME Linked, NEW n \in Nodes, ReceiveSingle(n)
    PROVE  Linked'
<1>1. TypeOK /\ InBuffer /\ Peer(n) \in Nodes
  BY Ends DEF Linked
<1>2. /\ TypeOK' /\ InBuffer' /\ wire[n] # <<>>
      /\ tx' = tx /\ buf' = buf /\ unsent' = unsent
      /\ wire'[n] = Tail(wire[n]) /\ wire'[Peer(n)] = wire[Peer(n)]
      /\ rx'[n] = rx[n] \/ rx'[n] = RxIdle
      /\ rx'[Peer(n)] = rx[Peer(n)]
  BY <1>1, SingleStep
<1>3. Receiver(Peer(n), rx'[n], unsent[Peer(n)])
  BY <1>1, <1>2, AtHead, ChannelTypes, QuietEnds
<1> QED BY <1>2, <1>3, AtHead, LinkedReceive

LEMMA LinkedFirst ==
    ASSUME Linked, NEW n \in Nodes, ReceiveFirst(n)
    PROVE  Linked'
<1> DEFINE p == Peer(n)
           f == wire[n][1]
<1>1. TypeOK /\ InBuffer /\ p \in Nodes /\ Peer(p) = n
  BY Ends DEF Linked
<1>2. /\ TypeOK' /\ InBuffer' /\ wire[n] # <<>> /\ f.type = "FF"
      /\ tx' = tx /\ buf' = buf /\ unsent' = unsent
      /\ wire'[n] = Tail(wire[n]) /\ rx'[p] = rx[p]
      /\ \/ rx'[n] = RxError /\ wire'[p] = wire[p]
         \/ rx'[n] = rx[n] /\ Answered(n, "OVFLW")
         \/ rx'[n] = Begun(f) /\ Answered(n, "CTS")
  BY <1>1, FirstStep
<1>3. Receiver(p, Begun(f), unsent[p])
  <2>1. Sound(p, f, unsent[p]) /\ f \in Frames
    BY <1>2, AtHead
  <2>2. /\ f.cell[1] \in Sendable(p) \ unsent[p] /\ f.cell[2] = 1
        /\ f.len = Cells[f.cell[1]] /\ f.len > 1 /\ f.len \in Nat
    BY <1>2, <2>1 DEF Sound, Flow, Frames
  <2> HIDE DEF f
  <2>3. /\ Begun(f).data = <<f.cell>> /\ Begun(f).len = f.len /\ Begun(f).sn = 1
        /\ Begun(f).blocks = 0
    BY DEF Begun
  <2>4. Len(<<f.cell>>) = 1 /\ <<f.cell>>[1] = f.cell
    OBVIOUS
  <2>5. /\ Of(Begun(f)) = f.cell[1] /\ Num(Begun(f), 1) = 1 /\ Len(Begun(f).data) = 1
    BY <2>2, <2>3, <2>4 DEF Of, Num
  <2>6. 1 \in 1..f.len - 1
    BY <2>2
  <2> QED BY <2>2, <2>3, <2>5, <2>6 DEF Receiver
<1>4. Receiver(p, rx'[n], unsent[p])
  BY <1>2, <1>3, AtHead, ChannelTypes, QuietEnds, <1>1
<1>5. wire'[p] = wire[p] \/ \E fs \in Flow : Answered(n, fs)
  BY <1>2 DEF Flow
<1> QED BY <1>2, <1>4, <1>5, AtHead, LinkedReceive

LEMMA LinkedStray ==
    ASSUME Linked, NEW n \in Nodes, ReceiveStray(n)
    PROVE  Linked'
<1>1. TypeOK /\ InBuffer /\ Peer(n) \in Nodes
  BY Ends DEF Linked
<1>2. /\ TypeOK' /\ InBuffer' /\ wire[n] # <<>>
      /\ tx' = tx /\ buf' = buf /\ unsent' = unsent
      /\ wire'[n] = Tail(wire[n]) /\ wire'[Peer(n)] = wire[Peer(n)]
      /\ rx'[n].st # "WAIT_CF" /\ rx'[Peer(n)] = rx[Peer(n)]
  BY <1>1, StrayStep
<1>3. Receiver(Peer(n), rx'[n], unsent[Peer(n)])
  BY <1>1, <1>2, QuietEnds
<1> QED BY <1>2, <1>3, AtHead, LinkedReceive

LEMMA LinkedLast ==
    ASSUME Linked, NEW n \in Nodes, ReceiveLast(n)
    PROVE  Linked'
<1>1. TypeOK /\ InBuffer /\ Peer(n) \in Nodes
  BY Ends DEF Linked
<1>2. /\ TypeOK' /\ InBuffer' /\ wire[n] # <<>>
      /\ tx' = tx /\ buf' = buf /\ unsent' = unsent
      /\ wire'[n] = Tail(wire[n]) /\ wire'[Peer(n)] = wire[Peer(n)]
      /\ rx'[n] = RxIdle /\ rx'[Peer(n)] = rx[Peer(n)]
  BY <1>1, LastStep, ExtendedFacts
<1>3. Receiver(Peer(n), rx'[n], unsent[Peer(n)])
  BY <1>1, <1>2, QuietEnds, ChannelTypes
<1> QED BY <1>2, <1>3, AtHead, LinkedReceive

LEMMA LinkedNext ==
    ASSUME Linked, NEW n \in Nodes, ReceiveNext(n)
    PROVE  Linked'
<1> DEFINE p == Peer(n)
           R == rx[n]
           R2 == rx'[n]
           d == Len(rx[n].data)
<1>1. TypeOK /\ InBuffer /\ p \in Nodes /\ Peer(p) = n
  BY Ends DEF Linked
<1>2. /\ TypeOK' /\ InBuffer' /\ InSequence(n) /\ Len(Extended(n)) < R.len
      /\ tx' = tx /\ buf' = buf /\ unsent' = unsent
      /\ wire'[n] = Tail(wire[n]) /\ rx'[p] = rx[p]
      /\ \/ R2 = RxError /\ wire'[p] = wire[p]
         \/ /\ R2.st = "WAIT_CF" /\ R2.len = R.len
            /\ R2.data = Extended(n) /\ R2.sn = R.sn + 1
            /\ IF Full(n) THEN R2.blocks = 0 /\ Answered(n, "CTS")
               ELSE /\ R2.blocks = IF BlockSize[n] = 0 THEN 0 ELSE R.blocks + 1
                    /\ wire'[p] = wire[p]
  BY <1>1, NextStep
<1>3. /\ wire[n] # <<>> /\ R.st = "WAIT_CF" /\ R \in Reassemblies
      /\ d \in Nat /\ Len(Extended(n)) = d + 1
      /\ \A i \in 1..d : Extended(n)[i] = R.data[i]
  BY <1>1, <1>2, ExtendedFacts
<1>4. /\ Of(R) \in Sendable(p) \ unsent[p] /\ R.len = Cells[Of(R)] /\ Num(R, 1) = 1
      /\ d \in 1..R.len - 1 /\ R.sn = d /\ R.blocks < R.sn
      /\ R.blocks < BlockSize[n] \/ R.blocks = 0
  BY <1>1, <1>3, AtHead DEF Receiver, Reassembling
<1>5. BlockSize[n] \in Nat /\ R.blocks \in Nat /\ R.len \in Nat
  BY <1>3, NumbersAssumption DEF Reassemblies
<1>6. CASE R2 = RxError
  <2>1. Receiver(p, R2, unsent[p])
    BY <1>1, <1>6, ChannelTypes, QuietEnds
  <2>2. wire'[p] = wire[p] \/ \E fs \in Flow : Answered(n, fs)
    BY <1>2 DEF Flow
  <2> QED BY <1>2, <1>3, <2>1, <2>2, AtHead, LinkedReceive
<1>7. CASE R2.st = "WAIT_CF"
  <2>1. /\ R2.len = R.len /\ R2.data = Extended(n) /\ R2.sn = R.sn + 1
        /\ IF Full(n) THEN R2.blocks = 0 /\ Answered(n, "CTS")
           ELSE /\ R2.blocks = IF BlockSize[n] = 0 THEN 0 ELSE R.blocks + 1
                /\ wire'[p] = wire[p]
    BY <1>2, <1>7, ChannelTypes
  <2>2. Of(R2) = Of(R) /\ Num(R2, 1) = 1 /\ Len(R2.data) = d + 1
    <3>1. 1 \in 1..d
      BY <1>4
    <3>2. Extended(n)[1] = R.data[1]
      BY <1>3, <3>1
    <3> QED BY <1>3, <1>4, <2>1, <3>2 DEF Of, Num
  <2>3. R2.blocks < R2.sn /\ (R2.blocks < BlockSize[n] \/ R2.blocks = 0)
    <3>1. CASE Full(n)
      BY <1>4, <1>5, <2>1, <3>1
    <3>2. CASE ~Full(n)
      BY <1>4, <1>5, <2>1, <3>2 DEF Full
    <3> QED BY <3>1, <3>2
  <2>4. d + 1 \in 1..R.len - 1
    BY <1>2, <1>3, <1>4, <1>5
  <2>5. Receiver(p, R2, unsent[p])
    <3> HIDE DEF R, R2, d
    <3> QED BY <1>1, <1>4, <2>1, <2>2, <2>3, <2>4 DEF Receiver
  <2>6. wire'[p] = wire[p] \/ \E fs \in Flow : Answered(n, fs)
    BY <2>1 DEF Flow
  <2> QED BY <1>2, <1>3, <2>5, <2>6, AtHead, LinkedReceive
<1> QED BY <1>2, <1>6, <1>7

LEMMA LinkedFlow ==
    ASSUME Linked, NEW n \in Nodes, ReceiveFlow(n)
    PROVE  Linked'
<1> DEFINE p == Peer(n)
           f == wire[n][1]
           T == tx[n]
           T2 == tx'[n]
<1>1. TypeOK /\ InBuffer /\ p \in Nodes /\ Peer(p) = n
  BY Ends DEF Linked
<1>2. /\ TypeOK' /\ InBuffer' /\ wire[n] # <<>> /\ f.type \in Flow
      /\ rx' = rx /\ buf' = buf /\ unsent' = unsent
      /\ wire'[n] = Tail(wire[n]) /\ wire'[p] = wire[p] /\ tx'[p] = tx[p]
      /\ \/ T2 = T \/ T2 = TxError
         \/ T.st = "WAIT_FC" /\ T2 = Cleared(T, f)
         \/ T.st = "WAIT_FC" /\ T2 = [T EXCEPT !.timer = BsTimeout]
  BY <1>1, FlowStep DEF Flow
<1>3. /\ Sender(n, T, buf[n], unsent[n]) /\ T \in Channels
      /\ f.bs = BlockSize[p] /\ f \in Frames
  BY <1>2, AtHead DEF Sound
<1> HIDE DEF f, T, T2
<1>4. Sender(n, T2, buf[n], unsent[n])
  <2>1. CASE T2 = T
    BY <1>3, <2>1
  <2>2. CASE T2 = TxError
    BY <2>2, ChannelTypes, QuietEnds
  <2>3. CASE T.st = "WAIT_FC" /\ T2 = Cleared(T, f)
    <3>1. /\ T2.st = "SEND_CF" /\ T2.len = T.len /\ T2.sent = T.sent /\ T2.sn = T.sn
          /\ T2.bs = f.bs /\ T2.blocks = 0
      BY <1>3, <2>3 DEF Cleared, Channels
    <3>2. Busy(T)
      BY <2>3 DEF Busy
    <3>3. f.bs \in Nat /\ T.sent \in 1..T.len - 1
      BY <1>3, <3>2 DEF Frames, Sender
    <3>4. T2.blocks < T2.sent /\ (T2.bs # 0 => T2.blocks < T2.bs)
      BY <3>1, <3>3
    <3> QED BY <1>3, <3>1, <3>2, <3>4 DEF Sender
  <2>4. CASE T.st = "WAIT_FC" /\ T2 = [T EXCEPT !.timer = BsTimeout]
    <3>1. /\ T2.st = T.st /\ T2.len = T.len /\ T2.sent = T.sent /\ T2.sn = T.sn
      BY <1>3, <2>4 DEF Channels
    <3> QED BY <1>3, <2>4, <3>1 DEF Sender, Busy
  <2> QED BY <1>2, <2>1, <2>2, <2>3, <2>4
<1>5. Receiver(p, rx'[n], unsent[p])
  BY <1>2, AtHead
<1>6. rx'[p] = rx[p]
  BY <1>2
<1> QED BY <1>2, <1>4, <1>5, <1>6, LinkedReceive DEF T2

\* A tick of n sends at most one frame, and leaves the reception of n as it was or ends it.
LEMMA LinkedTick ==
    ASSUME Linked, NEW n \in Nodes, TypeOK', InBuffer', Passes(n),
           SameReception(n) \/ rx'[n] = RxError,
           \/ wire'[Peer(n)] = Older(wire[Peer(n)])
           \/ \E f \in Frames : /\ Sound(n, f, unsent[n])
                                /\ wire'[Peer(n)] = Older(wire[Peer(n)]) \o <<f>>,
           Sender(n, tx'[n], buf[n], unsent[n])
    PROVE  Linked'
<1> DEFINE p == Peer(n)
<1>1. TypeOK /\ InBuffer /\ Link(n) /\ Link(p) /\ p \in Nodes /\ Peer(p) = n
  BY Ends DEF Linked
<1>2. wire[n] \in Seq(Frames) /\ wire[p] \in Seq(Frames)
  BY <1>1 DEF TypeOK
<1>3. /\ buf' = buf /\ unsent' = unsent /\ wire'[n] = Older(wire[n])
      /\ tx'[p] = tx[p] /\ rx'[p] = rx[p]
      /\ \A k \in Nodes : \A i \in 1..Len(wire[k]) : wire[k][i].age < Lag
  BY DEF Passes
<1>4. /\ SoundQueue(n, Older(wire[p]), unsent[n]) /\ SoundQueue(p, Older(wire[n]), unsent[p])
      /\ Older(wire[p]) \in Seq(Frames)
  BY <1>1, <1>2, <1>3, SoundOlder, OlderFacts DEF Link
<1>5. SoundQueue(n, wire'[p], unsent[n])
  <2>1. ASSUME NEW f \in Frames, Sound(n, f, unsent[n]), wire'[p] = Older(wire[p]) \o <<f>>
        PROVE  SoundQueue(n, wire'[p], unsent[n])
    BY <1>4, <2>1, SoundJoin
  <2> QED BY <1>4, <2>1
<1>6. Receiver(p, rx'[n], unsent[p])
  <2>1. CASE SameReception(n)
    BY <1>1, <2>1 DEF SameReception, Link, Receiver, Reassembling, Of, Num
  <2>2. CASE rx'[n] = RxError
    BY <1>1, <2>2, ChannelTypes, QuietEnds
  <2> QED BY <2>1, <2>2
<1>7. Link(n)'
  BY <1>1, <1>3, <1>5 DEF Link
<1>8. Link(p)'
  BY <1>1, <1>3, <1>4, <1>6 DEF Link
<1> QED BY <1>7, <1>8, LinkedByEnds

LEMMA LinkedTickCr ==
    ASSUME Linked, NEW n \in Nodes, TickCr(n)
    PROVE  Linked'
<1>1. TypeOK /\ InBuffer /\ Link(n)
  BY DEF Linked
<1>2. /\ TypeOK' /\ InBuffer' /\ Passes(n)
      /\ tx' = tx /\ rx'[n] = RxError /\ wire'[Peer(n)] = Older(wire[Peer(n)])
  BY <1>1, TickCrStep
<1>3. Sender(n, tx'[n], buf[n], unsent[n])
  BY <1>1, <1>2 DEF Link
<1> QED BY <1>2, <1>3, LinkedTick

LEMMA LinkedTickWait ==
    ASSUME Linked, NEW n \in Nodes, TickWait(n)
    PROVE  Linked'
<1> DEFINE T == tx[n]
           T2 == tx'[n]
<1>1. TypeOK /\ InBuffer /\ Link(n) /\ T \in Channels
  BY DEF Linked, TypeOK
<1>2. /\ TypeOK' /\ InBuffer' /\ Passes(n) /\ SameReception(n)
      /\ wire'[Peer(n)] = Older(wire[Peer(n)])
      /\ T2 = TxError \/ T2 = [T EXCEPT !.timer = Minus1(@)]
  BY <1>1, TickWaitStep
<1>3. Sender(n, T, buf[n], unsent[n])
  BY <1>1 DEF Link
<1> HIDE DEF T, T2
<1>4. Sender(n, T2, buf[n], unsent[n])
  <2>1. CASE T2 = TxError
    BY <2>1, ChannelTypes, QuietEnds
  <2>2. CASE T2 = [T EXCEPT !.timer = Minus1(@)]
    <3>1. /\ T2.st = T.st /\ T2.len = T.len /\ T2.sent = T.sent /\ T2.sn = T.sn
          /\ T2.bs = T.bs /\ T2.blocks = T.blocks
      BY <1>1, <2>2 DEF Channels
    <3> QED BY <1>3, <3>1 DEF Sender, Busy
  <2> QED BY <1>2, <2>1, <2>2
<1> QED BY <1>2, <1>4, LinkedTick DEF T2

\* The consecutive frame a sender emits.
LEMMA Emitted ==
    ASSUME Linked, NEW n \in Nodes, tx[n].st = "SEND_CF", NextFrame(n) \in Frames
    PROVE  /\ NextFrame(n).type = "CF" /\ NextFrame(n).age = 0
           /\ NextFrame(n).cell = <<buf[n][1], tx[n].sent + 1>>
           /\ Sound(n, NextFrame(n), unsent[n])
<1> DEFINE T == tx[n]
           f == NextFrame(n)
           m == buf[n][1]
<1>1. TypeOK /\ Link(n) /\ T \in Channels /\ Busy(T)
  BY DEF Linked, TypeOK, Busy
<1>2. /\ m \in Sendable(n) \ unsent[n] /\ T.len = Cells[m]
      /\ T.sent \in 1..T.len - 1 /\ T.sn = T.sent
      /\ \A i \in 1..T.len : buf[n][i] = m
  BY <1>1 DEF Link, Sender
<1>3. T.sent + 1 \in 1..T.len /\ T.sent + 1 > 1 /\ (T.sent + 1) - 1 = T.sn /\ T.sent \in Nat
  BY <1>1, <1>2 DEF Channels
<1>4. buf[n][T.sent + 1] = m
  BY <1>2, <1>3
<1>5. /\ f.type = "CF" /\ f.age = 0 /\ f.sn = T.sn % SnMod
      /\ f.cell = <<buf[n][T.sent + 1], T.sent + 1>>
  BY DEF NextFrame, CF, Frame
<1> HIDE DEF f
<1>6. f.cell[1] = m /\ f.cell[2] = T.sent + 1
  BY <1>4, <1>5
<1>7. f.sn = (f.cell[2] - 1) % SnMod
  BY <1>3, <1>5, <1>6
<1>8. f.age <= Lag
  BY <1>5, NumbersAssumption
<1>9. f.cell[2] \in 1..Cells[f.cell[1]] /\ f.cell[2] > 1
  BY <1>2, <1>3, <1>6
<1>10. Sound(n, f, unsent[n])
  BY <1>2, <1>5, <1>6, <1>7, <1>8, <1>9 DEF Sound, Flow
<1> QED BY <1>4, <1>5, <1>10 DEF f

LEMMA LinkedTickPump ==
    ASSUME Linked, NEW n \in Nodes, TickPump(n)
    PROVE  Linked'
<1> DEFINE T == tx[n]
           T2 == tx'[n]
           p == Peer(n)
<1>1. TypeOK /\ InBuffer /\ Link(n) /\ T \in Channels
  BY DEF Linked, TypeOK
<1>2. /\ TypeOK' /\ InBuffer' /\ Passes(n) /\ SameReception(n)
      /\ T.st = "SEND_CF"
      /\ \/ /\ T2 = Pumped(T) /\ NextFrame(n) \in Frames
            /\ wire'[p] = Older(wire[p]) \o <<NextFrame(n)>>
         \/ T2 = TxError /\ wire'[p] = Older(wire[p])
  BY <1>1, TickPumpStep
<1>3. Sender(n, T, buf[n], unsent[n])
  BY <1>1 DEF Link
<1>4. \/ wire'[p] = Older(wire[p])
      \/ \E f \in Frames : Sound(n, f, unsent[n]) /\ wire'[p] = Older(wire[p]) \o <<f>>
  BY <1>2, Emitted
<1>5. /\ T.sent \in Nat /\ T.len \in Nat /\ T.blocks \in Nat /\ T.bs \in Nat
      /\ BlockSize[p] \in Nat
  BY <1>1, NumbersAssumption, Ends DEF Channels
<1> HIDE DEF T, T2
<1>6. Sender(n, T2, buf[n], unsent[n])
  <2>1. CASE ~Busy(T2)
    BY <2>1, QuietEnds
  <2>2. CASE Busy(T2)
    <3>1. /\ T.sent + 1 < T.len
          /\ T2.len = T.len /\ T2.sent = T.sent + 1 /\ T2.sn = T.sn + 1 /\ T2.bs = T.bs
          /\ \/ T.bs # 0 /\ T2.st = "WAIT_FC"
             \/ /\ T.bs = 0 \/ T.blocks + 1 < T.bs
                /\ T2.st = "SEND_CF" /\ T2.blocks = T.blocks + 1
      BY <1>1, <1>2, <2>2, PumpedFacts, ChannelTypes
    <3>2. /\ buf[n][1] \in Sendable(n) \ unsent[n] /\ T.len = Cells[buf[n][1]]
          /\ T.sent \in 1..T.len - 1 /\ T.sn = T.sent
          /\ \A i \in 1..T.len : buf[n][i] = buf[n][1]
          /\ T.bs = BlockSize[p] /\ T.blocks < T.sent
      BY <1>2, <1>3 DEF Sender, Busy
    <3>3. T2.sent \in 1..T2.len - 1 /\ T2.sn = T2.sent
      BY <1>5, <3>1, <3>2
    <3>4. T2.st = "SEND_CF" => T2.blocks < T2.sent /\ (T2.bs # 0 => T2.blocks < T2.bs)
      BY <1>5, <3>1, <3>2
    <3>5. ~(T2.st = "WAIT_FC" /\ BlockSize[p] = 0)
      BY <3>1, <3>2
    <3> QED BY <3>1, <3>2, <3>3, <3>4, <3>5 DEF Sender
  <2> QED BY <2>1, <2>2
<1> QED BY <1>2, <1>4, <1>6, LinkedTick DEF T2

LEMMA LinkedLose ==
    ASSUME Linked, NEW n \in Nodes, Lose(n)
    PROVE  Linked'
<1>1. TypeOK /\ InBuffer
  BY DEF Linked
<1>2. /\ TypeOK' /\ InBuffer' /\ wire[n] # <<>>
      /\ tx' = tx /\ rx' = rx /\ buf' = buf /\ unsent' = unsent
      /\ wire'[n] = Tail(wire[n]) /\ wire'[Peer(n)] = wire[Peer(n)]
  BY <1>1, LoseStep
<1> QED BY <1>2, AtHead, LinkedReceive

LEMMA LinkedRepeat ==
    ASSUME Linked, NEW n \in Nodes, Repeat(n)
    PROVE  Linked'
<1> DEFINE p == Peer(n)
           f == wire[n][1]
<1>1. TypeOK /\ InBuffer /\ Link(n) /\ Link(p) /\ p \in Nodes /\ Peer(p) = n
  BY Ends DEF Linked
<1>2. /\ TypeOK' /\ InBuffer' /\ wire[n] # <<>>
      /\ tx' = tx /\ rx' = rx /\ buf' = buf /\ unsent' = unsent
      /\ f \in Frames /\ wire'[n] = <<f>> \o wire[n] /\ wire'[p] = wire[p]
  BY <1>1, RepeatStep
<1>3. SoundQueue(p, wire'[n], unsent[p])
  <2>1. Sound(p, f, unsent[p]) /\ SoundQueue(p, wire[n], unsent[p])
    BY <1>1, <1>2, AtHead DEF Link
  <2>2. wire[n] \in Seq(Frames) /\ <<f>> \in Seq(Frames) /\ Len(<<f>>) = 1 /\ <<f>>[1] = f
    BY <1>1, <1>2, OneFrame DEF TypeOK
  <2>3. \A i \in 1..Len(<<f>> \o wire[n]) :
           \/ (<<f>> \o wire[n])[i] = f
           \/ i - 1 \in 1..Len(wire[n]) /\ (<<f>> \o wire[n])[i] = wire[n][i - 1]
    <3> HIDE DEF f
    <3>1. \A i \in 1..Len(<<f>> \o wire[n]) :
             \/ i \in 1..Len(<<f>>) /\ (<<f>> \o wire[n])[i] = <<f>>[i]
             \/ i - Len(<<f>>) \in 1..Len(wire[n])
                   /\ (<<f>> \o wire[n])[i] = wire[n][i - Len(<<f>>)]
      BY <2>2, JoinFacts
    <3>2. \A i \in 1..1 : i = 1
      OBVIOUS
    <3> QED BY <2>2, <3>1, <3>2
  <2> HIDE DEF f
  <2> QED BY <1>2, <2>1, <2>3 DEF SoundQueue
<1>4. Link(n)'
  BY <1>1, <1>2 DEF Link
<1>5. Link(p)'
  BY <1>1, <1>2, <1>3 DEF Link
<1> QED BY <1>2, <1>4, <1>5, LinkedByEnds

LEMMA LinkedReset ==
    ASSUME Linked, NEW n \in Nodes, ResetRx(n) \/ ResetTx(n)
    PROVE  Linked'
<1> DEFINE p == Peer(n)
<1>1. TypeOK /\ InBuffer /\ Link(n) /\ Link(p) /\ p \in Nodes /\ Peer(p) = n
  BY Ends DEF Linked
<1>2. CASE ResetRx(n)
  <2>1. /\ TypeOK' /\ InBuffer'
        /\ tx' = tx /\ buf' = buf /\ unsent' = unsent /\ wire' = wire
        /\ rx'[n] = RxIdle /\ rx'[p] = rx[p]
    BY <1>1, <1>2, ResetRxStep
  <2>2. Link(n)' /\ Link(p)'
    BY <1>1, <2>1, ChannelTypes, QuietEnds DEF Link
  <2> QED BY <2>1, <2>2, LinkedByEnds
<1>3. CASE ResetTx(n)
  <2>1. /\ TypeOK' /\ InBuffer'
        /\ rx' = rx /\ buf' = buf /\ unsent' = unsent /\ wire' = wire
        /\ tx'[n] = TxIdle /\ tx'[p] = tx[p]
    BY <1>1, <1>3, ResetTxStep
  <2>2. Link(n)' /\ Link(p)'
    BY <1>1, <2>1, ChannelTypes, QuietEnds DEF Link
  <2> QED BY <2>1, <2>2, LinkedByEnds
<1> QED BY <1>2, <1>3

LEMMA LinkedNextState ==
    ASSUME Patient, Linked, [Next]_vars
    PROVE  Linked'
<1>1. ASSUME NEW n \in Nodes, NEW m \in Msgs,
             Transmit(n, m) \/ TransmitRefused(n, m) \/ TransmitBusy(n, m)
      PROVE  Linked'
  BY <1>1, LinkedTransmit, LinkedRefused, LinkedBusy
<1>2. ASSUME NEW n \in Nodes, Receive(n) PROVE Linked'
  BY <1>2, LinkedSingle, LinkedFirst, LinkedStray, LinkedLast, LinkedNext, LinkedFlow DEF Receive
<1>3. ASSUME NEW n \in Nodes, Tick(n) PROVE Linked'
  BY <1>3, LinkedTickCr, LinkedTickWait, LinkedTickPump DEF Tick
<1>4. ASSUME NEW n \in Nodes, Lose(n) \/ Repeat(n) \/ ResetRx(n) \/ ResetTx(n) PROVE Linked'
  BY <1>4, LinkedLose, LinkedRepeat, LinkedReset
<1>5. CASE UNCHANGED vars
  <2>1. TypeOK' /\ InBuffer'
    BY <1>5, IdleStep DEF Linked
  <2>2. \A n \in Nodes : Link(n)'
    BY <1>5 DEF Linked, Link, vars
  <2> QED BY <2>1, <2>2 DEF Linked
<1> QED BY <1>1, <1>2, <1>3, <1>4, <1>5 DEF Next

-----------------------------------------------------------------------------
(* Losses alone.  What one direction of the bus looks like as long as no   *)
(* frame was repeated: T and B are the sender's channel and buffer, R the  *)
(* reassembly, W the queue of its frames, V that of the flow control that  *)
(* comes back, bs the block size the receiver asks for.                    *)

\* The cells received when the block under way began; the number of the last cell.
Base(R) == Len(R.data) - R.blocks
Newest(R) == Num(R, Len(R.data))

\* The sender still transmits the message that is being reassembled.
Live(T, B, R) == Busy(T) /\ Of(R) = B[1]

\* A first frame is followed by no data, and its sender waits.
FirstAlone(T, B, W) ==
    \A i \in 1..Len(W) : W[i].type = "FF" =>
        /\ T.st = "WAIT_FC" /\ T.sent = 1 /\ W[i].cell[1] = B[1]
        /\ \A j \in 1..Len(W) : j > i => W[j].type \notin Data

\* Flow control meets a sender that waits, with no data under way, and lets it go on
\* only with what the receiver is waiting for.
FlowAlone(T, B, R, W, V) ==
    \A i \in 1..Len(V) : V[i].type \in Flow =>
        /\ T.st = "WAIT_FC"
        /\ \A j \in 1..Len(W) : W[j].type \notin Data
        /\ V[i].type # "WAIT" => \A j \in 1..Len(V) : j > i => V[j].type \notin Flow
        /\ V[i].type = "CTS" /\ Reassembling(R) => Live(T, B, R) /\ Base(R) = T.sent

\* What was gathered is of one message, in its order.
Gathered(R) ==
    Reassembling(R) =>
        \A i, k \in 1..Len(R.data) :
            /\ R.data[i][1] = Of(R)
            /\ i < k => Num(R, k) - Num(R, i) >= k - i

\* So is what will be.
Following(T, B, R, W) ==
    Reassembling(R) =>
        /\ Live(T, B, R) => Newest(R) <= T.sent
        /\ \A i \in 1..Len(W) : W[i].type = "CF" =>
              /\ W[i].cell[1] = Of(R) /\ W[i].cell[2] > Newest(R)
              /\ Live(T, B, R) => W[i].cell[2] <= T.sent
              /\ \A k \in 1..Len(W) : k > i /\ W[k].type = "CF" => W[k].cell[2] > W[i].cell[2]

\* A sender that sends is in the block the receiver counts; one that has given the message
\* up has left less than a block under way, or the message's end.
InBlock(T, B, R, W, bs) ==
    Reassembling(R) =>
        /\ T.st = "SEND_CF" => Live(T, B, R) /\ (bs # 0 => T.sent - T.blocks = Base(R))
        /\ bs # 0 /\ T.st = "WAIT_FC" /\ Live(T, B, R) => Base(R) \in {T.sent, T.sent - bs}
        /\ bs # 0 => \A i \in 1..Len(W) : W[i].type = "CF" =>
              /\ W[i].cell[2] <= Base(R) + bs
              /\ ~Live(T, B, R) /\ W[i].cell[2] = Base(R) + bs => W[i].cell[2] = Cells[Of(R)]

Order(T, B, R, W, V, bs) ==
    /\ FirstAlone(T, B, W)
    /\ FlowAlone(T, B, R, W, V)
    /\ Gathered(R)
    /\ Following(T, B, R, W)
    /\ InBlock(T, B, R, W, bs)

\* q2 is q, perhaps without its head, as far as frames of the given types go.
Kept(q, q2, types) ==
    \E s \in {0, 1} : \A i \in 1..Len(q2) : q2[i].type \in types =>
        i + s \in 1..Len(q) /\ q2[i].type = q[i + s].type /\ q2[i].cell = q[i + s].cell

LEMMA KeptFrames ==
    ASSUME NEW q \in Seq(Frames), NEW types
    PROVE  /\ Kept(q, q, types) /\ Kept(q, Older(q), types)
           /\ q # <<>> => Kept(q, Tail(q), types)
           /\ \A f \in Frames : f.type \notin types =>
                 Kept(q, q \o <<f>>, types) /\ Kept(q, Older(q) \o <<f>>, types)
           /\ \A f, g \in Frames : f.type \notin types /\ g.type \notin types =>
                 Kept(q, q \o <<f, g>>, types)
<1>1. Len(q) \in Nat /\ \A i \in 1..Len(q) : i + 0 \in 1..Len(q) /\ q[i + 0] = q[i]
  BY LenProperties
<1>2. Kept(q, q, types)
  BY <1>1 DEF Kept
<1>3. /\ Older(q) \in Seq(Frames) /\ Len(Older(q)) = Len(q)
      /\ \A i \in 1..Len(q) : Older(q)[i].type = q[i].type /\ Older(q)[i].cell = q[i].cell
  BY OlderFacts
<1>4. Kept(q, Older(q), types)
  BY <1>1, <1>3 DEF Kept
<1>5. q # <<>> => Kept(q, Tail(q), types)
  BY TailFacts DEF Kept
<1>6. ASSUME NEW f \in Frames, f.type \notin types
      PROVE  Kept(q, q \o <<f>>, types) /\ Kept(q, Older(q) \o <<f>>, types)
  <2>1. <<f>> \in Seq(Frames) /\ Len(<<f>>) = 1 /\ <<f>>[1] = f
    BY OneFrame
  <2>2. ASSUME NEW r \in Seq(Frames), NEW i \in 1..Len(r \o <<f>>)
        PROVE  (i \in 1..Len(r) /\ (r \o <<f>>)[i] = r[i]) \/ (r \o <<f>>)[i] = f
    BY <2>1, JoinFacts
  <2> QED BY <1>1, <1>3, <1>6, <2>2 DEF Kept
<1>7. ASSUME NEW f \in Frames, NEW g \in Frames, f.type \notin types, g.type \notin types
      PROVE  Kept(q, q \o <<f, g>>, types)
  <2>1. <<f, g>> \in Seq(Frames) /\ Len(<<f, g>>) = 2 /\ <<f, g>>[1] = f /\ <<f, g>>[2] = g
    BY TwoFrames
  <2>2. ASSUME NEW i \in 1..Len(q \o <<f, g>>)
        PROVE  (i \in 1..Len(q) /\ (q \o <<f, g>>)[i] = q[i]) \/ (q \o <<f, g>>)[i] \in {f, g}
    BY <2>1, JoinFacts
  <2> QED BY <1>1, <1>7, <2>2 DEF Kept
<1> QED BY <1>2, <1>4, <1>5, <1>6, <1>7

\* Order survives when frames are taken, lost, or grow older, when frames of other kinds
\* join, and when a reception ends.
LEMMA OrderKept ==
    ASSUME NEW T \in Channels, NEW T2 \in Channels, NEW B, NEW B2, NEW R, NEW R2,
           NEW W \in Seq(Frames), NEW W2 \in Seq(Frames), NEW V \in Seq(Frames),
           NEW V2 \in Seq(Frames), NEW bs \in Nat,
           Order(T, B, R, W, V, bs),
           \/ T2.st = T.st /\ T2.sent = T.sent /\ T2.blocks = T.blocks /\ B2 = B
           \/ ~Busy(T) /\ ~Busy(T2),
           \/ R2.st = R.st /\ R2.data = R.data /\ R2.blocks = R.blocks
           \/ ~Reassembling(R2),
           Kept(W, W2, Data), Kept(V, V2, Flow)
    PROVE  Order(T2, B2, R2, W2, V2, bs)
<1>1. PICK s \in {0, 1} : \A i \in 1..Len(W2) : W2[i].type \in Data =>
         i + s \in 1..Len(W) /\ W2[i].type = W[i + s].type /\ W2[i].cell = W[i + s].cell
  BY DEF Kept
<1>2. PICK t \in {0, 1} : \A i \in 1..Len(V2) : V2[i].type \in Flow =>
         i + t \in 1..Len(V) /\ V2[i].type = V[i + t].type /\ V2[i].cell = V[i + t].cell
  BY DEF Kept
<1>3. /\ Len(W) \in Nat /\ Len(W2) \in Nat /\ Len(V) \in Nat /\ Len(V2) \in Nat
      /\ s \in Nat /\ t \in Nat
  BY LenProperties
<1>4. /\ FirstAlone(T, B, W) /\ FlowAlone(T, B, R, W, V) /\ Gathered(R)
      /\ Following(T, B, R, W) /\ InBlock(T, B, R, W, bs)
  BY DEF Order
<1>5. "FF" \in Data /\ "CF" \in Data /\ "CTS" \in Flow /\ "WAIT" \in Flow
  BY DEF Data, Flow
<1>6. FirstAlone(T2, B2, W2)
  <2>1. SUFFICES ASSUME NEW i \in 1..Len(W2), W2[i].type = "FF"
                 PROVE  /\ T2.st = "WAIT_FC" /\ T2.sent = 1 /\ W2[i].cell[1] = B2[1]
                        /\ \A j \in 1..Len(W2) : j > i => W2[j].type \notin Data
    BY DEF FirstAlone
  <2>2. i + s \in 1..Len(W) /\ W[i + s].type = "FF" /\ W2[i].cell = W[i + s].cell
    BY <1>1, <1>5, <2>1
  <2>3. /\ T.st = "WAIT_FC" /\ T.sent = 1 /\ W[i + s].cell[1] = B[1]
        /\ \A j \in 1..Len(W) : j > i + s => W[j].type \notin Data
    BY <1>4, <2>2 DEF FirstAlone
  <2>4. T2.st = "WAIT_FC" /\ T2.sent = 1 /\ W2[i].cell[1] = B2[1]
    BY <2>2, <2>3 DEF Busy
  <2>5. ASSUME NEW j \in 1..Len(W2), j > i, W2[j].type \in Data PROVE FALSE
    <3>1. j + s \in 1..Len(W) /\ W[j + s].type \in Data
      BY <1>1, <2>5
    <3>2. j + s > i + s
      BY <1>3, <2>5
    <3> QED BY <2>3, <3>1, <3>2
  <2> QED BY <2>4, <2>5
<1>7. FlowAlone(T2, B2, R2, W2, V2)
  <2>1. SUFFICES ASSUME NEW i \in 1..Len(V2), V2[i].type \in Flow
                 PROVE  /\ T2.st = "WAIT_FC"
                        /\ \A j \in 1..Len(W2) : W2[j].type \notin Data
                        /\ V2[i].type # "WAIT" =>
                              \A j \in 1..Len(V2) : j > i => V2[j].type \notin Flow
                        /\ V2[i].type = "CTS" /\ Reassembling(R2) =>
                              Live(T2, B2, R2) /\ Base(R2) = T2.sent
    BY DEF FlowAlone
  <2>2. i + t \in 1..Len(V) /\ V2[i].type = V[i + t].type
    BY <1>2, <2>1
  <2>3. /\ T.st = "WAIT_FC"
        /\ \A j \in 1..Len(W) : W[j].type \notin Data
        /\ V2[i].type # "WAIT" => \A j \in 1..Len(V) : j > i + t => V[j].type \notin Flow
        /\ V2[i].type = "CTS" /\ Reassembling(R) => Live(T, B, R) /\ Base(R) = T.sent
    BY <1>4, <2>1, <2>2 DEF FlowAlone
  <2>4. T2.st = "WAIT_FC" /\ T2.sent = T.sent /\ B2 = B
    BY <2>3 DEF Busy
  <2>5. \A j \in 1..Len(W2) : W2[j].type \notin Data
    BY <1>1, <2>3
  <2>6. ASSUME V2[i].type # "WAIT", NEW j \in 1..Len(V2), j > i, V2[j].type \in Flow PROVE FALSE
    <3>1. j + t \in 1..Len(V) /\ V[j + t].type \in Flow
      BY <1>2, <2>6
    <3>2. j + t > i + t
      BY <1>3, <2>6
    <3> QED BY <2>3, <2>6, <3>1, <3>2
  <2>7. ASSUME V2[i].type = "CTS", Reassembling(R2)
        PROVE  Live(T2, B2, R2) /\ Base(R2) = T2.sent
    <3>1. R2.st = R.st /\ R2.data = R.data /\ R2.blocks = R.blocks
      BY <2>7
    <3> QED BY <2>3, <2>4, <2>7, <3>1 DEF Reassembling, Live, Base, Of, Busy
  <2> QED BY <2>4, <2>5, <2>6, <2>7
<1>8. CASE ~Reassembling(R2)
  BY <1>6, <1>7, <1>8 DEF Order, Gathered, Following, InBlock
<1>9. CASE Reassembling(R2)
  <2>1. R2.st = R.st /\ R2.data = R.data /\ R2.blocks = R.blocks
    BY <1>9
  <2>2. /\ Reassembling(R) /\ Of(R2) = Of(R) /\ Newest(R2) = Newest(R) /\ Base(R2) = Base(R)
        /\ \A i : Num(R2, i) = Num(R, i)
    BY <1>9, <2>1 DEF Reassembling, Of, Newest, Num, Base
  <2>3. Live(T2, B2, R2) <=> Live(T, B, R)
    BY <2>2 DEF Live, Busy
  <2>4. Busy(T2) => T2.st = T.st /\ T2.sent = T.sent /\ T2.blocks = T.blocks
    BY DEF Busy
  <2>5. Gathered(R2)
    BY <1>4, <2>1, <2>2 DEF Gathered
  <2>6. ASSUME NEW i \in 1..Len(W2), W2[i].type = "CF"
        PROVE  i + s \in 1..Len(W) /\ W[i + s].type = "CF" /\ W2[i].cell = W[i + s].cell
    BY <1>1, <1>5, <2>6
  <2>7. Following(T2, B2, R2, W2)
    <3>1. Live(T2, B2, R2) => Newest(R2) <= T2.sent
      BY <1>4, <2>2, <2>3, <2>4 DEF Following, Live
    <3>2. ASSUME NEW i \in 1..Len(W2), W2[i].type = "CF"
          PROVE  /\ W2[i].cell[1] = Of(R2) /\ W2[i].cell[2] > Newest(R2)
                 /\ Live(T2, B2, R2) => W2[i].cell[2] <= T2.sent
      BY <1>4, <2>2, <2>3, <2>4, <2>6, <3>2 DEF Following, Live
    <3>3. ASSUME NEW i \in 1..Len(W2), W2[i].type = "CF",
                 NEW k \in 1..Len(W2), k > i, W2[k].type = "CF"
          PROVE  W2[k].cell[2] > W2[i].cell[2]
      <4>1. k + s > i + s
        BY <1>3, <3>3
      <4> QED BY <1>4, <2>2, <2>6, <3>3, <4>1 DEF Following
    <3> QED BY <3>1, <3>2, <3>3 DEF Following
  <2>8. InBlock(T2, B2, R2, W2, bs)
    <3>1. T2.st = "SEND_CF" => Live(T2, B2, R2) /\ (bs # 0 => T2.sent - T2.blocks = Base(R2))
      BY <1>4, <2>2, <2>3, <2>4 DEF InBlock, Busy
    <3>2. bs # 0 /\ T2.st = "WAIT_FC" /\ Live(T2, B2, R2) => Base(R2) \in {T2.sent, T2.sent - bs}
      BY <1>4, <2>2, <2>3, <2>4 DEF InBlock, Busy
    <3>3. ASSUME bs # 0, NEW i \in 1..Len(W2), W2[i].type = "CF"
          PROVE  /\ W2[i].cell[2] <= Base(R2) + bs
                 /\ ~Live(T2, B2, R2) /\ W2[i].cell[2] = Base(R2) + bs =>
                       W2[i].cell[2] = Cells[Of(R2)]
      BY <1>4, <2>2, <2>3, <2>6, <3>3 DEF InBlock
    <3> QED BY <3>1, <3>2, <3>3 DEF InBlock
  <2> QED BY <1>6, <1>7, <2>5, <2>7, <2>8 DEF Order
<1> QED BY <1>8, <1>9

LEMMA ReassemblyTypes ==
    ASSUME NEW R \in Reassemblies
    PROVE  /\ Len(R.data) \in Nat /\ R.blocks \in Nat /\ Base(R) \in Int
           /\ \A i \in 1..Len(R.data) : Num(R, i) \in Nat
           /\ Len(R.data) >= 1 => Newest(R) \in Nat
<1>1. R.data \in Seq(Cell) /\ R.blocks \in Nat
  BY DEF Reassemblies
<1>2. Len(R.data) \in Nat /\ \A i \in 1..Len(R.data) : R.data[i] \in Cell
  BY <1>1, LenProperties, ElementOfSeq
<1>3. \A i \in 1..Len(R.data) : Num(R, i) \in Nat
  BY <1>2 DEF Num, Cell
<1>4. Len(R.data) >= 1 => Newest(R) \in Nat
  BY <1>2, <1>3 DEF Newest
<1> QED BY <1>1, <1>2, <1>3, <1>4 DEF Base

LEMMA CellNumbers ==
    ASSUME NEW q \in Seq(Frames)
    PROVE  \A i \in 1..Len(q) : q[i] \in Frames /\ q[i].cell \in Cell /\ q[i].cell[2] \in Nat
<1>1. \A i \in 1..Len(q) : q[i] \in Frames
  BY ElementOfSeq
<1>2. \A i \in 1..Len(q) : q[i].cell \in Cell
  BY <1>1 DEF Frames
<1> QED BY <1>1, <1>2 DEF Cell

\* A transmission begins with its first frame; the message is not the one in reassembly.
LEMMA OrderStarts ==
    ASSUME NEW T \in Channels, NEW T2 \in Channels, NEW B, NEW B2, NEW R,
           NEW W \in Seq(Frames), NEW f \in Frames, NEW V \in Seq(Frames), NEW bs \in Nat,
           Order(T, B, R, W, V, bs), ~Busy(T),
           T2.st = "WAIT_FC", T2.sent = 1,
           f.type = "FF", f.cell[1] = B2[1],
           Reassembling(R) => Of(R) # B2[1]
    PROVE  Order(T2, B2, R, W \o <<f>>, V, bs)
<1> DEFINE W2 == W \o <<f>>
<1>1. /\ Len(W) \in Nat /\ Len(W2) = Len(W) + 1 /\ W2[Len(W) + 1] = f
      /\ \A i \in 1..Len(W) : W2[i] = W[i]
      /\ \A i \in 1..Len(W2) : i \in 1..Len(W) \/ i = Len(W) + 1
  <2>1. <<f>> \in Seq(Frames) /\ Len(<<f>>) = 1 /\ <<f>>[1] = f
    BY OneFrame
  <2>2. /\ Len(W) \in Nat /\ Len(W2) = Len(W) + 1 /\ W2[Len(W) + 1] = f
        /\ \A i \in 1..Len(W) : W2[i] = W[i]
    BY <2>1, JoinFacts
  <2> QED BY <2>2
<1>2. /\ FirstAlone(T, B, W) /\ FlowAlone(T, B, R, W, V) /\ Gathered(R)
      /\ Following(T, B, R, W) /\ InBlock(T, B, R, W, bs)
  BY DEF Order
<1> HIDE DEF W2
<1>3. \A i \in 1..Len(W) : W[i].type # "FF"
  BY <1>2 DEF FirstAlone, Busy
<1>4. \A i \in 1..Len(V) : V[i].type \notin Flow
  BY <1>2 DEF FlowAlone, Busy
<1>5. FirstAlone(T2, B2, W2)
  <2>1. ASSUME NEW i \in 1..Len(W2), W2[i].type = "FF" PROVE i = Len(W) + 1
    BY <1>1, <1>3, <2>1
  <2>2. \A j \in 1..Len(W2) : ~(j > Len(W) + 1)
    BY <1>1
  <2> QED BY <1>1, <2>1, <2>2 DEF FirstAlone
<1>6. FlowAlone(T2, B2, R, W2, V)
  BY <1>4 DEF FlowAlone
<1>7. ~Live(T, B, R) /\ (Reassembling(R) => ~Live(T2, B2, R))
  BY DEF Live
<1>8. \A i \in 1..Len(W2) : W2[i].type = "CF" => i \in 1..Len(W) /\ W2[i] = W[i]
  BY <1>1
<1>9. Following(T2, B2, R, W2)
  BY <1>2, <1>7, <1>8 DEF Following
<1>10. InBlock(T2, B2, R, W2, bs)
  BY <1>2, <1>7, <1>8 DEF InBlock
<1> QED BY <1>2, <1>5, <1>6, <1>9, <1>10 DEF Order, W2

\* The sender emits the next cell.
LEMMA OrderEmits ==
    ASSUME NEW T \in Channels, NEW T2 \in Channels, NEW B, NEW R \in Reassemblies,
           NEW R2, NEW W \in Seq(Frames), NEW f \in Frames,
           NEW V \in Seq(Frames), NEW V2 \in Seq(Frames), NEW bs \in Nat,
           Order(T, B, R, W, V, bs), T.st = "SEND_CF", T.bs = bs, T2 = Pumped(T),
           bs # 0 => T.blocks < bs, T.sent < T.len, T.len = Cells[B[1]],
           f.type = "CF", f.cell = <<B[1], T.sent + 1>>,
           R2.st = R.st, R2.data = R.data, R2.blocks = R.blocks,
           Reassembling(R) => Len(R.data) >= 1, Kept(V, V2, Flow)
    PROVE  Order(T2, B, R2, Older(W) \o <<f>>, V2, bs)
<1> DEFINE W2 == Older(W) \o <<f>>
<1>1. /\ Len(W) \in Nat /\ Len(W2) = Len(W) + 1 /\ W2[Len(W) + 1] = f
      /\ \A i \in 1..Len(W) : W2[i].type = W[i].type /\ W2[i].cell = W[i].cell
      /\ \A i \in 1..Len(W2) : i \in 1..Len(W) \/ i = Len(W) + 1
  <2>1. <<f>> \in Seq(Frames) /\ Len(<<f>>) = 1 /\ <<f>>[1] = f
    BY OneFrame
  <2>2. /\ Older(W) \in Seq(Frames) /\ Len(Older(W)) = Len(W) /\ Len(W) \in Nat
        /\ \A i \in 1..Len(W) : Older(W)[i].type = W[i].type /\ Older(W)[i].cell = W[i].cell
    BY OlderFacts
  <2>3. /\ Len(W2) = Len(W) + 1 /\ W2[Len(W) + 1] = f
        /\ \A i \in 1..Len(W) : W2[i] = Older(W)[i]
    BY <2>1, <2>2, JoinFacts
  <2> HIDE DEF W2
  <2>4. \A i \in 1..Len(W2) : i \in 1..Len(W) \/ i = Len(W) + 1
    BY ONLY <2>2, <2>3
  <2> QED BY ONLY <2>2, <2>3, <2>4
<1>2. /\ FirstAlone(T, B, W) /\ FlowAlone(T, B, R, W, V) /\ Gathered(R)
      /\ Following(T, B, R, W) /\ InBlock(T, B, R, W, bs)
  BY DEF Order
<1> HIDE DEF W2
<1>3. /\ T.sent \in Nat /\ T.len \in Nat /\ T.blocks \in Nat
  BY DEF Channels
<1>4. f.cell[1] = B[1] /\ f.cell[2] = T.sent + 1
  OBVIOUS
<1>5. \/ ~Busy(T2) /\ T.sent + 1 = Cells[B[1]]
      \/ /\ T2.sent = T.sent + 1
         /\ \/ bs # 0 /\ T.blocks + 1 = bs /\ T2.st = "WAIT_FC"
            \/ T2.st = "SEND_CF" /\ T2.blocks = T.blocks + 1
  <2>1. /\ T \in Channels /\ T.st = "SEND_CF" /\ T2 = Pumped(T) /\ T.bs = bs /\ bs \in Nat
        /\ (bs # 0 => T.blocks < bs) /\ T.sent < T.len /\ T.len = Cells[B[1]]
    OBVIOUS
  <2>2. CASE T2 = TxIdle /\ T.sent + 1 >= T.len
    BY ONLY <1>3, <2>1, <2>2, ChannelTypes
  <2>3. CASE /\ T2.sent = T.sent + 1
             /\ \/ T.bs # 0 /\ T.blocks + 1 >= T.bs /\ T2.st = "WAIT_FC"
                \/ T2.st = "SEND_CF" /\ T2.blocks = T.blocks + 1
    BY ONLY <1>3, <2>1, <2>3
  <2> QED BY ONLY <2>1, <2>2, <2>3, PumpedFacts
<1>6. FirstAlone(T2, B, W2)
  <2>1. \A i \in 1..Len(W2) : W2[i].type # "FF"
    BY <1>1, <1>2 DEF FirstAlone
  <2> QED BY <2>1 DEF FirstAlone
<1>7. FlowAlone(T2, B, R2, W2, V2)
  <2>1. \A i \in 1..Len(V) : V[i].type \notin Flow
    BY <1>2 DEF FlowAlone
  <2>2. \A i \in 1..Len(V2) : V2[i].type \notin Flow
    BY <2>1 DEF Kept
  <2> QED BY <2>2 DEF FlowAlone
<1>8. CASE ~Reassembling(R2)
  BY <1>6, <1>7, <1>8 DEF Order, Gathered, Following, InBlock, W2
<1>9. CASE Reassembling(R2)
  <2>1. /\ Reassembling(R) /\ Of(R2) = Of(R) /\ Newest(R2) = Newest(R) /\ Base(R2) = Base(R)
        /\ \A i : Num(R2, i) = Num(R, i)
    BY <1>9 DEF Reassembling, Of, Newest, Num, Base
  <2>2. Of(R) = B[1] /\ Live(T, B, R) /\ (bs # 0 => T.sent - T.blocks = Base(R))
    BY <1>2, <2>1 DEF InBlock, Live
  <2>3. /\ Newest(R) <= T.sent
        /\ \A i \in 1..Len(W) : W[i].type = "CF" =>
              /\ W[i].cell[1] = Of(R) /\ W[i].cell[2] > Newest(R) /\ W[i].cell[2] <= T.sent
              /\ \A k \in 1..Len(W) : k > i /\ W[k].type = "CF" => W[k].cell[2] > W[i].cell[2]
    BY <1>2, <2>1, <2>2 DEF Following
  <2>4. Base(R) \in Int /\ Newest(R) \in Nat
    BY <2>1, ReassemblyTypes
  <2>5. \A i \in 1..Len(W) : W[i].cell[2] \in Nat
    BY CellNumbers
  <2>6. \A i \in 1..Len(W2) : W2[i].type = "CF" =>
           \/ i \in 1..Len(W) /\ W[i].type = "CF" /\ W2[i].cell = W[i].cell
           \/ i = Len(W) + 1 /\ W2[i].cell = f.cell
    BY <1>1
  <2>7. Gathered(R2)
    BY <1>2, <2>1 DEF Gathered
  <2>8. Following(T2, B, R2, W2)
    <3>1. Live(T2, B, R2) => T2.sent = T.sent + 1
      BY <1>5 DEF Live
    <3>2. Live(T2, B, R2) => Newest(R2) <= T2.sent
      BY <1>3, <2>1, <2>3, <2>4, <3>1
    <3>3. ASSUME NEW i \in 1..Len(W2), W2[i].type = "CF"
          PROVE  /\ W2[i].cell[1] = Of(R2) /\ W2[i].cell[2] > Newest(R2)
                 /\ W2[i].cell[2] <= T.sent + 1
      <4>1. CASE i \in 1..Len(W) /\ W[i].type = "CF" /\ W2[i].cell = W[i].cell
        BY <1>3, <2>1, <2>3, <2>5, <4>1
      <4>2. CASE W2[i].cell = f.cell
        BY <1>3, <1>4, <2>1, <2>2, <2>3, <2>4, <4>2
      <4> QED BY <2>6, <3>3, <4>1, <4>2
    <3>4. ASSUME NEW i \in 1..Len(W2), W2[i].type = "CF",
                 NEW k \in 1..Len(W2), k > i, W2[k].type = "CF"
          PROVE  W2[k].cell[2] > W2[i].cell[2]
      <4>1. i \in 1..Len(W) /\ W[i].type = "CF" /\ W2[i].cell = W[i].cell
        BY <1>1, <2>6, <3>4
      <4>2. CASE k \in 1..Len(W) /\ W[k].type = "CF" /\ W2[k].cell = W[k].cell
        BY <2>3, <3>4, <4>1, <4>2
      <4>3. CASE W2[k].cell = f.cell
        <5>1. W[i].cell[2] \in Nat /\ W[i].cell[2] <= T.sent
          BY <2>3, <2>5, <4>1
        <5>2. W2[k].cell[2] = T.sent + 1 /\ W2[i].cell[2] = W[i].cell[2]
          BY <1>4, <4>1, <4>3
        <5> QED BY ONLY <1>3, <5>1, <5>2
      <4> QED BY <2>6, <3>4, <4>2, <4>3
    <3> QED BY <3>1, <3>2, <3>3, <3>4 DEF Following
  <2>9. InBlock(T2, B, R2, W2, bs)
    <3>1. Busy(T2) => Live(T2, B, R2)
      BY <2>1, <2>2 DEF Live
    <3>2. T2.st = "SEND_CF" => Live(T2, B, R2) /\ (bs # 0 => T2.sent - T2.blocks = Base(R2))
      <4>1. T2.st = "SEND_CF" => /\ Busy(T2) /\ T2.sent = T.sent + 1
                                 /\ T2.blocks = T.blocks + 1
        BY <1>5 DEF Busy
      <4>2. (T.sent + 1) - (T.blocks + 1) = T.sent - T.blocks
        BY ONLY <1>3
      <4>3. T2.st = "SEND_CF" => T2.sent - T2.blocks = T.sent - T.blocks
        BY ONLY <4>1, <4>2
      <4> QED BY ONLY <2>1, <2>2, <3>1, <4>1, <4>3
    <3>3. bs # 0 /\ T2.st = "WAIT_FC" => Base(R2) \in {T2.sent, T2.sent - bs}
      <4>1. bs # 0 /\ T2.st = "WAIT_FC" => T2.sent = T.sent + 1 /\ T.blocks + 1 = bs
        BY <1>5 DEF Busy
      <4>2. T.blocks + 1 = bs => T.sent - T.blocks = (T.sent + 1) - bs
        BY ONLY <1>3
      <4> QED BY ONLY <2>1, <2>2, <4>1, <4>2
    <3>4. ASSUME bs # 0, NEW i \in 1..Len(W2), W2[i].type = "CF"
          PROVE  /\ W2[i].cell[2] <= Base(R2) + bs
                 /\ ~Live(T2, B, R2) /\ W2[i].cell[2] = Base(R2) + bs =>
                       W2[i].cell[2] = Cells[Of(R2)]
      <4>1. T.sent = Base(R) + T.blocks /\ T.blocks < bs
        <5>1. T.sent - T.blocks = Base(R) /\ T.blocks < bs
          BY <2>2, <3>4
        <5> QED BY ONLY <1>3, <2>4, <5>1
      <4>2. CASE i \in 1..Len(W) /\ W[i].type = "CF" /\ W2[i].cell = W[i].cell
        <5>1. W2[i].cell[2] <= T.sent /\ W2[i].cell[2] \in Nat
          BY <2>3, <2>5, <4>2
        <5>2. W2[i].cell[2] < Base(R2) + bs
          <6>1. bs \in Nat
            OBVIOUS
          <6>2. T.sent < Base(R) + bs
            BY ONLY <1>3, <2>4, <4>1, <6>1
          <6> DEFINE z == W2[i].cell[2]
                     b == Base(R)
                     s == T.sent
          <6>3. z \in Nat /\ z <= s /\ s \in Nat /\ b \in Int /\ s < b + bs
            BY ONLY <1>3, <2>4, <5>1, <6>2
          <6> HIDE DEF z, b, s
          <6>4. z < b + bs
            BY ONLY <6>1, <6>3
          <6> QED BY <2>1, <6>4 DEF z, b
        <5> QED BY <2>1, <2>4, <5>1, <5>2
      <4>3. CASE W2[i].cell = f.cell
        <5>1. W2[i].cell[2] = T.sent + 1
          BY <1>4, <4>3
        <5>2. ~Live(T2, B, R2) => T.sent + 1 = Cells[Of(R2)]
          BY <1>5, <2>1, <2>2, <3>1 DEF Busy
        <5>3. T.sent + 1 <= Base(R2) + bs
          BY <1>3, <2>1, <2>4, <4>1
        <5> QED BY <5>1, <5>2, <5>3
      <4> QED BY <2>6, <3>4, <4>2, <4>3
    <3> QED BY <3>2, <3>3, <3>4 DEF InBlock
  <2> QED BY <1>6, <1>7, <2>7, <2>8, <2>9 DEF Order, W2
<1> QED BY <1>8, <1>9

\* A sender that gives up, in a state from which no full block can arrive.
LEMMA OrderStops ==
    ASSUME NEW T \in Channels, NEW T2 \in Channels, NEW B, NEW R, NEW R2,
           NEW W \in Seq(Frames), NEW W2 \in Seq(Frames), NEW V \in Seq(Frames),
           NEW V2 \in Seq(Frames), NEW bs \in Nat,
           Order(T, B, R, W, V, bs), ~Busy(T2),
           R2.st = R.st, R2.data = R.data, R2.blocks = R.blocks,
           Kept(W, W2, Data), Kept(V, V2, Flow),
           \A i \in 1..Len(W2) : W2[i].type # "FF",
           \A i \in 1..Len(V2) : V2[i].type \notin Flow,
           Reassembling(R) /\ bs # 0 =>
              \A i \in 1..Len(W) : W[i].type = "CF" /\ W[i].cell[2] = Base(R) + bs =>
                 W[i].cell[2] = Cells[Of(R)]
    PROVE  Order(T2, B, R2, W2, V2, bs)
<1>1. PICK s \in {0, 1} : \A i \in 1..Len(W2) : W2[i].type \in Data =>
         i + s \in 1..Len(W) /\ W2[i].type = W[i + s].type /\ W2[i].cell = W[i + s].cell
  BY DEF Kept
<1>2. /\ Gathered(R) /\ Following(T, B, R, W) /\ InBlock(T, B, R, W, bs)
  BY DEF Order
<1>3. FirstAlone(T2, B, W2) /\ FlowAlone(T2, B, R2, W2, V2)
  BY DEF FirstAlone, FlowAlone
<1>4. CASE ~Reassembling(R2)
  BY <1>3, <1>4 DEF Order, Gathered, Following, InBlock
<1>5. CASE Reassembling(R2)
  <2>1. /\ Reassembling(R) /\ Of(R2) = Of(R) /\ Newest(R2) = Newest(R) /\ Base(R2) = Base(R)
        /\ \A i : Num(R2, i) = Num(R, i)
    BY <1>5 DEF Reassembling, Of, Newest, Num, Base
  <2>2. ~Live(T2, B, R2)
    BY DEF Live
  <2>3. Gathered(R2)
    BY <1>2, <2>1 DEF Gathered
  <2>4. ASSUME NEW i \in 1..Len(W2), W2[i].type = "CF"
        PROVE  i + s \in 1..Len(W) /\ W[i + s].type = "CF" /\ W2[i].cell = W[i + s].cell
    BY <1>1, <2>4 DEF Data
  <2>5. Following(T2, B, R2, W2)
    <3>1. ASSUME NEW i \in 1..Len(W2), W2[i].type = "CF"
          PROVE  W2[i].cell[1] = Of(R2) /\ W2[i].cell[2] > Newest(R2)
      BY <1>2, <2>1, <2>4, <3>1 DEF Following
    <3>2. ASSUME NEW i \in 1..Len(W2), W2[i].type = "CF",
                 NEW k \in 1..Len(W2), k > i, W2[k].type = "CF"
          PROVE  W2[k].cell[2] > W2[i].cell[2]
      <4>1. k + s > i + s
        BY <3>2, LenProperties
      <4> QED BY <1>2, <2>1, <2>4, <3>2, <4>1 DEF Following
    <3> QED BY <2>2, <3>1, <3>2 DEF Following
  <2>6. InBlock(T2, B, R2, W2, bs)
    <3>1. T2.st # "SEND_CF" /\ T2.st # "WAIT_FC"
      BY DEF Busy
    <3>2. ASSUME bs # 0, NEW i \in 1..Len(W2), W2[i].type = "CF"
          PROVE  /\ W2[i].cell[2] <= Base(R2) + bs
                 /\ W2[i].cell[2] = Base(R2) + bs => W2[i].cell[2] = Cells[Of(R2)]
      BY <1>2, <2>1, <2>4, <3>2 DEF InBlock
    <3> QED BY <3>1, <3>2 DEF InBlock
  <2> QED BY <1>3, <2>3, <2>5, <2>6 DEF Order
<1> QED BY <1>4, <1>5

\* The queue of a sender that has been answered, when no flow control was under way.
LEMMA AnswerFacts ==
    ASSUME NEW k \in Nodes, NEW V \in Seq(Frames), NEW V2 \in Seq(Frames), NEW fs \in {"CTS", "OVFLW"},
           \A i \in 1..Len(V) : V[i].type \notin Flow,
           V2 = V \o <<FC(fs, k)>> \/ V2 = V \o <<FC("WAIT", k), FC(fs, k)>>
    PROVE  \A i \in 1..Len(V2) : V2[i].type \in Flow =>
              /\ V2[i].type \in {"WAIT", fs}
              /\ V2[i].type # "WAIT" => \A j \in 1..Len(V2) : j > i => V2[j].type \notin Flow
<1> DEFINE f == FC(fs, k)
           w == FC("WAIT", k)
<1>1. f \in Frames /\ w \in Frames /\ f.type = fs /\ w.type = "WAIT"
  BY FrameTypes DEF FC, Frame
<1> HIDE DEF f, w
<1>2. Len(V) \in Nat
  BY LenProperties
<1>3. CASE V2 = V \o <<f>>
  <2>1. <<f>> \in Seq(Frames) /\ Len(<<f>>) = 1 /\ <<f>>[1] = f
    BY <1>1, OneFrame
  <2>2. /\ Len(V2) = Len(V) + 1 /\ V2[Len(V) + 1] = f
        /\ \A i \in 1..Len(V) : V2[i] = V[i]
    BY <1>3, <2>1, JoinFacts
  <2>3. \A i \in 1..Len(V2) : i \in 1..Len(V) \/ i = Len(V) + 1
    BY <1>2, <2>2
  <2>4. \A i \in 1..Len(V2) : V2[i].type \in Flow => i = Len(V) + 1
    BY <2>2, <2>3
  <2>5. \A j \in 1..Len(V2) : ~(j > Len(V) + 1)
    BY <1>2, <2>2
  <2> QED BY <1>1, <2>2, <2>4, <2>5
<1>4. CASE V2 = V \o <<w, f>>
  <2>1. <<w, f>> \in Seq(Frames) /\ Len(<<w, f>>) = 2 /\ <<w, f>>[1] = w /\ <<w, f>>[2] = f
    BY <1>1, TwoFrames
  <2>2. /\ Len(V2) = Len(V) + 2 /\ V2[Len(V) + 1] = w /\ V2[Len(V) + 2] = f
        /\ \A i \in 1..Len(V) : V2[i] = V[i]
    BY <1>4, <2>1, JoinFacts
  <2>3. \A i \in 1..Len(V2) : i \in 1..Len(V) \/ i = Len(V) + 1 \/ i = Len(V) + 2
    BY <1>2, <2>2
  <2>4. \A i \in 1..Len(V2) : V2[i].type \in Flow /\ V2[i].type # "WAIT" => i = Len(V) + 2
    BY <1>1, <2>2, <2>3
  <2>5. \A j \in 1..Len(V2) : ~(j > Len(V) + 2)
    BY <1>2, <2>2
  <2>6. \A i \in 1..Len(V2) : V2[i].type \in Flow => V2[i].type \in {"WAIT", fs}
    BY <1>1, <2>2, <2>3
  <2> QED BY <2>4, <2>5, <2>6
<1> QED BY <1>3, <1>4 DEF f, w

\* A first frame is taken: a new reassembly, or word that it is too long.
LEMMA OrderBegins ==
    ASSUME NEW T \in Channels, NEW B, NEW R, NEW R2, NEW W \in Seq(Frames),
           NEW V \in Seq(Frames), NEW V2 \in Seq(Frames), NEW bs \in Nat,
           NEW k \in Nodes, NEW fs \in {"CTS", "OVFLW"},
           Order(T, B, R, W, V, bs), W # <<>>, W[1].type = "FF", W[1].cell[2] = 1,
           V2 = V \o <<FC(fs, k)>> \/ V2 = V \o <<FC("WAIT", k), FC(fs, k)>>,
           IF fs = "CTS" THEN R2 = Begun(W[1]) ELSE R2 = R
    PROVE  Order(T, B, R2, Tail(W), V2, bs)
<1> DEFINE W2 == Tail(W)
<1>1. /\ FirstAlone(T, B, W) /\ FlowAlone(T, B, R, W, V) /\ Gathered(R)
      /\ Following(T, B, R, W) /\ InBlock(T, B, R, W, bs)
  BY DEF Order
<1>2. 1 \in 1..Len(W) /\ \A i \in 1..Len(W2) : i + 1 \in 1..Len(W) /\ W2[i] = W[i + 1]
  BY TailFacts
<1>3. /\ T.st = "WAIT_FC" /\ T.sent = 1 /\ W[1].cell[1] = B[1]
      /\ \A j \in 1..Len(W) : j > 1 => W[j].type \notin Data
  BY <1>1, <1>2 DEF FirstAlone
<1> HIDE DEF W2
<1>4. \A i \in 1..Len(W2) : W2[i].type \notin Data
  <2>1. \A i \in 1..Len(W2) : i + 1 > 1
    OBVIOUS
  <2> QED BY ONLY <1>2, <1>3, <2>1
<1>5. \A i \in 1..Len(V) : V[i].type \notin Flow
  BY <1>1, <1>2 DEF FlowAlone, Data
<1>6. \A i \in 1..Len(V2) : V2[i].type \in Flow =>
         /\ V2[i].type \in {"WAIT", fs}
         /\ V2[i].type # "WAIT" => \A j \in 1..Len(V2) : j > i => V2[j].type \notin Flow
  <2>1. /\ V2 \in Seq(Frames) /\ V \in Seq(Frames) /\ k \in Nodes /\ fs \in {"CTS", "OVFLW"}
        /\ V2 = V \o <<FC(fs, k)>> \/ V2 = V \o <<FC("WAIT", k), FC(fs, k)>>
    OBVIOUS
  <2>2. CASE fs = "CTS"
    BY ONLY <1>5, <2>1, <2>2, AnswerFacts
  <2>3. CASE fs = "OVFLW"
    BY ONLY <1>5, <2>1, <2>3, AnswerFacts
  <2> QED BY ONLY <2>1, <2>2, <2>3
<1>7. FirstAlone(T, B, W2)
  BY <1>4 DEF FirstAlone, Data
<1>8. \A i \in 1..Len(W2) : W2[i].type # "CF"
  BY <1>4 DEF Data
<1>9. CASE fs = "CTS"
  <2> DEFINE c == W[1].cell
  <2>1. R2.st = "WAIT_CF" /\ R2.data = <<c>> /\ R2.blocks = 0
    BY <1>9 DEF Begun
  <2>2. c[1] = B[1] /\ c[2] = 1
    BY <1>3
  <2> HIDE DEF c
  <2>3. Len(R2.data) = 1 /\ R2.data[1] = c
    BY <2>1
  <2>4. Of(R2) = B[1] /\ Newest(R2) = 1 /\ Num(R2, 1) = 1 /\ Base(R2) = 1
    BY <2>1, <2>2, <2>3 DEF Of, Newest, Num, Base
  <2>5. Live(T, B, R2)
    BY <1>3, <2>4 DEF Live, Busy
  <2>6. FlowAlone(T, B, R2, W2, V2)
    BY <1>3, <1>4, <1>6, <2>4, <2>5 DEF FlowAlone
  <2>7. Gathered(R2)
    <3>1. \A i \in 1..1 : i = 1
      OBVIOUS
    <3> QED BY <2>3, <3>1 DEF Gathered, Of
  <2>8. Following(T, B, R2, W2)
    BY <1>3, <1>8, <2>4 DEF Following
  <2>9. InBlock(T, B, R2, W2, bs)
    BY <1>3, <1>8, <2>4 DEF InBlock
  <2> QED BY <1>7, <2>6, <2>7, <2>8, <2>9 DEF Order, W2
<1>10. CASE fs = "OVFLW"
  <2>1. R2 = R
    BY <1>10
  <2>2. FlowAlone(T, B, R, W2, V2)
    BY <1>3, <1>4, <1>6, <1>10 DEF FlowAlone
  <2>3. Following(T, B, R, W2)
    BY <1>1, <1>8 DEF Following
  <2>4. InBlock(T, B, R, W2, bs)
    BY <1>1, <1>8 DEF InBlock
  <2> QED BY <1>1, <1>7, <2>1, <2>2, <2>3, <2>4 DEF Order, W2
<1> QED BY <1>9, <1>10

\* The sender is let go on.
LEMMA OrderClears ==
    ASSUME NEW T \in Channels, NEW T2 \in Channels, NEW B, NEW R, NEW f \in Frames,
           NEW W \in Seq(Frames), NEW V \in Seq(Frames), NEW bs \in Nat,
           Order(T, B, R, W, V, bs), V # <<>>, V[1].type = "CTS",
           T2 = Cleared(T, f)
    PROVE  Order(T2, B, R, W, Tail(V), bs)
<1> DEFINE V2 == Tail(V)
<1>1. /\ FirstAlone(T, B, W) /\ FlowAlone(T, B, R, W, V) /\ Gathered(R)
      /\ Following(T, B, R, W) /\ InBlock(T, B, R, W, bs)
  BY DEF Order
<1>2. 1 \in 1..Len(V) /\ \A i \in 1..Len(V2) : i + 1 \in 1..Len(V) /\ i + 1 > 1 /\ V2[i] = V[i + 1]
  BY TailFacts
<1>3. T2.st = "SEND_CF" /\ T2.sent = T.sent /\ T2.blocks = 0 /\ T.sent \in Nat
  BY DEF Cleared, Channels
<1> HIDE DEF V2
<1>4. /\ T.st = "WAIT_FC"
      /\ \A j \in 1..Len(W) : W[j].type \notin Data
      /\ \A j \in 1..Len(V) : j > 1 => V[j].type \notin Flow
      /\ Reassembling(R) => Live(T, B, R) /\ Base(R) = T.sent
  BY <1>1, <1>2 DEF FlowAlone, Flow
<1>5. \A i \in 1..Len(V2) : V2[i].type \notin Flow
  BY <1>2, <1>4
<1>6. FirstAlone(T2, B, W) /\ FlowAlone(T2, B, R, W, V2)
  BY <1>4, <1>5 DEF FirstAlone, FlowAlone, Data
<1>7. \A i \in 1..Len(W) : W[i].type # "CF"
  BY <1>4 DEF Data
<1>8. Live(T2, B, R) <=> Live(T, B, R)
  BY <1>3, <1>4 DEF Live, Busy
<1>9. Following(T2, B, R, W)
  BY <1>1, <1>3, <1>7, <1>8 DEF Following
<1>10. T2.sent - T2.blocks = T.sent
  BY <1>3
<1>11. InBlock(T2, B, R, W, bs)
  BY <1>3, <1>4, <1>7, <1>8, <1>10 DEF InBlock
<1> QED BY <1>1, <1>6, <1>9, <1>11 DEF Order, V2

\* Counting cells in a block.
LEMMA Steps ==
    ASSUME NEW d \in Nat, NEW i \in Nat, NEW x \in Nat, NEW y \in Nat, NEW z \in Nat,
           x - y >= d - i, z > x
    PROVE  z - y >= d + 1 - i
  OBVIOUS

LEMMA BlockGoesOn ==
    ASSUME NEW d \in Nat, NEW b \in Nat
    PROVE  (d + 1) - (b + 1) = d - b
  OBVIOUS

LEMMA BlockSent ==
    ASSUME NEW s \in Nat, NEW b \in Nat, NEW bs \in Nat \ {0}, NEW base \in Int, NEW z \in Nat,
           base + bs = z, z <= s
    PROVE  /\ ~(s - b = base /\ b < bs)
           /\ base \in {s, s - bs} => s = z
  OBVIOUS

\* One more cell in the reassembly, the one its message has next.
LEMMA GatheredMore ==
    ASSUME NEW R \in Reassemblies, NEW R2, NEW c \in Cell,
           Gathered(R), Reassembling(R), Len(R.data) >= 1,
           R2.st = "WAIT_CF", R2.data = Append(R.data, c),
           c[1] = Of(R), c[2] > Newest(R)
    PROVE  /\ Reassembling(R2) /\ Of(R2) = Of(R) /\ Newest(R2) = c[2]
           /\ Len(R2.data) = Len(R.data) + 1 /\ Gathered(R2)
<1>1. R.data \in Seq(Cell)
  BY DEF Reassemblies
<1> DEFINE d == Len(R.data)
<1>2. /\ d \in Nat \ {0} /\ Len(R2.data) = d + 1 /\ R2.data[d + 1] = c
      /\ \A i \in 1..d : R2.data[i] = R.data[i]
  BY <1>1, AppendProperties, LenProperties
<1>3. /\ \A i \in 1..d : Num(R, i) \in Nat
      /\ c[2] \in Nat
  BY ReassemblyTypes DEF Cell
<1> HIDE DEF d
<1>4. 1 \in 1..d /\ d \in 1..d
  BY <1>2
<1>5. Reassembling(R2) /\ Of(R2) = Of(R) /\ Newest(R2) = c[2]
  BY <1>2, <1>4 DEF Reassembling, Of, Newest, Num
<1>6. Newest(R) = Num(R, d)
  BY DEF Newest, d
<1>7. \A i \in 1..d + 1 : i \in 1..d \/ i = d + 1
  BY <1>2
<1>8. /\ \A i \in 1..d : Num(R2, i) = Num(R, i) /\ R2.data[i][1] = Of(R)
      /\ Num(R2, d + 1) = c[2] /\ R2.data[d + 1][1] = Of(R)
  BY <1>2 DEF Num, Gathered, d
<1>9. ASSUME NEW i \in 1..d + 1, NEW k \in 1..d + 1, i < k
      PROVE  Num(R2, k) - Num(R2, i) >= k - i
  <2>1. i \in 1..d
    BY <1>2, <1>9
  <2>2. CASE k \in 1..d
    <3>1. Num(R, k) - Num(R, i) >= k - i
      BY <1>9, <2>1, <2>2 DEF Gathered, d
    <3> QED BY <1>8, <2>1, <2>2, <3>1
  <2>3. CASE k = d + 1
    <3>1. Num(R, d) - Num(R, i) >= d - i
      <4>1. CASE i = d
        BY <1>3, <1>4, <4>1
      <4>2. CASE i # d
        <5>1. i < d
          BY <1>2, <2>1, <4>2
        <5> QED BY <1>4, <2>1, <5>1 DEF Gathered, d
      <4> QED BY <4>1, <4>2
    <3>2. c[2] > Num(R, d)
      BY <1>6
    <3>3. c[2] - Num(R, i) >= d + 1 - i
      BY <1>2, <1>3, <1>4, <2>1, <3>1, <3>2, Steps
    <3>4. Num(R2, k) = c[2] /\ Num(R2, i) = Num(R, i) /\ k = d + 1
      BY <1>8, <2>1, <2>3
    <3> DEFINE u == Num(R2, k)
               v == Num(R2, i)
    <3>5. u \in Nat /\ v \in Nat /\ u - v >= d + 1 - i /\ k = d + 1
      BY <1>3, <2>1, <3>3, <3>4
    <3> HIDE DEF u, v
    <3>6. u - v >= k - i
      BY <1>2, <2>1, <3>5
    <3> QED BY <3>6 DEF u, v
  <2> QED BY <1>7, <2>2, <2>3
<1>10. Gathered(R2)
  BY <1>2, <1>5, <1>7, <1>8, <1>9 DEF Gathered
<1> QED BY <1>2, <1>5, <1>10 DEF d

\* Cells are at least as far on in their message as in the reassembly.
LEMMA GatheredNumbers ==
    ASSUME NEW R \in Reassemblies, Gathered(R), Reassembling(R), Len(R.data) >= 1, Num(R, 1) = 1
    PROVE  \A i \in 1..Len(R.data) : Num(R, i) >= i
<1>1. SUFFICES ASSUME NEW i \in 1..Len(R.data) PROVE Num(R, i) >= i
  OBVIOUS
<1>2. Num(R, i) \in Nat /\ Len(R.data) \in Nat
  BY ReassemblyTypes
<1>3. i # 1 => Num(R, i) - Num(R, 1) >= i - 1
  <2>1. 1 \in 1..Len(R.data) /\ (i # 1 => 1 < i)
    BY <1>2
  <2> QED BY <2>1 DEF Gathered
<1> QED BY <1>2, <1>3

\* A consecutive frame is taken that does not fill the block.
LEMMA OrderGathers ==
    ASSUME NEW T \in Channels, NEW B, NEW R \in Reassemblies, NEW R2, NEW W \in Seq(Frames),
           NEW V \in Seq(Frames), NEW bs \in Nat,
           Order(T, B, R, W, V, bs), W # <<>>, W[1].type = "CF",
           Reassembling(R), Len(R.data) >= 1,
           R2.st = "WAIT_CF", R2.data = Append(R.data, W[1].cell),
           bs # 0 => R2.blocks = R.blocks + 1
    PROVE  Order(T, B, R2, Tail(W), V, bs)
<1> DEFINE W2 == Tail(W)
           c == W[1].cell
<1>1. /\ FirstAlone(T, B, W) /\ FlowAlone(T, B, R, W, V) /\ Gathered(R)
      /\ Following(T, B, R, W) /\ InBlock(T, B, R, W, bs)
  BY DEF Order
<1>2. /\ 1 \in 1..Len(W)
      /\ \A i \in 1..Len(W2) : i + 1 \in 1..Len(W) /\ i + 1 > 1 /\ W2[i] = W[i + 1]
      /\ Len(W2) \in Nat
  BY TailFacts
<1>3. c \in Cell
  BY <1>2, CellNumbers
<1>4. /\ c[1] = Of(R) /\ c[2] > Newest(R) /\ (Live(T, B, R) => c[2] <= T.sent)
      /\ \A k \in 1..Len(W) : k > 1 /\ W[k].type = "CF" => W[k].cell[2] > c[2]
  BY <1>1, <1>2 DEF Following
<1>5. \A i \in 1..Len(V) : V[i].type \notin Flow
  BY <1>1, <1>2 DEF FlowAlone, Data
<1> HIDE DEF W2, c
<1>6. /\ Reassembling(R2) /\ Of(R2) = Of(R) /\ Newest(R2) = c[2]
      /\ Len(R2.data) = Len(R.data) + 1 /\ Gathered(R2)
  BY <1>1, <1>3, <1>4, GatheredMore DEF c
<1>7. bs # 0 => Base(R2) = Base(R)
  <2>1. Len(R.data) \in Nat /\ R.blocks \in Nat
    BY ReassemblyTypes
  <2>2. (Len(R.data) + 1) - (R.blocks + 1) = Len(R.data) - R.blocks
    BY ONLY <2>1, BlockGoesOn
  <2> QED BY <1>6, <2>2, Zenon DEF Base
<1>8. Live(T, B, R2) <=> Live(T, B, R)
  BY <1>6 DEF Live
<1>9. FirstAlone(T, B, W2)
  <2>1. ASSUME NEW i \in 1..Len(W2), W2[i].type = "FF",
               NEW j \in 1..Len(W2), j > i, W2[j].type \in Data
        PROVE  FALSE
    <3>1. j + 1 > i + 1
      BY <2>1
    <3> QED BY <1>1, <1>2, <2>1, <3>1 DEF FirstAlone
  <2>2. ASSUME NEW i \in 1..Len(W2), W2[i].type = "FF"
        PROVE  T.st = "WAIT_FC" /\ T.sent = 1 /\ W2[i].cell[1] = B[1]
    BY ONLY <1>1, <1>2, <2>2, i \in 1..Len(W2) DEF FirstAlone
  <2> QED BY ONLY <2>1, <2>2 DEF FirstAlone
<1>10. FlowAlone(T, B, R2, W2, V)
  BY <1>5 DEF FlowAlone
<1>11. Following(T, B, R2, W2)
  <2>1. ASSUME NEW i \in 1..Len(W2), W2[i].type = "CF"
        PROVE  /\ W2[i].cell[1] = Of(R2) /\ W2[i].cell[2] > c[2]
               /\ Live(T, B, R2) => W2[i].cell[2] <= T.sent
    BY <1>1, <1>2, <1>4, <1>6, <1>8, <2>1 DEF Following
  <2>2. ASSUME NEW i \in 1..Len(W2), W2[i].type = "CF",
               NEW k \in 1..Len(W2), k > i, W2[k].type = "CF"
        PROVE  W2[k].cell[2] > W2[i].cell[2]
    <3>1. k + 1 > i + 1
      BY <2>2
    <3> QED BY <1>1, <1>2, <2>2, <3>1 DEF Following
  <2> QED BY <1>4, <1>6, <1>8, <2>1, <2>2 DEF Following
<1>12. InBlock(T, B, R2, W2, bs)
  BY <1>1, <1>2, <1>6, <1>7, <1>8 DEF InBlock
<1> QED BY <1>6, <1>9, <1>10, <1>11, <1>12 DEF Order, W2

\* One is taken that fills it: the sender has stopped there, and is let go on.
LEMMA OrderFills ==
    ASSUME NEW T \in Channels, NEW B, NEW R \in Reassemblies, NEW R2, NEW W \in Seq(Frames),
           NEW V \in Seq(Frames), NEW V2 \in Seq(Frames), NEW bs \in Nat, NEW k \in Nodes,
           Order(T, B, R, W, V, bs), W # <<>>, W[1].type = "CF",
           Reassembling(R), Len(R.data) >= 1, Num(R, 1) = 1,
           bs # 0, R.blocks < bs, R.blocks + 1 >= bs, Len(R.data) + 1 < Cells[Of(R)],
           T.st = "SEND_CF" => T.blocks < bs,
           R2.st = "WAIT_CF", R2.data = Append(R.data, W[1].cell), R2.blocks = 0,
           V2 = V \o <<FC("CTS", k)>> \/ V2 = V \o <<FC("WAIT", k), FC("CTS", k)>>
    PROVE  Order(T, B, R2, Tail(W), V2, bs)
<1> DEFINE W2 == Tail(W)
           c == W[1].cell
           d == Len(R.data)
<1>1. /\ FirstAlone(T, B, W) /\ FlowAlone(T, B, R, W, V) /\ Gathered(R)
      /\ Following(T, B, R, W) /\ InBlock(T, B, R, W, bs)
  BY DEF Order
<1>2. /\ 1 \in 1..Len(W)
      /\ \A i \in 1..Len(W2) : i + 1 \in 1..Len(W) /\ i + 1 > 1 /\ W2[i] = W[i + 1]
      /\ Len(W2) \in Nat
  BY TailFacts
<1>3. c \in Cell /\ c[2] \in Nat /\ \A i \in 1..Len(W) : W[i].cell[2] \in Nat
  BY <1>2, CellNumbers
<1>4. /\ c[1] = Of(R) /\ c[2] > Newest(R) /\ (Live(T, B, R) => c[2] <= T.sent)
      /\ c[2] <= Base(R) + bs
      /\ ~Live(T, B, R) /\ c[2] = Base(R) + bs => c[2] = Cells[Of(R)]
      /\ \A i \in 1..Len(W) : i > 1 /\ W[i].type = "CF" =>
            W[i].cell[2] > c[2] /\ (Live(T, B, R) => W[i].cell[2] <= T.sent)
  BY <1>1, <1>2 DEF Following, InBlock
<1>5. \A i \in 1..Len(V) : V[i].type \notin Flow
  BY <1>1, <1>2 DEF FlowAlone, Data
<1>6. /\ d \in Nat \ {0} /\ R.blocks \in Nat /\ Base(R) = d - R.blocks /\ Newest(R) \in Nat
      /\ Newest(R) >= d
  <2>1. d \in 1..d
    BY ReassemblyTypes
  <2>2. Newest(R) >= d
    BY <1>1, <2>1, GatheredNumbers DEF Newest
  <2> QED BY <2>2, ReassemblyTypes DEF Base
<1>7. T.sent \in Nat /\ T.blocks \in Nat
  BY DEF Channels
<1> HIDE DEF W2, c, d
<1>8. c[2] = d + 1 /\ Base(R) + bs = d + 1 /\ Base(R) < c[2] /\ Base(R) \in Int
  <2> DEFINE x == Newest(R)
             z == c[2]
             b == R.blocks
             base == Base(R)
  <2>1. /\ d \in Nat \ {0} /\ b \in Nat /\ bs \in Nat /\ b < bs /\ b + 1 >= bs
        /\ base \in Int /\ base = d - b
        /\ x \in Nat /\ z \in Nat /\ x >= d /\ z > x /\ z <= base + bs
    BY <1>3, <1>4, <1>6
  <2> HIDE DEF x, z, b, base
  <2>2. z = d + 1 /\ base + bs = d + 1 /\ base < z
    BY ONLY <2>1
  <2> QED BY <2>1, <2>2 DEF z, base
<1>9. Live(T, B, R)
  <2>1. d + 1 < Cells[Of(R)]
    BY DEF d
  <2> QED BY <1>4, <1>6, <1>8, <2>1
<1>10. T.st = "WAIT_FC" /\ T.sent = d + 1
  <2>1. c[2] <= T.sent /\ Base(R) + bs = c[2] /\ bs \in Nat \ {0}
    BY <1>4, <1>8, <1>9
  <2>2. T.st # "SEND_CF"
    <3>1. T.st = "SEND_CF" => T.sent - T.blocks = Base(R) /\ T.blocks < bs
      BY <1>1 DEF InBlock
    <3>2. ~(T.sent - T.blocks = Base(R) /\ T.blocks < bs)
      BY ONLY <1>3, <1>7, <1>8, <2>1, BlockSent
    <3> QED BY <3>1, <3>2
  <2>3. T.st = "WAIT_FC"
    BY <1>9, <2>2 DEF Live, Busy
  <2>4. Base(R) \in {T.sent, T.sent - bs}
    BY <1>1, <1>9, <2>3 DEF InBlock
  <2>5. T.sent = c[2]
    BY ONLY <1>3, <1>7, <1>8, <2>1, <2>4, BlockSent
  <2> QED BY <1>8, <2>3, <2>5
<1>11. \A i \in 1..Len(W2) : W2[i].type \notin Data
  <2>1. ASSUME NEW i \in 1..Len(W2), W2[i].type = "CF" PROVE FALSE
    <3> DEFINE z == W[i + 1].cell[2]
    <3>1. z \in Nat /\ z > c[2] /\ z <= T.sent
      BY <1>2, <1>3, <1>4, <1>9, <2>1
    <3>2. T.sent = c[2]
      BY <1>8, <1>10
    <3> HIDE DEF z
    <3> QED BY <1>3, <3>1, <3>2
  <2>2. ASSUME NEW i \in 1..Len(W2), W2[i].type = "FF" PROVE FALSE
    <3>1. T.sent = 1
      BY <1>1, <1>2, <2>2 DEF FirstAlone
    <3> QED BY <1>6, <1>10, <3>1
  <2> QED BY <2>1, <2>2 DEF Data
<1>12. /\ Reassembling(R2) /\ Of(R2) = Of(R) /\ Newest(R2) = c[2]
       /\ Len(R2.data) = d + 1 /\ Gathered(R2)
  <2>1. /\ Gathered(R) /\ R \in Reassemblies /\ c \in Cell /\ Reassembling(R)
        /\ Len(R.data) >= 1 /\ R2.st = "WAIT_CF" /\ R2.data = Append(R.data, c)
        /\ c[1] = Of(R) /\ c[2] > Newest(R)
    BY <1>1, <1>3, <1>4 DEF c
  <2>2. /\ Reassembling(R2) /\ Of(R2) = Of(R) /\ Newest(R2) = c[2]
        /\ Len(R2.data) = Len(R.data) + 1 /\ Gathered(R2)
    BY ONLY <2>1, GatheredMore
  <2> QED BY <2>2 DEF d
<1>13. Live(T, B, R2) /\ Base(R2) = T.sent
  BY <1>6, <1>9, <1>10, <1>12 DEF Live, Base
<1>14. \A i \in 1..Len(V2) : V2[i].type \in Flow =>
          /\ V2[i].type \in {"WAIT", "CTS"}
          /\ V2[i].type # "WAIT" => \A j \in 1..Len(V2) : j > i => V2[j].type \notin Flow
  <2>1. /\ V2 \in Seq(Frames) /\ V \in Seq(Frames) /\ k \in Nodes
        /\ V2 = V \o <<FC("CTS", k)>> \/ V2 = V \o <<FC("WAIT", k), FC("CTS", k)>>
    OBVIOUS
  <2> QED BY ONLY <1>5, <2>1, AnswerFacts
<1>15. FirstAlone(T, B, W2)
  BY <1>11 DEF FirstAlone, Data
<1>16. FlowAlone(T, B, R2, W2, V2)
  BY <1>10, <1>11, <1>13, <1>14 DEF FlowAlone
<1>17. \A i \in 1..Len(W2) : W2[i].type # "CF"
  BY <1>11 DEF Data
<1>18. Following(T, B, R2, W2)
  <2>1. Newest(R2) <= T.sent
    BY ONLY <1>6, <1>8, <1>10, <1>12
  <2> QED BY <1>17, <2>1 DEF Following
<1>19. InBlock(T, B, R2, W2, bs)
  BY <1>10, <1>13, <1>17 DEF InBlock
<1> QED BY <1>12, <1>15, <1>16, <1>18, <1>19 DEF Order, W2

-----------------------------------------------------------------------------
(* A sender that waits has not waited longer than its frames and the answer *)
(* to them have been under way, so that N_Bs runs out only when neither is  *)
(* any more.  The two ends tick in turn: a tick of one end is two ticks of  *)
(* age.                                                                    *)

Turns(n) == IF turn = n THEN 0 ELSE 1

InTime(T, q, t, types, slack) ==
    T.st = "WAIT_FC" =>
        \A i \in 1..Len(q) : q[i].type \in types =>
            2 * (BsTimeout - T.timer) <= slack + q[i].age + t

\* Data comes from n, flow control answers it.
Timing(n) ==
    /\ InTime(tx[n], wire[Peer(n)], Turns(n), Data, 0)
    /\ InTime(tx[n], wire[n], Turns(n), Flow, Lag)

LEMMA Ages ==
    ASSUME NEW q \in Seq(Frames)
    PROVE  \A i \in 1..Len(q) : q[i] \in Frames /\ q[i].age \in Nat
<1>1. \A i \in 1..Len(q) : q[i] \in Frames
  BY ElementOfSeq
<1> QED BY <1>1 DEF Frames

\* A timer that has just been set.
LEMMA InTimeFresh ==
    ASSUME NEW T, T.timer = BsTimeout \/ T.st # "WAIT_FC", NEW q \in Seq(Frames),
           NEW t \in Nat, NEW types, NEW slack \in Nat
    PROVE  InTime(T, q, t, types, slack)
<1>1. SUFFICES ASSUME T.timer = BsTimeout, NEW i \in 1..Len(q)
               PROVE  2 * (BsTimeout - T.timer) <= slack + q[i].age + t
  BY DEF InTime
<1>2. q[i].age \in Nat
  BY Ages
<1>3. 2 * (BsTimeout - T.timer) = 0
  BY <1>1, NumbersAssumption
<1> DEFINE a == q[i].age
<1> HIDE DEF a
<1>4. 0 <= slack + a + t
  BY <1>2 DEF a
<1> QED BY <1>3, <1>4 DEF a

\* Frames that leave, or join and are of other types.
LEMMA InTimeQueues ==
    ASSUME NEW T, NEW q \in Seq(Frames), NEW t, NEW types, NEW slack,
           InTime(T, q, t, types, slack)
    PROVE  /\ q # <<>> => InTime(T, Tail(q), t, types, slack)
           /\ \A f \in Frames :
                 f.type \notin types \/ 2 * (BsTimeout - T.timer) <= slack + f.age + t =>
                     InTime(T, q \o <<f>>, t, types, slack)
<1>1. q # <<>> => InTime(T, Tail(q), t, types, slack)
  BY TailFacts DEF InTime
<1>2. ASSUME NEW f \in Frames,
             f.type \notin types \/ 2 * (BsTimeout - T.timer) <= slack + f.age + t
      PROVE  InTime(T, q \o <<f>>, t, types, slack)
  <2>1. <<f>> \in Seq(Frames) /\ Len(<<f>>) = 1 /\ <<f>>[1] = f
    BY OneFrame
  <2>2. \A i \in 1..Len(q \o <<f>>) :
           (i \in 1..Len(q) /\ (q \o <<f>>)[i] = q[i]) \/ (q \o <<f>>)[i] = f
    BY <2>1, JoinFacts
  <2> QED BY <1>2, <2>2 DEF InTime
<1> QED BY <1>1, <1>2

\* A tick of n or of the other end.
LEMMA InTimeOlder ==
    ASSUME NEW T \in Channels, NEW T2 \in Channels, NEW q \in Seq(Frames), NEW t \in {0, 1},
           NEW types, NEW slack \in Nat, InTime(T, q, t, types, slack),
           T2.st = "WAIT_FC" => T.st = "WAIT_FC",
           t = 0 => T2.timer >= T.timer - 1, t = 1 => T2.timer = T.timer
    PROVE  InTime(T2, Older(q), 1 - t, types, slack)
<1>1. SUFFICES ASSUME T2.st = "WAIT_FC", NEW i \in 1..Len(Older(q)), Older(q)[i].type \in types
               PROVE  2 * (BsTimeout - T2.timer) <= slack + Older(q)[i].age + (1 - t)
  BY DEF InTime
<1>2. /\ i \in 1..Len(q) /\ q[i].type \in types /\ q[i].age \in Nat
      /\ Older(q)[i].age = q[i].age + 1
  BY <1>1, OlderFacts
<1> DEFINE a == q[i].age
           x == T.timer
           y == T2.timer
           b == BsTimeout
<1>3. 2 * (b - x) <= slack + a + t
  BY <1>1, <1>2 DEF InTime
<1>4. /\ a \in Nat /\ x \in Nat /\ y \in Nat /\ b \in Nat
      /\ t = 0 => y >= x - 1
      /\ t = 1 => y = x
  BY <1>2, NumbersAssumption DEF Channels
<1> HIDE DEF a, x, y, b
<1>5. 2 * (b - y) <= slack + (a + 1) + (1 - t)
  <2>1. CASE t = 0
    BY <1>3, <1>4, <2>1
  <2>2. CASE t = 1
    BY <1>3, <1>4, <2>2
  <2> QED BY <2>1, <2>2
<1> QED BY <1>2, <1>5 DEF a, y, b

LEMMA TurnFacts ==
    ASSUME TypeOK, NEW n \in Nodes
    PROVE  /\ Turns(n) \in {0, 1} /\ Turns(n) \in Nat
           /\ (turn = n => Turns(n) = 0) /\ (turn = Peer(n) => Turns(n) = 1)
           /\ (turn' = n => Turns(n)' = 0) /\ (turn' = Peer(n) => Turns(n)' = 1)
           /\ (turn' = turn => Turns(n)' = Turns(n))
  BY Ends DEF Turns, TypeOK

\* Nothing that concerns the sender's timer changes but what its queues lose.
LEMMA TimingKept ==
    ASSUME TypeOK, NEW n \in Nodes, Timing(n), turn' = turn,
           tx'[n] = tx[n] \/ tx'[n].st # "WAIT_FC" \/ tx'[n].timer = BsTimeout,
           TypeOK',
           \/ wire'[Peer(n)] = wire[Peer(n)]
           \/ wire[Peer(n)] # <<>> /\ wire'[Peer(n)] = Tail(wire[Peer(n)])
           \/ \E f \in Frames : f.type \notin Data /\ wire'[Peer(n)] = wire[Peer(n)] \o <<f>>
           \/ \E f, g \in Frames : /\ f.type \notin Data /\ g.type \notin Data
                                   /\ wire'[Peer(n)] = wire[Peer(n)] \o <<f, g>>,
           \/ wire'[n] = wire[n]
           \/ wire[n] # <<>> /\ wire'[n] = Tail(wire[n])
           \/ \E f \in Frames : f.type \notin Flow /\ wire'[n] = wire[n] \o <<f>>
    PROVE  Timing(n)'
<1> DEFINE p == Peer(n)
<1>1. /\ p \in Nodes /\ wire[n] \in Seq(Frames) /\ wire[p] \in Seq(Frames)
      /\ wire'[n] \in Seq(Frames) /\ wire'[p] \in Seq(Frames)
  BY Ends DEF TypeOK
<1>2. Turns(n)' = Turns(n) /\ Turns(n) \in Nat /\ Lag \in Nat /\ 0 \in Nat
  BY TurnFacts, NumbersAssumption
<1> HIDE DEF p
<1>3. CASE tx'[n].st # "WAIT_FC" \/ tx'[n].timer = BsTimeout
  BY <1>1, <1>2, <1>3, InTimeFresh DEF Timing, p
<1>4. CASE tx'[n] = tx[n]
  <2>1. /\ InTime(tx[n], wire[p], Turns(n), Data, 0)
        /\ InTime(tx[n], wire[n], Turns(n), Flow, Lag)
    BY DEF Timing, p
  <2>2. InTime(tx[n], wire'[p], Turns(n), Data, 0)
    <3>1. ASSUME NEW f \in Frames, NEW g \in Frames, f.type \notin Data, g.type \notin Data,
                 wire'[p] = wire[p] \o <<f, g>>
          PROVE  InTime(tx[n], wire'[p], Turns(n), Data, 0)
      <4>1. <<f, g>> \in Seq(Frames) /\ Len(<<f, g>>) = 2 /\ <<f, g>>[1] = f /\ <<f, g>>[2] = g
        BY TwoFrames
      <4>2. \A i \in 1..Len(wire'[p]) :
               \/ i \in 1..Len(wire[p]) /\ wire'[p][i] = wire[p][i]
               \/ wire'[p][i] \in {f, g}
        BY <1>1, <3>1, TwoJoined
      <4> QED BY <2>1, <3>1, <4>2 DEF InTime
    <3>2. ASSUME NEW f \in Frames, f.type \notin Data, wire'[p] = wire[p] \o <<f>>
          PROVE  InTime(tx[n], wire'[p], Turns(n), Data, 0)
      BY <1>1, <2>1, <3>2, InTimeQueues
    <3>3. CASE wire[p] # <<>> /\ wire'[p] = Tail(wire[p])
      BY <1>1, <2>1, <3>3, InTimeQueues
    <3> QED BY <2>1, <3>1, <3>2, <3>3 DEF p
  <2>3. InTime(tx[n], wire'[n], Turns(n), Flow, Lag)
    BY <1>1, <2>1, InTimeQueues
  <2> QED BY <1>2, <1>4, <2>2, <2>3 DEF Timing, p
<1> QED BY <1>3, <1>4

\* The peer answers what n has sent: the answer is no older than the data was.
LEMMA TimingAnswered ==
    ASSUME TypeOK, TypeOK', NEW p \in Nodes, Timing(Peer(p)), turn' = turn,
           tx'[Peer(p)] = tx[Peer(p)], wire[p] # <<>>, wire[p][1].type \in Data, wire[p][1].age <= Lag,
           wire'[p] = Tail(wire[p]), NEW fs \in Flow, Answered(p, fs)
    PROVE  Timing(Peer(p))'
<1> DEFINE n == Peer(p)
           T == tx[n]
<1>1. /\ n \in Nodes /\ Peer(n) = p /\ wire[n] \in Seq(Frames) /\ wire[p] \in Seq(Frames)
      /\ T \in Channels
  BY Ends DEF TypeOK
<1>2. Turns(n)' = Turns(n) /\ Turns(n) \in Nat /\ Lag \in Nat
  BY <1>1, TurnFacts, NumbersAssumption
<1> HIDE DEF n, T
<1>3. InTime(T, wire[p], Turns(n), Data, 0) /\ InTime(T, wire[n], Turns(n), Flow, Lag)
  BY <1>1 DEF Timing, n, T
<1>4. InTime(T, Tail(wire[p]), Turns(n), Data, 0)
  BY <1>1, <1>3, InTimeQueues
<1>5. T.st = "WAIT_FC" => 2 * (BsTimeout - T.timer) <= Lag + 0 + Turns(n)
  <2> DEFINE a == wire[p][1].age
  <2>1. T.st = "WAIT_FC" => 2 * (BsTimeout - T.timer) <= 0 + a + Turns(n)
    <3>1. 1 \in 1..Len(wire[p])
      BY <1>1, TailFacts
    <3> QED BY <1>3, <3>1 DEF InTime
  <2>2. a \in Nat /\ a <= Lag /\ BsTimeout \in Nat /\ T.timer \in Nat
    <3>1. 1 \in 1..Len(wire[p])
      BY <1>1, TailFacts
    <3> QED BY <1>1, <3>1, Ages, NumbersAssumption DEF Channels
  <2> HIDE DEF a
  <2>3. 0 + a + Turns(n) <= Lag + 0 + Turns(n)
    BY <1>2, <2>2
  <2> QED BY <1>2, <2>1, <2>2, <2>3
<1>6. \A st \in Flow : FC(st, p) \in Frames /\ FC(st, p).age = 0
  BY FrameTypes DEF Flow, FC, Frame
<1>7. fs \in Flow /\ "WAIT" \in Flow
  BY DEF Flow
<1> DEFINE f == FC(fs, p)
           g == FC("WAIT", p)
<1>8. f \in Frames /\ g \in Frames /\ f.age = 0 /\ g.age = 0
  BY <1>6, <1>7
<1>9. wire'[n] = wire[n] \o <<f>> \/ wire'[n] = wire[n] \o <<g, f>>
  BY DEF Answered, n
<1> HIDE DEF f, g
<1>10. InTime(T, wire'[n], Turns(n), Flow, Lag)
  <2>1. <<f>> \in Seq(Frames) /\ Len(<<f>>) = 1 /\ <<f>>[1] = f
    BY <1>8, OneFrame
  <2>2. <<g, f>> \in Seq(Frames) /\ Len(<<g, f>>) = 2 /\ <<g, f>>[1] = g /\ <<g, f>>[2] = f
    BY <1>8, TwoFrames
  <2>3. \A i \in 1..Len(wire'[n]) :
           (i \in 1..Len(wire[n]) /\ wire'[n][i] = wire[n][i]) \/ wire'[n][i] \in {f, g}
    <3>1. CASE wire'[n] = wire[n] \o <<f>>
      BY <1>1, <2>1, <3>1, JoinFacts
    <3>2. CASE wire'[n] = wire[n] \o <<g, f>>
      BY <1>1, <2>2, <3>2, JoinFacts
    <3> QED BY <1>9, <3>1, <3>2
  <2>4. SUFFICES ASSUME T.st = "WAIT_FC", NEW i \in 1..Len(wire'[n]), wire'[n][i].type \in Flow
                 PROVE  2 * (BsTimeout - T.timer) <= Lag + wire'[n][i].age + Turns(n)
    BY DEF InTime
  <2>5. CASE i \in 1..Len(wire[n]) /\ wire'[n][i] = wire[n][i]
    BY <1>3, <2>4, <2>5 DEF InTime
  <2>6. CASE wire'[n][i] \in {f, g}
    <3>1. wire'[n][i].age = 0
      BY <1>8, <2>6
    <3> QED BY <1>5, <2>4, <3>1
  <2> QED BY <2>3, <2>4, <2>5, <2>6
<1> QED BY <1>1, <1>2, <1>4, <1>10 DEF Timing, n, T

\* n takes a frame, and answers it or not.
LEMMA TimingTaken ==
    ASSUME TypeOK, TypeOK', NEW n \in Nodes, Timing(n), turn' = turn, tx'[n] = tx[n],
           wire[n] # <<>>, wire'[n] = Tail(wire[n]),
           wire'[Peer(n)] = wire[Peer(n)] \/ \E fs \in Flow : Answered(n, fs)
    PROVE  Timing(n)'
<1>1. \A fs \in Flow : FC(fs, n) \in Frames /\ FC(fs, n).type \notin Data
  BY FrameTypes DEF Flow, Data, FC, Frame
<1>2. "WAIT" \in Flow
  BY DEF Flow
<1>3. CASE wire'[Peer(n)] = wire[Peer(n)]
  BY <1>3, TimingKept
<1>4. ASSUME NEW fs \in Flow, Answered(n, fs) PROVE Timing(n)'
  <2> DEFINE f == FC(fs, n)
             g == FC("WAIT", n)
  <2>1. f \in Frames /\ g \in Frames /\ f.type \notin Data /\ g.type \notin Data
    BY <1>1, <1>2
  <2>2. wire'[Peer(n)] = wire[Peer(n)] \o <<f>> \/ wire'[Peer(n)] = wire[Peer(n)] \o <<g, f>>
    BY <1>4 DEF Answered
  <2> HIDE DEF f, g
  <2> QED BY <2>1, <2>2, TimingKept
<1> QED BY <1>3, <1>4

\* The tick of n: a wait goes on, or is set anew, or over.
LEMMA TimingTicked ==
    ASSUME TypeOK, TypeOK', NEW n \in Nodes, Timing(n), Passes(n),
           \/ tx'[n].st # "WAIT_FC" \/ tx'[n].timer = BsTimeout
           \/ /\ wire'[Peer(n)] = Older(wire[Peer(n)])
              /\ tx[n].st = "WAIT_FC" /\ tx'[n].timer >= tx[n].timer - 1
    PROVE  Timing(n)'
<1> DEFINE p == Peer(n)
<1>1. /\ p \in Nodes /\ wire[n] \in Seq(Frames) /\ wire[p] \in Seq(Frames)
      /\ wire'[n] \in Seq(Frames) /\ wire'[p] \in Seq(Frames)
      /\ tx[n] \in Channels /\ tx'[n] \in Channels
  BY Ends DEF TypeOK
<1>2. Turns(n) = 0 /\ Turns(n)' = 1 /\ Lag \in Nat
  BY TurnFacts, NumbersAssumption DEF Passes
<1>3. wire'[n] = Older(wire[n])
  BY DEF Passes
<1> HIDE DEF p
<1>4. CASE tx'[n].st # "WAIT_FC" \/ tx'[n].timer = BsTimeout
  BY <1>1, <1>2, <1>4, InTimeFresh DEF Timing, p
<1>5. CASE /\ wire'[p] = Older(wire[p])
           /\ tx[n].st = "WAIT_FC" /\ tx'[n].timer >= tx[n].timer - 1
  <2>1. InTime(tx[n], wire[p], 0, Data, 0) /\ InTime(tx[n], wire[n], 0, Flow, Lag)
    BY <1>2 DEF Timing, p
  <2>2. InTime(tx'[n], Older(wire[p]), 1 - 0, Data, 0)
    BY <1>1, <1>5, <2>1, InTimeOlder
  <2>3. InTime(tx'[n], Older(wire[n]), 1 - 0, Flow, Lag)
    BY <1>1, <1>2, <1>5, <2>1, InTimeOlder
  <2> QED BY <1>2, <1>3, <1>5, <2>2, <2>3 DEF Timing, p
<1> QED BY <1>4, <1>5 DEF p

\* The tick of the other end.
LEMMA TimingPassed ==
    ASSUME TypeOK, TypeOK', NEW p \in Nodes, Timing(Peer(p)), Passes(p),
           \/ wire'[Peer(p)] = Older(wire[Peer(p)])
           \/ \E f \in Frames : f.type \notin Flow /\ wire'[Peer(p)] = Older(wire[Peer(p)]) \o <<f>>
    PROVE  Timing(Peer(p))'
<1> DEFINE n == Peer(p)
<1>1. /\ n \in Nodes /\ Peer(n) = p /\ wire[n] \in Seq(Frames) /\ wire[p] \in Seq(Frames)
      /\ tx[n] \in Channels
  BY Ends DEF TypeOK
<1>2. Turns(n) = 1 /\ Turns(n)' = 0 /\ Lag \in Nat /\ wire'[p] = Older(wire[p]) /\ tx'[n] = tx[n]
  BY <1>1, TurnFacts, NumbersAssumption DEF Passes
<1> HIDE DEF n
<1>3. InTime(tx[n], wire[p], 1, Data, 0) /\ InTime(tx[n], wire[n], 1, Flow, Lag)
  BY <1>1, <1>2 DEF Timing, n
<1>4. InTime(tx[n], Older(wire[p]), 1 - 1, Data, 0)
  BY <1>1, <1>3, InTimeOlder
<1>5. InTime(tx[n], Older(wire[n]), 0, Flow, Lag)
  <2>1. InTime(tx[n], Older(wire[n]), 1 - 1, Flow, Lag)
    BY <1>1, <1>2, <1>3, InTimeOlder
  <2>2. 1 - 1 = 0
    OBVIOUS
  <2> QED BY <2>1, <2>2
<1>6. InTime(tx[n], wire'[n], 0, Flow, Lag)
  <2>1. Older(wire[n]) \in Seq(Frames)
    BY <1>1, OlderFacts
  <2>2. ASSUME NEW f \in Frames, f.type \notin Flow, wire'[n] = Older(wire[n]) \o <<f>>
        PROVE  InTime(tx[n], wire'[n], 0, Flow, Lag)
    BY <1>5, <2>1, <2>2, InTimeQueues
  <2> QED BY <1>5, <2>2 DEF n
<1> QED BY <1>1, <1>2, <1>4, <1>6 DEF Timing, n

\* No action of either end, and no loss, makes a sender wait longer than its frames.
LEMMA TimingNext ==
    ASSUME Linked, NEW a \in Nodes, Timing(a), Timing(Peer(a)),
           \/ \E m \in Msgs : Transmit(a, m) \/ TransmitRefused(a, m) \/ TransmitBusy(a, m)
           \/ Receive(a) \/ Tick(a) \/ Lose(a) \/ ResetRx(a) \/ ResetTx(a)
    PROVE  Timing(a)' /\ Timing(Peer(a))'
<1> DEFINE p == Peer(a)
<1>1. TypeOK /\ InBuffer /\ p \in Nodes /\ Peer(p) = a
  BY Ends DEF Linked
<1>0. Timing(a) /\ Timing(p) /\ a \in Nodes
  OBVIOUS
<1>2. ASSUME NEW m \in Msgs, Transmit(a, m) PROVE Timing(a)' /\ Timing(p)'
  <2>1. /\ TypeOK' /\ Alone(a) /\ tx'[a] = Started(m) /\ turn' = turn /\ wire'[a] = wire[a]
        /\ \E f \in FirstFrames(m) : f \in Frames /\ wire'[p] = wire[p] \o <<f>>
    BY <1>1, <1>2, TransmitStep
  <2>2. \A f \in FirstFrames(m) : f.type \notin Flow
    BY DEF FirstFrames, SF, Func, FF, Frame, Flow
  <2>3. tx'[a].st # "WAIT_FC" \/ tx'[a].timer = BsTimeout
    BY <2>1 DEF Started, TxIdle
  <2>4. Timing(a)'
    <3>1. Turns(a)' \in Nat /\ Lag \in Nat /\ wire'[a] \in Seq(Frames) /\ wire'[p] \in Seq(Frames)
      BY <1>1, <2>1, TurnFacts, NumbersAssumption DEF TypeOK
    <3> QED BY <2>3, <3>1, InTimeFresh DEF Timing
  <2>5. Timing(p)'
    BY <1>1, <2>1, <2>2, TimingKept DEF Alone
  <2> QED BY <2>4, <2>5
<1>3. ASSUME NEW m \in Msgs, TransmitRefused(a, m) \/ TransmitBusy(a, m)
      PROVE  Timing(a)' /\ Timing(p)'
  <2>1. TypeOK' /\ turn' = turn /\ wire' = wire
    BY <1>1, <1>3, TransmitRefusedStep, TransmitBusyStep
  <2>2. (tx'[a] = tx[a] \/ tx'[a].st # "WAIT_FC") /\ tx'[p] = tx[p]
    BY <1>1, <1>3, TransmitRefusedStep, TransmitBusyStep, ChannelTypes DEF Alone, Busy
  <2> QED BY <1>1, <2>1, <2>2, TimingKept
<1>4. CASE ReceiveSingle(a)
  BY <1>1, <1>4, SingleStep, TimingKept
<1>5. CASE ReceiveFirst(a)
  <2>1. /\ TypeOK' /\ tx' = tx /\ turn' = turn /\ wire[a] # <<>> /\ wire[a][1].type = "FF"
        /\ wire'[a] = Tail(wire[a])
        /\ wire'[p] = wire[p] \/ Answered(a, "OVFLW") \/ Answered(a, "CTS")
    BY <1>1, <1>5, FirstStep
  <2>2. wire[a][1].age <= Lag
    BY <2>1, AtHead DEF Sound
  <2>3. "FF" \in Data /\ "OVFLW" \in Flow /\ "CTS" \in Flow
    BY DEF Data, Flow
  <2>4. Timing(a)'
    BY ONLY <1>0, <1>1, <2>1, <2>3, TimingTaken
  <2>5. CASE wire'[p] = wire[p]
    BY ONLY <1>0, <1>1, <2>1, <2>5, TimingKept
  <2>6. wire[a][1].type \in Data /\ tx'[p] = tx[p]
    BY <2>1, <2>3
  <2>7. ASSUME NEW fs \in Flow, Answered(a, fs) PROVE Timing(p)'
    BY ONLY <1>0, <1>1, <2>1, <2>2, <2>6, <2>7, fs \in Flow, TimingAnswered
  <2> QED BY <2>1, <2>3, <2>4, <2>5, <2>7
<1>6. CASE ReceiveStray(a)
  BY <1>1, <1>6, StrayStep, TimingKept
<1>7. CASE ReceiveLast(a)
  BY <1>1, <1>7, LastStep, ExtendedFacts, TimingKept
<1>8. CASE ReceiveNext(a)
  <2>1. /\ TypeOK' /\ tx' = tx /\ turn' = turn /\ InSequence(a) /\ wire'[a] = Tail(wire[a])
        /\ wire'[p] = wire[p] \/ Answered(a, "CTS")
    BY <1>1, <1>8, NextStep
  <2>2. wire[a] # <<>> /\ wire[a][1].type = "CF"
    BY <1>1, <2>1, ExtendedFacts
  <2>3. wire[a][1].age <= Lag /\ "CF" \in Data /\ "CTS" \in Flow
    BY <2>2, AtHead DEF Sound, Data, Flow
  <2>4. Timing(a)'
    BY ONLY <1>0, <1>1, <2>1, <2>2, <2>3, TimingTaken
  <2>5. CASE wire'[p] = wire[p]
    BY ONLY <1>0, <1>1, <2>1, <2>2, <2>5, TimingKept
  <2>6. wire[a][1].type \in Data /\ tx'[p] = tx[p]
    BY <2>1, <2>2, <2>3
  <2>7. ASSUME NEW fs \in Flow, Answered(a, fs) PROVE Timing(p)'
    BY ONLY <1>0, <1>1, <2>1, <2>2, <2>3, <2>6, <2>7, fs \in Flow, TimingAnswered
  <2> QED BY <2>1, <2>3, <2>4, <2>5, <2>7
<1>9. CASE ReceiveFlow(a)
  <2>1. /\ TypeOK' /\ turn' = turn /\ wire[a] # <<>>
        /\ wire'[a] = Tail(wire[a]) /\ wire'[p] = wire[p] /\ tx'[p] = tx[p]
    BY <1>1, <1>9, FlowStep
  <2>2. tx'[a] = tx[a] \/ tx'[a].st # "WAIT_FC" \/ tx'[a].timer = BsTimeout
    <3>1. tx[a] \in Channels
      BY <1>1 DEF TypeOK
    <3>2. \A f : Cleared(tx[a], f).st = "SEND_CF"
      BY <3>1 DEF Cleared, Channels
    <3>3. [tx[a] EXCEPT !.timer = BsTimeout].timer = BsTimeout
      BY <3>1 DEF Channels
    <3> QED BY <1>1, <1>9, <3>2, <3>3, FlowStep DEF TxError, TxIdle
  <2> QED BY ONLY <1>0, <1>1, <2>1, <2>2, TimingKept
<1>10. CASE TickCr(a)
  <2>1. TypeOK' /\ Passes(a) /\ tx' = tx /\ wire'[p] = Older(wire[p])
    BY <1>1, <1>10, TickCrStep
  <2>2. tx[a].timer >= tx[a].timer - 1
    <3>1. tx[a] \in Channels
      BY <1>1 DEF TypeOK
    <3>2. tx[a].timer \in Nat
      BY <3>1 DEF Channels
    <3> QED BY <3>2
  <2>3. Timing(a)'
    BY ONLY <1>0, <1>1, <2>1, <2>2, TimingTicked
  <2> QED BY ONLY <1>0, <1>1, <2>1, <2>3, TimingPassed
<1>11. CASE TickWait(a)
  <2>1. TypeOK' /\ Passes(a) /\ wire'[p] = Older(wire[p])
    BY <1>1, <1>11, TickWaitStep
  <2>2. \/ tx'[a].st # "WAIT_FC"
        \/ tx[a].st = "WAIT_FC" /\ tx'[a].timer >= tx[a].timer - 1
    <3>1. tx[a] \in Channels
      BY <1>1 DEF TypeOK
    <3>2. \/ tx'[a] = TxError
          \/ tx'[a] = [tx[a] EXCEPT !.timer = Minus1(@)]
      BY <1>1, <1>11, TickWaitStep
    <3>3. TxError.st # "WAIT_FC"
      BY DEF TxError, TxIdle
    <3>4. /\ [tx[a] EXCEPT !.timer = Minus1(@)].st = tx[a].st
          /\ [tx[a] EXCEPT !.timer = Minus1(@)].timer = Minus1(tx[a].timer)
      BY <3>1 DEF Channels
    <3>5. Minus1(tx[a].timer) >= tx[a].timer - 1
      BY <3>1 DEF Channels, Minus1
    <3> QED BY <3>2, <3>3, <3>4, <3>5
  <2>3. Timing(a)'
    BY ONLY <1>0, <1>1, <2>1, <2>2, TimingTicked
  <2> QED BY ONLY <1>0, <1>1, <2>1, <2>3, TimingPassed
<1>12. CASE TickPump(a)
  <2>1. TypeOK' /\ Passes(a) /\ tx[a].st = "SEND_CF" /\ tx[a] \in Channels
    BY <1>1, <1>12, TickPumpStep DEF TypeOK
  <2>2. \/ tx'[a] = Pumped(tx[a]) /\ wire'[p] = Older(wire[p]) \o <<NextFrame(a)>>
        \/ tx'[a] = TxError /\ wire'[p] = Older(wire[p])
    BY <1>1, <1>12, TickPumpStep
  <2>3. NextFrame(a) \in Frames \/ wire'[p] = Older(wire[p])
    BY <1>1, <1>12, TickPumpStep
  <2>4. NextFrame(a).type \notin Flow
    BY DEF NextFrame, CF, Frame, Flow
  <2>5. tx'[a].st # "WAIT_FC" \/ tx'[a].timer = BsTimeout
    <3>1. TxError.st # "WAIT_FC" /\ TxIdle.st # "WAIT_FC"
      BY DEF TxError, TxIdle
    <3>2. Pumped(tx[a]).st # "WAIT_FC" \/ Pumped(tx[a]).timer = BsTimeout
      BY <2>1, <3>1, PumpedFacts
    <3> QED BY <2>2, <3>1, <3>2
  <2>6. Timing(a)'
    BY ONLY <1>0, <1>1, <2>1, <2>5, TimingTicked
  <2> QED BY ONLY <1>0, <1>1, <2>1, <2>2, <2>3, <2>4, <2>6, TimingPassed
<1>13. CASE Lose(a)
  BY <1>1, <1>13, LoseStep, TimingKept
<1>14. CASE ResetRx(a)
  BY <1>1, <1>14, ResetRxStep, TimingKept
<1>15. CASE ResetTx(a)
  BY <1>1, <1>15, ResetTxStep, TimingKept, ChannelTypes DEF Busy
<1> QED BY <1>2, <1>3, <1>4, <1>5, <1>6, <1>7, <1>8, <1>9, <1>10, <1>11, <1>12, <1>13, <1>14, <1>15
        DEF Receive, Tick

-----------------------------------------------------------------------------
(* Order in both directions, kept by every action but a repetition. *)

Direction(n) ==
    Order(tx[n], buf[n], rx[Peer(n)], wire[Peer(n)], wire[n], BlockSize[Peer(n)])

SameSender(n) ==
    \/ /\ tx'[n].st = tx[n].st /\ tx'[n].sent = tx[n].sent /\ tx'[n].blocks = tx[n].blocks
       /\ buf'[n] = buf[n]
    \/ ~Busy(tx[n]) /\ ~Busy(tx'[n])

SameReceiver(n) ==
    \/ rx'[n].st = rx[n].st /\ rx'[n].data = rx[n].data /\ rx'[n].blocks = rx[n].blocks
    \/ rx'[n].st # "WAIT_CF"

DirectionTypes(n) ==
    /\ Peer(n) \in Nodes /\ Peer(Peer(n)) = n
    /\ tx[n] \in Channels /\ tx'[n] \in Channels /\ rx[Peer(n)] \in Reassemblies
    /\ wire[n] \in Seq(Frames) /\ wire'[n] \in Seq(Frames)
    /\ wire[Peer(n)] \in Seq(Frames) /\ wire'[Peer(n)] \in Seq(Frames)
    /\ BlockSize[Peer(n)] \in Nat

LEMMA DirectionIsTyped ==
    ASSUME TypeOK, TypeOK', NEW n \in Nodes
    PROVE  DirectionTypes(n)
  BY Ends, NumbersAssumption DEF TypeOK, DirectionTypes

LEMMA DirectionKept ==
    ASSUME TypeOK, TypeOK', NEW n \in Nodes, Direction(n), SameSender(n), SameReceiver(Peer(n)),
           Kept(wire[Peer(n)], wire'[Peer(n)], Data), Kept(wire[n], wire'[n], Flow)
    PROVE  Direction(n)'
<1> DEFINE p == Peer(n)
<1>1. DirectionTypes(n)
  BY DirectionIsTyped
<1>2. Order(tx[n], buf[n], rx[p], wire[p], wire[n], BlockSize[p])
  BY DEF Direction
<1>3. /\ \/ tx'[n].st = tx[n].st /\ tx'[n].sent = tx[n].sent /\ tx'[n].blocks = tx[n].blocks
            /\ buf'[n] = buf[n]
         \/ ~Busy(tx[n]) /\ ~Busy(tx'[n])
      /\ \/ rx'[p].st = rx[p].st /\ rx'[p].data = rx[p].data /\ rx'[p].blocks = rx[p].blocks
         \/ ~Reassembling(rx'[p])
      /\ Kept(wire[p], wire'[p], Data) /\ Kept(wire[n], wire'[n], Flow)
  BY DEF SameSender, SameReceiver, Reassembling
<1>4. Order(tx'[n], buf'[n], rx'[p], wire'[p], wire'[n], BlockSize[p])
  BY ONLY <1>1, <1>2, <1>3, OrderKept DEF DirectionTypes
<1> QED BY <1>4 DEF Direction

\* The queue of n after flow control joined it, as far as data goes.
LEMMA AnsweredKept ==
    ASSUME TypeOK, NEW n \in Nodes, NEW fs \in Flow, Answered(n, fs)
    PROVE  Kept(wire[Peer(n)], wire'[Peer(n)], Data)
<1>1. FC(fs, n) \in Frames /\ FC("WAIT", n) \in Frames
  BY FrameTypes DEF Flow
<1>2. FC(fs, n).type \notin Data /\ FC("WAIT", n).type \notin Data
  BY DEF FC, Frame, Flow, Data
<1>3. wire[Peer(n)] \in Seq(Frames)
  BY Ends DEF TypeOK
<1> QED BY <1>1, <1>2, <1>3, KeptFrames DEF Answered

LEMMA Untouched ==
    ASSUME TypeOK, NEW n \in Nodes
    PROVE  /\ \A types : Kept(wire[n], wire[n], types)
           /\ \A types : wire[n] # <<>> => Kept(wire[n], Tail(wire[n]), types)
           /\ \A types : Kept(wire[n], Older(wire[n]), types)
           /\ tx'[n] = tx[n] /\ buf'[n] = buf[n] => SameSender(n)
           /\ rx'[n] = rx[n] \/ rx'[n].st # "WAIT_CF" => SameReceiver(n)
<1>1. wire[n] \in Seq(Frames)
  BY DEF TypeOK
<1> QED BY <1>1, KeptFrames DEF SameSender, SameReceiver

LEMMA DirectionTransmit ==
    ASSUME Linked, NEW n \in Nodes, Direction(n), Direction(Peer(n)), NEW m \in Msgs, Transmit(n, m)
    PROVE  Direction(n)' /\ Direction(Peer(n))'
<1> DEFINE p == Peer(n)
<1>1. TypeOK /\ InBuffer /\ Link(n) /\ p \in Nodes /\ Peer(p) = n
  BY Ends DEF Linked
<1>2. /\ TypeOK' /\ Alone(n) /\ ~Busy(tx[n]) /\ tx'[n] = Started(m) /\ m \in unsent[n]
      /\ \A i \in 1..Cells[m] : buf'[n][i] = m
      /\ rx' = rx /\ wire'[n] = wire[n]
  BY <1>1, TransmitStep
<1>3. PICK f \in FirstFrames(m) : f \in Frames /\ wire'[p] = wire[p] \o <<f>>
  BY <1>1, TransmitStep
<1>4. DirectionTypes(n) /\ DirectionTypes(p)
  BY <1>1, <1>2, DirectionIsTyped
<1>5. f.type \notin Flow
  BY DEF FirstFrames, SF, Func, FF, Frame, Flow
<1>6. Direction(n)'
  <2>1. CASE Cells[m] = 1
    <3>1. f.type \notin Data
      BY <2>1 DEF FirstFrames, SF, Func, Frame, Data
    <3>2. SameSender(n) /\ SameReceiver(p)
      BY <1>2, <2>1, ChannelTypes DEF Started, SameSender, SameReceiver
    <3>3. Kept(wire[p], wire'[p], Data) /\ Kept(wire[n], wire'[n], Flow)
      BY <1>2, <1>3, <1>4, <3>1, KeptFrames DEF DirectionTypes
    <3> QED BY <1>1, <1>2, <3>2, <3>3, DirectionKept
  <2>2. CASE Cells[m] # 1
    <3>1. f.type = "FF" /\ f.cell[1] = m
      BY <2>2 DEF FirstFrames, FF, Frame
    <3>2. tx'[n].st = "WAIT_FC" /\ tx'[n].sent = 1
      BY <1>2, <2>2 DEF Started, TxIdle
    <3>3. buf'[n][1] = m
      <4>1. 1 \in 1..Cells[m]
        BY Lengths
      <4> QED BY <1>2, <4>1
    <3>4. Reassembling(rx[p]) => Of(rx[p]) # m
      BY <1>1, <1>2 DEF Link, Receiver
    <3>5. Order(tx[n], buf[n], rx[p], wire[p], wire[n], BlockSize[p])
      BY DEF Direction
    <3>6. Order(tx'[n], buf'[n], rx[p], wire[p] \o <<f>>, wire[n], BlockSize[p])
      BY ONLY <1>2, <1>3, <1>4, <3>1, <3>2, <3>3, <3>4, <3>5, OrderStarts DEF DirectionTypes
    <3> QED BY <1>2, <1>3, <3>6 DEF Direction
  <2> QED BY <2>1, <2>2
<1>7. Direction(p)'
  <2>1. Kept(wire[p], wire'[p], Flow)
    BY <1>3, <1>4, <1>5, KeptFrames DEF DirectionTypes
  <2>2. SameSender(p) /\ SameReceiver(n) /\ Kept(wire[n], wire'[n], Data)
    BY <1>1, <1>2, Untouched DEF Alone
  <2> QED BY <1>1, <1>2, <2>1, <2>2, DirectionKept
<1> QED BY <1>6, <1>7

\* n at most takes a frame, gives a reception up, or ends where it was idle.
Quiet(n) ==
    /\ wire'[n] = wire[n] \/ (wire[n] # <<>> /\ wire'[n] = Tail(wire[n]))
    /\ wire'[Peer(n)] = wire[Peer(n)]
    /\ (tx'[n] = tx[n] /\ buf'[n] = buf[n]) \/ (~Busy(tx[n]) /\ ~Busy(tx'[n]))
    /\ tx'[Peer(n)] = tx[Peer(n)] /\ buf'[Peer(n)] = buf[Peer(n)] /\ rx'[Peer(n)] = rx[Peer(n)]
    /\ rx'[n] = rx[n] \/ rx'[n].st # "WAIT_CF"

\* Actions that move neither end of a transfer.
LEMMA DirectionQuiet ==
    ASSUME Patient, Linked, NEW n \in Nodes, Direction(n), Direction(Peer(n)),
           \/ \E m \in Msgs : TransmitRefused(n, m) \/ TransmitBusy(n, m)
           \/ ReceiveSingle(n) \/ ReceiveStray(n) \/ ReceiveLast(n)
           \/ Lose(n) \/ ResetRx(n) \/ ResetTx(n)
    PROVE  Direction(n)' /\ Direction(Peer(n))'
<1> DEFINE p == Peer(n)
<1>1. TypeOK /\ InBuffer /\ n \in Nodes /\ p \in Nodes /\ Peer(p) = n
  BY Ends DEF Linked
<1>2. Direction(n) /\ Direction(p) /\ Patient
  OBVIOUS
<1>3. TypeOK' /\ Quiet(n)
  <2>1. ASSUME NEW m \in Msgs, TransmitRefused(n, m) PROVE TypeOK' /\ Quiet(n)
    BY ONLY <1>1, <2>1, TransmitRefusedStep, ChannelTypes DEF Alone, Quiet
  <2>2. ASSUME NEW m \in Msgs, TransmitBusy(n, m) PROVE TypeOK' /\ Quiet(n)
    BY ONLY <1>1, <1>2, <2>2, TransmitBusyStep DEF Alone, Quiet
  <2>3. CASE ReceiveSingle(n)
    BY ONLY <1>1, <2>3, SingleStep, ChannelTypes DEF Quiet
  <2>4. CASE ReceiveStray(n)
    BY ONLY <1>1, <2>4, StrayStep DEF Quiet
  <2>5. CASE ReceiveLast(n)
    BY ONLY <1>1, <2>5, LastStep, ExtendedFacts, ChannelTypes DEF Quiet
  <2>6. CASE Lose(n)
    BY ONLY <1>1, <2>6, LoseStep DEF Quiet
  <2>7. CASE ResetRx(n)
    BY ONLY <1>1, <2>7, ResetRxStep, ChannelTypes DEF Quiet
  <2>8. CASE ResetTx(n)
    BY ONLY <1>1, <2>8, ResetTxStep, ChannelTypes DEF Quiet
  <2> QED BY <2>1, <2>2, <2>3, <2>4, <2>5, <2>6, <2>7, <2>8
<1>4. /\ SameSender(n) /\ SameSender(p) /\ SameReceiver(n) /\ SameReceiver(p)
      /\ \A types : Kept(wire[n], wire'[n], types) /\ Kept(wire[p], wire'[p], types)
  BY <1>1, <1>3, Untouched DEF SameSender, Quiet
<1> QED BY ONLY <1>1, <1>2, <1>3, <1>4, DirectionKept

\* n takes a frame that its peer has sent as data; what it answers goes the other way.
LEMMA DirectionBack ==
    ASSUME TypeOK, TypeOK', NEW n \in Nodes, Direction(n),
           tx' = tx, buf' = buf, rx'[Peer(n)] = rx[Peer(n)],
           wire[n] # <<>>, wire'[n] = Tail(wire[n]),
           wire'[Peer(n)] = wire[Peer(n)] \/ \E fs \in Flow : Answered(n, fs)
    PROVE  Direction(n)'
<1>1. SameSender(n) /\ SameReceiver(Peer(n)) /\ Kept(wire[n], wire'[n], Flow)
  BY Untouched, Ends DEF SameSender, SameReceiver
<1>2. Kept(wire[Peer(n)], wire'[Peer(n)], Data)
  BY AnsweredKept, Untouched, Ends
<1> QED BY ONLY <1>1, <1>2, TypeOK, TypeOK', n \in Nodes, Direction(n), DirectionKept

LEMMA DirectionFirst ==
    ASSUME Linked, NEW n \in Nodes, Direction(n), Direction(Peer(n)), ReceiveFirst(n)
    PROVE  Direction(n)' /\ Direction(Peer(n))'
<1> DEFINE p == Peer(n)
<1>1. TypeOK /\ InBuffer /\ p \in Nodes /\ Peer(p) = n
  BY Ends DEF Linked
<1>2. /\ TypeOK' /\ tx' = tx /\ buf' = buf
      /\ wire[n] # <<>> /\ wire[n][1].type = "FF"
      /\ wire'[n] = Tail(wire[n]) /\ rx'[p] = rx[p]
      /\ \/ rx'[n] = RxError /\ wire'[p] = wire[p]
         \/ rx'[n] = rx[n] /\ Answered(n, "OVFLW")
         \/ rx'[n] = Begun(wire[n][1]) /\ Answered(n, "CTS")
  BY <1>1, FirstStep
<1>3. DirectionTypes(p)
  BY <1>1, <1>2, DirectionIsTyped
<1>4. Direction(n)'
  BY <1>1, <1>2, DirectionBack DEF Flow
<1>5. Direction(p)'
  <2>1. wire[n][1].cell[2] = 1
    BY <1>2, AtHead DEF Sound
  <2>2. CASE rx'[n] = RxError /\ wire'[p] = wire[p]
    <3>1. SameSender(p) /\ SameReceiver(n) /\ Kept(wire[n], wire'[n], Data)
          /\ Kept(wire[p], wire'[p], Flow)
      BY <1>1, <1>2, <2>2, Untouched, ChannelTypes
    <3> QED BY <1>1, <1>2, <3>1, DirectionKept
  <2>3. Order(tx[p], buf[p], rx[n], wire[n], wire[p], BlockSize[n])
    BY <1>1 DEF Direction
  <2>4. ASSUME NEW fs \in {"CTS", "OVFLW"}, Answered(n, fs),
               IF fs = "CTS" THEN rx'[n] = Begun(wire[n][1]) ELSE rx'[n] = rx[n]
        PROVE  Order(tx[p], buf[p], rx'[n], Tail(wire[n]), wire'[p], BlockSize[n])
    <3>1. wire'[p] = wire[p] \o <<FC(fs, n)>> \/ wire'[p] = wire[p] \o <<FC("WAIT", n), FC(fs, n)>>
      BY <2>4 DEF Answered
    <3>2. /\ tx[p] \in Channels /\ wire[n] \in Seq(Frames) /\ wire[p] \in Seq(Frames)
          /\ wire'[p] \in Seq(Frames) /\ BlockSize[n] \in Nat /\ n \in Nodes
      BY <1>1, <1>3 DEF DirectionTypes
    <3> QED BY ONLY <1>2, <2>1, <2>3, <2>4, <3>1, <3>2, fs \in {"CTS", "OVFLW"}, OrderBegins
  <2>5. CASE rx'[n] = rx[n] /\ Answered(n, "OVFLW")
    BY <1>1, <1>2, <2>4, <2>5 DEF Direction
  <2>6. CASE rx'[n] = Begun(wire[n][1]) /\ Answered(n, "CTS")
    BY <1>1, <1>2, <2>4, <2>6 DEF Direction
  <2> QED BY <1>2, <2>2, <2>5, <2>6
<1> QED BY <1>4, <1>5

LEMMA DirectionNext ==
    ASSUME Linked, NEW n \in Nodes, Direction(n), Direction(Peer(n)), ReceiveNext(n)
    PROVE  Direction(n)' /\ Direction(Peer(n))'
<1> DEFINE p == Peer(n)
           R == rx[n]
           bs == BlockSize[n]
<1>1. TypeOK /\ InBuffer /\ p \in Nodes /\ Peer(p) = n /\ Link(p)
  BY Ends DEF Linked
<1>2. /\ TypeOK' /\ tx' = tx /\ buf' = buf
      /\ InSequence(n) /\ Len(Extended(n)) < R.len
      /\ wire'[n] = Tail(wire[n]) /\ rx'[p] = rx[p]
      /\ \/ rx'[n] = RxError /\ wire'[p] = wire[p]
         \/ /\ rx'[n].st = "WAIT_CF" /\ rx'[n].data = Extended(n)
            /\ IF Full(n) THEN rx'[n].blocks = 0 /\ Answered(n, "CTS")
               ELSE /\ rx'[n].blocks = IF bs = 0 THEN 0 ELSE R.blocks + 1
                    /\ wire'[p] = wire[p]
  BY <1>1, NextStep
<1>3. /\ wire[n] # <<>> /\ wire[n][1].type = "CF" /\ wire[n][1] = Head(wire[n])
      /\ R \in Reassemblies /\ R.st = "WAIT_CF" /\ Len(Extended(n)) = Len(R.data) + 1
  BY <1>1, <1>2, ExtendedFacts
<1>4. Extended(n) = Append(R.data, wire[n][1].cell)
  BY <1>3 DEF Extended
<1>5. DirectionTypes(p)
  BY <1>1, <1>2, DirectionIsTyped
<1>6. Direction(n)'
  <2>1. wire'[p] = wire[p] \/ Answered(n, "CTS")
    BY <1>2
  <2> QED BY <1>1, <1>2, <1>3, <2>1, DirectionBack DEF Flow
<1>7. /\ Of(R) \in Sendable(p) \ unsent[p] /\ R.len = Cells[Of(R)] /\ Num(R, 1) = 1
      /\ Len(R.data) >= 1 /\ (R.blocks < bs \/ R.blocks = 0) /\ Reassembling(R)
  <2>1. Reassembling(R)
    BY <1>3 DEF Reassembling
  <2>2. Len(R.data) \in 1..R.len - 1
    BY <1>1, <2>1 DEF Link, Receiver
  <2> QED BY <1>1, <2>1, <2>2 DEF Link, Receiver
<1>8. tx[p].st = "SEND_CF" => tx[p].bs = bs /\ (bs # 0 => tx[p].blocks < bs)
  BY <1>1 DEF Link, Sender, Busy
<1>9. Order(tx[p], buf[p], R, wire[n], wire[p], bs)
  BY <1>1 DEF Direction
<1>10. /\ tx[p] \in Channels /\ wire[n] \in Seq(Frames) /\ wire[p] \in Seq(Frames)
       /\ wire'[p] \in Seq(Frames) /\ bs \in Nat /\ n \in Nodes
  BY <1>1, <1>5 DEF DirectionTypes
<1>11. CASE rx'[n] = RxError /\ wire'[p] = wire[p]
  <2>1. SameSender(p) /\ SameReceiver(n) /\ Kept(wire[n], wire'[n], Data)
        /\ Kept(wire[p], wire'[p], Flow)
    BY <1>1, <1>2, <1>3, <1>11, Untouched, ChannelTypes
  <2>2. Direction(p)'
    BY <1>1, <1>2, <2>1, DirectionKept
  <2> QED BY <1>6, <2>2
<1>12. CASE /\ rx'[n].st = "WAIT_CF" /\ rx'[n].data = Extended(n)
            /\ ~Full(n) /\ wire'[p] = wire[p]
            /\ rx'[n].blocks = IF bs = 0 THEN 0 ELSE R.blocks + 1
  <2>1. rx'[n].data = Append(R.data, wire[n][1].cell) /\ (bs # 0 => rx'[n].blocks = R.blocks + 1)
    BY <1>4, <1>12
  <2> HIDE DEF R, bs
  <2>2. Order(tx[p], buf[p], rx'[n], Tail(wire[n]), wire[p], bs)
    BY ONLY <1>3, <1>7, <1>9, <1>10, <1>12, <2>1, OrderGathers
  <2> QED BY <1>1, <1>2, <1>6, <1>12, <2>2 DEF Direction, bs
<1>13. CASE /\ rx'[n].st = "WAIT_CF" /\ rx'[n].data = Extended(n) /\ rx'[n].blocks = 0
            /\ Full(n) /\ Answered(n, "CTS")
  <2>1. rx'[n].data = Append(R.data, wire[n][1].cell)
    BY <1>4, <1>13
  <2>2. bs # 0 /\ R.blocks + 1 >= bs /\ R.blocks < bs
    BY <1>7, <1>10, <1>13 DEF Full
  <2>3. Len(R.data) + 1 < Cells[Of(R)]
    BY <1>2, <1>3, <1>7
  <2>4. wire'[p] = wire[p] \o <<FC("CTS", n)>> \/ wire'[p] = wire[p] \o <<FC("WAIT", n), FC("CTS", n)>>
    BY <1>13 DEF Answered
  <2> HIDE DEF R, bs
  <2>5. Order(tx[p], buf[p], rx'[n], Tail(wire[n]), wire'[p], bs)
    BY ONLY <1>3, <1>7, <1>8, <1>9, <1>10, <1>13, <2>1, <2>2, <2>3, <2>4, OrderFills
  <2> QED BY <1>1, <1>2, <1>6, <2>5 DEF Direction, bs
<1> QED BY <1>2, <1>11, <1>12, <1>13

LEMMA DirectionFlow ==
    ASSUME Linked, NEW n \in Nodes, Direction(n), Direction(Peer(n)), ReceiveFlow(n)
    PROVE  Direction(n)' /\ Direction(Peer(n))'
<1> DEFINE p == Peer(n)
<1>1. TypeOK /\ InBuffer /\ p \in Nodes /\ Peer(p) = n
  BY Ends DEF Linked
<1>2. /\ TypeOK' /\ rx' = rx /\ buf' = buf
      /\ wire[n] # <<>> /\ wire[n][1].type \in Flow
      /\ wire'[n] = Tail(wire[n]) /\ wire'[p] = wire[p] /\ tx'[p] = tx[p]
      /\ \/ tx[n].st # "WAIT_FC" /\ tx'[n] = tx[n]
         \/ wire[n][1].type = "CTS" /\ tx'[n] = Cleared(tx[n], wire[n][1])
         \/ tx'[n] = [tx[n] EXCEPT !.timer = BsTimeout]
         \/ /\ tx[n].st = "WAIT_FC" /\ wire[n][1].type = "OVFLW"
            /\ tx'[n] = TxError
  BY <1>1, FlowStep DEF Flow
<1>3. DirectionTypes(n) /\ wire[n][1] \in Frames
  BY <1>1, <1>2, DirectionIsTyped, AtHead
<1>4. Direction(p)'
  <2>1. SameSender(p) /\ SameReceiver(n) /\ Kept(wire[n], wire'[n], Data)
        /\ Kept(wire[p], wire'[p], Flow)
    BY <1>1, <1>2, Untouched
  <2> QED BY <1>1, <1>2, <2>1, DirectionKept
<1>5. /\ Kept(wire[n], wire'[n], Flow) /\ Kept(wire[p], wire'[p], Data) /\ SameReceiver(p)
  BY <1>1, <1>2, Untouched
<1>6. Order(tx[n], buf[n], rx[p], wire[p], wire[n], BlockSize[p])
  BY DEF Direction
<1>7. CASE tx'[n] = tx[n] \/ tx'[n] = [tx[n] EXCEPT !.timer = BsTimeout]
  <2>1. SameSender(n)
    <3>1. LET T2 == [tx[n] EXCEPT !.timer = BsTimeout]
          IN  T2.st = tx[n].st /\ T2.sent = tx[n].sent /\ T2.blocks = tx[n].blocks
      BY <1>3 DEF Channels, DirectionTypes
    <3> QED BY <1>2, <1>7, <3>1 DEF SameSender
  <2> QED BY <1>1, <1>2, <1>4, <1>5, <2>1, DirectionKept
<1>8. CASE wire[n][1].type = "CTS" /\ tx'[n] = Cleared(tx[n], wire[n][1])
  <2>1. Order(tx'[n], buf[n], rx[p], wire[p], Tail(wire[n]), BlockSize[p])
    BY ONLY <1>2, <1>3, <1>6, <1>8, OrderClears DEF DirectionTypes
  <2> QED BY <1>2, <1>4, <2>1 DEF Direction
<1>9. CASE wire[n][1].type = "OVFLW" /\ tx'[n] = TxError
  <2>1. /\ \A i \in 1..Len(wire[p]) : wire[p][i].type \notin Data
        /\ \A i \in 1..Len(wire[n]) : i > 1 => wire[n][i].type \notin Flow
    <3>1. 1 \in 1..Len(wire[n])
      BY <1>2, <1>3, TailFacts DEF DirectionTypes
    <3> QED BY <1>2, <1>6, <1>9, <3>1 DEF Order, FlowAlone
  <2>2. \A i \in 1..Len(wire'[n]) : wire'[n][i].type \notin Flow
    <3>1. \A i \in 1..Len(wire'[n]) : i + 1 \in 1..Len(wire[n]) /\ i + 1 > 1
                                       /\ wire'[n][i] = wire[n][i + 1]
      BY <1>2, <1>3, TailFacts DEF DirectionTypes
    <3> QED BY <2>1, <3>1
  <2>3. /\ \A i \in 1..Len(wire'[p]) : wire'[p][i].type # "FF"
        /\ \A i \in 1..Len(wire[p]) : wire[p][i].type # "CF"
        /\ ~Busy(tx'[n])
        /\ rx'[p].st = rx[p].st /\ rx'[p].data = rx[p].data /\ rx'[p].blocks = rx[p].blocks
    BY <1>2, <1>9, <2>1, ChannelTypes DEF Data
  <2>4. Order(tx'[n], buf[n], rx'[p], wire'[p], wire'[n], BlockSize[p])
    BY ONLY <1>3, <1>5, <1>6, <2>2, <2>3, OrderStops DEF DirectionTypes
  <2> QED BY <1>2, <1>4, <2>4 DEF Direction
<1> QED BY <1>2, <1>7, <1>8, <1>9

\* A tick that leaves the sender's place as it is.
LEMMA DirectionPasses ==
    ASSUME TypeOK, TypeOK', NEW n \in Nodes, Passes(n), Direction(Peer(n)),
           SameReception(n) \/ rx'[n] = RxError,
           \/ wire'[Peer(n)] = Older(wire[Peer(n)])
           \/ \E f \in Frames : f.type \notin Flow /\ wire'[Peer(n)] = Older(wire[Peer(n)]) \o <<f>>
    PROVE  Direction(Peer(n))'
<1> DEFINE p == Peer(n)
<1>1. /\ p \in Nodes /\ Peer(p) = n /\ wire[n] \in Seq(Frames) /\ wire[p] \in Seq(Frames)
      /\ tx'[p] = tx[p] /\ buf'[p] = buf[p] /\ wire'[n] = Older(wire[n])
  BY Ends DEF TypeOK, Passes
<1>2. SameSender(p) /\ SameReceiver(n)
  BY <1>1, ChannelTypes DEF SameSender, SameReceiver, SameReception
<1>3. Kept(wire[n], wire'[n], Data) /\ Kept(wire[p], wire'[p], Flow)
  BY <1>1, KeptFrames
<1> QED BY ONLY <1>1, <1>2, <1>3, TypeOK, TypeOK', Direction(Peer(n)), DirectionKept

\* The sender's own side of it.
LEMMA DirectionRests ==
    ASSUME TypeOK, TypeOK', NEW n \in Nodes, Passes(n), Direction(n), SameSender(n),
           wire'[Peer(n)] = Older(wire[Peer(n)])
    PROVE  Direction(n)'
<1>1. /\ Peer(n) \in Nodes /\ Peer(Peer(n)) = n
      /\ wire'[n] = Older(wire[n]) /\ rx'[Peer(n)] = rx[Peer(n)]
  BY Ends DEF Passes
<1>2. SameReceiver(Peer(n)) /\ Kept(wire[n], wire'[n], Flow) /\ Kept(wire[Peer(n)], wire'[Peer(n)], Data)
  BY <1>1, Untouched DEF SameReceiver
<1> QED BY ONLY <1>1, <1>2, TypeOK, TypeOK', n \in Nodes, Direction(n), SameSender(n), DirectionKept

\* The sender gives up in the tick.
LEMMA DirectionGivesUp ==
    ASSUME TypeOK, TypeOK', NEW n \in Nodes, Passes(n), Direction(n), tx'[n] = TxError,
           wire'[Peer(n)] = Older(wire[Peer(n)]),
           \A i \in 1..Len(wire[Peer(n)]) : wire[Peer(n)][i].type # "FF",
           \A i \in 1..Len(wire[n]) : wire[n][i].type \notin Flow,
           Reassembling(rx[Peer(n)]) /\ BlockSize[Peer(n)] # 0 =>
              \A i \in 1..Len(wire[Peer(n)]) :
                 wire[Peer(n)][i].type = "CF" =>
                    wire[Peer(n)][i].cell[2] # Base(rx[Peer(n)]) + BlockSize[Peer(n)]
    PROVE  Direction(n)'
<1> DEFINE p == Peer(n)
<1>1. DirectionTypes(n) /\ wire'[n] = Older(wire[n]) /\ rx'[p] = rx[p] /\ buf'[n] = buf[n]
  BY DirectionIsTyped DEF Passes
<1>2. /\ \A i \in 1..Len(wire'[p]) : wire'[p][i].type # "FF"
      /\ \A i \in 1..Len(wire'[n]) : wire'[n][i].type \notin Flow
  <2>1. ASSUME NEW q \in Seq(Frames)
        PROVE  /\ Len(Older(q)) = Len(q)
               /\ \A i \in 1..Len(q) : Older(q)[i].type = q[i].type
    BY OlderFacts
  <2>2. wire[n] \in Seq(Frames) /\ wire[p] \in Seq(Frames)
    BY <1>1 DEF DirectionTypes
  <2> QED BY <1>1, <2>1, <2>2
<1>3. Kept(wire[p], wire'[p], Data) /\ Kept(wire[n], wire'[n], Flow)
  BY <1>1, KeptFrames DEF DirectionTypes
<1>4. /\ ~Busy(tx'[n])
      /\ rx'[p].st = rx[p].st /\ rx'[p].data = rx[p].data /\ rx'[p].blocks = rx[p].blocks
  BY <1>1, ChannelTypes
<1>5. Order(tx[n], buf[n], rx[p], wire[p], wire[n], BlockSize[p])
  BY DEF Direction
<1>6. Reassembling(rx[p]) /\ BlockSize[p] # 0 =>
         \A i \in 1..Len(wire[p]) :
            wire[p][i].type = "CF" /\ wire[p][i].cell[2] = Base(rx[p]) + BlockSize[p] =>
               wire[p][i].cell[2] = Cells[Of(rx[p])]
  OBVIOUS
<1>7. Order(tx'[n], buf[n], rx'[p], wire'[p], wire'[n], BlockSize[p])
  <2>1. /\ tx[n] \in Channels /\ tx'[n] \in Channels
        /\ wire[p] \in Seq(Frames) /\ wire'[p] \in Seq(Frames)
        /\ wire[n] \in Seq(Frames) /\ wire'[n] \in Seq(Frames) /\ BlockSize[p] \in Nat
    BY <1>1 DEF DirectionTypes
  <2> DEFINE R == rx[p]
             bs == BlockSize[p]
             W == wire[p]
  <2> HIDE DEF R, bs, W, p
  <2>2. Reassembling(R) /\ bs # 0 =>
           \A i \in 1..Len(W) : W[i].type = "CF" /\ W[i].cell[2] = Base(R) + bs =>
              W[i].cell[2] = Cells[Of(R)]
    BY <1>6 DEF R, bs, W
  <2>3. /\ Order(tx[n], buf[n], R, W, wire[n], bs) /\ bs \in Nat /\ W \in Seq(Frames)
        /\ rx'[p].st = R.st /\ rx'[p].data = R.data /\ rx'[p].blocks = R.blocks
        /\ Kept(W, wire'[p], Data)
    BY <1>3, <1>4, <1>5, <2>1 DEF R, bs, W
  <2>4. Order(tx'[n], buf[n], rx'[p], wire'[p], wire'[n], bs)
    BY ONLY <1>2, <1>3, <1>4, <2>1, <2>2, <2>3, OrderStops
  <2> QED BY <2>4 DEF bs
<1> QED BY <1>1, <1>7 DEF Direction

\* N_Bs runs out only when neither data nor flow control is under way.
LEMMA NothingUnderWay ==
    ASSUME BsTimeout > Lag, TypeOK, NEW n \in Nodes, Timing(n), Passes(n),
           tx[n].st = "WAIT_FC", tx[n].timer <= 1
    PROVE  /\ \A i \in 1..Len(wire[Peer(n)]) : wire[Peer(n)][i].type \notin Data
           /\ \A i \in 1..Len(wire[n]) : wire[n][i].type \notin Flow
<1> DEFINE p == Peer(n)
           x == tx[n].timer
<1>1. /\ p \in Nodes /\ wire[n] \in Seq(Frames) /\ wire[p] \in Seq(Frames)
      /\ Turns(n) = 0 /\ Lag \in Nat /\ BsTimeout \in Nat
  BY Ends, TurnFacts, NumbersAssumption DEF TypeOK, Passes
<1>2. x \in Nat /\ x <= 1
  <2>1. tx[n] \in Channels
    BY DEF TypeOK
  <2> QED BY <2>1 DEF Channels
<1>3. ASSUME NEW a \in Nat, a < Lag PROVE ~(2 * (BsTimeout - x) <= Lag + a + 0)
  <2> HIDE DEF x
  <2> QED BY <1>1, <1>2, <1>3
<1>4. ASSUME NEW i \in 1..Len(wire[p]), wire[p][i].type \in Data PROVE FALSE
  <2> DEFINE a == wire[p][i].age
  <2>1. a \in Nat /\ a < Lag
    BY <1>1, Ages DEF Passes
  <2>2. 2 * (BsTimeout - x) <= 0 + a + 0
    BY <1>1, <1>4 DEF Timing, InTime
  <2> HIDE DEF a, x
  <2>3. ~(2 * (BsTimeout - x) <= Lag + a + 0)
    BY <1>3, <2>1
  <2> QED BY <1>1, <1>2, <2>1, <2>2, <2>3
<1>5. ASSUME NEW i \in 1..Len(wire[n]), wire[n][i].type \in Flow PROVE FALSE
  <2> DEFINE a == wire[n][i].age
  <2>1. a \in Nat /\ a < Lag
    BY <1>1, Ages DEF Passes
  <2>2. 2 * (BsTimeout - x) <= Lag + a + 0
    BY <1>1, <1>5 DEF Timing, InTime
  <2> HIDE DEF a, x
  <2> QED BY <1>3, <2>1, <2>2
<1> QED BY <1>4, <1>5

LEMMA DirectionWaits ==
    ASSUME BsTimeout > Lag, Linked, NEW n \in Nodes, Direction(n), Direction(Peer(n)), Timing(n),
           TickCr(n) \/ TickWait(n)
    PROVE  Direction(n)' /\ Direction(Peer(n))'
<1> DEFINE p == Peer(n)
<1>1. TypeOK /\ InBuffer /\ p \in Nodes /\ Peer(p) = n /\ tx[n] \in Channels
  BY Ends DEF Linked, TypeOK
<1>2. /\ TypeOK' /\ Passes(n) /\ wire'[p] = Older(wire[p])
      /\ SameReception(n) \/ rx'[n] = RxError
      /\ \/ tx'[n] = tx[n]
         \/ tx[n].st = "WAIT_FC" /\ tx[n].timer <= 1 /\ tx'[n] = TxError
         \/ tx'[n] = [tx[n] EXCEPT !.timer = Minus1(@)]
  BY <1>1, TickCrStep, TickWaitStep
<1>3. Direction(p)'
  BY <1>1, <1>2, DirectionPasses
<1>4. CASE tx'[n] = tx[n] \/ tx'[n] = [tx[n] EXCEPT !.timer = Minus1(@)]
  <2>1. SameSender(n)
    <3>1. \A x : LET T2 == [tx[n] EXCEPT !.timer = x]
                 IN  T2.st = tx[n].st /\ T2.sent = tx[n].sent /\ T2.blocks = tx[n].blocks
      BY <1>1 DEF Channels
    <3>2. buf'[n] = buf[n]
      BY <1>2 DEF Passes
    <3> QED BY <1>4, <3>1, <3>2 DEF SameSender
  <2>2. Direction(n)'
    BY <1>1, <1>2, <2>1, DirectionRests
  <2> QED BY <1>3, <2>2
<1>5. CASE tx[n].st = "WAIT_FC" /\ tx[n].timer <= 1 /\ tx'[n] = TxError
  <2>1. /\ \A i \in 1..Len(wire[p]) : wire[p][i].type \notin Data
        /\ \A i \in 1..Len(wire[n]) : wire[n][i].type \notin Flow
    BY <1>1, <1>2, <1>5, NothingUnderWay
  <2>2. \A i \in 1..Len(wire[p]) : wire[p][i].type # "FF" /\ wire[p][i].type # "CF"
    BY <2>1 DEF Data
  <2>3. Direction(n)'
    BY ONLY <1>1, <1>2, <1>5, <2>1, <2>2, n \in Nodes, Direction(n), DirectionGivesUp
  <2> QED BY <1>3, <2>3
<1> QED BY <1>2, <1>4, <1>5

LEMMA DirectionPump ==
    ASSUME Linked, NEW n \in Nodes, Direction(n), Direction(Peer(n)), TickPump(n)
    PROVE  Direction(n)' /\ Direction(Peer(n))'
<1> DEFINE p == Peer(n)
           bs == BlockSize[p]
           B == buf[n]
<1>1. TypeOK /\ InBuffer /\ p \in Nodes /\ Peer(p) = n /\ Link(n)
  BY Ends DEF Linked
<1>2. /\ TypeOK' /\ Passes(n) /\ SameReception(n) /\ tx[n].st = "SEND_CF"
      /\ \/ /\ tx'[n] = Pumped(tx[n]) /\ NextFrame(n) \in Frames
            /\ wire'[p] = Older(wire[p]) \o <<NextFrame(n)>>
         \/ tx'[n] = TxError /\ wire'[p] = Older(wire[p])
  BY <1>1, TickPumpStep
<1>3. NextFrame(n).type = "CF" /\ NextFrame(n).type \notin Flow
  BY DEF NextFrame, CF, Frame, Flow
<1>4. Direction(p)'
  BY <1>1, <1>2, <1>3, DirectionPasses
<1>5. DirectionTypes(n)
  BY <1>1, <1>2, DirectionIsTyped
<1>6. Order(tx[n], B, rx[p], wire[p], wire[n], bs)
  BY DEF Direction
<1>7. /\ tx[n].bs = bs /\ (bs # 0 => tx[n].blocks < bs)
      /\ tx[n].len = Cells[B[1]] /\ tx[n].sent \in 1..tx[n].len - 1
  BY <1>1, <1>2 DEF Link, Sender, Busy
<1>8. /\ tx[n].sent \in Nat /\ tx[n].len \in Nat /\ tx[n].blocks \in Nat /\ bs \in Nat
      /\ tx[n].sent < tx[n].len
  <2>1. tx[n] \in Channels /\ bs \in Nat
    BY <1>5 DEF DirectionTypes
  <2>2. tx[n].sent \in Nat /\ tx[n].len \in Nat /\ tx[n].blocks \in Nat
    BY <2>1 DEF Channels
  <2> QED BY ONLY <1>7, <2>1, <2>2
<1>9. CASE /\ tx'[n] = Pumped(tx[n]) /\ NextFrame(n) \in Frames
           /\ wire'[p] = Older(wire[p]) \o <<NextFrame(n)>>
  <2>1. NextFrame(n).cell = <<B[1], tx[n].sent + 1>>
    BY <1>2, <1>9, Emitted
  <2>2. rx'[p] = rx[p] /\ wire'[n] = Older(wire[n]) /\ buf'[n] = B
    BY <1>2 DEF Passes
  <2>3. Kept(wire[n], wire'[n], Flow)
    BY <1>1, <2>2, Untouched
  <2>4. rx'[p].st = rx[p].st /\ rx'[p].data = rx[p].data /\ rx'[p].blocks = rx[p].blocks
    BY <2>2
  <2>5. Reassembling(rx[p]) => Len(rx[p].data) >= 1
    <3>1. Reassembling(rx[p]) => Len(rx[p].data) \in 1..rx[p].len - 1
      BY <1>1 DEF Link, Receiver
    <3> QED BY <3>1
  <2> HIDE DEF B, bs
  <2>6. Order(tx'[n], B, rx'[p], Older(wire[p]) \o <<NextFrame(n)>>, wire'[n], bs)
    BY ONLY <1>2, <1>3, <1>5, <1>6, <1>7, <1>8, <1>9, <2>1, <2>3, <2>4, <2>5, OrderEmits
       DEF DirectionTypes
  <2> QED BY <1>4, <1>9, <2>2, <2>6 DEF Direction, bs
<1>10. CASE tx'[n] = TxError /\ wire'[p] = Older(wire[p])
  <2>1. \A i \in 1..Len(wire[n]) : wire[n][i].type \notin Flow
    BY <1>2, <1>6 DEF Order, FlowAlone
  <2>2. \A i \in 1..Len(wire[p]) : wire[p][i].type # "FF"
    BY <1>2, <1>6 DEF Order, FirstAlone
  <2>3. ASSUME Reassembling(rx[p]), bs # 0, NEW i \in 1..Len(wire[p]), wire[p][i].type = "CF"
        PROVE  wire[p][i].cell[2] # Base(rx[p]) + bs
    <3> DEFINE z == wire[p][i].cell[2]
               base == Base(rx[p])
    <3>1. Live(tx[n], B, rx[p]) /\ tx[n].sent - tx[n].blocks = base
      BY <1>2, <1>6, <2>3 DEF Order, InBlock
    <3>2. z <= tx[n].sent
      BY <1>6, <2>3, <3>1 DEF Order, Following
    <3>3. z \in Nat /\ base \in Int /\ tx[n].blocks < bs
      BY <1>5, <1>7, <2>3, CellNumbers, ReassemblyTypes DEF DirectionTypes
    <3> HIDE DEF z, base, bs
    <3>4. z # base + bs
      BY ONLY <1>8, <3>1, <3>2, <3>3
    <3> QED BY <3>4 DEF z, base
  <2>4. Direction(n)'
    BY ONLY <1>1, <1>2, <1>10, <2>1, <2>2, <2>3, n \in Nodes, Direction(n), DirectionGivesUp
  <2> QED BY <1>4, <2>4
<1> QED BY <1>2, <1>9, <1>10

\* All of it, for any action but a repetition.
LEMMA DirectionKeptByAll ==
    ASSUME Patient, BsTimeout > Lag, Linked, NEW n \in Nodes, Direction(n), Direction(Peer(n)),
           Timing(n),
           \/ \E m \in Msgs : Transmit(n, m) \/ TransmitRefused(n, m) \/ TransmitBusy(n, m)
           \/ Receive(n) \/ Tick(n) \/ Lose(n) \/ ResetRx(n) \/ ResetTx(n)
    PROVE  Direction(n)' /\ Direction(Peer(n))'
<1>1. \/ \E m \in Msgs : Transmit(n, m)
      \/ ReceiveFirst(n) \/ ReceiveNext(n) \/ ReceiveFlow(n)
      \/ TickCr(n) \/ TickWait(n) \/ TickPump(n)
      \/ \E m \in Msgs : TransmitRefused(n, m) \/ TransmitBusy(n, m)
      \/ ReceiveSingle(n) \/ ReceiveStray(n) \/ ReceiveLast(n)
      \/ Lose(n) \/ ResetRx(n) \/ ResetTx(n)
  BY DEF Receive, Tick
<1>2. Patient /\ BsTimeout > Lag /\ Linked /\ n \in Nodes /\ Direction(n) /\ Direction(Peer(n)) /\ Timing(n)
  OBVIOUS
<1>3. ASSUME NEW m \in Msgs, Transmit(n, m) PROVE Direction(n)' /\ Direction(Peer(n))'
  BY ONLY <1>2, <1>3, m \in Msgs, DirectionTransmit
<1>4. CASE ReceiveFirst(n) \/ ReceiveNext(n) \/ ReceiveFlow(n)
  BY ONLY <1>2, <1>4, DirectionFirst, DirectionNext, DirectionFlow
<1>5. CASE TickCr(n) \/ TickWait(n) \/ TickPump(n)
  BY ONLY <1>2, <1>5, DirectionWaits, DirectionPump
<1>6. CASE \/ \E m \in Msgs : TransmitRefused(n, m) \/ TransmitBusy(n, m)
           \/ ReceiveSingle(n) \/ ReceiveStray(n) \/ ReceiveLast(n)
           \/ Lose(n) \/ ResetRx(n) \/ ResetTx(n)
  BY ONLY <1>2, <1>6, DirectionQuiet
<1> QED BY <1>1, <1>3, <1>4, <1>5, <1>6

-----------------------------------------------------------------------------
(* What the application is given. *)

Given(n) == got[n] # <<>> => \E m \in Sendable(Peer(n)) : got[n] = Whole(m)

\* The frame that completes a reassembly completes a message.
Completes(n) ==
    InSequence(n) /\ Len(Extended(n)) = rx[n].len => Extended(n) = Whole(Of(rx[n]))

LEMMA GivenIsDelivered == (\A n \in Nodes : Given(n)) => DeliveredWhole
  BY DEF Given, DeliveredWhole, Sendable

LEMMA MadeWhole ==
    ASSUME NEW m \in Msgs, NEW E \in Seq(Cell), Len(E) = Cells[m],
           \A i \in 1..Len(E) : E[i][1] = m /\ E[i][2] = i
    PROVE  E = Whole(m)
<1>1. Cells[m] \in Nat
  BY Lengths
<1>2. \A i \in 1..Len(E) : E[i] \in Cell
  BY ElementOfSeq
<1>3. \A c \in Cell : c = <<c[1], c[2]>>
  BY DEF Cell
<1>4. \A i \in 1..Len(E) : E[i] = <<m, i>>
  BY <1>2, <1>3
<1>5. E = [i \in 1..Len(E) |-> E[i]]
  BY LenProperties
<1>6. E = [i \in 1..Cells[m] |-> <<m, i>>]
  BY <1>1, <1>4, <1>5
<1> QED BY <1>6 DEF Whole

\* Every action delivers what Completes allows.
LEMMA GivenKept ==
    ASSUME Linked, NEW a \in Nodes, \A n \in Nodes : Given(n), Completes(a),
           \/ \E m \in Msgs : Transmit(a, m) \/ TransmitRefused(a, m) \/ TransmitBusy(a, m)
           \/ Receive(a) \/ Tick(a) \/ Lose(a) \/ Repeat(a) \/ ResetRx(a) \/ ResetTx(a)
    PROVE  \A n \in Nodes : Given(n)'
<1> DEFINE p == Peer(a)
<1>1. TypeOK /\ InBuffer /\ a \in Nodes /\ p \in Nodes /\ Peer(p) = a /\ Link(p)
  BY Ends DEF Linked
<1>2. \A n \in Nodes : n = a \/ n = p
  <2>1. Nodes = {a, p}
    BY <1>1, Ends
  <2> QED BY ONLY <2>1
<1>3. CASE got' = got
  BY <1>3 DEF Given
<1>4. CASE ReceiveSingle(a)
  <2> DEFINE c == wire[a][1].cell
  <2>1. /\ wire[a] # <<>> /\ wire[a][1].type \in {"SF", "FUNC"}
        /\ got'[a] = <<c>> /\ got'[p] = got[p]
    BY <1>1, <1>4, SingleStep
  <2>2. /\ c \in Cell /\ c[1] \in Sendable(p) /\ c[2] \in 1..Cells[c[1]] /\ Cells[c[1]] = 1
    <3>1. Sound(p, wire[a][1], unsent[p]) /\ wire[a][1] \in Frames
      BY <2>1, AtHead
    <3>2. wire[a][1].type \notin Flow
      BY <2>1 DEF Flow
    <3> QED BY <2>1, <3>1, <3>2 DEF Sound, Frames
  <2>3. c[1] \in Msgs /\ c[2] = 1
    <3>1. Sendable(p) \subseteq Msgs
      BY <1>1, MsgsAssumption DEF Sendable
    <3>2. \A i \in 1..1 : i = 1
      OBVIOUS
    <3> QED BY <2>2, <3>1, <3>2
  <2> HIDE DEF c
  <2>4. <<c>> = Whole(c[1])
    <3>1. <<c>> \in Seq(Cell) /\ Len(<<c>>) = 1 /\ <<c>>[1] = c
      BY <2>2, OneFrame
    <3>2. \A i \in 1..1 : i = 1
      OBVIOUS
    <3>3. \A i \in 1..Len(<<c>>) : <<c>>[i][1] = c[1] /\ <<c>>[i][2] = i
      BY <2>3, <3>1, <3>2
    <3> QED BY <2>2, <2>3, <3>1, <3>3, MadeWhole
  <2> QED BY <1>1, <1>2, <2>1, <2>2, <2>4 DEF Given
<1>5. CASE ReceiveLast(a)
  <2>1. /\ InSequence(a) /\ Len(Extended(a)) = rx[a].len
        /\ got'[a] = Extended(a) /\ got'[p] = got[p]
    BY <1>1, <1>5, LastStep
  <2>2. Of(rx[a]) \in Sendable(p)
    BY <1>1, <2>1 DEF Link, Receiver, InSequence, Reassembling
  <2>3. Extended(a) = Whole(Of(rx[a]))
    BY <2>1 DEF Completes
  <2> QED BY <1>1, <1>2, <2>1, <2>2, <2>3 DEF Given
<1>6. ASSUME NEW m \in Msgs, Transmit(a, m) \/ TransmitRefused(a, m) \/ TransmitBusy(a, m)
      PROVE  got' = got
  BY ONLY <1>6, <1>1, m \in Msgs, TransmitStep, TransmitRefusedStep, TransmitBusyStep
<1>7. CASE ReceiveFirst(a) \/ ReceiveStray(a) \/ ReceiveNext(a) \/ ReceiveFlow(a)
  BY ONLY <1>7, <1>1, <1>3, FirstStep, StrayStep, NextStep, FlowStep
<1>8. CASE Tick(a)
  BY ONLY <1>8, <1>1, <1>3, TickCrStep, TickWaitStep, TickPumpStep DEF Tick, Passes
<1>9. CASE Lose(a) \/ Repeat(a) \/ ResetRx(a) \/ ResetTx(a)
  BY ONLY <1>9, <1>1, <1>3, LoseStep, RepeatStep, ResetRxStep, ResetTxStep
<1> QED BY <1>3, <1>4, <1>5, <1>6, <1>7, <1>8, <1>9 DEF Receive

\* What completes an ordered reassembly is the last cell, and none was left out.
LEMMA OrderCompletes ==
    ASSUME Linked, NEW n \in Nodes, Direction(Peer(n))
    PROVE  Completes(n)
<1> DEFINE p == Peer(n)
           R == rx[n]
           d == Len(R.data)
           c == wire[n][1].cell
           E == Extended(n)
           m == Of(R)
<1>1. TypeOK /\ InBuffer /\ p \in Nodes /\ Peer(p) = n /\ Link(p)
  BY Ends DEF Linked
<1>2. SUFFICES ASSUME InSequence(n), Len(E) = R.len PROVE E = Whole(m)
  BY DEF Completes
<1>3. /\ wire[n] # <<>> /\ wire[n][1].type = "CF" /\ R \in Reassemblies /\ Reassembling(R)
      /\ E \in Seq(Cell) /\ d \in Nat /\ Len(E) = d + 1
      /\ \A i \in 1..d : E[i] = R.data[i]
      /\ E[d + 1] = c
  BY <1>1, <1>2, ExtendedFacts DEF Reassembling
<1>4. m \in Sendable(p) /\ R.len = Cells[m] /\ Num(R, 1) = 1 /\ d \in 1..R.len - 1
  BY <1>1, <1>3 DEF Link, Receiver
<1>5. m \in Msgs
  BY <1>1, <1>4, MsgsAssumption DEF Sendable
<1>6. Order(tx[p], buf[p], R, wire[n], wire[p], BlockSize[n])
  BY <1>1 DEF Direction
<1>7. 1 \in 1..Len(wire[n]) /\ c \in Cell /\ c[2] \in Nat
  <2>1. wire[n] \in Seq(Frames)
    BY <1>1 DEF TypeOK
  <2>2. 1 \in 1..Len(wire[n])
    BY <1>3, <2>1, TailFacts
  <2> QED BY <2>1, <2>2, CellNumbers
<1>8. Gathered(R) /\ c[1] = m /\ c[2] > Newest(R)
  BY <1>3, <1>6, <1>7 DEF Order, Following
<1>9. c[2] <= Cells[m]
  <2>1. Sound(p, wire[n][1], unsent[p])
    BY <1>3, AtHead
  <2>2. c[2] \in 1..Cells[c[1]]
    BY <1>3, <2>1 DEF Sound, Flow
  <2>3. Cells[m] \in Nat
    BY <1>5, Lengths
  <2> QED BY <1>8, <2>2, <2>3
<1>10. d >= 1 /\ d \in 1..d /\ Cells[m] = d + 1
  <2>1. d + 1 = R.len /\ d \in Nat /\ d \in 1..R.len - 1
    BY <1>2, <1>3, <1>4
  <2> HIDE DEF d
  <2>2. d >= 1 /\ d \in 1..d
    BY <2>1
  <2> QED BY <1>4, <2>1, <2>2
<1> HIDE DEF R, d, c, E, m
<1>11. c[2] = d + 1 /\ Newest(R) = d
  <2> DEFINE x == Newest(R)
             z == c[2]
  <2>1. x \in Nat /\ x >= d
    BY <1>3, <1>4, <1>8, <1>10, GatheredNumbers, ReassemblyTypes DEF Newest, d
  <2>2. z \in Nat /\ z > x /\ z <= d + 1
    BY <1>7, <1>8, <1>9, <1>10
  <2> HIDE DEF x, z
  <2>3. z = d + 1 /\ x = d
    BY <1>3, <2>1, <2>2
  <2> QED BY <2>3 DEF x, z
<1>12. ASSUME NEW i \in 1..d PROVE R.data[i][1] = m /\ R.data[i][2] = i
  <2>1. R.data[i][1] = m
    BY <1>3, <1>8 DEF Gathered, d, m
  <2> DEFINE x == Num(R, i)
  <2>2. x \in Nat /\ x >= i
    BY <1>3, <1>4, <1>8, <1>10, GatheredNumbers, ReassemblyTypes DEF d
  <2>3. Num(R, d) = d
    BY <1>11 DEF Newest, d
  <2>4. i # d => d - x >= d - i
    <3>1. i # d => Num(R, d) - Num(R, i) >= d - i
      <4>1. i # d => i < d
        BY <1>3
      <4> QED BY <1>3, <1>8, <1>10, <4>1 DEF Gathered, d
    <3> QED BY <2>3, <3>1
  <2>5. i = d => x = i
    BY <2>3
  <2> HIDE DEF x
  <2>6. x = i
    BY <1>3, <2>2, <2>4, <2>5
  <2> QED BY <2>1, <2>6 DEF Num, x
<1>13. \A i \in 1..Len(E) : E[i][1] = m /\ E[i][2] = i
  <2>1. \A i \in 1..Len(E) : i \in 1..d \/ i = d + 1
    BY <1>3
  <2> QED BY <1>3, <1>8, <1>11, <1>12, <2>1
<1>14. E \in Seq(Cell) /\ Len(E) = Cells[m]
  BY <1>3, <1>10
<1> QED BY <1>5, <1>13, <1>14, MadeWhole

-----------------------------------------------------------------------------
Ordered ==
    /\ Linked
    /\ \A n \in Nodes : Direction(n) /\ Timing(n)
    /\ \A n \in Nodes : Given(n)

LEMMA InitOrdered == Init => Ordered
<1> SUFFICES ASSUME Init PROVE Ordered
  OBVIOUS
<1>1. Linked
  BY InitLinked
<1>2. ASSUME NEW n \in Nodes PROVE Direction(n) /\ Timing(n) /\ Given(n)
  <2>1. Peer(n) \in Nodes
    BY Ends
  <2>2. /\ ~Busy(tx[n]) /\ rx[Peer(n)].st # "WAIT_CF"
        /\ wire[n] = <<>> /\ wire[Peer(n)] = <<>> /\ got[n] = <<>>
    BY <2>1, ChannelTypes DEF Init
  <2>3. \A i \in 1..Len(<<>>) : FALSE
    BY EmptySeq
  <2>4. tx[n].st # "WAIT_FC" /\ tx[n].st # "SEND_CF" /\ ~Reassembling(rx[Peer(n)])
    BY <2>2 DEF Busy, Reassembling
  <2>5. Direction(n)
    BY <2>2, <2>3, <2>4
       DEF Direction, Order, FirstAlone, FlowAlone, Gathered, Following, InBlock
  <2>6. Timing(n)
    BY <2>4 DEF Timing, InTime
  <2> QED BY <2>2, <2>5, <2>6 DEF Given
<1> QED BY <1>1, <1>2 DEF Ordered

\* However many frames are lost, refused or kept waiting for: as long as none is repeated,
\* a node is given complete messages of its peer only (isotp_process_rx_frame, isotp_tick_1ms:
\* what a loss left of a reassembly is gone before a frame that could continue it comes).
\* The application leaves its buffer alone while it is being sent, and N_Bs is longer than
\* a frame stays on the bus.
THEOREM LossesNeverMix ==
    ASSUME Patient, BsTimeout > Lag
    PROVE  Spec /\ [][\A n \in Nodes : ~Repeat(n)]_vars => []DeliveredWhole
<1>1. Ordered /\ [Next]_vars /\ [\A n \in Nodes : ~Repeat(n)]_vars => Ordered'
  <2> SUFFICES ASSUME Ordered, [Next]_vars, [\A n \in Nodes : ~Repeat(n)]_vars PROVE Ordered'
    OBVIOUS
  <2>1. Linked /\ Linked'
    BY LinkedNextState DEF Ordered
  <2>2. CASE UNCHANGED vars
    <3>1. ASSUME NEW n \in Nodes PROVE (Direction(n) /\ Timing(n) /\ Given(n))'
      <4>1. Direction(n) /\ Timing(n) /\ Given(n)
        BY DEF Ordered
      <4>2. /\ tx' = tx /\ rx' = rx /\ buf' = buf /\ wire' = wire /\ got' = got /\ turn' = turn
        BY <2>2 DEF vars
      <4> QED BY <4>1, <4>2 DEF Direction, Timing, Given, Turns
    <3> QED BY <2>1, <3>1 DEF Ordered
  <2>3. ASSUME NEW n \in Nodes,
               \/ \E m \in Msgs : Transmit(n, m) \/ TransmitRefused(n, m) \/ TransmitBusy(n, m)
               \/ Receive(n) \/ Tick(n) \/ Lose(n) \/ ResetRx(n) \/ ResetTx(n)
        PROVE  Ordered'
    <3>1. /\ Peer(n) \in Nodes /\ n \in Nodes
          /\ Direction(n) /\ Direction(Peer(n)) /\ Timing(n) /\ Timing(Peer(n))
          /\ \A k \in Nodes : Given(k)
      BY Ends DEF Ordered
    <3>2. Direction(n)' /\ Direction(Peer(n))'
      BY ONLY Patient, BsTimeout > Lag, <2>1, <2>3, <3>1, DirectionKeptByAll
    <3>3. Timing(n)' /\ Timing(Peer(n))'
      BY ONLY <2>1, <2>3, <3>1, TimingNext
    <3>4. Completes(n)
      BY <2>1, <3>1, OrderCompletes
    <3>5. \A k \in Nodes : Given(k)'
      BY ONLY <2>1, <2>3, <3>1, <3>4, GivenKept
    <3>6. \A k \in Nodes : k = n \/ k = Peer(n)
      BY Ends
    <3> QED BY <2>1, <3>2, <3>3, <3>5, <3>6 DEF Ordered
  <2> QED BY <2>2, <2>3 DEF Next
<1>2. Ordered => DeliveredWhole
  BY GivenIsDelivered DEF Ordered
<1> QED BY <1>1, <1>2, InitOrdered, PTL DEF Spec

-----------------------------------------------------------------------------
(* Repetitions alone.  As long as no frame is lost, the cells gathered, the *)
(* data frames under way in their order, and the cell the sender is at form *)
(* one chain in which each is the last again or the next of its message.   *)

Between(W, i, k) == \A j \in 1..Len(W) : i < j /\ j < k => W[j].type \notin Data

Succeeds(c, d) == c[1] = d[1] /\ c[2] \in {d[2], d[2] + 1}

InStep(W) ==
    \A i, k \in 1..Len(W) :
        i < k /\ W[i].type \in Data /\ W[k].type = "CF" /\ Between(W, i, k) =>
            Succeeds(W[k].cell, W[i].cell)

\* The reassembly and the first data frame under way.
Headed(R, W) ==
    Reassembling(R) =>
        /\ \A i \in 1..Len(R.data) : R.data[i] = <<Of(R), i>>
        /\ \A k \in 1..Len(W) : W[k].type = "CF" /\ Between(W, 0, k) =>
              Succeeds(W[k].cell, <<Of(R), Len(R.data)>>)

\* The last data frame under way and the sender, or what the receiver has if there is none.
Ended(T, B, R, W) ==
    Busy(T) =>
        /\ \A k \in 1..Len(W) : W[k].type \in Data /\ Between(W, k, Len(W) + 1) =>
              W[k].cell = <<B[1], T.sent>>
        /\ Reassembling(R) /\ Between(W, 0, Len(W) + 1) => Of(R) = B[1] /\ Len(R.data) = T.sent

Chain(T, B, R, W) == InStep(W) /\ Headed(R, W) /\ Ended(T, B, R, W)

\* W2 is W, with other frames behind it perhaps.
Extends(W, W2) ==
    /\ Len(W) <= Len(W2)
    /\ \A i \in 1..Len(W) : W2[i].type = W[i].type /\ W2[i].cell = W[i].cell
    /\ \A i \in 1..Len(W2) : i > Len(W) => W2[i].type \notin Data

LEMMA ExtendsFacts ==
    ASSUME NEW q \in Seq(Frames)
    PROVE  /\ Extends(q, q) /\ Extends(q, Older(q))
           /\ \A f \in Frames : f.type \notin Data => Extends(q, q \o <<f>>)
           /\ \A f, g \in Frames : f.type \notin Data /\ g.type \notin Data =>
                 Extends(q, q \o <<f, g>>)
<1>1. Len(q) \in Nat /\ \A i \in 1..Len(q) : ~(i > Len(q))
  BY LenProperties
<1>2. Extends(q, q)
  BY <1>1 DEF Extends
<1>3. Extends(q, Older(q))
  <2>1. /\ Len(Older(q)) = Len(q)
        /\ \A i \in 1..Len(q) : Older(q)[i].type = q[i].type /\ Older(q)[i].cell = q[i].cell
    BY OlderFacts
  <2> QED BY <1>1, <2>1 DEF Extends
<1>4. ASSUME NEW f \in Frames, f.type \notin Data PROVE Extends(q, q \o <<f>>)
  <2>1. <<f>> \in Seq(Frames) /\ Len(<<f>>) = 1 /\ <<f>>[1] = f
    BY OneFrame
  <2> DEFINE W2 == q \o <<f>>
  <2>2. /\ Len(W2) = Len(q) + 1 /\ \A i \in 1..Len(q) : W2[i] = q[i]
        /\ W2[Len(q) + 1] = f
    BY <2>1, JoinFacts
  <2> HIDE DEF W2
  <2>3. \A i \in 1..Len(W2) : i > Len(q) => i = Len(q) + 1
    BY <1>1, <2>2
  <2>4. Extends(q, W2)
    BY <1>1, <1>4, <2>2, <2>3 DEF Extends
  <2> QED BY <2>4 DEF W2
<1>5. ASSUME NEW f \in Frames, NEW g \in Frames, f.type \notin Data, g.type \notin Data
      PROVE  Extends(q, q \o <<f, g>>)
  <2>1. <<f, g>> \in Seq(Frames) /\ Len(<<f, g>>) = 2 /\ <<f, g>>[1] = f /\ <<f, g>>[2] = g
    BY TwoFrames
  <2> DEFINE W2 == q \o <<f, g>>
  <2>2. /\ Len(W2) = Len(q) + 2 /\ \A i \in 1..Len(q) : W2[i] = q[i]
        /\ W2[Len(q) + 1] = f /\ W2[Len(q) + 2] = g
    BY <2>1, JoinFacts
  <2> HIDE DEF W2
  <2>3. \A i \in 1..Len(W2) : i > Len(q) => i = Len(q) + 1 \/ i = Len(q) + 2
    BY <1>1, <2>2
  <2>4. Extends(q, W2)
    BY <1>1, <1>5, <2>2, <2>3 DEF Extends
  <2> QED BY <2>4 DEF W2
<1> QED BY <1>2, <1>3, <1>4, <1>5

\* Other frames join, the sender stays where it is or stops, a reception ends.
LEMMA ChainKept ==
    ASSUME NEW T, NEW T2, NEW B, NEW B2, NEW R, NEW R2,
           NEW W \in Seq(Frames), NEW W2 \in Seq(Frames),
           Chain(T, B, R, W), Extends(W, W2),
           Busy(T2) => Busy(T) /\ T2.sent = T.sent /\ B2 = B,
           Reassembling(R2) => R2.st = R.st /\ R2.data = R.data
    PROVE  Chain(T2, B2, R2, W2)
<1>1. InStep(W) /\ Headed(R, W) /\ Ended(T, B, R, W)
  BY DEF Chain
<1>2. Len(W) \in Nat /\ Len(W2) \in Nat /\ Len(W) <= Len(W2)
  BY LenProperties DEF Extends
<1>3. \A i \in 1..Len(W) : i \in 1..Len(W2) /\ W2[i].type = W[i].type /\ W2[i].cell = W[i].cell
  BY <1>2 DEF Extends
<1>4. \A i \in 1..Len(W2) : W2[i].type \in Data => i \in 1..Len(W)
  BY <1>2 DEF Extends
<1>5. "CF" \in Data
  BY DEF Data
<1>6. ASSUME NEW i, NEW k, Between(W2, i, k) PROVE Between(W, i, k)
  BY <1>3, <1>6 DEF Between
<1>7. ASSUME NEW i, Between(W2, i, Len(W2) + 1) PROVE Between(W, i, Len(W) + 1)
  <2>1. \A j \in 1..Len(W) : j < Len(W2) + 1
    BY <1>2
  <2> QED BY <1>3, <1>7, <2>1 DEF Between
<1>8. InStep(W2)
  BY <1>1, <1>3, <1>4, <1>5, <1>6 DEF InStep
<1>9. Reassembling(R2) => Reassembling(R) /\ Of(R2) = Of(R) /\ R2.data = R.data
  BY DEF Reassembling, Of
<1>10. Headed(R2, W2)
  BY <1>1, <1>3, <1>4, <1>5, <1>6, <1>9 DEF Headed
<1>11. Ended(T2, B2, R2, W2)
  BY <1>1, <1>3, <1>4, <1>5, <1>7, <1>9 DEF Ended
<1> QED BY <1>8, <1>10, <1>11 DEF Chain

\* The reassembly has arrived at cell c.
At(R, c) ==
    Reassembling(R) =>
        /\ \A i \in 1..Len(R.data) : R.data[i] = <<Of(R), i>>
        /\ c = <<Of(R), Len(R.data)>>

\* A frame is taken: data is dropped with the reception or becomes its last cell.
LEMMA ChainTaken ==
    ASSUME NEW T, NEW B, NEW R, NEW R2, NEW W \in Seq(Frames), W # <<>>,
           Chain(T, B, R, W),
           IF W[1].type \in Data THEN At(R2, W[1].cell)
           ELSE Reassembling(R2) => R2.st = R.st /\ R2.data = R.data
    PROVE  Chain(T, B, R2, Tail(W))
<1> DEFINE W2 == Tail(W)
           c == W[1].cell
<1>1. InStep(W) /\ Headed(R, W) /\ Ended(T, B, R, W)
  BY DEF Chain
<1>2. /\ Len(W) \in Nat /\ Len(W2) \in Nat /\ Len(W) = Len(W2) + 1 /\ 1 \in 1..Len(W)
      /\ \A i \in 1..Len(W2) : i + 1 \in 1..Len(W) /\ i + 1 > 1 /\ W2[i] = W[i + 1]
  BY TailFacts
<1>3. \A j \in 1..Len(W) : j = 1 \/ (j - 1 \in 1..Len(W2) /\ W2[j - 1] = W[j])
  <2>1. \A j \in 1..Len(W) : j = 1 \/ (j - 1 \in 1..Len(W2) /\ (j - 1) + 1 = j)
    BY <1>2
  <2> QED BY <1>2, <2>1
<1> HIDE DEF W2
<1>4. ASSUME NEW i \in Nat, NEW k \in Nat, Between(W2, i, k) PROVE Between(W, i + 1, k + 1)
  <2>1. SUFFICES ASSUME NEW j \in 1..Len(W), i + 1 < j, j < k + 1 PROVE W[j].type \notin Data
    BY DEF Between
  <2>2. j - 1 \in 1..Len(W2) /\ W2[j - 1] = W[j] /\ i < j - 1 /\ j - 1 < k
    BY <1>2, <1>3, <2>1
  <2> QED BY <1>4, <2>2 DEF Between
<1>5. ASSUME NEW k \in Nat, Between(W2, 0, k), W[1].type \notin Data PROVE Between(W, 0, k + 1)
  <2>1. Between(W, 1, k + 1)
    <3>1. Between(W, 0 + 1, k + 1)
      BY <1>4, <1>5
    <3> QED BY <3>1
  <2>2. \A j \in 1..Len(W) : 0 < j => j = 1 \/ 1 < j
    BY <1>2
  <2> QED BY <1>5, <2>1, <2>2 DEF Between
<1>6. ASSUME NEW k \in Nat, Between(W2, 0, k) PROVE Between(W, 1, k + 1)
  <2>1. Between(W, 0 + 1, k + 1)
    BY <1>4, <1>6
  <2> QED BY <2>1
<1>7. InStep(W2)
  <2>1. SUFFICES ASSUME NEW i \in 1..Len(W2), NEW k \in 1..Len(W2), i < k, W2[i].type \in Data,
                        W2[k].type = "CF", Between(W2, i, k)
                 PROVE  Succeeds(W2[k].cell, W2[i].cell)
    BY DEF InStep
  <2>2. Between(W, i + 1, k + 1) /\ i + 1 < k + 1
    BY <1>4, <2>1
  <2> QED BY <1>1, <1>2, <2>1, <2>2 DEF InStep
<1>8. CASE W[1].type \notin Data
  <2>1. Reassembling(R2) => Reassembling(R) /\ Of(R2) = Of(R) /\ R2.data = R.data
    BY <1>8 DEF Reassembling, Of
  <2>2. Headed(R2, W2)
    <3>1. ASSUME Reassembling(R2), NEW k \in 1..Len(W2), W2[k].type = "CF", Between(W2, 0, k)
          PROVE  Succeeds(W2[k].cell, <<Of(R2), Len(R2.data)>>)
      <4>1. Between(W, 0, k + 1)
        BY <1>5, <1>8, <3>1
      <4> QED BY <1>1, <1>2, <2>1, <3>1, <4>1 DEF Headed
    <3> QED BY <1>1, <2>1, <3>1 DEF Headed
  <2>3. Ended(T, B, R2, W2)
    <3>1. ASSUME Busy(T), NEW k \in 1..Len(W2), W2[k].type \in Data, Between(W2, k, Len(W2) + 1)
          PROVE  W2[k].cell = <<B[1], T.sent>>
      <4>1. Between(W, k + 1, Len(W) + 1)
        <5>1. k \in Nat /\ Len(W2) + 1 \in Nat
          BY <1>2
        <5>2. Between(W, k + 1, (Len(W2) + 1) + 1)
          BY <1>4, <3>1, <5>1
        <5> QED BY <1>2, <5>2
      <4> QED BY <1>1, <1>2, <3>1, <4>1 DEF Ended
    <3>2. ASSUME Busy(T), Reassembling(R2), Between(W2, 0, Len(W2) + 1)
          PROVE  Of(R2) = B[1] /\ Len(R2.data) = T.sent
      <4>1. Between(W, 0, Len(W) + 1)
        <5>1. Len(W2) + 1 \in Nat
          BY <1>2
        <5>2. Between(W, 0, (Len(W2) + 1) + 1)
          BY <1>5, <1>8, <3>2, <5>1
        <5> QED BY <1>2, <5>2
      <4> QED BY <1>1, <2>1, <3>2, <4>1 DEF Ended
    <3> QED BY <3>1, <3>2 DEF Ended
  <2> QED BY <1>7, <2>2, <2>3 DEF Chain, W2
<1>9. CASE W[1].type \in Data
  <2>1. At(R2, c)
    BY <1>9
  <2>2. Headed(R2, W2)
    <3>1. ASSUME Reassembling(R2), NEW k \in 1..Len(W2), W2[k].type = "CF", Between(W2, 0, k)
          PROVE  Succeeds(W2[k].cell, <<Of(R2), Len(R2.data)>>)
      <4>1. Between(W, 1, k + 1)
        BY <1>6, <3>1
      <4>2. Succeeds(W2[k].cell, c)
        BY <1>1, <1>2, <1>9, <3>1, <4>1 DEF InStep
      <4> QED BY <2>1, <3>1, <4>2 DEF At
    <3> QED BY <2>1, <3>1 DEF Headed, At
  <2>3. Ended(T, B, R2, W2)
    <3>1. ASSUME Busy(T), NEW k \in 1..Len(W2), W2[k].type \in Data, Between(W2, k, Len(W2) + 1)
          PROVE  W2[k].cell = <<B[1], T.sent>>
      <4>1. Between(W, k + 1, Len(W) + 1)
        <5>1. k \in Nat /\ Len(W2) + 1 \in Nat
          BY <1>2
        <5>2. Between(W, k + 1, (Len(W2) + 1) + 1)
          BY <1>4, <3>1, <5>1
        <5> QED BY <1>2, <5>2
      <4> QED BY <1>1, <1>2, <3>1, <4>1 DEF Ended
    <3>2. ASSUME Busy(T), Reassembling(R2), Between(W2, 0, Len(W2) + 1)
          PROVE  Of(R2) = B[1] /\ Len(R2.data) = T.sent
      <4>1. Between(W, 1, Len(W) + 1)
        <5>1. Len(W2) + 1 \in Nat
          BY <1>2
        <5>2. Between(W, 1, (Len(W2) + 1) + 1)
          BY <1>6, <3>2, <5>1
        <5> QED BY <1>2, <5>2
      <4>2. c = <<B[1], T.sent>>
        BY <1>1, <1>2, <1>9, <3>2, <4>1 DEF Ended
      <4>3. c = <<Of(R2), Len(R2.data)>>
        BY <2>1, <3>2 DEF At
      <4> HIDE DEF c
      <4> QED BY <4>2, <4>3
    <3> QED BY <3>1, <3>2 DEF Ended
  <2> QED BY <1>7, <2>2, <2>3 DEF Chain, W2
<1> QED BY <1>8, <1>9

\* The sender emits a first frame, or the next cell.
LEMMA ChainEmits ==
    ASSUME NEW T, NEW T2, NEW B, NEW B2, NEW R, NEW W \in Seq(Frames), NEW f \in Frames,
           Chain(T, B, R, W), f.type \in Data,
           f.type = "CF" => Busy(T) /\ f.cell[1] = B[1] /\ f.cell[2] = T.sent + 1,
           Busy(T2) => f.cell = <<B2[1], T2.sent>>
    PROVE  Chain(T2, B2, R, W \o <<f>>)
<1> DEFINE W2 == W \o <<f>>
<1>1. InStep(W) /\ Headed(R, W) /\ Ended(T, B, R, W)
  BY DEF Chain
<1>2. /\ Len(W) \in Nat /\ Len(W2) = Len(W) + 1 /\ W2[Len(W) + 1] = f
      /\ \A i \in 1..Len(W) : W2[i] = W[i]
  <2>1. <<f>> \in Seq(Frames) /\ Len(<<f>>) = 1 /\ <<f>>[1] = f
    BY OneFrame
  <2> QED BY <2>1, JoinFacts
<1> HIDE DEF W2
<1>3. /\ \A i \in 1..Len(W2) : i \in 1..Len(W) \/ i = Len(W) + 1
      /\ \A i \in 1..Len(W) : i \in 1..Len(W2) /\ i < Len(W) + 1
      /\ Len(W) + 1 \in 1..Len(W2) /\ Len(W) + 1 < Len(W2) + 1
  BY <1>2
<1>4. ASSUME NEW i, NEW k, Between(W2, i, k) PROVE Between(W, i, k)
  BY <1>2, <1>3, <1>4 DEF Between
<1>5. InStep(W2)
  <2>1. SUFFICES ASSUME NEW i \in 1..Len(W2), NEW k \in 1..Len(W2), i < k, W2[i].type \in Data,
                        W2[k].type = "CF", Between(W2, i, k)
                 PROVE  Succeeds(W2[k].cell, W2[i].cell)
    BY DEF InStep
  <2>2. i \in 1..Len(W)
    BY <1>2, <2>1
  <2>3. CASE k \in 1..Len(W)
    <3>1. Between(W, i, k)
      BY <1>4, <2>1
    <3> QED BY <1>1, <1>2, <2>1, <2>2, <2>3, <3>1 DEF InStep
  <2>4. CASE k = Len(W) + 1
    <3>1. Between(W, i, Len(W) + 1)
      BY <1>4, <2>1, <2>4
    <3>2. f.type = "CF" /\ W2[k] = f /\ W2[i] = W[i]
      BY <1>2, <2>1, <2>2, <2>4
    <3>3. W[i].cell = <<B[1], T.sent>>
      BY <1>1, <2>1, <2>2, <3>1, <3>2 DEF Ended
    <3>4. W2[k].cell[1] = B[1] /\ W2[k].cell[2] = T.sent + 1
      BY <3>2
    <3> QED BY <3>2, <3>3, <3>4 DEF Succeeds
  <2> QED BY <1>3, <2>3, <2>4
<1>6. Headed(R, W2)
  <2>1. SUFFICES ASSUME Reassembling(R), NEW k \in 1..Len(W2), W2[k].type = "CF", Between(W2, 0, k)
                 PROVE  Succeeds(W2[k].cell, <<Of(R), Len(R.data)>>)
    BY <1>1 DEF Headed
  <2>2. CASE k \in 1..Len(W)
    <3>1. Between(W, 0, k)
      BY <1>4, <2>1
    <3> QED BY <1>1, <1>2, <2>1, <2>2, <3>1 DEF Headed
  <2>3. CASE k = Len(W) + 1
    <3>1. Between(W, 0, Len(W) + 1)
      BY <1>4, <2>1, <2>3
    <3>2. f.type = "CF" /\ W2[k] = f
      BY <1>2, <2>1, <2>3
    <3>3. Of(R) = B[1] /\ Len(R.data) = T.sent
      BY <1>1, <2>1, <3>1, <3>2 DEF Ended
    <3>4. W2[k].cell[1] = B[1] /\ W2[k].cell[2] = T.sent + 1
      BY <3>2
    <3> QED BY <3>3, <3>4 DEF Succeeds
  <2> QED BY <1>3, <2>2, <2>3
<1>7. Ended(T2, B2, R, W2)
  <2>1. ASSUME Busy(T2), NEW k \in 1..Len(W2), W2[k].type \in Data, Between(W2, k, Len(W2) + 1)
        PROVE  W2[k].cell = <<B2[1], T2.sent>>
    <3>1. k = Len(W) + 1
      <4>1. ~(k < Len(W) + 1)
        BY <1>2, <1>3, <2>1 DEF Between
      <4> QED BY <1>3, <4>1
    <3> QED BY <1>2, <2>1, <3>1
  <2>2. ~Between(W2, 0, Len(W2) + 1)
    <3>1. 0 < Len(W) + 1
      BY <1>2
    <3> QED BY <1>2, <1>3, <3>1 DEF Between
  <2> QED BY <2>1, <2>2 DEF Ended
<1> QED BY <1>5, <1>6, <1>7 DEF Chain, W2

\* The bus repeats the frame at the head of the queue.
LEMMA ChainRepeats ==
    ASSUME NEW T, NEW B, NEW R, NEW W \in Seq(Frames), W # <<>>, Chain(T, B, R, W),
           \A i \in 1..Len(W) : W[i].cell[2] \in Nat
    PROVE  Chain(T, B, R, <<W[1]>> \o W)
<1> DEFINE f == W[1]
           W2 == <<f>> \o W
<1>1. InStep(W) /\ Headed(R, W) /\ Ended(T, B, R, W)
  BY DEF Chain
<1>2. /\ Len(W) \in Nat /\ Len(W2) = Len(W) + 1 /\ W2[1] = f /\ 1 \in 1..Len(W)
      /\ \A i \in 1..Len(W) : W2[i + 1] = W[i]
  <2>1. f \in Frames /\ Len(W) \in Nat \ {0}
    BY TailFacts
  <2>2. <<f>> \in Seq(Frames) /\ Len(<<f>>) = 1 /\ <<f>>[1] = f
    BY <2>1, OneFrame
  <2> HIDE DEF f
  <2>3. /\ Len(W2) = Len(W) + 1 /\ W2[1] = f
        /\ \A i \in 1..Len(W) : W2[1 + i] = W[i]
    <3>1. 1 \in 1..1
      OBVIOUS
    <3> QED BY <2>2, <3>1, JoinFacts
  <2> HIDE DEF W2
  <2>4. \A i \in 1..Len(W) : W2[i + 1] = W[i]
    <3>1. \A i \in 1..Len(W) : i + 1 = 1 + i
      BY <2>1
    <3> QED BY <2>3, <3>1
  <2> QED BY <2>1, <2>3, <2>4
<1> HIDE DEF W2
<1>3. /\ \A i \in 1..Len(W2) : i = 1 \/ (i - 1 \in 1..Len(W) /\ W2[i] = W[i - 1])
      /\ \A i \in 1..Len(W) : i + 1 \in 1..Len(W2) /\ 1 < i + 1 /\ i + 1 > 0
      /\ 1 \in 1..Len(W2)
  <2>1. \A i \in 1..Len(W2) : i = 1 \/ (i - 1 \in 1..Len(W) /\ (i - 1) + 1 = i)
    BY <1>2
  <2>2. \A i \in 1..Len(W2) : i = 1 \/ (i - 1 \in 1..Len(W) /\ W2[i] = W[i - 1])
    BY <1>2, <2>1
  <2> QED BY <1>2, <2>2
<1>4. ASSUME NEW i \in Nat \ {0}, NEW k \in Nat, Between(W2, i, k) PROVE Between(W, i - 1, k - 1)
  <2>1. SUFFICES ASSUME NEW j \in 1..Len(W), i - 1 < j, j < k - 1 PROVE W[j].type \notin Data
    BY DEF Between
  <2>2. j + 1 \in 1..Len(W2) /\ W2[j + 1] = W[j] /\ i < j + 1 /\ j + 1 < k
    BY <1>2, <1>3, <2>1
  <2> QED BY <1>4, <2>2 DEF Between
<1>5. InStep(W2)
  <2>1. SUFFICES ASSUME NEW i \in 1..Len(W2), NEW k \in 1..Len(W2), i < k, W2[i].type \in Data,
                        W2[k].type = "CF", Between(W2, i, k)
                 PROVE  Succeeds(W2[k].cell, W2[i].cell)
    BY DEF InStep
  <2>2. k - 1 \in 1..Len(W) /\ W2[k] = W[k - 1]
    BY <1>2, <1>3, <2>1
  <2>3. CASE i = 1
    <3>1. k = 2
      <4>1. ~(2 < k)
        <5>1. 2 \in 1..Len(W2) /\ W2[2] = f
          <6>1. 1 + 1 \in 1..Len(W2) /\ W2[1 + 1] = f
            BY <1>2, <1>3
          <6> QED BY <6>1
        <5>2. f.type \in Data
          BY <1>2, <2>1, <2>3
        <5> QED BY <2>1, <2>3, <5>1, <5>2 DEF Between
      <4> QED BY <2>1, <2>3, <4>1
    <3>2. W2[k] = f /\ W2[i] = f
      <4>1. k - 1 = 1
        BY <3>1
      <4> QED BY <1>2, <2>2, <2>3, <4>1
    <3>3. f.cell[2] \in Nat
      BY <1>2
    <3> QED BY <3>2, <3>3 DEF Succeeds
  <2>4. CASE i - 1 \in 1..Len(W) /\ W2[i] = W[i - 1]
    <3>1. Between(W, i - 1, k - 1) /\ i - 1 < k - 1
      BY <1>4, <2>1
    <3> QED BY <1>1, <2>1, <2>2, <2>4, <3>1 DEF InStep
  <2> QED BY <1>3, <2>3, <2>4
<1>6. Headed(R, W2)
  <2>1. SUFFICES ASSUME Reassembling(R), NEW k \in 1..Len(W2), W2[k].type = "CF", Between(W2, 0, k)
                 PROVE  Succeeds(W2[k].cell, <<Of(R), Len(R.data)>>)
    BY <1>1 DEF Headed
  <2>2. CASE k = 1
    <3>1. Between(W, 0, 1)
      BY <1>2 DEF Between
    <3> QED BY <1>1, <1>2, <2>1, <2>2, <3>1 DEF Headed
  <2>3. CASE k - 1 \in 1..Len(W) /\ W2[k] = W[k - 1]
    <3>1. Between(W, 0, k - 1)
      <4>1. Between(W2, 1, k)
        BY <1>2, <2>1 DEF Between
      <4>2. Between(W, 1 - 1, k - 1)
        BY <1>4, <2>1, <4>1
      <4> QED BY <4>2
    <3> QED BY <1>1, <2>1, <2>3, <3>1 DEF Headed
  <2> QED BY <1>3, <2>2, <2>3
<1>7. Ended(T, B, R, W2)
  <2>1. ASSUME Busy(T), NEW k \in 1..Len(W2), W2[k].type \in Data, Between(W2, k, Len(W2) + 1)
        PROVE  W2[k].cell = <<B[1], T.sent>>
    <3>1. k # 1
      <4>1. 1 + 1 \in 1..Len(W2) /\ W2[1 + 1] = f /\ 1 < 1 + 1 /\ 1 + 1 < Len(W2) + 1
        BY <1>2, <1>3
      <4> QED BY <1>2, <2>1, <4>1 DEF Between
    <3>2. k - 1 \in 1..Len(W) /\ W2[k] = W[k - 1]
      BY <1>3, <3>1
    <3>3. Between(W, k - 1, Len(W) + 1)
      <4>1. k \in Nat \ {0} /\ Len(W2) + 1 \in Nat /\ (Len(W2) + 1) - 1 = Len(W) + 1
        BY <1>2
      <4>2. Between(W, k - 1, (Len(W2) + 1) - 1)
        BY <1>4, <2>1, <4>1
      <4> QED BY <4>1, <4>2
    <3> QED BY <1>1, <2>1, <3>2, <3>3 DEF Ended
  <2>2. ASSUME Busy(T), Reassembling(R), Between(W2, 0, Len(W2) + 1)
        PROVE  Of(R) = B[1] /\ Len(R.data) = T.sent
    <3>1. Between(W, 0, Len(W) + 1)
      <4>1. Between(W2, 1, Len(W2) + 1)
        BY <1>2, <2>2 DEF Between
      <4>2. Len(W2) + 1 \in Nat /\ (Len(W2) + 1) - 1 = Len(W) + 1 /\ 1 - 1 = 0 /\ 1 \in Nat \ {0}
        BY <1>2
      <4>3. Between(W, 1 - 1, (Len(W2) + 1) - 1)
        BY <1>4, <4>1, <4>2
      <4> QED BY <4>2, <4>3
    <3> QED BY <1>1, <2>2, <3>1 DEF Ended
  <2> QED BY <2>1, <2>2 DEF Ended
<1> QED BY <1>5, <1>6, <1>7 DEF Chain, W2

\* Consecutive numbers differ.
LEMMA NextNumber ==
    ASSUME NEW k \in Nat, k > 1, NEW x \in Nat
    PROVE  x % k # (x + 1) % k
<1> DEFINE q == x \div k
           r == x % k
           q2 == (x + 1) \div k
           r2 == (x + 1) % k
<1>1. x = k * q + r /\ q \in Int /\ r \in Int
  OBVIOUS
<1>2. x + 1 = k * q2 + r2 /\ q2 \in Int /\ r2 \in Int
  OBVIOUS
<1> HIDE DEF q, r, q2, r2
<1>3. ASSUME r = r2 PROVE FALSE
  <2>1. k * q2 = k * q + 1
    BY <1>1, <1>2, <1>3
  <2>2. CASE q2 <= q
    <3>1. k * q2 <= k * q
      BY <1>1, <1>2, <2>2
    <3> QED BY <1>1, <1>2, <2>1, <3>1
  <2>3. CASE q2 >= q + 1
    <3>1. k * q2 >= k * (q + 1)
      BY <1>1, <1>2, <2>3
    <3>2. k * (q + 1) = k * q + k
      BY <1>1
    <3> QED BY <1>1, <1>2, <2>1, <3>1, <3>2
  <2> QED BY <1>1, <1>2, <2>2, <2>3
<1> QED BY <1>3 DEF r, r2

-----------------------------------------------------------------------------
(* The chain in both directions, kept by every action but a loss. *)

Chained(n) == Chain(tx[n], buf[n], rx[Peer(n)], wire[Peer(n)])

Stays(n) == Busy(tx'[n]) => Busy(tx[n]) /\ tx'[n].sent = tx[n].sent /\ buf'[n] = buf[n]

Holds(n) == Reassembling(rx'[n]) => rx'[n].st = rx[n].st /\ rx'[n].data = rx[n].data

\* The sender moves no further, the receiver takes nothing.
LEMMA ChainedKept ==
    ASSUME TypeOK, TypeOK', NEW n \in Nodes, Chained(n), Stays(n), Holds(Peer(n)),
           Extends(wire[Peer(n)], wire'[Peer(n)])
    PROVE  Chained(n)'
<1> DEFINE p == Peer(n)
<1>1. wire[p] \in Seq(Frames) /\ wire'[p] \in Seq(Frames)
  BY Ends DEF TypeOK
<1>2. Chain(tx[n], buf[n], rx[p], wire[p])
  BY DEF Chained
<1>3. Chain(tx'[n], buf'[n], rx'[p], wire'[p])
  BY ONLY <1>1, <1>2, Stays(n), Holds(p), Extends(wire[p], wire'[p]), ChainKept DEF Stays, Holds
<1> QED BY <1>3 DEF Chained

\* n takes a frame, its peer is as it was.
LEMMA ChainedTaken ==
    ASSUME TypeOK, NEW n \in Nodes, Chained(Peer(n)), wire[n] # <<>>,
           tx'[Peer(n)] = tx[Peer(n)], buf'[Peer(n)] = buf[Peer(n)], wire'[n] = Tail(wire[n]),
           IF wire[n][1].type \in Data THEN At(rx'[n], wire[n][1].cell) ELSE Holds(n)
    PROVE  Chained(Peer(n))'
<1> DEFINE p == Peer(n)
<1>1. wire[n] \in Seq(Frames) /\ Peer(p) = n
  BY Ends DEF TypeOK
<1>2. Chain(tx[p], buf[p], rx[n], wire[n])
  BY <1>1 DEF Chained
<1>3. Chain(tx[p], buf[p], rx'[n], Tail(wire[n]))
  BY <1>1, <1>2, ChainTaken DEF Holds
<1> QED BY <1>1, <1>3 DEF Chained

\* What n answers is no data.
LEMMA AnsweredExtends ==
    ASSUME TypeOK, NEW n \in Nodes, NEW fs \in Flow, Answered(n, fs)
    PROVE  Extends(wire[Peer(n)], wire'[Peer(n)])
<1>1. FC(fs, n) \in Frames /\ FC("WAIT", n) \in Frames
  BY FrameTypes DEF Flow
<1>2. FC(fs, n).type \notin Data /\ FC("WAIT", n).type \notin Data
  BY DEF FC, Frame, Flow, Data
<1>3. wire[Peer(n)] \in Seq(Frames)
  BY Ends DEF TypeOK
<1> QED BY <1>1, <1>2, <1>3, ExtendsFacts DEF Answered

\* The sender's side of n while n takes a frame.
LEMMA ChainedBack ==
    ASSUME TypeOK, TypeOK', NEW n \in Nodes, Chained(n), Stays(n), rx'[Peer(n)] = rx[Peer(n)],
           wire'[Peer(n)] = wire[Peer(n)] \/ \E fs \in Flow : Answered(n, fs)
    PROVE  Chained(n)'
<1>1. Holds(Peer(n))
  BY DEF Holds
<1>2. wire[Peer(n)] \in Seq(Frames)
  BY Ends DEF TypeOK
<1>3. Extends(wire[Peer(n)], wire'[Peer(n)])
  BY <1>2, AnsweredExtends, ExtendsFacts
<1> QED BY <1>1, <1>3, ChainedKept

\* The consecutive frame in hand carries the next cell: the one before has another number.
LEMMA NextInChain ==
    ASSUME Linked, SnMod > 1, NEW n \in Nodes, Chained(Peer(n)), InSequence(n)
    PROVE  /\ \A i \in 1..Len(rx[n].data) : rx[n].data[i] = <<Of(rx[n]), i>>
           /\ wire[n][1].cell = <<Of(rx[n]), Len(rx[n].data) + 1>>
<1> DEFINE p == Peer(n)
           R == rx[n]
           d == Len(R.data)
           c == wire[n][1].cell
           z == c[2]
           s == wire[n][1].sn
<1>1. TypeOK /\ InBuffer /\ p \in Nodes /\ Peer(p) = n /\ Link(p) /\ wire[n] \in Seq(Frames)
  BY Ends DEF Linked, TypeOK
<1>2. /\ wire[n] # <<>> /\ wire[n][1].type = "CF" /\ wire[n][1] \in Frames
      /\ Reassembling(R) /\ s = R.sn % SnMod
  BY <1>1, ExtendedFacts DEF Reassembling
<1>3. R.sn = d /\ d \in 1..R.len - 1
  BY <1>1, <1>2 DEF Link, Receiver
<1>4. s = (z - 1) % SnMod /\ c \in Cell /\ z \in Nat
  <2>1. Sound(p, wire[n][1], unsent[p])
    BY <1>2, AtHead
  <2> QED BY <1>2, <2>1 DEF Sound, Frames, Cell
<1>5. Headed(R, wire[n])
  BY <1>1 DEF Chained, Chain
<1>6. (\A i \in 1..d : R.data[i] = <<Of(R), i>>) /\ Succeeds(c, <<Of(R), d>>)
  <2>1. 1 \in 1..Len(wire[n])
    BY <1>1, <1>2, TailFacts
  <2>2. Between(wire[n], 0, 1)
    <3>1. \A j \in 1..Len(wire[n]) : ~(j < 1)
      OBVIOUS
    <3> QED BY <3>1 DEF Between
  <2> QED BY <1>2, <1>5, <2>1, <2>2 DEF Headed
<1>7. c = <<c[1], z>>
  <2>1. \A x \in Cell : x = <<x[1], x[2]>>
    BY DEF Cell
  <2> QED BY <1>4, <2>1
<1>8. c[1] = Of(R) /\ z \in {d, d + 1}
  BY <1>6 DEF Succeeds
<1>9. d - 1 \in Nat /\ (d - 1) + 1 = d
  <2>1. d \in Nat
    BY <1>1, <1>2, ExtendedFacts
  <2> HIDE DEF d, R
  <2> QED BY <1>3, <2>1
<1>10. SnMod \in Nat
  BY NumbersAssumption
<1>11. s = d % SnMod
  BY <1>2, <1>3
<1> HIDE DEF d, z, s, c
<1>12. z # d
  <2>1. SUFFICES ASSUME z = d PROVE FALSE
    OBVIOUS
  <2>2. (d - 1) % SnMod # ((d - 1) + 1) % SnMod
    BY <1>9, <1>10, NextNumber
  <2> QED BY <1>4, <1>9, <1>11, <2>1, <2>2
<1> QED BY <1>6, <1>7, <1>8, <1>12 DEF c, d, z

LEMMA ChainCompletes ==
    ASSUME Linked, SnMod > 1, NEW n \in Nodes, Chained(Peer(n))
    PROVE  Completes(n)
<1> DEFINE p == Peer(n)
           R == rx[n]
           d == Len(R.data)
           c == wire[n][1].cell
           E == Extended(n)
           m == Of(R)
<1>1. TypeOK /\ InBuffer /\ p \in Nodes /\ Peer(p) = n /\ Link(p)
  BY Ends DEF Linked
<1>2. SUFFICES ASSUME InSequence(n), Len(E) = R.len PROVE E = Whole(m)
  BY DEF Completes
<1>3. /\ Reassembling(R) /\ E \in Seq(Cell) /\ d \in Nat /\ Len(E) = d + 1
      /\ \A i \in 1..d : E[i] = R.data[i]
      /\ E[d + 1] = c
  BY <1>1, <1>2, ExtendedFacts DEF Reassembling
<1>4. m \in Sendable(p) /\ R.len = Cells[m]
  BY <1>1, <1>3 DEF Link, Receiver
<1>5. m \in Msgs
  BY <1>1, <1>4, MsgsAssumption DEF Sendable
<1>6. (\A i \in 1..d : R.data[i] = <<m, i>>) /\ c = <<m, d + 1>>
  BY <1>2, NextInChain
<1> HIDE DEF R, d, c, E, m
<1>7. \A i \in 1..Len(E) : E[i] = <<m, i>>
  <2>1. \A i \in 1..Len(E) : i \in 1..d \/ i = d + 1
    BY <1>3
  <2> QED BY <1>3, <1>6, <2>1
<1>8. \A i \in 1..Len(E) : E[i][1] = m /\ E[i][2] = i
  BY <1>7
<1>9. Len(E) = Cells[m]
  BY <1>2, <1>4
<1> QED BY <1>3, <1>5, <1>8, <1>9, MadeWhole

-----------------------------------------------------------------------------
LEMMA ChainTransmit ==
    ASSUME Linked, NEW n \in Nodes, Chained(n), Chained(Peer(n)), NEW m \in Msgs, Transmit(n, m)
    PROVE  Chained(n)' /\ Chained(Peer(n))'
<1> DEFINE p == Peer(n)
<1>1. TypeOK /\ InBuffer /\ p \in Nodes /\ Peer(p) = n /\ wire[p] \in Seq(Frames)
  BY Ends DEF Linked, TypeOK
<1>2. /\ TypeOK' /\ Alone(n) /\ tx'[n] = Started(m)
      /\ \A i \in 1..Cells[m] : buf'[n][i] = m
      /\ rx' = rx /\ wire'[n] = wire[n]
  BY <1>1, TransmitStep
<1>3. PICK f \in FirstFrames(m) : f \in Frames /\ wire'[p] = wire[p] \o <<f>>
  BY <1>1, TransmitStep
<1>4. Chained(p)'
  BY <1>1, <1>2 DEF Chained, Alone
<1>5. CASE Cells[m] = 1
  <2>1. f.type \notin Data
    BY <1>5 DEF FirstFrames, SF, Func, Frame, Data
  <2>2. Stays(n) /\ Holds(p)
    BY <1>2, <1>5, ChannelTypes DEF Started, Stays, Holds
  <2>3. Extends(wire[p], wire'[p])
    BY <1>1, <1>3, <2>1, ExtendsFacts
  <2>4. Chained(n)'
    BY ONLY <1>1, <1>2, <2>2, <2>3, n \in Nodes, Chained(n), ChainedKept
  <2> QED BY <1>4, <2>4
<1>6. CASE Cells[m] # 1
  <2>1. f.type = "FF" /\ f.cell = <<m, 1>>
    BY <1>6 DEF FirstFrames, FF, Frame
  <2>2. tx'[n].sent = 1
    BY <1>2, <1>6 DEF Started, TxIdle
  <2>3. buf'[n][1] = m
    <3>1. 1 \in 1..Cells[m]
      BY Lengths
    <3> QED BY <1>2, <3>1
  <2>4. f.type \in Data /\ f.type # "CF" /\ f.cell = <<buf'[n][1], tx'[n].sent>>
    BY <2>1, <2>2, <2>3 DEF Data
  <2>5. Chain(tx[n], buf[n], rx[p], wire[p])
    BY DEF Chained
  <2>6. Chain(tx'[n], buf'[n], rx[p], wire[p] \o <<f>>)
    BY ONLY <1>1, <1>3, <2>4, <2>5, ChainEmits
  <2> QED BY <1>2, <1>3, <1>4, <2>6 DEF Chained
<1> QED BY <1>5, <1>6

\* The queues do not change, or only the head of one is taken and ends the reception.
LEMMA ChainQuiet ==
    ASSUME Patient, Linked, NEW n \in Nodes, Chained(n), Chained(Peer(n)),
           \/ \E m \in Msgs : TransmitRefused(n, m) \/ TransmitBusy(n, m)
           \/ ResetRx(n) \/ ResetTx(n)
    PROVE  Chained(n)' /\ Chained(Peer(n))'
<1> DEFINE p == Peer(n)
<1>1. TypeOK /\ InBuffer /\ p \in Nodes /\ Peer(p) = n
  BY Ends DEF Linked
<1>2. /\ TypeOK' /\ wire' = wire
      /\ (tx'[n] = tx[n] /\ buf'[n] = buf[n]) \/ ~Busy(tx'[n])
      /\ tx'[p] = tx[p] /\ buf'[p] = buf[p]
      /\ rx'[n] = rx[n] \/ ~Reassembling(rx'[n])
      /\ rx'[p] = rx[p]
  <2>1. ASSUME NEW m \in Msgs, TransmitRefused(n, m) \/ TransmitBusy(n, m)
        PROVE  /\ TypeOK' /\ wire' = wire /\ Alone(n) /\ rx' = rx
               /\ (tx'[n] = tx[n] /\ buf'[n] = buf[n]) \/ ~Busy(tx'[n])
    BY ONLY Patient, <1>1, <2>1, n \in Nodes, m \in Msgs, TransmitRefusedStep, TransmitBusyStep,
            ChannelTypes
  <2>2. CASE ResetRx(n) \/ ResetTx(n)
    BY ONLY <1>1, <2>2, n \in Nodes, ResetRxStep, ResetTxStep, ChannelTypes DEF Reassembling
  <2> QED BY <2>1, <2>2 DEF Alone
<1>3. Stays(n) /\ Stays(p) /\ Holds(n) /\ Holds(p)
  BY <1>2 DEF Stays, Holds
<1>4. Extends(wire[n], wire'[n]) /\ Extends(wire[p], wire'[p])
  BY <1>1, <1>2, ExtendsFacts DEF TypeOK
<1> QED BY ONLY <1>1, <1>2, <1>3, <1>4, n \in Nodes, Chained(n), Chained(p), ChainedKept

LEMMA ChainSingle ==
    ASSUME Linked, NEW n \in Nodes, Chained(n), Chained(Peer(n)), ReceiveSingle(n)
    PROVE  Chained(n)' /\ Chained(Peer(n))'
<1>1. TypeOK /\ InBuffer /\ Peer(n) \in Nodes
  BY Ends DEF Linked
<1>2. /\ TypeOK' /\ tx' = tx /\ buf' = buf
      /\ wire[n] # <<>> /\ wire[n][1].type \in {"SF", "FUNC"}
      /\ wire'[n] = Tail(wire[n]) /\ wire'[Peer(n)] = wire[Peer(n)]
      /\ rx'[n] = rx[n] \/ rx'[n] = RxIdle
      /\ rx'[Peer(n)] = rx[Peer(n)]
  BY <1>1, SingleStep
<1>3. wire[n][1].type \notin Data /\ Stays(n) /\ Holds(n)
  BY <1>2, ChannelTypes DEF Data, Stays, Holds, Reassembling
<1> QED BY ONLY <1>1, <1>2, <1>3, n \in Nodes, Chained(n), Chained(Peer(n)), ChainedTaken, ChainedBack

\* A first frame of a message the buffer holds begins the reassembly anew.
LEMMA ChainFirst ==
    ASSUME Linked, \A m \in Msgs : Cells[m] <= RxBuf,
           NEW n \in Nodes, Chained(n), Chained(Peer(n)), ReceiveFirst(n)
    PROVE  Chained(n)' /\ Chained(Peer(n))'
<1> DEFINE p == Peer(n)
           f == wire[n][1]
<1>1. TypeOK /\ InBuffer /\ p \in Nodes
  BY Ends DEF Linked
<1>2. /\ TypeOK' /\ tx' = tx /\ buf' = buf
      /\ wire[n] # <<>> /\ f.type = "FF"
      /\ wire'[n] = Tail(wire[n]) /\ rx'[p] = rx[p]
      /\ \/ rx'[n] = RxError /\ wire'[p] = wire[p]
         \/ f.len > RxBuf
         \/ rx'[n] = Begun(f) /\ Answered(n, "CTS")
  BY <1>1, FirstStep
<1>3. f.type \in Data /\ f.cell \in Cell /\ f.cell[2] = 1 /\ ~(f.len > RxBuf)
  <2>1. Sound(p, f, unsent[p]) /\ f \in Frames
    BY <1>2, AtHead
  <2>2. f.cell[1] \in Sendable(p) /\ f.cell[2] = 1 /\ f.len = Cells[f.cell[1]]
    BY <1>2, <2>1 DEF Sound, Flow
  <2>3. f.cell[1] \in Msgs
    BY <1>1, <2>2, MsgsAssumption DEF Sendable
  <2>4. f.len <= RxBuf /\ f.len \in Nat /\ RxBuf \in Nat
    BY <2>2, <2>3, Lengths, NumbersAssumption
  <2> QED BY <1>2, <2>1, <2>2, <2>4 DEF Data, Frames
<1>4. At(rx'[n], f.cell)
  <2>1. CASE rx'[n] = RxError
    BY <2>1, ChannelTypes DEF At, Reassembling
  <2>2. CASE rx'[n] = Begun(f)
    <3> DEFINE c == f.cell
    <3>1. rx'[n].data = <<c>> /\ Of(rx'[n]) = c[1]
      BY <2>2 DEF Begun, Of
    <3>2. c = <<c[1], 1>>
      <4>1. \A x \in Cell : x = <<x[1], x[2]>>
        BY DEF Cell
      <4> QED BY <1>3, <4>1
    <3>3. Len(<<c>>) = 1 /\ <<c>>[1] = c /\ \A i \in 1..1 : i = 1
      OBVIOUS
    <3> HIDE DEF c
    <3> QED BY <3>1, <3>2, <3>3 DEF At, c
  <2> QED BY <1>2, <1>3, <2>1, <2>2
<1>5. Stays(n) /\ (wire'[p] = wire[p] \/ \E fs \in Flow : Answered(n, fs))
  BY <1>2, <1>3 DEF Stays, Flow
<1>6. tx'[p] = tx[p] /\ buf'[p] = buf[p]
  BY <1>2
<1> QED BY ONLY <1>1, <1>2, <1>3, <1>4, <1>5, <1>6, n \in Nodes, Chained(n), Chained(p),
                ChainedTaken, ChainedBack

\* A stray frame and the last one leave no reassembly.
LEMMA ChainOver ==
    ASSUME Linked, NEW n \in Nodes, Chained(n), Chained(Peer(n)), ReceiveStray(n) \/ ReceiveLast(n)
    PROVE  Chained(n)' /\ Chained(Peer(n))'
<1>1. TypeOK /\ InBuffer /\ Peer(n) \in Nodes
  BY Ends DEF Linked
<1>2. /\ TypeOK' /\ tx' = tx /\ buf' = buf
      /\ wire[n] # <<>> /\ wire[n][1].type = "CF"
      /\ wire'[n] = Tail(wire[n]) /\ wire'[Peer(n)] = wire[Peer(n)]
      /\ rx'[Peer(n)] = rx[Peer(n)] /\ ~Reassembling(rx'[n])
  BY <1>1, StrayStep, LastStep, ExtendedFacts, ChannelTypes DEF Reassembling
<1>3. wire[n][1].type \in Data /\ Stays(n) /\ At(rx'[n], wire[n][1].cell)
  BY <1>2 DEF Data, Stays, At
<1> QED BY ONLY <1>1, <1>2, <1>3, n \in Nodes, Chained(n), Chained(Peer(n)), ChainedTaken, ChainedBack

LEMMA ChainNext ==
    ASSUME Linked, SnMod > 1, NEW n \in Nodes, Chained(n), Chained(Peer(n)), ReceiveNext(n)
    PROVE  Chained(n)' /\ Chained(Peer(n))'
<1> DEFINE p == Peer(n)
           R == rx[n]
           R2 == rx'[n]
           d == Len(R.data)
           E == Extended(n)
           c == wire[n][1].cell
<1>1. TypeOK /\ InBuffer /\ p \in Nodes /\ Peer(p) = n /\ Link(p)
  BY Ends DEF Linked
<1>2. /\ TypeOK' /\ tx' = tx /\ buf' = buf
      /\ InSequence(n) /\ wire'[n] = Tail(wire[n]) /\ rx'[p] = rx[p]
      /\ wire'[p] = wire[p] \/ Answered(n, "CTS")
      /\ R2 = RxError \/ R2.data = E
  BY <1>1, NextStep
<1>3. /\ wire[n] # <<>> /\ wire[n][1].type = "CF" /\ Reassembling(R)
      /\ d \in Nat /\ Len(E) = d + 1
      /\ \A i \in 1..d : E[i] = R.data[i]
      /\ E[d + 1] = c
  BY <1>1, <1>2, ExtendedFacts DEF Reassembling
<1>4. d >= 1
  <2>1. d \in 1..R.len - 1
    BY <1>1, <1>3 DEF Link, Receiver
  <2> QED BY <1>3, <2>1
<1>5. (\A i \in 1..d : R.data[i] = <<Of(R), i>>) /\ c = <<Of(R), d + 1>>
  BY <1>2, NextInChain
<1>6. At(R2, c)
  <2>1. CASE R2 = RxError
    BY <2>1, ChannelTypes DEF At, Reassembling
  <2>2. CASE R2.data = E
    <3> DEFINE m == Of(R)
    <3> HIDE DEF d, E, c, m, R
    <3>1. E[1] = <<m, 1>>
      <4>1. 1 \in 1..d
        BY <1>3, <1>4
      <4> QED BY <1>3, <1>5, <4>1 DEF m
    <3>2. Of(R2) = m
      BY <2>2, <3>1 DEF Of
    <3>3. \A i \in 1..Len(E) : i \in 1..d \/ i = d + 1
      BY <1>3
    <3>4. \A i \in 1..Len(E) : E[i] = <<m, i>>
      BY <1>3, <1>5, <3>3 DEF m
    <3>5. c = <<m, Len(E)>>
      BY <1>3, <1>5 DEF m
    <3> HIDE DEF R2
    <3> QED BY <2>2, <3>2, <3>4, <3>5 DEF At
  <2> QED BY <1>2, <2>1, <2>2
<1>7. wire[n][1].type \in Data /\ Stays(n) /\ (wire'[p] = wire[p] \/ \E fs \in Flow : Answered(n, fs))
  BY <1>2, <1>3 DEF Data, Flow, Stays
<1>8. tx'[p] = tx[p] /\ buf'[p] = buf[p]
  BY <1>2
<1> QED BY ONLY <1>1, <1>2, <1>3, <1>6, <1>7, <1>8, n \in Nodes, Chained(n), Chained(p),
                ChainedTaken, ChainedBack

LEMMA ChainFlow ==
    ASSUME Linked, NEW n \in Nodes, Chained(n), Chained(Peer(n)), ReceiveFlow(n)
    PROVE  Chained(n)' /\ Chained(Peer(n))'
<1> DEFINE p == Peer(n)
<1>1. TypeOK /\ InBuffer /\ p \in Nodes /\ tx[n] \in Channels
  BY Ends DEF Linked, TypeOK
<1>2. /\ TypeOK' /\ rx' = rx /\ buf' = buf
      /\ wire[n] # <<>> /\ wire[n][1].type \in Flow
      /\ wire'[n] = Tail(wire[n]) /\ wire'[p] = wire[p] /\ tx'[p] = tx[p]
      /\ \/ tx'[n] = tx[n]
         \/ tx[n].st = "WAIT_FC" /\ tx'[n] = Cleared(tx[n], wire[n][1])
         \/ tx[n].st = "WAIT_FC" /\ tx'[n] = [tx[n] EXCEPT !.timer = BsTimeout]
         \/ tx'[n] = TxError
  BY <1>1, FlowStep DEF Flow
<1>3. Stays(n)
  <2>1. Cleared(tx[n], wire[n][1]).sent = tx[n].sent
    BY <1>1 DEF Cleared, Channels
  <2>2. [tx[n] EXCEPT !.timer = BsTimeout].sent = tx[n].sent
    BY <1>1 DEF Channels
  <2>3. tx[n].st = "WAIT_FC" => Busy(tx[n])
    BY DEF Busy
  <2> QED BY <1>2, <2>1, <2>2, <2>3, ChannelTypes DEF Stays
<1>4. wire[n][1].type \notin Data /\ Holds(n)
  BY <1>2 DEF Flow, Data, Holds
<1>5. buf'[p] = buf[p] /\ rx'[p] = rx[p]
  BY <1>2
<1> QED BY ONLY <1>1, <1>2, <1>3, <1>4, <1>5, n \in Nodes, Chained(n), Chained(p),
                ChainedTaken, ChainedBack

\* The receiver's side of the end that ticks.
LEMMA ChainPasses ==
    ASSUME TypeOK, TypeOK', NEW n \in Nodes, Passes(n), Chained(Peer(n)),
           SameReception(n) \/ rx'[n] = RxError
    PROVE  Chained(Peer(n))'
<1> DEFINE p == Peer(n)
<1>1. /\ p \in Nodes /\ Peer(p) = n /\ wire[n] \in Seq(Frames)
      /\ tx'[p] = tx[p] /\ buf'[p] = buf[p] /\ wire'[n] = Older(wire[n])
  BY Ends DEF TypeOK, Passes
<1>2. Stays(p) /\ Holds(n) /\ Extends(wire[n], wire'[n])
  BY <1>1, ChannelTypes, ExtendsFacts DEF Stays, Holds, SameReception, Reassembling
<1> QED BY ONLY <1>1, <1>2, TypeOK, TypeOK', Chained(p), ChainedKept

LEMMA ChainWaits ==
    ASSUME Linked, NEW n \in Nodes, Chained(n), Chained(Peer(n)), TickCr(n) \/ TickWait(n)
    PROVE  Chained(n)' /\ Chained(Peer(n))'
<1> DEFINE p == Peer(n)
<1>1. TypeOK /\ InBuffer /\ p \in Nodes /\ tx[n] \in Channels /\ wire[p] \in Seq(Frames)
  BY Ends DEF Linked, TypeOK
<1>2. /\ TypeOK' /\ Passes(n) /\ wire'[p] = Older(wire[p])
      /\ SameReception(n) \/ rx'[n] = RxError
      /\ \/ tx'[n] = tx[n]
         \/ tx'[n] = TxError
         \/ tx'[n] = [tx[n] EXCEPT !.timer = Minus1(@)]
  BY <1>1, TickCrStep, TickWaitStep
<1>3. Stays(n)
  <2>1. \A x : LET T2 == [tx[n] EXCEPT !.timer = x]
               IN  T2.st = tx[n].st /\ T2.sent = tx[n].sent
    BY <1>1 DEF Channels
  <2>2. buf'[n] = buf[n]
    BY <1>2 DEF Passes
  <2> QED BY <1>2, <2>1, <2>2, ChannelTypes DEF Stays, Busy
<1>4. Holds(p) /\ Extends(wire[p], wire'[p])
  BY <1>1, <1>2, ExtendsFacts DEF Passes, Holds
<1> QED BY ONLY <1>1, <1>2, <1>3, <1>4, n \in Nodes, Chained(n), Chained(p), ChainedKept, ChainPasses

LEMMA ChainPump ==
    ASSUME Linked, NEW n \in Nodes, Chained(n), Chained(Peer(n)), TickPump(n)
    PROVE  Chained(n)' /\ Chained(Peer(n))'
<1> DEFINE p == Peer(n)
           T == tx[n]
           f == NextFrame(n)
<1>1. TypeOK /\ InBuffer /\ p \in Nodes /\ T \in Channels /\ wire[p] \in Seq(Frames)
  BY Ends DEF Linked, TypeOK
<1>2. /\ TypeOK' /\ Passes(n) /\ SameReception(n) /\ T.st = "SEND_CF"
      /\ \/ /\ tx'[n] = Pumped(T) /\ f \in Frames
            /\ wire'[p] = Older(wire[p]) \o <<f>>
         \/ tx'[n] = TxError /\ wire'[p] = Older(wire[p])
  BY <1>1, TickPumpStep
<1>3. Chained(p)'
  BY <1>1, <1>2, ChainPasses
<1>4. buf'[n] = buf[n] /\ rx'[p] = rx[p]
  BY <1>2 DEF Passes
<1>5. Older(wire[p]) \in Seq(Frames) /\ Extends(wire[p], Older(wire[p]))
  BY <1>1, OlderFacts, ExtendsFacts
<1>6. CASE tx'[n] = TxError /\ wire'[p] = Older(wire[p])
  <2>1. Stays(n) /\ Holds(p) /\ Extends(wire[p], wire'[p])
    BY <1>4, <1>5, <1>6, ChannelTypes DEF Stays, Holds
  <2> QED BY ONLY <1>1, <1>2, <1>3, <2>1, n \in Nodes, Chained(n), ChainedKept
<1>7. CASE tx'[n] = Pumped(T) /\ f \in Frames /\ wire'[p] = Older(wire[p]) \o <<f>>
  <2>1. f.type = "CF" /\ f.cell = <<buf[n][1], T.sent + 1>>
    BY <1>2, <1>7, Emitted
  <2>2. Chain(T, buf[n], rx[p], wire[p])
    BY DEF Chained
  <2>3. Chain(T, buf[n], rx[p], Older(wire[p]))
    BY ONLY <1>1, <1>5, <2>2, ChainKept
  <2>4. f.type \in Data /\ Busy(T) /\ f.cell[1] = buf[n][1] /\ f.cell[2] = T.sent + 1
    BY <1>2, <2>1 DEF Data, Busy
  <2>5. Busy(tx'[n]) => f.cell = <<buf[n][1], tx'[n].sent>>
    <3>1. Busy(Pumped(T)) => Pumped(T).sent = T.sent + 1
      BY <1>1, <1>2, PumpedFacts, ChannelTypes
    <3> QED BY <1>7, <2>1, <3>1
  <2>6. Chain(tx'[n], buf[n], rx[p], Older(wire[p]) \o <<f>>)
    BY ONLY <1>5, <1>7, <2>3, <2>4, <2>5, ChainEmits
  <2> QED BY <1>3, <1>4, <1>7, <2>6 DEF Chained
<1> QED BY <1>2, <1>6, <1>7

LEMMA ChainRepeat ==
    ASSUME Linked, NEW n \in Nodes, Chained(n), Chained(Peer(n)), Repeat(n)
    PROVE  Chained(n)' /\ Chained(Peer(n))'
<1> DEFINE p == Peer(n)
<1>1. TypeOK /\ InBuffer /\ p \in Nodes /\ Peer(p) = n /\ wire[n] \in Seq(Frames)
  BY Ends DEF Linked, TypeOK
<1>2. /\ tx' = tx /\ rx' = rx /\ buf' = buf /\ wire'[p] = wire[p]
      /\ wire[n] # <<>> /\ wire'[n] = <<wire[n][1]>> \o wire[n]
  BY <1>1, RepeatStep
<1>3. Chained(n)'
  BY <1>1, <1>2 DEF Chained
<1>4. Chain(tx[p], buf[p], rx[n], wire[n])
  BY <1>1 DEF Chained
<1>5. \A i \in 1..Len(wire[n]) : wire[n][i].cell[2] \in Nat
  BY <1>1, CellNumbers
<1>6. Chain(tx[p], buf[p], rx[n], <<wire[n][1]>> \o wire[n])
  BY ONLY <1>1, <1>2, <1>4, <1>5, ChainRepeats
<1> QED BY <1>1, <1>2, <1>3, <1>6 DEF Chained

LEMMA ChainedKeptByAll ==
    ASSUME Patient, SnMod > 1, \A m \in Msgs : Cells[m] <= RxBuf,
           Linked, NEW n \in Nodes, Chained(n), Chained(Peer(n)),
           \/ \E m \in Msgs : Transmit(n, m) \/ TransmitRefused(n, m) \/ TransmitBusy(n, m)
           \/ Receive(n) \/ Tick(n) \/ Repeat(n) \/ ResetRx(n) \/ ResetTx(n)
    PROVE  Chained(n)' /\ Chained(Peer(n))'
<1>1. /\ Patient /\ SnMod > 1 /\ (\A m \in Msgs : Cells[m] <= RxBuf)
      /\ Linked /\ n \in Nodes /\ Chained(n) /\ Chained(Peer(n))
  OBVIOUS
<1>2. ASSUME NEW m \in Msgs, Transmit(n, m) PROVE Chained(n)' /\ Chained(Peer(n))'
  BY ONLY <1>1, <1>2, m \in Msgs, ChainTransmit
<1>3. CASE (\E m \in Msgs : TransmitRefused(n, m) \/ TransmitBusy(n, m)) \/ ResetRx(n) \/ ResetTx(n)
  BY ONLY <1>1, <1>3, ChainQuiet
<1>4. CASE Receive(n)
  BY ONLY <1>1, <1>4, ChainSingle, ChainFirst, ChainOver, ChainNext, ChainFlow DEF Receive
<1>5. CASE Tick(n) \/ Repeat(n)
  BY ONLY <1>1, <1>5, ChainWaits, ChainPump, ChainRepeat DEF Tick
<1> QED BY <1>2, <1>3, <1>4, <1>5

-----------------------------------------------------------------------------
Unbroken ==
    /\ Linked
    /\ \A n \in Nodes : Chained(n) /\ Given(n)

LEMMA InitUnbroken == Init => Unbroken
<1> SUFFICES ASSUME Init PROVE Unbroken
  OBVIOUS
<1>1. Linked
  BY InitLinked
<1>2. ASSUME NEW n \in Nodes PROVE Chained(n) /\ Given(n)
  <2>1. Peer(n) \in Nodes
    BY Ends
  <2>2. ~Busy(tx[n]) /\ ~Reassembling(rx[Peer(n)]) /\ wire[Peer(n)] = <<>> /\ got[n] = <<>>
    BY <2>1, ChannelTypes DEF Init, Reassembling
  <2>3. \A i \in 1..Len(<<>>) : FALSE
    BY EmptySeq
  <2> QED BY <2>2, <2>3 DEF Chained, Chain, InStep, Headed, Ended, Given
<1> QED BY <1>1, <1>2 DEF Unbroken

\* However many frames are repeated, refused or kept waiting for: as long as none is lost, a
\* node is given complete messages of its peer only (isotp_process_rx_frame and isotp_tick_1ms:
\* a repeated frame has the number of the one before).  The application leaves its buffer
\* alone while it is being sent, numbers repeat after more than one frame, and messages fit
\* the receiver's buffer.
THEOREM RepeatsNeverMix ==
    ASSUME Patient, SnMod > 1, \A m \in Msgs : Cells[m] <= RxBuf
    PROVE  Spec /\ [][\A n \in Nodes : ~Lose(n)]_vars => []DeliveredWhole
<1>1. Unbroken /\ [Next]_vars /\ [\A n \in Nodes : ~Lose(n)]_vars => Unbroken'
  <2> SUFFICES ASSUME Unbroken, [Next]_vars, [\A n \in Nodes : ~Lose(n)]_vars PROVE Unbroken'
    OBVIOUS
  <2>1. Linked /\ Linked'
    BY LinkedNextState DEF Unbroken
  <2>2. CASE UNCHANGED vars
    <3>1. ASSUME NEW n \in Nodes PROVE (Chained(n) /\ Given(n))'
      <4>1. Chained(n) /\ Given(n)
        BY DEF Unbroken
      <4>2. tx' = tx /\ rx' = rx /\ buf' = buf /\ wire' = wire /\ got' = got
        BY <2>2 DEF vars
      <4> QED BY <4>1, <4>2 DEF Chained, Given
    <3> QED BY <2>1, <3>1 DEF Unbroken
  <2>3. ASSUME NEW n \in Nodes,
               \/ \E m \in Msgs : Transmit(n, m) \/ TransmitRefused(n, m) \/ TransmitBusy(n, m)
               \/ Receive(n) \/ Tick(n) \/ Repeat(n) \/ ResetRx(n) \/ ResetTx(n)
        PROVE  Unbroken'
    <3>1. /\ Peer(n) \in Nodes /\ n \in Nodes /\ Chained(n) /\ Chained(Peer(n))
          /\ \A k \in Nodes : Given(k)
      BY Ends DEF Unbroken
    <3>2. Chained(n)' /\ Chained(Peer(n))'
      BY ONLY Patient, SnMod > 1, \A m \in Msgs : Cells[m] <= RxBuf, <2>1, <2>3, <3>1,
              ChainedKeptByAll
    <3>3. Completes(n)
      BY <2>1, <3>1, ChainCompletes
    <3>4. \A k \in Nodes : Given(k)'
      BY ONLY <2>1, <2>3, <3>1, <3>3, GivenKept
    <3>5. \A k \in Nodes : k = n \/ k = Peer(n)
      BY Ends
    <3> QED BY <2>1, <3>2, <3>4, <3>5 DEF Unbroken
  <2> QED BY <2>2, <2>3 DEF Next
<1>2. Unbroken => DeliveredWhole
  BY GivenIsDelivered DEF Unbroken
<1> QED BY <1>1, <1>2, InitUnbroken, PTL DEF Spec

=============================================================================
