-------------------------- MODULE NvmAppendProofs --------------------------
(***************************************************************************)
(* Proofs about NvmAppend.  The invariant says at which point of a call    *)
(* the store may be, and what flash and RAM hold there:                    *)
(*                                                                         *)
(*   AtRest      between two calls, RAM mirrors the flash                  *)
(*   Writing     one record is about to be appended                        *)
(*   MakingRoom  the log is full, the other bank is erased and headed      *)
(*   Moving      live records are being copied into it                     *)
(*   Wiping      both banks are being formatted                            *)
(*   Founding    the schema record is about to enter the empty store       *)
(*   Restoring   and the security record after it                          *)
(*                                                                         *)
(* Outside of a reclamation a boot would take the bank that RAM is about   *)
(* (Mirrors), so that it finds what a read answers.  While live records    *)
(* move, the new bank has the higher generation from its first byte on and *)
(* a boot would find it incomplete; Moved says that every live record is   *)
(* in one of the banks, so that at the switch none is missing.  A power    *)
(* loss leaves a torn cell behind the last whole one at most, which a scan *)
(* does not read.                                                          *)
(*                                                                         *)
(* The refinement maps each step under that invariant to one of KvStore,   *)
(* or to none.                                                             *)
(***************************************************************************)
EXTENDS NvmAppend, SequenceTheorems, FiniteSetTheorems, WellFoundedInduction, TLAPS


\* A bank with a header and no record.
Bare(h) == [head |-> h, recs |-> <<>>]

\* A log of one step and the steps s after it.
Cons(x, s) == <<x>> \o s

Erase(b) == [do |-> "erase", bank |-> b]
Header(b, g) == [do |-> "head", bank |-> b, gen |-> g]
Copy(left) == [do |-> "copy", left |-> left]
WipedStep == [do |-> "wiped"]

\* The steps of a full wipe that are left, from the last one to the first, then s.
Wipe5(s) == Cons(WipedStep, s)
Wipe4(s) == Cons(Header(0, 1), Wipe5(s))
Wipe3(s) == Cons(Erase(0), Wipe4(s))
Wipe2(s) == Cons(Header(1, 0), Wipe3(s))
Wipe1(s) == Cons(Erase(1), Wipe2(s))

\* What follows a wipe: the schema record, and the security record v if there is one.
Rewrite(v) == IF v = None THEN <<>> ELSE <<Append1(Sec, v)>>
Founded(v) == Cons(Append1(Schema, Current), Rewrite(v))
\* A boot that finds no header wipes twice.
Rest(v, twice) == IF twice THEN Wipe1(Founded(None)) ELSE Founded(v)
\* A store of which only the security record is left.
Kept(v) == [k \in DataKeys |-> IF k = Sec THEN v ELSE None]

\* The payload that the first n records hold for key k.
FoundIn(recs, n, k) == LET i == LastOf(recs, n, k) IN IF i = 0 THEN None ELSE recs[i].val

\* Both banks as a full wipe leaves them.
Factory == flash[0] = Bare(1) /\ flash[1] = Bare(0)

-----------------------------------------------------------------------------
(* The invariant. *)

\* No log outgrows its bank.
Fits == \A b \in Banks : Len(flash[b].recs) <= Cap

\* Bank 0 is never of generation 0, and a bank 1 that is has not been used.
HeadsOK ==
    /\ BanksOrdered
    /\ flash[0].head # 0
    /\ flash[1].head = 0 => \A i \in 1..Len(flash[1].recs) : flash[1].recs[i].key # Schema

\* The history variables say what a boot would find.
HistoryOK == stored = StoredIn(flash) /\ dirty = DirtyIn(flash)

\* RAM has the bank a boot would take, scanned to its last whole record.
Mirrors ==
    /\ flash[bank].head = gen /\ flash[1 - bank].head < gen
    /\ cursor = WholePart(flash[bank].recs)
    /\ index = ScanIndex(flash[bank].recs, cursor)
    /\ FoundIn(flash[bank].recs, cursor, Schema) = Current

\* The generation in RAM is no older than the bank's.
Headed == gen >= 1 /\ flash[bank].head <= gen

Steady == Headed /\ (~broken => Mirrors)

AtRest ==
    /\ todo = <<>> /\ goal = None /\ up # "mounting"
    /\ up = "off" => ~broken
    /\ up = "ready" => Steady

\* The records of writes and deletes.
Updates == {Append1(k, v) : k \in DataKeys, v \in Vals \cup {Gone}}

Writing == up = "ready" /\ goal = None /\ Steady /\ \E w \in Updates : todo = <<w>>

MakingRoom ==
    /\ up = "ready" /\ goal = None /\ Steady /\ cursor = Cap
    /\ \E w \in Updates :
          \/ todo = <<Erase(1 - bank), Header(1 - bank, gen + 1), Copy(LiveKeys), w>>
          \/ /\ todo = <<Header(1 - bank, gen + 1), Copy(LiveKeys), w>>
             /\ flash[1 - bank] = Bare(NoHead)

\* The payload of key k that a reclamation towards g has to leave.
Wanted(g, k) == IF k = Schema THEN Current ELSE g[k]

Holds(recs, i, k, v) == i \in 1..Len(recs) /\ recs[i] = [key |-> k, val |-> v]

\* Each live record is where its index entry says, in the old bank if it is left
\* to copy and in the new one if it is not, and the new bank holds nothing else.
Moved(left) ==
    /\ flash[bank].head = gen
    /\ \A k \in Keys : IF index[k] = 0 THEN k \notin left /\ Wanted(goal, k) = None
                      ELSE Holds(flash[IF k \in left THEN bank ELSE 1 - bank].recs,
                                 index[k], k, Wanted(goal, k))
    /\ \A i \in 1..Len(flash[1 - bank].recs) :
          LET k == flash[1 - bank].recs[i].key IN k \in Keys \ left /\ index[k] = i

Moving ==
    /\ up = "ready" /\ Headed
    /\ flash[1 - bank].head = gen + 1
    /\ \E w \in Updates, left \in SUBSET Keys :
          /\ todo = <<Copy(left), w>>
          /\ Len(flash[1 - bank].recs) + Cardinality(left) <= Cardinality(Keys)
          /\ ~broken => goal # None /\ Moved(left)

\* Outside of a reclamation that is accounted for: the store was empty anyway.
Blind == goal = None /\ ~broken

\* A wipe by a boot (v is None, and the promise was an empty store) or an erase-all.
Reclaiming(v, twice) ==
    /\ up \in {"ready", "mounting"}
    /\ twice => up = "mounting"
    /\ up = "mounting" => v = None
    /\ up = "ready" => goal # None /\ Headed
    /\ goal \in {None, Kept(v)}

Wiping ==
    \E v \in Payloads \cup {None}, twice \in BOOLEAN :
        /\ Reclaiming(v, twice)
        /\ \/ todo = Wipe1(Rest(v, twice)) /\ (Blind => Factory)
           \/ todo = Wipe2(Rest(v, twice)) /\ flash[1] = Bare(NoHead) /\ (Blind => flash[0] = Bare(1))
           \/ todo = Wipe3(Rest(v, twice)) /\ flash[1] = Bare(0) /\ (Blind => flash[0] = Bare(1))
           \/ todo = Wipe4(Rest(v, twice)) /\ flash[1] = Bare(0) /\ flash[0] = Bare(NoHead)
           \/ todo = Wipe5(Rest(v, twice)) /\ Factory

Founding ==
    /\ bank = 0 /\ gen = 1 /\ cursor = 0 /\ index = [k \in Keys |-> 0]
    /\ ~broken /\ Factory
    /\ \E v \in Payloads \cup {None} : Reclaiming(v, FALSE) /\ todo = Founded(v)

Restoring ==
    /\ up = "ready" /\ ~broken /\ Mirrors /\ bank = 0 /\ gen = 1 /\ cursor = 1
    /\ Len(flash[0].recs) = 1
    /\ \A k \in DataKeys : index[k] = 0
    /\ \E v \in Payloads : todo = Rewrite(v) /\ goal = Kept(v)

Phase == AtRest \/ Writing \/ MakingRoom \/ Moving \/ Wiping \/ Founding \/ Restoring

IInv == TypeOK /\ Fits /\ HeadsOK /\ HistoryOK /\ Phase

-----------------------------------------------------------------------------
(* Sequences of steps. *)

LEMMA ConsFacts ==
    ASSUME NEW S, NEW x \in S, NEW s \in Seq(S)
    PROVE  /\ Cons(x, s) \in Seq(S) /\ Cons(x, s) # <<>>
           /\ Head(Cons(x, s)) = x /\ Tail(Cons(x, s)) = s
           /\ Len(Cons(x, s)) = Len(s) + 1 /\ Cons(x, s)[1] = x
           /\ \A i \in 1..Len(s) : Cons(x, s)[i + 1] = s[i]
<1>1. <<x>> \in Seq(S) /\ Len(<<x>>) = 1 /\ <<x>>[1] = x
  OBVIOUS
<1>2. /\ Cons(x, s) \in Seq(S) /\ Len(Cons(x, s)) = 1 + Len(s) /\ Len(s) \in Nat
      /\ \A i \in 1..1 + Len(s) : Cons(x, s)[i] = IF i <= 1 THEN x ELSE s[i - 1]
  BY <1>1, ConcatProperties, LenProperties DEF Cons
<1>3. Cons(x, s) # <<>>
  BY <1>2
<1>4. Tail(Cons(x, s)) = s
  <2>1. /\ Tail(Cons(x, s)) \in Seq(S) /\ Len(Tail(Cons(x, s))) = Len(s)
        /\ \A i \in 1..Len(s) : Tail(Cons(x, s))[i] = Cons(x, s)[i + 1]
    BY <1>2, <1>3, HeadTailProperties
  <2>2. \A i \in 1..Len(s) : Tail(Cons(x, s))[i] = s[i]
    BY <1>2, <2>1
  <2> QED BY <2>1, <2>2, SeqEqual
<1> QED BY <1>2, <1>3, <1>4

LEMMA Appends ==
    ASSUME NEW S, NEW s \in Seq(S), NEW x \in S, NEW t \in Seq(S), Len(t) = Len(s) + 1,
           t[Len(s) + 1] = x, \A i \in 1..Len(s) : t[i] = s[i]
    PROVE  s \o <<x>> = t
<1>1. /\ Append(s, x) \in Seq(S) /\ Len(Append(s, x)) = Len(s) + 1
      /\ Append(s, x)[Len(s) + 1] = x /\ \A i \in 1..Len(s) : Append(s, x)[i] = s[i]
  BY AppendProperties
<1>2. Len(s) \in Nat
  BY LenProperties
<1>3. \A i \in 1..Len(t) : Append(s, x)[i] = t[i]
  BY <1>1, <1>2
<1>4. Append(s, x) = t
  BY <1>1, <1>3, SeqEqual
<1> QED BY <1>4, AppendIsConcat

LEMMA Pair ==
    ASSUME NEW S, NEW a \in S, NEW b \in S
    PROVE  <<a>> \o <<b>> = <<a, b>>
<1>1. <<a>> \in Seq(S) /\ Len(<<a>>) = 1 /\ <<a>>[1] = a
  OBVIOUS
<1>2. <<a, b>> \in Seq(S) /\ Len(<<a, b>>) = 2 /\ <<a, b>>[1] = a /\ <<a, b>>[2] = b
  OBVIOUS
<1>3. /\ Len(<<a, b>>) = Len(<<a>>) + 1 /\ <<a, b>>[Len(<<a>>) + 1] = b
      /\ \A i \in 1..Len(<<a>>) : <<a, b>>[i] = <<a>>[i]
  BY <1>1, <1>2
<1> QED BY <1>1, <1>2, <1>3, Appends, Zenon

LEMMA Triple ==
    ASSUME NEW S, NEW a \in S, NEW b \in S, NEW c \in S
    PROVE  <<a, b>> \o <<c>> = <<a, b, c>>
<1>1. <<a, b>> \in Seq(S) /\ Len(<<a, b>>) = 2 /\ <<a, b>>[1] = a /\ <<a, b>>[2] = b
  OBVIOUS
<1>2. <<a, b, c>> \in Seq(S)
  OBVIOUS
<1>3. Len(<<a, b, c>>) = 3 /\ <<a, b, c>>[1] = a /\ <<a, b, c>>[2] = b /\ <<a, b, c>>[3] = c
  OBVIOUS
<1>4. \A i \in 1..2 : <<a, b, c>>[i] = <<a, b>>[i]
  BY <1>1, <1>3
<1>5. /\ Len(<<a, b, c>>) = Len(<<a, b>>) + 1 /\ <<a, b, c>>[Len(<<a, b>>) + 1] = c
      /\ \A i \in 1..Len(<<a, b>>) : <<a, b, c>>[i] = <<a, b>>[i]
  BY <1>1, <1>3, <1>4
<1> QED BY <1>1, <1>2, <1>5, Appends, Zenon

LEMMA Quadruple ==
    ASSUME NEW S, NEW a \in S, NEW b \in S, NEW c \in S, NEW d \in S
    PROVE  <<a, b, c>> \o <<d>> = <<a, b, c, d>>
<1>1. <<a, b, c>> \in Seq(S)
  OBVIOUS
<1>2. Len(<<a, b, c>>) = 3 /\ <<a, b, c>>[1] = a /\ <<a, b, c>>[2] = b /\ <<a, b, c>>[3] = c
  OBVIOUS
<1>3. <<a, b, c, d>> \in Seq(S)
  OBVIOUS
<1>4. /\ Len(<<a, b, c, d>>) = 4 /\ <<a, b, c, d>>[1] = a /\ <<a, b, c, d>>[2] = b
      /\ <<a, b, c, d>>[3] = c /\ <<a, b, c, d>>[4] = d
  OBVIOUS
<1>5. \A i \in 1..3 : <<a, b, c, d>>[i] = <<a, b, c>>[i]
  BY <1>2, <1>4
<1>6. /\ Len(<<a, b, c, d>>) = Len(<<a, b, c>>) + 1 /\ <<a, b, c, d>>[Len(<<a, b, c>>) + 1] = d
      /\ \A i \in 1..Len(<<a, b, c>>) : <<a, b, c, d>>[i] = <<a, b, c>>[i]
  BY <1>2, <1>4, <1>5
<1> QED BY <1>1, <1>3, <1>6, Appends, Zenon

\* Concatenation, opaque to the provers.
Join(x, y) == x \o y

LEMMA JoinSeq ==
    ASSUME NEW S, NEW x \in Seq(S), NEW y \in Seq(S)
    PROVE  Join(x, y) \in Seq(S)
  BY ConcatProperties DEF Join

LEMMA JoinAssociative ==
    ASSUME NEW S, NEW x \in Seq(S), NEW y \in Seq(S), NEW z \in Seq(S)
    PROVE  Join(Join(x, y), z) = Join(x, Join(y, z))
  BY ConcatAssociative DEF Join

LEMMA Regroup ==
    ASSUME NEW S, NEW a \in Seq(S), NEW b \in Seq(S), NEW c \in Seq(S), NEW d \in Seq(S),
           NEW e \in Seq(S), NEW s \in Seq(S)
    PROVE  (((a \o b) \o (c \o d)) \o e) \o s = a \o (b \o (c \o (d \o (e \o s))))
<1>1. Join(Join(Join(Join(a, b), Join(c, d)), e), s)
         = Join(a, Join(b, Join(c, Join(d, Join(e, s)))))
  <2>1. Join(a, b) \in Seq(S) /\ Join(c, d) \in Seq(S) /\ Join(e, s) \in Seq(S)
    BY JoinSeq
  <2>2. Join(Join(a, b), Join(c, d)) \in Seq(S) /\ Join(d, Join(e, s)) \in Seq(S)
    BY JoinSeq, <2>1
  <2>3. Join(c, Join(d, Join(e, s))) \in Seq(S)
    BY JoinSeq, <2>2
  <2>4. Join(Join(Join(Join(a, b), Join(c, d)), e), s)
           = Join(Join(Join(a, b), Join(c, d)), Join(e, s))
    BY JoinAssociative, <2>2
  <2>5. Join(Join(Join(a, b), Join(c, d)), Join(e, s))
           = Join(Join(a, b), Join(Join(c, d), Join(e, s)))
    BY JoinAssociative, <2>1
  <2>6. Join(Join(c, d), Join(e, s)) = Join(c, Join(d, Join(e, s)))
    BY JoinAssociative, <2>1
  <2>7. Join(Join(a, b), Join(c, Join(d, Join(e, s))))
           = Join(a, Join(b, Join(c, Join(d, Join(e, s)))))
    BY JoinAssociative, <2>3
  <2> QED BY <2>4, <2>5, <2>6, <2>7
<1> QED BY <1>1, Zenon DEF Join

\* A full wipe in front of other steps.
LEMMA WipeFirst ==
    ASSUME NEW s \in Seq(Tasks)
    PROVE  FullWipe \o s = Wipe1(s)
<1> DEFINE a == Erase(1)  b == Header(1, 0)  c == Erase(0)  d == Header(0, 1)  e == WipedStep
<1>1. a \in Tasks /\ b \in Tasks /\ c \in Tasks /\ d \in Tasks /\ e \in Tasks
  BY DEF Tasks, Erase, Header, WipedStep, Banks
<1>2. FullWipe = (<<a, b>> \o <<c, d>>) \o <<e>>
  BY Zenon DEF FullWipe, FormatBank, Erase, Header, WipedStep
<1>3. Wipe1(s) = <<a>> \o (<<b>> \o (<<c>> \o (<<d>> \o (<<e>> \o s))))
  BY Zenon DEF Wipe1, Wipe2, Wipe3, Wipe4, Wipe5, Cons
<1> HIDE DEF a, b, c, d, e
<1>4. /\ <<a>> \in Seq(Tasks) /\ <<b>> \in Seq(Tasks) /\ <<c>> \in Seq(Tasks)
      /\ <<d>> \in Seq(Tasks) /\ <<e>> \in Seq(Tasks)
  BY <1>1
<1>5. <<a, b>> = <<a>> \o <<b>>
  BY <1>1, Pair
<1>6. <<c, d>> = <<c>> \o <<d>>
  BY <1>1, Pair
<1>7. (((<<a>> \o <<b>>) \o (<<c>> \o <<d>>)) \o <<e>>) \o s
         = <<a>> \o (<<b>> \o (<<c>> \o (<<d>> \o (<<e>> \o s))))
  BY <1>4, Regroup
<1> QED BY <1>2, <1>3, <1>5, <1>6, <1>7, Zenon

-----------------------------------------------------------------------------
(* Reading a log. *)

LEMMA LogFacts ==
    ASSUME NEW recs \in Seq(Cells)
    PROVE  /\ Len(recs) \in Nat /\ DOMAIN recs = 1..Len(recs)
           /\ \A i \in 1..Len(recs) : /\ recs[i] \in Cells
                                      /\ recs[i].key \in Keys \cup {None}
                                      /\ recs[i].val \in Payloads \cup {Gone}
<1>1. Len(recs) \in Nat /\ DOMAIN recs = 1..Len(recs) /\ \A i \in 1..Len(recs) : recs[i] \in Cells
  BY LenProperties, ElementOfSeq
<1>2. \A c \in Cells : c.key \in Keys \cup {None} /\ c.val \in Payloads \cup {Gone}
  BY DEF Cells
<1> QED BY <1>1, <1>2

\* Cells of a key are not torn.
LEMMA NotTorn ==
    \A k \in Keys : \A v : [key |-> k, val |-> v] # Torn
  BY MarksAssumption DEF Torn

LEMMA Least ==
    ASSUME NEW T \in SUBSET Nat, T # {}
    PROVE  \E x \in T : \A y \in T : x <= y
<1> DEFINE Less == {pair \in Nat \X Nat : pair[1] < pair[2]}
<1>1. PICK x \in T : \A y \in T : <<y, x>> \notin Less
  <2>1. IsWellFoundedOn(Less, Nat) BY NatLessThanWellFounded, SMT DEF OpToRel
  <2> HIDE DEF Less
  <2> QED BY <2>1, WFMin
<1>2. ASSUME NEW y \in T, y < x PROVE FALSE
  <2>1. <<y, x>> \in Nat \X Nat /\ <<y, x>>[1] = y /\ <<y, x>>[2] = x
    OBVIOUS
  <2>2. <<y, x>> \in Less BY <1>2, <2>1, Zenon
  <2> QED BY <1>1, <2>2, Zenon
<1> QED BY <1>2

LEMMA Greatest ==
    ASSUME NEW n \in Nat, NEW T \in SUBSET (1..n), T # {}
    PROVE  \E x \in T : \A y \in T : y <= x
<1> DEFINE U == {n - y : y \in T}
<1>1. U \in SUBSET Nat /\ U # {}
  <2>1. \A y \in T : n - y \in Nat OBVIOUS
  <2> QED BY <2>1
<1>2. PICK u \in U : \A y \in U : u <= y
  <2> HIDE DEF U
  <2> QED BY <1>1, Least
<1>3. PICK x \in T : u = n - x OBVIOUS
<1>4. \A y \in T : n - x <= n - y BY <1>2, <1>3
<1> QED BY <1>4

LEMMA WholePartFacts ==
    ASSUME NEW recs \in Seq(Cells), NEW n, n = WholePart(recs)
    PROVE  /\ n \in 0..Len(recs) /\ \A i \in 1..n : recs[i] # Torn
           /\ n = Len(recs) \/ recs[n + 1] = Torn
<1> DEFINE T == {i \in 1..Len(recs) : recs[i] = Torn}
<1>0. Len(recs) \in Nat BY LogFacts
<1>1. \E m \in 0..Len(recs) : /\ \A i \in 1..m : recs[i] # Torn
                              /\ m = Len(recs) \/ recs[m + 1] = Torn
  <2>1. CASE T = {}
    BY <1>0, <2>1
  <2>2. CASE T # {}
    <3>1. PICK x \in T : \A y \in T : x <= y
      <4>1. T \in SUBSET Nat OBVIOUS
      <4> QED BY <4>1, <2>2, Least
    <3>2. x - 1 \in 0..Len(recs) /\ \A i \in 1..x - 1 : recs[i] # Torn
      BY <1>0, <3>1
    <3> QED BY <3>1, <3>2
  <2> QED BY <2>1, <2>2
<1> QED BY <1>1 DEF WholePart

LEMMA WholePartIs ==
    ASSUME NEW recs \in Seq(Cells), NEW n \in 0..Len(recs),
           \A i \in 1..n : recs[i] # Torn,
           n = Len(recs) \/ recs[n + 1] = Torn
    PROVE  WholePart(recs) = n
<1> DEFINE w == WholePart(recs)
<1>1. /\ w \in 0..Len(recs) /\ \A i \in 1..w : recs[i] # Torn
      /\ w = Len(recs) \/ recs[w + 1] = Torn
  BY WholePartFacts
<1>2. Len(recs) \in Nat BY LogFacts
<1> HIDE DEF w
<1>3. ~(w < n) /\ ~(n < w) BY <1>1, <1>2
<1> QED BY <1>1, <1>2, <1>3 DEF w

\* i is the cell a scan of the first n records finds for key k.
IsLast(recs, n, k, i) ==
    \/ i = 0 /\ \A j \in 1..n : recs[j].key # k
    \/ \E m \in 1..n : /\ recs[m].key = k /\ \A j \in m + 1..n : recs[j].key # k
                       /\ i = IF recs[m].val = Gone THEN 0 ELSE m

LEMMA LastOfFacts ==
    ASSUME NEW recs \in Seq(Cells), NEW n \in 0..Len(recs), NEW k
    PROVE  IsLast(recs, n, k, LastOf(recs, n, k))
<1> DEFINE mine == {i \in 1..n : recs[i].key = k}
           last == CHOOSE i \in mine : \A j \in mine : j <= i
<1>1. CASE mine = {}
  <2>1. LastOf(recs, n, k) = 0 BY <1>1 DEF LastOf
  <2> QED BY <1>1, <2>1 DEF IsLast
<1>2. CASE mine # {}
  <2>0. n \in Nat BY LogFacts
  <2>1. \E x \in mine : \A y \in mine : y <= x
    <3>1. mine \in SUBSET (1..n) OBVIOUS
    <3> HIDE DEF mine
    <3> QED BY <1>2, <2>0, <3>1, Greatest
  <2>2. last \in mine /\ \A j \in mine : j <= last
    BY <2>1
  <2>3. LastOf(recs, n, k) = IF recs[last].val = Gone THEN 0 ELSE last
    BY <1>2 DEF LastOf
  <2> HIDE DEF last
  <2>4. last \in 1..n /\ recs[last].key = k /\ \A j \in last + 1..n : recs[j].key # k
    BY <2>0, <2>2
  <2> QED BY <2>3, <2>4 DEF IsLast
<1> QED BY <1>1, <1>2

LEMMA LastOfIs ==
    ASSUME NEW recs \in Seq(Cells), NEW n \in 0..Len(recs), NEW k, NEW i,
           IsLast(recs, n, k, i)
    PROVE  LastOf(recs, n, k) = i
<1> DEFINE l == LastOf(recs, n, k)
<1>1. IsLast(recs, n, k, l) BY LastOfFacts
<1>2. n \in Nat BY LogFacts
<1> HIDE DEF l
<1>3. l = i
  <2>1. CASE \A j \in 1..n : recs[j].key # k
    BY <1>1, <2>1 DEF IsLast
  <2>2. CASE ~ \A j \in 1..n : recs[j].key # k
    <3>1. PICK m \in 1..n : /\ recs[m].key = k /\ \A j \in m + 1..n : recs[j].key # k
                            /\ i = IF recs[m].val = Gone THEN 0 ELSE m
      BY <2>2 DEF IsLast
    <3>2. PICK q \in 1..n : /\ recs[q].key = k /\ \A j \in q + 1..n : recs[j].key # k
                            /\ l = IF recs[q].val = Gone THEN 0 ELSE q
      BY <1>1, <2>2 DEF IsLast
    <3>3. q = m BY <1>2, <3>1, <3>2
    <3> QED BY <3>1, <3>2, <3>3
  <2> QED BY <2>1, <2>2
<1> QED BY <1>3 DEF l

\* What a scan finds is a cell of the key with a payload.
LEMMA FoundCell ==
    ASSUME NEW recs \in Seq(Cells), NEW n \in 0..Len(recs), NEW k \in Keys,
           NEW i, i = LastOf(recs, n, k)
    PROVE  /\ i \in 0..n
           /\ i # 0 => /\ i \in 1..Len(recs) /\ recs[i].key = k /\ recs[i].val # Gone
                       /\ recs[i].val \in Payloads
<1>1. IsLast(recs, n, k, i) BY LastOfFacts
<1>2. Len(recs) \in Nat /\ \A j \in 1..Len(recs) : recs[j].val \in Payloads \cup {Gone}
  BY LogFacts
<1> QED BY <1>1, <1>2 DEF IsLast

\* A scan depends on the records it reads only.
LEMMA LastOfSame ==
    ASSUME NEW recs \in Seq(Cells), NEW more \in Seq(Cells), NEW n \in 0..Len(recs),
           n <= Len(more), \A i \in 1..n : more[i] = recs[i], NEW k
    PROVE  LastOf(more, n, k) = LastOf(recs, n, k)
<1>1. IsLast(recs, n, k, LastOf(recs, n, k)) BY LastOfFacts
<1>2. Len(recs) \in Nat /\ Len(more) \in Nat BY LogFacts
<1>3. IsLast(more, n, k, LastOf(recs, n, k)) BY <1>1, <1>2 DEF IsLast
<1> QED BY <1>2, <1>3, LastOfIs

\* One more record changes what is found for its key only.
LEMMA LastOfMore ==
    ASSUME NEW recs \in Seq(Cells), NEW more \in Seq(Cells), NEW n \in 0..Len(recs),
           n + 1 <= Len(more), \A i \in 1..n : more[i] = recs[i], NEW k
    PROVE  LastOf(more, n + 1, k) =
              IF more[n + 1].key # k THEN LastOf(recs, n, k)
              ELSE IF more[n + 1].val = Gone THEN 0 ELSE n + 1
<1>1. IsLast(recs, n, k, LastOf(recs, n, k)) BY LastOfFacts
<1>2. Len(recs) \in Nat /\ Len(more) \in Nat BY LogFacts
<1>3. CASE more[n + 1].key # k
  <2>1. IsLast(more, n + 1, k, LastOf(recs, n, k))
    <3> DEFINE l == LastOf(recs, n, k)
    <3> HIDE DEF l
    <3>1. CASE l = 0 /\ \A j \in 1..n : recs[j].key # k
      <4>1. \A j \in 1..n + 1 : more[j].key # k BY <1>2, <1>3, <3>1
      <4> QED BY <3>1, <4>1 DEF IsLast, l
    <3>2. ASSUME NEW m \in 1..n, recs[m].key = k, \A j \in m + 1..n : recs[j].key # k,
                 l = IF recs[m].val = Gone THEN 0 ELSE m
          PROVE  IsLast(more, n + 1, k, l)
      <4>1. m \in 1..n + 1 /\ more[m] = recs[m] BY <1>2
      <4>2. \A j \in m + 1..n + 1 : more[j].key # k BY <1>2, <1>3, <3>2
      <4> QED BY <3>2, <4>1, <4>2 DEF IsLast
    <3> QED BY <1>1, <3>1, <3>2 DEF IsLast, l
  <2> QED BY <1>2, <1>3, <2>1, LastOfIs
<1>4. CASE more[n + 1].key = k
  <2>1. IsLast(more, n + 1, k, IF more[n + 1].val = Gone THEN 0 ELSE n + 1)
    <3>1. n + 1 \in 1..n + 1 /\ (n + 1) + 1..n + 1 = {} BY <1>2
    <3> QED BY <1>4, <3>1 DEF IsLast
  <2> QED BY <1>2, <1>4, <2>1, LastOfIs
<1> QED BY <1>3, <1>4

\* Programming the cell after the last one, or over a torn one.
LEMMA PlacedFacts ==
    ASSUME NEW recs \in Seq(Cells), NEW i \in Nat \ {0}, NEW cell \in Cells
    PROVE  /\ Placed(recs, i, cell) \in Seq(Cells)
           /\ Len(Placed(recs, i, cell)) = (IF i > Len(recs) THEN i ELSE Len(recs))
           /\ Placed(recs, i, cell)[i] = cell
           /\ \A j \in 1..Len(recs) : j # i => Placed(recs, i, cell)[j] = recs[j]
           /\ \A j \in 1..Len(Placed(recs, i, cell)) :
                 j > Len(recs) => Placed(recs, i, cell)[j] \in {cell, Torn}
<1> DEFINE p == Placed(recs, i, cell)
           n == IF i > Len(recs) THEN i ELSE Len(recs)
           e(j) == IF j = i THEN cell ELSE IF j <= Len(recs) THEN recs[j] ELSE Torn
<1>1. n \in Nat /\ Len(recs) \in Nat BY LogFacts
<1>2. Torn \in Cells BY DEF Torn, Cells, Payloads
<1>3. \A j \in 1..n : e(j) \in Cells BY <1>1, <1>2, LogFacts
<1>4. p = [j \in 1..n |-> e(j)] BY DEF Placed
<1> HIDE DEF e, n, p
<1>5. p \in [1..n -> Cells] BY <1>3, <1>4
<1>6. p \in Seq(Cells) /\ Len(p) = n BY <1>1, <1>5, <1>4
<1>7. \A j \in 1..n : p[j] = e(j) BY <1>4
<1> QED BY <1>1, <1>6, <1>7 DEF n, e, p

-----------------------------------------------------------------------------
(* What a boot finds. *)

Flashes == [Banks -> [head : Nat \cup {NoHead}, recs : Seq(Cells)]]

LEMMA BankFacts ==
    ASSUME NEW f \in Flashes, NEW b \in Banks
    PROVE  /\ 1 - b \in Banks /\ 1 - b # b /\ 1 - (1 - b) = b /\ Banks = {b, 1 - b}
           /\ f[b].head \in Nat \cup {NoHead} /\ f[b].recs \in Seq(Cells)
           /\ Len(f[b].recs) \in Nat /\ WholePart(f[b].recs) \in 0..Len(f[b].recs)
           /\ f[b] = [head |-> f[b].head, recs |-> f[b].recs]
<1>1. f[b] \in [head : Nat \cup {NoHead}, recs : Seq(Cells)]
  BY DEF Flashes
<1>2. f[b].recs \in Seq(Cells) BY <1>1
<1>3. Len(f[b].recs) \in Nat /\ WholePart(f[b].recs) \in 0..Len(f[b].recs)
  BY <1>2, LogFacts, WholePartFacts
<1>4. 1 - b \in Banks /\ 1 - b # b /\ 1 - (1 - b) = b /\ Banks = {b, 1 - b}
  BY DEF Banks
<1> QED BY <1>1, <1>3, <1>4

LEMMA ChosenFacts ==
    ASSUME NEW f \in Flashes
    PROVE  /\ Chosen(Heads(f)) \in Banks
           /\ f[1 - Chosen(Heads(f))].head <= f[Chosen(Heads(f))].head
           /\ \A b \in Banks : f[1 - b].head < f[b].head => Chosen(Heads(f)) = b
<1>1. f[0].head \in Nat \cup {NoHead} /\ f[1].head \in Nat \cup {NoHead}
  BY BankFacts DEF Banks
<1>2. Heads(f)[0] = f[0].head /\ Heads(f)[1] = f[1].head
  BY DEF Heads, Banks
<1> QED BY <1>1, <1>2 DEF Chosen, Banks, NoHead

LEMMA FoundFacts ==
    ASSUME NEW recs \in Seq(Cells), NEW n \in 0..Len(recs), NEW k \in Keys
    PROVE  FoundIn(recs, n, k) \in Payloads \cup {None}
  BY FoundCell DEF FoundIn

LEMMA StoredFacts ==
    ASSUME NEW f \in Flashes, NEW b, b = Chosen(Heads(f)),
           NEW n, n = WholePart(f[b].recs)
    PROVE  /\ StoredIn(f) \in Store /\ DirtyIn(f) \in BOOLEAN
           /\ DirtyIn(f) <=> n < Len(f[b].recs)
           /\ f[b].head = NoHead \/ FoundIn(f[b].recs, n, Schema) # Current
                => StoredIn(f) = Kept(None)
           /\ f[b].head # NoHead /\ FoundIn(f[b].recs, n, Schema) = Current
                => StoredIn(f) = [k \in DataKeys |-> FoundIn(f[b].recs, n, k)]
<1>1. b \in Banks /\ f[b].recs \in Seq(Cells) /\ n \in 0..Len(f[b].recs)
  BY ChosenFacts, BankFacts
<1> DEFINE empty == f[b].head = NoHead \/ FoundIn(f[b].recs, n, Schema) # Current
<1>2. StoredIn(f) = [k \in DataKeys |-> IF empty THEN None ELSE FoundIn(f[b].recs, n, k)]
  BY DEF StoredIn, FoundIn
<1>3. DirtyIn(f) \in BOOLEAN /\ (DirtyIn(f) <=> n < Len(f[b].recs))
  BY DEF DirtyIn
<1>4. \A k \in DataKeys : FoundIn(f[b].recs, n, k) \in Payloads \cup {None}
  BY <1>1, FoundFacts DEF DataKeys
<1>5. StoredIn(f) \in Store
  BY <1>2, <1>4 DEF Store
<1>6. empty => StoredIn(f) = Kept(None)
  BY <1>2 DEF Kept
<1>7. ~empty => StoredIn(f) = [k \in DataKeys |-> FoundIn(f[b].recs, n, k)]
  BY <1>2
<1> QED BY <1>3, <1>5, <1>6, <1>7

\* The bank of the higher generation is the one a boot reads.
LEMMA StoredHigher ==
    ASSUME NEW f \in Flashes, NEW b \in Banks, f[1 - b].head < f[b].head,
           NEW n, n = WholePart(f[b].recs), FoundIn(f[b].recs, n, Schema) = Current
    PROVE  /\ StoredIn(f) = [k \in DataKeys |-> FoundIn(f[b].recs, n, k)]
           /\ DirtyIn(f) <=> n < Len(f[b].recs)
<1>1. Chosen(Heads(f)) = b
  BY ChosenFacts
<1>2. f[b].head \in Nat \cup {NoHead} /\ f[1 - b].head \in Nat \cup {NoHead}
  BY BankFacts
<1>3. f[b].head # NoHead
  BY <1>2 DEF NoHead
<1> QED BY <1>1, <1>3, StoredFacts

LEMMA EmptyLog ==
    \A k : WholePart(<<>>) = 0 /\ LastOf(<<>>, 0, k) = 0 /\ FoundIn(<<>>, 0, k) = None
<1>1. <<>> \in Seq(Cells) /\ Len(<<>>) = 0
  OBVIOUS
<1> DEFINE e == <<>>
<1> HIDE DEF e
<1>2. e \in Seq(Cells) /\ 0 \in 0..Len(e) /\ 0 = Len(e) /\ \A i \in 1..0 : e[i] # Torn
  BY <1>1 DEF e
<1>3. WholePart(e) = 0
  BY <1>2, WholePartIs
<1>4. ASSUME NEW k PROVE LastOf(e, 0, k) = 0
  <2>1. IsLast(e, 0, k, 0)
    BY DEF IsLast
  <2> QED BY <1>2, <2>1, LastOfIs
<1> QED BY <1>3, <1>4 DEF FoundIn, e

\* Two banks without records restore nothing.
LEMMA StoredNothing ==
    ASSUME NEW f \in Flashes, f[0].recs = <<>>, f[1].recs = <<>>
    PROVE  StoredIn(f) = Kept(None) /\ DirtyIn(f) = FALSE
<1> DEFINE b == Chosen(Heads(f))
<1>1. f[b].recs = <<>>
  BY ChosenFacts DEF Banks
<1>2. WholePart(f[b].recs) = 0 /\ FoundIn(f[b].recs, 0, Schema) = None /\ Len(f[b].recs) = 0
  BY <1>1, EmptyLog
<1>3. None # Current
  BY MarksAssumption
<1> HIDE DEF b
<1>4. /\ StoredIn(f) = Kept(None) /\ DirtyIn(f) \in BOOLEAN
      /\ DirtyIn(f) <=> 0 < Len(f[b].recs)
  BY <1>2, <1>3, StoredFacts DEF b
<1> QED BY <1>2, <1>4

\* A log that ends in a whole record, and the next one.
LEMMA Extended ==
    ASSUME NEW recs \in Seq(Cells), NEW cell \in Cells, cell # Torn,
           NEW n, n = Len(recs), WholePart(recs) = n,
           NEW p, p = Placed(recs, n + 1, cell)
    PROVE  /\ p \in Seq(Cells) /\ Len(p) = n + 1 /\ WholePart(p) = n + 1
           /\ \A k : LastOf(p, n + 1, k) = IF cell.key # k THEN LastOf(recs, n, k)
                                           ELSE IF cell.val = Gone THEN 0 ELSE n + 1
           /\ \A k \in Keys : FoundIn(p, n + 1, k) =
                 IF cell.key # k THEN FoundIn(recs, n, k)
                 ELSE IF cell.val = Gone THEN None ELSE cell.val
<1>0. n \in Nat /\ n + 1 \in Nat \ {0} BY LogFacts
<1>1. /\ p \in Seq(Cells) /\ Len(p) = n + 1 /\ p[n + 1] = cell
      /\ \A j \in 1..n : p[j] = recs[j]
  <2> DEFINE i == n + 1
  <2>1. i \in Nat \ {0} BY <1>0
  <2> HIDE DEF i
  <2>2. /\ Placed(recs, i, cell) \in Seq(Cells)
        /\ Len(Placed(recs, i, cell)) = (IF i > Len(recs) THEN i ELSE Len(recs))
        /\ Placed(recs, i, cell)[i] = cell
        /\ \A j \in 1..Len(recs) : j # i => Placed(recs, i, cell)[j] = recs[j]
    <3>1. recs \in Seq(Cells) /\ cell \in Cells OBVIOUS
    <3> QED BY ONLY <2>1, <3>1, PlacedFacts
  <2> QED BY <1>0, <2>2 DEF i
<1>2. \A j \in 1..n : recs[j] # Torn
  BY WholePartFacts
<1>3. WholePart(p) = n + 1
  <2>1. \A j \in 1..n + 1 : p[j] # Torn BY <1>0, <1>1, <1>2
  <2>2. n + 1 \in 0..Len(p) BY <1>0, <1>1
  <2> QED BY <1>1, <2>1, <2>2, WholePartIs
<1>4. \A k : LastOf(p, n + 1, k) = IF cell.key # k THEN LastOf(recs, n, k)
                                   ELSE IF cell.val = Gone THEN 0 ELSE n + 1
  <2>1. n \in 0..Len(recs) /\ n + 1 <= Len(p) BY <1>0, <1>1
  <2>2. ASSUME NEW k
        PROVE  LastOf(p, n + 1, k) = IF p[n + 1].key # k THEN LastOf(recs, n, k)
                                     ELSE IF p[n + 1].val = Gone THEN 0 ELSE n + 1
    <3>1. recs \in Seq(Cells) /\ p \in Seq(Cells) /\ \A i \in 1..n : p[i] = recs[i]
      BY <1>1
    <3> QED BY ONLY <2>1, <3>1, LastOfMore
  <2> QED BY <1>1, <2>2
<1>5. ASSUME NEW k \in Keys
      PROVE  FoundIn(p, n + 1, k) = IF cell.key # k THEN FoundIn(recs, n, k)
                                    ELSE IF cell.val = Gone THEN None ELSE cell.val
  <2>1. n \in 0..Len(recs) BY <1>0
  <2>2. LastOf(recs, n, k) \in 0..n BY <2>1, FoundCell
  <2> QED BY <1>0, <1>1, <1>4, <2>2 DEF FoundIn
<1> QED BY <1>1, <1>3, <1>4, <1>5

\* A torn cell after the records a scan reads changes nothing for it.
LEMMA Damaged ==
    ASSUME NEW recs \in Seq(Cells), NEW n, WholePart(recs) = n,
           NEW p, p = Placed(recs, n + 1, Torn)
    PROVE  /\ p \in Seq(Cells) /\ Len(p) = (IF n = Len(recs) THEN n + 1 ELSE Len(recs))
           /\ WholePart(p) = n
           /\ \A k : LastOf(p, n, k) = LastOf(recs, n, k)
           /\ \A k \in Keys : FoundIn(p, n, k) = FoundIn(recs, n, k)
<1>0. n \in 0..Len(recs) /\ Len(recs) \in Nat /\ n + 1 \in Nat \ {0}
  BY WholePartFacts, LogFacts
<1>1. Torn \in Cells BY DEF Torn, Cells, Payloads
<1>2. /\ p \in Seq(Cells) /\ Len(p) = (IF n + 1 > Len(recs) THEN n + 1 ELSE Len(recs))
      /\ p[n + 1] = Torn /\ \A j \in 1..Len(recs) : j # n + 1 => p[j] = recs[j]
  <2> DEFINE i == n + 1
  <2>1. i \in Nat \ {0} BY <1>0
  <2> HIDE DEF i
  <2>2. /\ Placed(recs, i, Torn) \in Seq(Cells)
        /\ Len(Placed(recs, i, Torn)) = (IF i > Len(recs) THEN i ELSE Len(recs))
        /\ Placed(recs, i, Torn)[i] = Torn
        /\ \A j \in 1..Len(recs) : j # i => Placed(recs, i, Torn)[j] = recs[j]
    BY <1>1, <2>1, PlacedFacts
  <2> QED BY <2>2 DEF i
<1>3. Len(p) = (IF n = Len(recs) THEN n + 1 ELSE Len(recs)) /\ \A j \in 1..n : p[j] = recs[j]
  BY <1>0, <1>2
<1>4. \A j \in 1..n : recs[j] # Torn
  BY WholePartFacts
<1>5. WholePart(p) = n
  <2>1. n \in 0..Len(p) /\ \A j \in 1..n : p[j] # Torn BY <1>0, <1>3, <1>4
  <2> QED BY <1>2, <2>1, WholePartIs
<1>6. \A k : LastOf(p, n, k) = LastOf(recs, n, k)
  <2>1. n <= Len(p) BY <1>0, <1>3
  <2> QED BY <1>0, <1>2, <1>3, <2>1, LastOfSame
<1>7. ASSUME NEW k \in Keys PROVE FoundIn(p, n, k) = FoundIn(recs, n, k)
  <2>1. LastOf(recs, n, k) \in 0..n BY <1>0, FoundCell
  <2> QED BY <1>0, <1>3, <1>6, <2>1 DEF FoundIn
<1> QED BY <1>2, <1>3, <1>5, <1>6, <1>7

-----------------------------------------------------------------------------
(* The state. *)

LEMMA TypeFacts ==
    ASSUME TypeOK
    PROVE  /\ flash \in Flashes /\ bank \in Banks /\ gen \in Nat /\ cursor \in 0..Cap
           /\ index \in [Keys -> Nat] /\ todo \in Seq(Tasks) /\ Cap \in Nat
           /\ stored \in Store /\ goal \in Store \cup {None} /\ None \notin Store
           /\ Schema \in Keys /\ Sec \in DataKeys /\ Schema \notin DataKeys
           /\ DataKeys \subseteq Keys /\ 2 <= Cap
<1>1. Cardinality(Keys) \in Nat /\ Cardinality({Schema, Sec}) <= Cardinality(Keys)
  BY KeysAssumption, FS_Subset, FS_CardinalityType
<1>2. Cardinality({Schema, Sec}) = 2
  <2>1. IsFiniteSet({Schema}) /\ Cardinality({Schema}) = 1
    BY FS_EmptySet, FS_AddElement
  <2>2. Cardinality({Schema} \cup {Sec}) = 2
    BY <2>1, FS_AddElement, MarksAssumption
  <2>3. {Schema} \cup {Sec} = {Schema, Sec}
    OBVIOUS
  <2> QED BY <2>2, <2>3
<1>3. 2 <= Cap /\ Cap \in Nat BY <1>1, <1>2, CapAssumption
<1>4. None \notin Store
  BY MarksAssumption DEF Store, Payloads, DataKeys
<1> QED BY <1>3, <1>4, KeysAssumption, MarksAssumption DEF TypeOK, Flashes, DataKeys

LEMMA BothLogs ==
    ASSUME TypeOK
    PROVE  /\ Banks = {bank, 1 - bank} /\ bank \in Banks /\ 1 - bank \in Banks
           /\ 1 - (1 - bank) = bank /\ 1 - bank # bank
           /\ flash[bank].recs \in Seq(Cells) /\ flash[1 - bank].recs \in Seq(Cells)
           /\ Len(flash[bank].recs) \in Nat /\ Len(flash[1 - bank].recs) \in Nat
           /\ flash[bank].head \in Nat \cup {NoHead} /\ flash[1 - bank].head \in Nat \cup {NoHead}
           /\ gen \in Nat /\ cursor \in Nat /\ Cap \in Nat
<1>1. flash \in Flashes /\ bank \in Banks /\ gen \in Nat /\ cursor \in Nat /\ Cap \in Nat
  BY TypeFacts
<1>2. /\ Banks = {bank, 1 - bank} /\ 1 - bank \in Banks /\ 1 - (1 - bank) = bank
      /\ 1 - bank # bank
  BY <1>1 DEF Banks
<1> QED BY <1>1, <1>2, BankFacts

LEMMA CellFacts ==
    ASSUME TypeOK, NEW b \in Banks, NEW i
    PROVE  Cell(b, i) \in Cells
<1>1. flash[b].recs \in Seq(Cells) BY TypeFacts, BankFacts
<1>2. \A j \in 1..Len(flash[b].recs) : flash[b].recs[j] \in Cells BY <1>1, LogFacts
<1>3. Torn \in Cells BY DEF Torn, Cells, Payloads
<1> QED BY <1>2, <1>3 DEF Cell

LEMMA ReadFacts ==
    ASSUME TypeOK, NEW b \in Banks, NEW ix, NEW k
    PROVE  ReadAt(b, ix, k) \in Payloads \cup {None} /\ (ix[k] # 0 => ReadAt(b, ix, k) # None)
<1>1. Cell(b, ix[k]) \in Cells BY CellFacts
<1>2. Cell(b, ix[k]).val \in Payloads \cup {Gone} BY <1>1 DEF Cells
<1>3. Junk \in Payloads /\ None \notin Payloads /\ Gone \notin Payloads
  BY MarksAssumption DEF Payloads
<1> QED BY <1>2, <1>3 DEF ReadAt

\* The index of a scan leads to what the scan found.
LEMMA ReadScan ==
    ASSUME TypeOK, NEW b \in Banks, NEW n \in 0..Len(flash[b].recs), NEW k \in Keys
    PROVE  ReadAt(b, ScanIndex(flash[b].recs, n), k) = FoundIn(flash[b].recs, n, k)
<1> DEFINE i == LastOf(flash[b].recs, n, k)
<1>1. flash[b].recs \in Seq(Cells) BY TypeFacts, BankFacts
<1>2. i # 0 => i \in 1..Len(flash[b].recs) /\ flash[b].recs[i].val # Gone
  BY <1>1, FoundCell
<1>3. ScanIndex(flash[b].recs, n)[k] = i BY DEF ScanIndex
<1>4. FoundIn(flash[b].recs, n, k) = IF i = 0 THEN None ELSE flash[b].recs[i].val
  BY DEF FoundIn
<1> HIDE DEF i
<1> QED BY <1>2, <1>3, <1>4 DEF ReadAt, Cell

\* RAM that mirrors the flash answers what a boot would restore.
LEMMA MirrorsRam ==
    ASSUME TypeOK, Mirrors
    PROVE  /\ \A k \in Keys : Read(k) = FoundIn(flash[bank].recs, cursor, k)
           /\ Ram = StoredIn(flash) /\ (DirtyIn(flash) <=> cursor < Len(flash[bank].recs))
           /\ cursor \in 0..Len(flash[bank].recs)
<1>1. cursor \in 0..Len(flash[bank].recs) BY TypeFacts, BankFacts DEF Mirrors
<1>2. \A k \in Keys : Read(k) = FoundIn(flash[bank].recs, cursor, k)
  BY <1>1, ReadScan, TypeFacts DEF Read, Mirrors
<1>3. /\ StoredIn(flash) = [k \in DataKeys |-> FoundIn(flash[bank].recs, cursor, k)]
      /\ DirtyIn(flash) <=> cursor < Len(flash[bank].recs)
  BY StoredHigher, TypeFacts DEF Mirrors
<1>4. Ram = StoredIn(flash) BY <1>2, <1>3, TypeFacts DEF Ram
<1> QED BY <1>1, <1>2, <1>3, <1>4

LEMMA RamType ==
    ASSUME TypeOK
    PROVE  Ram \in Store
  BY ReadFacts, TypeFacts DEF Ram, Read, Store

-----------------------------------------------------------------------------
(* The steps of a call. *)

LEMMA TaskFacts ==
    /\ \A b \in Banks : Erase(b) \in Tasks /\ Erase(b).do = "erase" /\ Erase(b).bank = b
    /\ \A b \in Banks, g \in Nat : /\ Header(b, g) \in Tasks /\ Header(b, g).do = "head"
                                   /\ Header(b, g).bank = b /\ Header(b, g).gen = g
    /\ \A left \in SUBSET Keys : /\ Copy(left) \in Tasks /\ Copy(left).do = "copy"
                                 /\ Copy(left).left = left
    /\ WipedStep \in Tasks /\ WipedStep.do = "wiped"
    /\ \A k \in Keys, v \in Payloads \cup {Gone} :
          /\ Append1(k, v) \in Tasks /\ Append1(k, v).do = "append"
          /\ Append1(k, v).key = k /\ Append1(k, v).val = v
  BY DEF Tasks, Erase, Header, Copy, WipedStep, Append1

LEMMA UpdateFacts ==
    ASSUME NEW w \in Updates
    PROVE  /\ w \in Tasks /\ w.do = "append" /\ w.key \in DataKeys /\ w.key \in Keys
           /\ w.key # Schema /\ w.val \in Payloads \cup {Gone}
<1>1. PICK k \in DataKeys, v \in Vals \cup {Gone} : w = Append1(k, v)
  BY DEF Updates
<1>2. k \in Keys /\ v \in Payloads \cup {Gone} /\ k # Schema
  BY DEF DataKeys, Payloads
<1> QED BY <1>1, <1>2, TaskFacts

LEMMA PayloadFacts ==
    /\ Current \in Payloads /\ Junk \in Payloads /\ None \notin Payloads /\ Gone \notin Payloads
    /\ None # Current /\ None # Gone /\ None \notin Keys /\ Schema \in Keys /\ Sec \in Keys
    /\ Schema # Sec
  BY MarksAssumption, KeysAssumption DEF Payloads

LEMMA WipeFacts ==
    ASSUME NEW s \in Seq(Tasks)
    PROVE  /\ Wipe1(s) \in Seq(Tasks) /\ Wipe1(s) # <<>> /\ Head(Wipe1(s)) = Erase(1)
           /\ Wipe2(s) \in Seq(Tasks) /\ Wipe2(s) # <<>> /\ Head(Wipe2(s)) = Header(1, 0)
           /\ Wipe3(s) \in Seq(Tasks) /\ Wipe3(s) # <<>> /\ Head(Wipe3(s)) = Erase(0)
           /\ Wipe4(s) \in Seq(Tasks) /\ Wipe4(s) # <<>> /\ Head(Wipe4(s)) = Header(0, 1)
           /\ Wipe5(s) \in Seq(Tasks) /\ Wipe5(s) # <<>> /\ Head(Wipe5(s)) = WipedStep
           /\ Tail(Wipe1(s)) = Wipe2(s) /\ Tail(Wipe2(s)) = Wipe3(s)
           /\ Tail(Wipe3(s)) = Wipe4(s) /\ Tail(Wipe4(s)) = Wipe5(s) /\ Tail(Wipe5(s)) = s
<1>0. /\ Erase(0) \in Tasks /\ Erase(1) \in Tasks /\ Header(0, 1) \in Tasks
      /\ Header(1, 0) \in Tasks /\ WipedStep \in Tasks
  BY TaskFacts DEF Banks
<1>1. /\ Wipe5(s) \in Seq(Tasks) /\ Wipe5(s) # <<>> /\ Head(Wipe5(s)) = WipedStep
      /\ Tail(Wipe5(s)) = s
  BY <1>0, ConsFacts DEF Wipe5
<1>2. /\ Wipe4(s) \in Seq(Tasks) /\ Wipe4(s) # <<>> /\ Head(Wipe4(s)) = Header(0, 1)
      /\ Tail(Wipe4(s)) = Wipe5(s)
  BY <1>0, <1>1, ConsFacts DEF Wipe4
<1>3. /\ Wipe3(s) \in Seq(Tasks) /\ Wipe3(s) # <<>> /\ Head(Wipe3(s)) = Erase(0)
      /\ Tail(Wipe3(s)) = Wipe4(s)
  BY <1>0, <1>2, ConsFacts DEF Wipe3
<1>4. /\ Wipe2(s) \in Seq(Tasks) /\ Wipe2(s) # <<>> /\ Head(Wipe2(s)) = Header(1, 0)
      /\ Tail(Wipe2(s)) = Wipe3(s)
  BY <1>0, <1>3, ConsFacts DEF Wipe2
<1>5. /\ Wipe1(s) \in Seq(Tasks) /\ Wipe1(s) # <<>> /\ Head(Wipe1(s)) = Erase(1)
      /\ Tail(Wipe1(s)) = Wipe2(s)
  BY <1>0, <1>4, ConsFacts DEF Wipe1
<1> QED BY <1>1, <1>2, <1>3, <1>4, <1>5

LEMMA FoundedFacts ==
    ASSUME NEW v \in Payloads \cup {None}
    PROVE  /\ Rewrite(v) \in Seq(Tasks) /\ (Rewrite(v) = <<>> <=> v = None)
           /\ v # None => Head(Rewrite(v)) = Append1(Sec, v) /\ Tail(Rewrite(v)) = <<>>
           /\ Founded(v) \in Seq(Tasks) /\ Founded(v) # <<>>
           /\ Head(Founded(v)) = Append1(Schema, Current) /\ Tail(Founded(v)) = Rewrite(v)
<1>1. Append1(Schema, Current) \in Tasks /\ (v # None => Append1(Sec, v) \in Tasks)
  BY TaskFacts, PayloadFacts
<1>2. Rewrite(v) \in Seq(Tasks) /\ (Rewrite(v) = <<>> <=> v = None)
  BY <1>1 DEF Rewrite
<1>3. v # None => Head(Rewrite(v)) = Append1(Sec, v) /\ Tail(Rewrite(v)) = <<>>
  BY <1>1 DEF Rewrite
<1>4. /\ Founded(v) \in Seq(Tasks) /\ Founded(v) # <<>>
      /\ Head(Founded(v)) = Append1(Schema, Current) /\ Tail(Founded(v)) = Rewrite(v)
  BY <1>1, <1>2, ConsFacts DEF Founded
<1> QED BY <1>2, <1>3, <1>4

LEMMA FoundedFirst ==
    ASSUME NEW v \in Payloads \cup {None}
    PROVE  Head(Founded(v)).key = Schema /\ Head(Founded(v)).val = Current
<1>1. Head(Founded(v)) = Append1(Schema, Current)
  BY FoundedFacts
<1> QED BY <1>1 DEF Append1

LEMMA RestFacts ==
    ASSUME NEW v \in Payloads \cup {None}, NEW twice \in BOOLEAN
    PROVE  Rest(v, twice) \in Seq(Tasks)
<1>1. Founded(v) \in Seq(Tasks) /\ Founded(None) \in Seq(Tasks)
  BY FoundedFacts
<1> QED BY <1>1, WipeFacts DEF Rest

\* The calls that begin with a full wipe.
LEMMA FreshFacts ==
    ASSUME NEW v \in Payloads \cup {None}
    PROVE  /\ FreshStore = Wipe1(Rest(None, FALSE))
           /\ FullWipe \o FreshStore = Wipe1(Rest(None, TRUE))
           /\ FreshStore \o Rewrite(v) = Wipe1(Rest(v, FALSE))
<1> DEFINE a == Append1(Schema, Current)
<1>1. a \in Tasks /\ <<a>> \in Seq(Tasks)
  BY TaskFacts, PayloadFacts
<1>2. Founded(None) = <<a>>
  <2>1. <<a>> \o <<>> = <<a>> BY <1>1, ConcatEmptySeq
  <2> QED BY <2>1, Zenon DEF Founded, Cons, Rewrite
<1>3. FreshStore = Wipe1(Founded(None))
  BY <1>1, <1>2, WipeFirst DEF FreshStore
<1>4. FullWipe \o FreshStore = Wipe1(Wipe1(Founded(None)))
  <2>1. Wipe1(Founded(None)) \in Seq(Tasks) BY FoundedFacts, WipeFacts
  <2> QED BY <1>3, <2>1, WipeFirst
<1>5. FreshStore \o Rewrite(v) = Wipe1(Founded(v))
  <2>1. FullWipe \in Seq(Tasks)
    <3>1. /\ <<Erase(1), Header(1, 0)>> \in Seq(Tasks)
          /\ <<Erase(0), Header(0, 1)>> \in Seq(Tasks) /\ <<WipedStep>> \in Seq(Tasks)
      BY TaskFacts DEF Banks
    <3>2. FullWipe = Join(Join(<<Erase(1), Header(1, 0)>>, <<Erase(0), Header(0, 1)>>),
                          <<WipedStep>>)
      BY Zenon DEF FullWipe, FormatBank, Join, Erase, Header, WipedStep
    <3> QED BY <3>1, <3>2, JoinSeq
  <2>2. Rewrite(v) \in Seq(Tasks) BY FoundedFacts
  <2>3. Join(Join(FullWipe, <<a>>), Rewrite(v)) = Join(FullWipe, Join(<<a>>, Rewrite(v)))
    <3> DEFINE x == FullWipe  y == <<a>>  z == Rewrite(v)
    <3>1. x \in Seq(Tasks) /\ y \in Seq(Tasks) /\ z \in Seq(Tasks)
      BY <1>1, <2>1, <2>2
    <3> HIDE DEF x, y, z
    <3>2. Join(Join(x, y), z) = Join(x, Join(y, z))
      BY ONLY <3>1, JoinAssociative
    <3> QED BY <3>2 DEF x, y, z
  <2>4. FreshStore \o Rewrite(v) = FullWipe \o Founded(v)
    BY <2>3, Zenon DEF Join, FreshStore, Founded, Cons
  <2>5. Founded(v) \in Seq(Tasks) BY FoundedFacts
  <2> QED BY <2>4, <2>5, WipeFirst
<1> QED BY <1>3, <1>4, <1>5 DEF Rest

\* A compaction in front of the write that asked for it.
LEMMA CompactionFacts ==
    ASSUME TypeOK, NEW w \in Updates
    PROVE  Compaction \o <<w>> = <<Erase(1 - bank), Header(1 - bank, gen + 1), Copy(LiveKeys), w>>
<1>1. /\ Erase(1 - bank) \in Tasks /\ Header(1 - bank, gen + 1) \in Tasks
      /\ Copy(LiveKeys) \in Tasks /\ w \in Tasks
  <2>1. 1 - bank \in Banks /\ gen + 1 \in Nat
    BY TypeFacts DEF Banks
  <2>2. LiveKeys \in SUBSET Keys
    BY DEF LiveKeys
  <2>3. w \in Tasks
    BY UpdateFacts
  <2> QED BY <2>1, <2>2, <2>3, TaskFacts
<1>2. Compaction = <<Erase(1 - bank), Header(1 - bank, gen + 1)>> \o <<Copy(LiveKeys)>>
  BY Zenon DEF Compaction, FormatBank, Erase, Header, Copy
<1> DEFINE a == Erase(1 - bank)  b == Header(1 - bank, gen + 1)  c == Copy(LiveKeys)
<1> HIDE DEF a, b, c
<1>3. a \in Tasks /\ b \in Tasks /\ c \in Tasks /\ Compaction = <<a, b>> \o <<c>>
  BY <1>1, <1>2 DEF a, b, c
<1>4. Compaction \o <<w>> = <<a, b, c, w>>
  <2>1. Compaction = <<a, b, c>>
    BY <1>3, Triple
  <2>2. <<a, b, c>> \o <<w>> = <<a, b, c, w>>
    BY <1>1, <1>3, Quadruple
  <2> QED BY <2>1, <2>2
<1> QED BY <1>4 DEF a, b, c

\* No step of s copies records.
NoCopy(s) == \A i \in 1..Len(s) : s[i].do # "copy"

LEMMA NoCopyCons ==
    ASSUME NEW x \in Tasks, NEW s \in Seq(Tasks), x.do # "copy", NoCopy(s)
    PROVE  NoCopy(Cons(x, s))
<1>1. /\ Len(Cons(x, s)) = Len(s) + 1 /\ Cons(x, s)[1] = x
      /\ \A i \in 1..Len(s) : Cons(x, s)[i + 1] = s[i]
  BY ConsFacts
<1>2. Len(s) \in Nat BY LenProperties
<1>3. ASSUME NEW j \in 1..Len(s) + 1 PROVE Cons(x, s)[j].do # "copy"
  <2>1. CASE j = 1 BY <1>1, <2>1
  <2>2. CASE j # 1
    <3>1. j - 1 \in 1..Len(s) /\ j = (j - 1) + 1 BY <1>2, <2>2
    <3>2. Cons(x, s)[j] = s[j - 1] BY <1>1, <3>1
    <3> QED BY <3>1, <3>2 DEF NoCopy
  <2> QED BY <2>1, <2>2
<1> QED BY <1>1, <1>3 DEF NoCopy

LEMMA WipesCopyNothing ==
    ASSUME NEW v \in Payloads \cup {None}, NEW twice \in BOOLEAN
    PROVE  NoCopy(Wipe2(Rest(v, twice))) /\ NoCopy(Wipe4(Rest(v, twice)))
<1>1. /\ Erase(0) \in Tasks /\ Erase(1) \in Tasks /\ Header(0, 1) \in Tasks
      /\ Header(1, 0) \in Tasks /\ WipedStep \in Tasks
      /\ Erase(0).do = "erase" /\ Erase(1).do = "erase" /\ Header(0, 1).do = "head"
      /\ Header(1, 0).do = "head" /\ WipedStep.do = "wiped"
  BY TaskFacts DEF Banks
<1>2. ASSUME NEW u \in Payloads \cup {None} PROVE NoCopy(Founded(u))
  <2>1. NoCopy(Rewrite(u))
    <3>1. CASE u = None
      <4>1. Len(Rewrite(u)) = 0 BY <3>1 DEF Rewrite
      <4> QED BY <4>1 DEF NoCopy
    <3>2. CASE u # None
      <4>1. Append1(Sec, u).do = "append" BY TaskFacts, PayloadFacts, <3>2
      <4>2. Len(Rewrite(u)) = 1 /\ Rewrite(u)[1] = Append1(Sec, u) BY <3>2 DEF Rewrite
      <4> QED BY <4>1, <4>2 DEF NoCopy
    <3> QED BY <3>1, <3>2
  <2>2. /\ Append1(Schema, Current) \in Tasks /\ Append1(Schema, Current).do = "append"
        /\ Rewrite(u) \in Seq(Tasks)
    BY TaskFacts, PayloadFacts, FoundedFacts
  <2> QED BY <2>1, <2>2, NoCopyCons DEF Founded
<1>3. ASSUME NEW s \in Seq(Tasks), NoCopy(s)
      PROVE  NoCopy(Wipe1(s)) /\ NoCopy(Wipe2(s)) /\ NoCopy(Wipe4(s))
  <2>1. /\ Wipe5(s) \in Seq(Tasks) /\ Wipe4(s) \in Seq(Tasks) /\ Wipe3(s) \in Seq(Tasks)
        /\ Wipe2(s) \in Seq(Tasks)
    BY WipeFacts
  <2>2. NoCopy(Wipe5(s)) BY <1>1, <1>3, NoCopyCons DEF Wipe5
  <2>3. NoCopy(Wipe4(s)) BY <1>1, <2>1, <2>2, NoCopyCons DEF Wipe4
  <2>4. NoCopy(Wipe3(s)) BY <1>1, <2>1, <2>3, NoCopyCons DEF Wipe3
  <2>5. NoCopy(Wipe2(s)) BY <1>1, <2>1, <2>4, NoCopyCons DEF Wipe2
  <2>6. NoCopy(Wipe1(s)) BY <1>1, <2>1, <2>5, NoCopyCons DEF Wipe1
  <2> QED BY <2>3, <2>5, <2>6
<1>4. NoCopy(Rest(v, twice))
  <2>1. NoCopy(Founded(v)) /\ NoCopy(Founded(None)) /\ Founded(None) \in Seq(Tasks)
    BY <1>2, FoundedFacts
  <2> QED BY <1>3, <2>1 DEF Rest
<1> QED BY <1>3, <1>4, RestFacts

-----------------------------------------------------------------------------
(* Writing the flash. *)

LEMMA BankSet ==
    ASSUME TypeOK, NEW b \in Banks, NEW h \in Nat \cup {NoHead}, flash' = Formatted(b, h)
    PROVE  flash' \in Flashes /\ flash'[b] = Bare(h) /\ flash'[1 - b] = flash[1 - b]
<1>1. flash \in Flashes /\ 1 - b \in Banks /\ 1 - b # b
  BY TypeFacts, BankFacts
<1>2. <<>> \in Seq(Cells)
  OBVIOUS
<1>3. Bare(h) \in [head : Nat \cup {NoHead}, recs : Seq(Cells)]
  BY <1>2 DEF Bare
<1>4. flash' = [flash EXCEPT ![b] = Bare(h)]
  BY Zenon DEF Formatted, Bare
<1> QED BY <1>1, <1>3, <1>4 DEF Flashes

LEMMA HeadSet ==
    ASSUME TypeOK, NEW b \in Banks, NEW h \in Nat \cup {NoHead},
           flash' = [flash EXCEPT ![b].head = h]
    PROVE  /\ flash' \in Flashes /\ flash'[b].head = h /\ flash'[b].recs = flash[b].recs
           /\ flash'[b] = [head |-> h, recs |-> flash[b].recs] /\ flash'[1 - b] = flash[1 - b]
<1>1. flash \in Flashes /\ 1 - b \in Banks /\ 1 - b # b
  BY TypeFacts, BankFacts
<1> QED BY <1>1 DEF Flashes

LEMMA RecsSet ==
    ASSUME TypeOK, NEW b \in Banks, NEW recs \in Seq(Cells),
           flash' = [flash EXCEPT ![b].recs = recs]
    PROVE  /\ flash' \in Flashes /\ flash'[b].head = flash[b].head /\ flash'[b].recs = recs
           /\ flash'[1 - b] = flash[1 - b]
<1>1. flash \in Flashes /\ 1 - b \in Banks /\ 1 - b # b
  BY TypeFacts, BankFacts
<1> QED BY <1>1 DEF Flashes

LEMMA HistoryKept ==
    ASSUME HistoryOK, flash' \in Flashes, UNCHANGED rom \/ \E f : SetFlash(f)
    PROVE  HistoryOK' /\ stored' \in Store /\ dirty' \in BOOLEAN
<1>1. CASE UNCHANGED rom
  <2>1. stored' = StoredIn(flash') /\ dirty' = DirtyIn(flash')
    BY <1>1 DEF HistoryOK, rom
  <2> QED BY <2>1, StoredFacts DEF HistoryOK
<1>2. CASE \E f : SetFlash(f)
  <2>1. stored' = StoredIn(flash') /\ dirty' = DirtyIn(flash')
    BY <1>2 DEF SetFlash
  <2> QED BY <2>1, StoredFacts DEF HistoryOK
<1> QED BY <1>1, <1>2

\* A bank that is erased, or that only changes its log.
LEMMA HeadsKept ==
    ASSUME TypeOK, HeadsOK, flash' \in Flashes,
           \A b \in Banks : flash'[b].head \in {flash[b].head, NoHead},
           flash'[1].head = 0 => \A i \in 1..Len(flash'[1].recs) : flash'[1].recs[i].key # Schema
    PROVE  HeadsOK'
  BY DEF HeadsOK, BanksOrdered, Banks, NoHead

-----------------------------------------------------------------------------
(* The phases. *)

LEMMA PhaseHeads ==
    ASSUME TypeOK
    PROVE  /\ AtRest => todo = <<>>
           /\ Writing => Doing("append")
           /\ MakingRoom => Doing("erase") \/ Doing("head")
           /\ Moving => Doing("copy")
           /\ Wiping => Doing("erase") \/ Doing("head") \/ Doing("wiped")
           /\ Founding => Doing("append")
           /\ Restoring => Doing("append")
<1>1. AtRest => todo = <<>>
  BY DEF AtRest
<1>2. ASSUME Writing PROVE Doing("append")
  <2>1. PICK w \in Updates : todo = <<w>> BY <1>2 DEF Writing
  <2> QED BY <2>1, UpdateFacts DEF Doing
<1>3. ASSUME MakingRoom PROVE Doing("erase") \/ Doing("head")
  <2>0. 1 - bank \in Banks /\ gen + 1 \in Nat BY TypeFacts DEF Banks
  <2>1. /\ Erase(1 - bank).do = "erase"
        /\ Header(1 - bank, gen + 1).do = "head"
    BY <2>0, TaskFacts
  <2>2. PICK w \in Updates :
          \/ todo = <<Erase(1 - bank), Header(1 - bank, gen + 1), Copy(LiveKeys), w>>
          \/ todo = <<Header(1 - bank, gen + 1), Copy(LiveKeys), w>>
    BY <1>3 DEF MakingRoom
  <2> QED BY <2>1, <2>2 DEF Doing
<1>4. ASSUME Moving PROVE Doing("copy")
  <2>1. PICK w \in Updates, left \in SUBSET Keys : todo = <<Copy(left), w>> BY <1>4 DEF Moving
  <2>2. Copy(left).do = "copy" BY TaskFacts
  <2> QED BY <2>1, <2>2 DEF Doing
<1>5. ASSUME Wiping PROVE Doing("erase") \/ Doing("head") \/ Doing("wiped")
  <2>1. PICK v \in Payloads \cup {None}, twice \in BOOLEAN :
           \/ todo = Wipe1(Rest(v, twice)) \/ todo = Wipe2(Rest(v, twice))
           \/ todo = Wipe3(Rest(v, twice)) \/ todo = Wipe4(Rest(v, twice))
           \/ todo = Wipe5(Rest(v, twice))
    BY <1>5 DEF Wiping
  <2>2. todo # <<>> /\ Head(todo) \in {Erase(1), Header(1, 0), Erase(0), Header(0, 1), WipedStep}
    BY <2>1, RestFacts, WipeFacts
  <2>3. /\ Erase(0).do = "erase" /\ Erase(1).do = "erase" /\ Header(0, 1).do = "head"
        /\ Header(1, 0).do = "head" /\ WipedStep.do = "wiped"
    BY TaskFacts DEF Banks
  <2> QED BY <2>2, <2>3 DEF Doing
<1>6. ASSUME Founding PROVE Doing("append")
  <2>1. PICK v \in Payloads \cup {None} : todo = Founded(v) BY <1>6 DEF Founding
  <2>2. Append1(Schema, Current).do = "append" BY TaskFacts, PayloadFacts
  <2> QED BY <2>1, <2>2, FoundedFacts DEF Doing
<1>7. ASSUME Restoring PROVE Doing("append")
  <2>1. PICK v \in Payloads : todo = Rewrite(v) BY <1>7 DEF Restoring
  <2>2. v # None /\ Append1(Sec, v).do = "append" BY TaskFacts, PayloadFacts
  <2> QED BY <2>1, <2>2, FoundedFacts DEF Doing
<1> QED BY <1>1, <1>2, <1>3, <1>4, <1>5, <1>6, <1>7

LEMMA DoingOnly ==
    ASSUME TypeOK, Phase
    PROVE  /\ todo = <<>> => AtRest
           /\ Doing("append") => Writing \/ Founding \/ Restoring
           /\ Doing("erase") => MakingRoom \/ Wiping
           /\ Doing("head") => MakingRoom \/ Wiping
           /\ Doing("wiped") => Wiping
           /\ Doing("copy") => Moving
  BY PhaseHeads DEF Phase, Doing

\* A call that changes nothing but the steps it has left.
LEMMA SteadyKept ==
    ASSUME Steady, UNCHANGED <<flash, bank, gen, cursor, index, broken>>
    PROVE  Steady'
  BY DEF Steady, Headed, Mirrors

-----------------------------------------------------------------------------
(* The initial state, and the calls that begin. *)

LEMMA InitIInv ==
    ASSUME Init
    PROVE  IInv
<1>1. <<>> \in Seq(Cells) /\ <<>> \in Seq(Tasks) /\ Len(<<>>) = 0
  OBVIOUS
<1>2. flash \in Flashes /\ flash[0] = Bare(NoHead) /\ flash[1] = Bare(NoHead)
  BY <1>1 DEF Init, Flashes, Bare, Banks
<1>3. flash[0].recs = <<>> /\ flash[1].recs = <<>> /\ flash[0].head = -1 /\ flash[1].head = -1
  BY <1>2 DEF Bare, NoHead
<1>4. StoredIn(flash) = Kept(None) /\ DirtyIn(flash) = FALSE
  BY <1>2, <1>3, StoredNothing
<1>5. HistoryOK
  BY <1>4 DEF HistoryOK, Init, Kept
<1>6. TypeOK
  <2>1. stored \in Store /\ goal \in Store \cup {None}
    BY DEF Init, Store
  <2>2. 0 \in 0..Cap BY CapAssumption
  <2> QED BY <1>1, <1>2, <2>1, <2>2 DEF Init, TypeOK, Banks, Flashes
<1>7. Fits BY <1>1, <1>3, CapAssumption DEF Fits, Banks
<1>8. HeadsOK BY <1>1, <1>3 DEF HeadsOK, BanksOrdered, Banks, NoHead
<1>9. Phase BY DEF Init, Phase, AtRest
<1> QED BY <1>5, <1>6, <1>7, <1>8, <1>9 DEF IInv

\* A boot ends ready on a bank that has a header, or begins with a wipe.
LEMMA MountOnFacts ==
    ASSUME IInv, NEW head \in [Banks -> Nat \cup {NoHead}],
           \A b \in Banks : head[b] \in {flash[b].head, NoHead},
           NEW limit \in 0..Cap, NEW ok \in BOOLEAN, MountOn(head, limit, ok)
    PROVE  /\ bank' \in Banks /\ gen' \in Nat /\ cursor' \in 0..Cap /\ index' \in [Keys -> Nat]
           /\ \/ /\ up' = "ready" /\ todo' = <<>> /\ gen' >= 1 /\ flash[bank'].head = gen'
              \/ /\ up' = "mounting"
                 /\ \E twice \in BOOLEAN : todo' = Wipe1(Rest(None, twice))
<1> USE DEF IInv
<1> DEFINE b == Chosen(head)
           whole == WholePart(flash[b].recs)
           n == IF limit < whole THEN limit ELSE whole
           ix == ScanIndex(flash[b].recs, n)
<1>1. b \in Banks
  BY DEF Chosen, Banks
<1>2. flash[b].recs \in Seq(Cells) /\ whole \in 0..Len(flash[b].recs) /\ Len(flash[b].recs) \in Nat
  BY <1>1, TypeFacts, BankFacts
<1>3. n \in 0..Len(flash[b].recs) /\ n \in 0..Cap
  <2>1. Cap \in Nat BY CapAssumption
  <2> QED BY <1>2, <2>1
<1>4. ix \in [Keys -> Nat]
  <2>1. \A k \in Keys : LastOf(flash[b].recs, n, k) \in Nat
    <3> HIDE DEF b, n
    <3>1. \A k \in Keys : LastOf(flash[b].recs, n, k) \in 0..n BY <1>2, <1>3, FoundCell
    <3> QED BY <1>3, <3>1
  <2> QED BY <2>1 DEF ScanIndex
<1>5. CASE head[b] = NoHead
  <2>1. up' = "mounting" /\ todo' = FullWipe \o FreshStore /\ UNCHANGED ram
    BY <1>5 DEF MountOn
  <2>2. todo' = Wipe1(Rest(None, TRUE)) BY <2>1, FreshFacts
  <2> QED BY <2>1, <2>2, TypeFacts DEF ram
<1>6. CASE head[b] # NoHead
  <2>1. /\ bank' = b /\ gen' = head[b] /\ cursor' = n /\ index' = ix
        /\ IF ok /\ ReadAt(b, ix, Schema) = Current
           THEN up' = "ready" /\ todo' = <<>>
           ELSE up' = "mounting" /\ todo' = FreshStore
    BY <1>6 DEF MountOn
  <2>2. head[b] \in Nat /\ flash[b].head = head[b]
    BY <1>1, <1>6
  <2>3. ASSUME ReadAt(b, ix, Schema) = Current PROVE head[b] >= 1
    <3> HIDE DEF b, n
    <3>1. FoundIn(flash[b].recs, n, Schema) = Current
      BY <1>1, <1>3, <2>3, ReadScan, PayloadFacts
    <3>2. /\ LastOf(flash[b].recs, n, Schema) \in 1..Len(flash[b].recs)
          /\ flash[b].recs[LastOf(flash[b].recs, n, Schema)].key = Schema
      BY <1>2, <1>3, <3>1, FoundCell, PayloadFacts DEF FoundIn
    <3>3. ~(b = 1 /\ flash[1].head = 0)
      BY <3>2 DEF HeadsOK
    <3>4. ~(b = 0 /\ flash[0].head = 0)
      BY DEF HeadsOK
    <3> QED BY <1>1, <2>2, <3>3, <3>4 DEF Banks
  <2>4. FreshStore = Wipe1(Rest(None, FALSE))
    BY FreshFacts
  <2> HIDE DEF b, n, ix
  <2> QED BY <1>1, <1>3, <1>4, <2>1, <2>2, <2>3, <2>4
<1> QED BY <1>5, <1>6

\* A boot that reads everything leaves RAM that mirrors the flash, or finds nothing.
LEMMA MountFacts ==
    ASSUME IInv, MountOn(Heads(flash), Cap, TRUE), UNCHANGED flash
    PROVE  /\ todo' = <<>> => Mirrors'
           /\ todo' # <<>> => stored = Kept(None)
<1> USE DEF IInv
<1> DEFINE b == Chosen(Heads(flash))
           n == WholePart(flash[b].recs)
           ix == ScanIndex(flash[b].recs, n)
<1>1. b \in Banks /\ flash \in Flashes /\ flash[1 - b].head <= flash[b].head
  BY TypeFacts, ChosenFacts
<1>2. flash[b].recs \in Seq(Cells) /\ n \in 0..Len(flash[b].recs) /\ Len(flash[b].recs) \in Nat
  BY <1>1, BankFacts
<1>3. (IF Cap < n THEN Cap ELSE n) = n
  BY <1>1, <1>2, CapAssumption DEF Fits
<1>4. Heads(flash)[b] = flash[b].head
  BY <1>1 DEF Heads
<1>5. ReadAt(b, ix, Schema) = FoundIn(flash[b].recs, n, Schema)
  <2> HIDE DEF b, n
  <2> QED BY <1>1, <1>2, ReadScan, PayloadFacts
<1>6. CASE flash[b].head = NoHead
  <2>1. todo' = FullWipe \o FreshStore
    BY <1>4, <1>6 DEF MountOn
  <2>2. todo' # <<>>
    BY <2>1, FreshFacts, RestFacts, WipeFacts
  <2>3. StoredIn(flash) = Kept(None)
    BY <1>1, <1>6, StoredFacts
  <2> QED BY <2>2, <2>3 DEF HistoryOK
<1>7. CASE flash[b].head # NoHead /\ ReadAt(b, ix, Schema) # Current
  <2>1. todo' = FreshStore
    BY <1>3, <1>4, <1>7 DEF MountOn
  <2>2. todo' # <<>>
    BY <2>1, FreshFacts, RestFacts, WipeFacts
  <2>3. StoredIn(flash) = Kept(None)
    BY <1>1, <1>5, <1>7, StoredFacts
  <2> QED BY <2>2, <2>3 DEF HistoryOK
<1>8. CASE flash[b].head # NoHead /\ ReadAt(b, ix, Schema) = Current
  <2>1. bank' = b /\ gen' = flash[b].head /\ cursor' = n /\ index' = ix /\ todo' = <<>>
    BY <1>3, <1>4, <1>8 DEF MountOn
  <2>2. flash[1 - b].head < flash[b].head
    <3>1. flash[1 - b].head # flash[b].head
      BY <1>1, <1>8 DEF HeadsOK, BanksOrdered
    <3>2. flash[b].head \in Nat \cup {-1} /\ flash[1 - b].head \in Nat \cup {-1}
      BY <1>1, BankFacts DEF NoHead
    <3> QED BY <1>1, <3>1, <3>2
  <2>3. Mirrors'
    BY <1>5, <1>8, <2>1, <2>2 DEF Mirrors
  <2> QED BY <2>1, <2>3
<1> QED BY <1>6, <1>7, <1>8

LEMMA NothingKept ==
    Kept(None) = [k \in DataKeys |-> None] /\ Kept(None) \in Store
  BY DEF Kept, Store

LEMMA MountIInv ==
    ASSUME IInv, Mount
    PROVE  IInv'
<1> USE DEF IInv
<1>1. AtRest /\ up = "off" /\ goal = None /\ ~broken
  <2>1. up = "off" BY DEF Mount
  <2>2. AtRest BY <2>1 DEF Phase, Writing, MakingRoom, Moving, Wiping, Reclaiming, Founding, Restoring
  <2> QED BY <2>1, <2>2 DEF AtRest
<1>2. flash' = flash /\ stored' = stored /\ dirty' = dirty /\ faults' = faults /\ broken' = broken
  BY DEF Mount, rom
<1>3. MountOn(Heads(flash), Cap, TRUE) /\ goal' = IF todo' = <<>> THEN None ELSE stored
  BY DEF Mount
<1>4. Heads(flash) \in [Banks -> Nat \cup {NoHead}] /\ \A b \in Banks : Heads(flash)[b] = flash[b].head
  BY TypeFacts, BankFacts DEF Heads
<1>5. /\ bank' \in Banks /\ gen' \in Nat /\ cursor' \in 0..Cap /\ index' \in [Keys -> Nat]
      /\ \/ /\ up' = "ready" /\ todo' = <<>> /\ gen' >= 1 /\ flash[bank'].head = gen'
         \/ /\ up' = "mounting"
            /\ \E twice \in BOOLEAN : todo' = Wipe1(Rest(None, twice))
  <2>1. Cap \in 0..Cap BY CapAssumption
  <2> QED BY <1>3, <1>4, <2>1, MountOnFacts
<1>6. TypeOK'
  <2>1. todo' \in Seq(Tasks)
    <3>1. \A twice \in BOOLEAN : Wipe1(Rest(None, twice)) \in Seq(Tasks)
      BY RestFacts, WipeFacts
    <3>2. <<>> \in Seq(Tasks) OBVIOUS
    <3> QED BY <1>5, <3>1, <3>2
  <2>2. goal' \in Store \cup {None} BY <1>3 DEF TypeOK
  <2> QED BY <1>2, <1>5, <2>1, <2>2 DEF TypeOK
<1>7. Fits' /\ HeadsOK' /\ HistoryOK'
  BY <1>2 DEF Fits, HeadsOK, BanksOrdered, HistoryOK
<1>8. Phase'
  <2>1. CASE todo' = <<>>
    <3>1. up' = "ready" /\ gen' >= 1 /\ flash'[bank'].head = gen' /\ goal' = None
      BY <1>2, <1>3, <1>5, <2>1, RestFacts, WipeFacts
    <3>2. Mirrors' BY <1>2, <1>3, <2>1, MountFacts
    <3>3. Steady' BY <1>5, <3>1, <3>2 DEF Steady, Headed
    <3> QED BY <2>1, <3>1, <3>3 DEF Phase, AtRest
  <2>2. CASE todo' # <<>>
    <3>1. goal' = Kept(None) /\ goal' # None
      BY <1>2, <1>3, <2>2, MountFacts, TypeFacts
    <3>2. PICK twice \in BOOLEAN : up' = "mounting" /\ todo' = Wipe1(Rest(None, twice))
      BY <1>5, <2>2
    <3>3. Reclaiming(None, twice)' BY <3>1, <3>2 DEF Reclaiming
    <3>4. ~Blind' BY <3>1 DEF Blind
    <3>5. Wiping' BY <3>2, <3>3, <3>4 DEF Wiping
    <3> QED BY <3>5 DEF Phase
  <2> QED BY <2>1, <2>2
<1> QED BY <1>6, <1>7, <1>8


LEMMA MountMisreadIInv ==
    ASSUME IInv, MountMisread
    PROVE  IInv'
<1> USE DEF IInv
<1>1. AtRest /\ goal = None
  <2>1. up = "off" BY DEF MountMisread
  <2>2. AtRest BY <2>1 DEF Phase, Writing, MakingRoom, Moving, Wiping, Reclaiming, Founding, Restoring
  <2> QED BY <2>1, <2>2 DEF AtRest
<1>2. /\ flash' = flash /\ stored' = stored /\ dirty' = dirty /\ faults' = faults + 1
      /\ broken' = TRUE /\ goal' = None
  BY <1>1 DEF MountMisread, rom
<1>3. Heads(flash) \in [Banks -> Nat \cup {NoHead}] /\ \A b \in Banks : Heads(flash)[b] = flash[b].head
  BY TypeFacts, BankFacts DEF Heads
<1>4. Cap \in 0..Cap /\ Cap \in Nat
  BY CapAssumption
<1>5. PICK head \in [Banks -> Nat \cup {NoHead}], limit \in 0..Cap, ok \in BOOLEAN :
         /\ \A b \in Banks : head[b] \in {flash[b].head, NoHead}
         /\ MountOn(head, limit, ok)
  <2>1. ASSUME NEW b \in Banks, MountOn([Heads(flash) EXCEPT ![b] = NoHead], Cap, TRUE)
        PROVE  \E head \in [Banks -> Nat \cup {NoHead}], limit \in 0..Cap, ok \in BOOLEAN :
                  /\ \A c \in Banks : head[c] \in {flash[c].head, NoHead}
                  /\ MountOn(head, limit, ok)
    <3> DEFINE head == [Heads(flash) EXCEPT ![b] = NoHead]
    <3>1. head \in [Banks -> Nat \cup {NoHead}]
      BY <1>3
    <3>2. \A c \in Banks : head[c] \in {flash[c].head, NoHead}
      BY <1>3
    <3>3. MountOn(head, Cap, TRUE)
      BY <2>1
    <3> HIDE DEF head
    <3> QED BY <1>4, <3>1, <3>2, <3>3
  <2>2. ASSUME NEW n \in 0..Cap - 1, MountOn(Heads(flash), n, TRUE)
        PROVE  \E head \in [Banks -> Nat \cup {NoHead}], limit \in 0..Cap, ok \in BOOLEAN :
                  /\ \A c \in Banks : head[c] \in {flash[c].head, NoHead}
                  /\ MountOn(head, limit, ok)
    <3>1. n \in 0..Cap BY <1>4
    <3> QED BY <1>3, <2>2, <3>1
  <2>3. ASSUME MountOn(Heads(flash), Cap, FALSE)
        PROVE  \E head \in [Banks -> Nat \cup {NoHead}], limit \in 0..Cap, ok \in BOOLEAN :
                  /\ \A c \in Banks : head[c] \in {flash[c].head, NoHead}
                  /\ MountOn(head, limit, ok)
    BY <1>3, <1>4, <2>3
  <2> QED BY <2>1, <2>2, <2>3 DEF MountMisread
<1>6. /\ bank' \in Banks /\ gen' \in Nat /\ cursor' \in 0..Cap /\ index' \in [Keys -> Nat]
      /\ \/ /\ up' = "ready" /\ todo' = <<>> /\ gen' >= 1 /\ flash[bank'].head = gen'
         \/ /\ up' = "mounting"
            /\ \E twice \in BOOLEAN : todo' = Wipe1(Rest(None, twice))
  BY <1>5, MountOnFacts
<1>7. TypeOK'
  <2>1. todo' \in Seq(Tasks)
    <3>1. \A twice \in BOOLEAN : Wipe1(Rest(None, twice)) \in Seq(Tasks)
      BY RestFacts, WipeFacts
    <3>2. <<>> \in Seq(Tasks) OBVIOUS
    <3> QED BY <1>6, <3>1, <3>2
  <2> QED BY <1>2, <1>6, <2>1 DEF TypeOK
<1>8. Fits' /\ HeadsOK' /\ HistoryOK'
  BY <1>2 DEF Fits, HeadsOK, BanksOrdered, HistoryOK
<1>9. Phase'
  <2>1. CASE up' = "ready" /\ todo' = <<>> /\ gen' >= 1 /\ flash[bank'].head = gen'
    <3>1. Steady' BY <1>2, <1>6, <2>1 DEF Steady, Headed
    <3> QED BY <1>2, <2>1, <3>1 DEF Phase, AtRest
  <2>2. ASSUME NEW twice \in BOOLEAN, up' = "mounting", todo' = Wipe1(Rest(None, twice))
        PROVE  Phase'
    <3>1. Reclaiming(None, twice)' BY <1>2, <2>2 DEF Reclaiming
    <3>2. ~Blind' BY <1>2 DEF Blind
    <3>3. Wiping' BY <2>2, <3>1, <3>2 DEF Wiping
    <3> QED BY <3>3 DEF Phase
  <2> QED BY <1>6, <2>1, <2>2
<1> QED BY <1>7, <1>8, <1>9

\* An update of one key begins with its append step.
LEMMA UpdateIInv ==
    ASSUME IInv, NEW w \in Updates, Idle, todo' = <<w>>,
           UNCHANGED <<rom, ram, up, faults, goal, broken>>
    PROVE  IInv'
<1> USE DEF IInv
<1>1. AtRest /\ up = "ready" /\ goal = None /\ Steady
  BY DoingOnly DEF Idle, AtRest
<1>2. UNCHANGED <<flash, stored, dirty, bank, gen, cursor, index, up, faults, goal, broken>>
  BY DEF rom, ram
<1>3. TypeOK'
  <2>1. todo' \in Seq(Tasks) BY UpdateFacts
  <2> QED BY <1>2, <2>1 DEF TypeOK
<1>4. Fits' /\ HeadsOK' /\ HistoryOK'
  BY <1>2 DEF Fits, HeadsOK, BanksOrdered, HistoryOK
<1>5. Writing'
  <2>1. Steady' BY <1>1, <1>2, SteadyKept
  <2> QED BY <1>1, <1>2, <2>1 DEF Writing
<1> QED BY <1>3, <1>4, <1>5 DEF Phase

LEMMA WriteIInv ==
    ASSUME IInv, NEW e \in Writes, Write(e[1], e[2])
    PROVE  IInv'
<1>1. e[1] \in DataKeys /\ e[2] \in Vals
  BY WritesAssumption DEF DataKeys
<1>2. Append1(e[1], e[2]) \in Updates
  BY <1>1 DEF Updates
<1> QED BY <1>2, UpdateIInv DEF Write

LEMMA DeleteIInv ==
    ASSUME IInv, NEW k \in DataKeys, Delete(k)
    PROVE  IInv'
<1>1. Append1(k, Gone) \in Updates
  BY DEF Updates
<1> QED BY <1>1, UpdateIInv DEF Delete

\* What an erase-all keeps.
LEMMA EraseAllFacts ==
    ASSUME TypeOK, EraseAll
    PROVE  /\ Read(Sec) \in Payloads \cup {None}
           /\ todo' = Wipe1(Rest(Read(Sec), FALSE)) /\ goal' = Kept(Read(Sec))
<1>1. /\ Read(Sec) \in Payloads \cup {None}
      /\ index[Sec] # 0 => Read(Sec) # None
      /\ index[Sec] = 0 => Read(Sec) = None
  BY TypeFacts, ReadFacts DEF Read, ReadAt
<1>2. todo' = FreshStore \o Rewrite(Read(Sec))
  BY <1>1 DEF EraseAll, Rewrite
<1>3. todo' = Wipe1(Rest(Read(Sec), FALSE))
  BY <1>1, <1>2, FreshFacts
<1> QED BY <1>1, <1>3 DEF EraseAll, Kept

LEMMA EraseAllIInv ==
    ASSUME IInv, EraseAll
    PROVE  IInv'
<1> USE DEF IInv
<1>1. AtRest /\ up = "ready" /\ goal = None /\ Steady
  BY DoingOnly DEF EraseAll, Idle, AtRest
<1>2. UNCHANGED <<flash, stored, dirty, bank, gen, cursor, index, up, faults, broken>>
  BY DEF EraseAll, rom, ram
<1>3. /\ Read(Sec) \in Payloads \cup {None}
      /\ todo' = Wipe1(Rest(Read(Sec), FALSE)) /\ goal' = Kept(Read(Sec))
  BY EraseAllFacts
<1>4. goal' \in Store
  BY <1>3, TypeFacts DEF Kept, Store
<1>5. goal' # None
  BY <1>4, TypeFacts
<1>6. TypeOK'
  <2>1. todo' \in Seq(Tasks) BY <1>3, RestFacts, WipeFacts
  <2> QED BY <1>2, <1>4, <2>1 DEF TypeOK
<1>7. Fits' /\ HeadsOK' /\ HistoryOK'
  BY <1>2 DEF Fits, HeadsOK, BanksOrdered, HistoryOK
<1>8. Wiping'
  <2> DEFINE v == Read(Sec)
  <2>1. Headed' BY <1>1, <1>2 DEF Steady, Headed
  <2> HIDE DEF v
  <2>2. v \in Payloads \cup {None} /\ todo' = Wipe1(Rest(v, FALSE)) /\ goal' = Kept(v)
    BY <1>3 DEF v
  <2>3. /\ up' \in {"ready", "mounting"} /\ (up' = "mounting" => v = None)
        /\ (up' = "ready" => goal' # None /\ Headed') /\ goal' \in {None, Kept(v)}
    BY <1>1, <1>2, <1>5, <2>1, <2>2
  <2>4. ~Blind' BY <1>5 DEF Blind
  <2> QED BY <2>2, <2>3, <2>4 DEF Wiping, Reclaiming
<1> QED BY <1>6, <1>7, <1>8 DEF Phase

-----------------------------------------------------------------------------
(* Making room, and wiping. *)

LEMMA AppendFullIInv ==
    ASSUME IInv, AppendFull
    PROVE  IInv'
<1> USE DEF IInv
<1>1. Writing
  <2>1. Writing \/ Founding \/ Restoring BY DoingOnly DEF AppendFull
  <2>2. cursor = Cap /\ 2 <= Cap /\ Cap \in Nat BY TypeFacts DEF AppendFull
  <2>3. (Founding => cursor = 0) /\ (Restoring => cursor = 1)
    BY DEF Founding, Restoring
  <2>4. ~Founding /\ ~Restoring BY <2>2, <2>3
  <2> QED BY <2>1, <2>4
<1>2. PICK w \in Updates : todo = <<w>>
  BY <1>1 DEF Writing
<1>3. todo' = <<Erase(1 - bank), Header(1 - bank, gen + 1), Copy(LiveKeys), w>>
  BY <1>2, CompactionFacts DEF AppendFull
<1>4. UNCHANGED <<flash, stored, dirty, bank, gen, cursor, index, up, faults, goal, broken>>
  BY DEF AppendFull, rom, ram
<1>5. TypeOK'
  <2>1. /\ Erase(1 - bank) \in Tasks /\ Header(1 - bank, gen + 1) \in Tasks
        /\ Copy(LiveKeys) \in Tasks /\ w \in Tasks
    <3>1. 1 - bank \in Banks /\ gen + 1 \in Nat BY TypeFacts DEF Banks
    <3>2. LiveKeys \in SUBSET Keys BY DEF LiveKeys
    <3>3. w \in Tasks BY UpdateFacts
    <3> QED BY <3>1, <3>2, <3>3, TaskFacts
  <2>2. todo' \in Seq(Tasks) BY <1>3, <2>1
  <2> QED BY <1>4, <2>2 DEF TypeOK
<1>6. Fits' /\ HeadsOK' /\ HistoryOK'
  BY <1>4 DEF Fits, HeadsOK, BanksOrdered, HistoryOK
<1>7. MakingRoom'
  <2>1. Steady' BY <1>1, <1>4, SteadyKept DEF Writing
  <2>2. LiveKeys' = LiveKeys BY <1>4 DEF LiveKeys
  <2>3. up' = "ready" /\ goal' = None /\ cursor' = Cap BY <1>1, <1>4 DEF Writing, AppendFull
  <2>4. todo' = <<Erase(1 - bank'), Header(1 - bank', gen' + 1), Copy(LiveKeys'), w>>
    BY <1>3, <1>4, <2>2
  <2> QED BY <2>1, <2>3, <2>4 DEF MakingRoom
<1> QED BY <1>5, <1>6, <1>7 DEF Phase

LEMMA WipingAt ==
    ASSUME TypeOK, Wiping
    PROVE  \E v \in Payloads \cup {None}, twice \in BOOLEAN :
              /\ Reclaiming(v, twice)
              /\ \/ /\ todo = Wipe1(Rest(v, twice)) /\ (Blind => Factory)
                    /\ Head(todo) = Erase(1) /\ Head(todo).do = "erase"
                    /\ Tail(todo) = Wipe2(Rest(v, twice)) /\ Tail(todo) \in Seq(Tasks)
                 \/ /\ todo = Wipe2(Rest(v, twice)) /\ flash[1] = Bare(NoHead)
                    /\ (Blind => flash[0] = Bare(1))
                    /\ Head(todo) = Header(1, 0) /\ Head(todo).do = "head"
                    /\ Tail(todo) = Wipe3(Rest(v, twice)) /\ Tail(todo) \in Seq(Tasks)
                    /\ ~Compacting
                 \/ /\ todo = Wipe3(Rest(v, twice)) /\ flash[1] = Bare(0)
                    /\ (Blind => flash[0] = Bare(1))
                    /\ Head(todo) = Erase(0) /\ Head(todo).do = "erase"
                    /\ Tail(todo) = Wipe4(Rest(v, twice)) /\ Tail(todo) \in Seq(Tasks)
                 \/ /\ todo = Wipe4(Rest(v, twice)) /\ flash[1] = Bare(0)
                    /\ flash[0] = Bare(NoHead)
                    /\ Head(todo) = Header(0, 1) /\ Head(todo).do = "head"
                    /\ Tail(todo) = Wipe5(Rest(v, twice)) /\ Tail(todo) \in Seq(Tasks)
                    /\ ~Compacting
                 \/ /\ todo = Wipe5(Rest(v, twice)) /\ Factory
                    /\ Head(todo).do = "wiped"
                    /\ Tail(todo) = Rest(v, twice) /\ Tail(todo) \in Seq(Tasks)
<1>1. PICK v \in Payloads \cup {None}, twice \in BOOLEAN :
         /\ Reclaiming(v, twice)
         /\ \/ todo = Wipe1(Rest(v, twice)) /\ (Blind => Factory)
            \/ /\ todo = Wipe2(Rest(v, twice)) /\ flash[1] = Bare(NoHead)
               /\ (Blind => flash[0] = Bare(1))
            \/ todo = Wipe3(Rest(v, twice)) /\ flash[1] = Bare(0) /\ (Blind => flash[0] = Bare(1))
            \/ todo = Wipe4(Rest(v, twice)) /\ flash[1] = Bare(0) /\ flash[0] = Bare(NoHead)
            \/ todo = Wipe5(Rest(v, twice)) /\ Factory
  BY DEF Wiping
<1>2. Rest(v, twice) \in Seq(Tasks)
  BY RestFacts
<1>3. /\ Erase(0).do = "erase" /\ Erase(1).do = "erase" /\ Header(0, 1).do = "head"
      /\ Header(1, 0).do = "head" /\ WipedStep.do = "wiped"
  BY TaskFacts DEF Banks
<1>4. NoCopy(Wipe2(Rest(v, twice))) /\ NoCopy(Wipe4(Rest(v, twice)))
  BY WipesCopyNothing
<1>5. NoCopy(todo) => ~Compacting
  <2>1. DOMAIN todo = 1..Len(todo) BY TypeFacts, LenProperties
  <2> QED BY <2>1 DEF NoCopy, Compacting
<1> DEFINE s == Rest(v, twice)
<1> HIDE DEF s
<1>6. /\ Reclaiming(v, twice) /\ s \in Seq(Tasks) /\ NoCopy(Wipe2(s)) /\ NoCopy(Wipe4(s))
      /\ \/ todo = Wipe1(s) /\ (Blind => Factory)
         \/ todo = Wipe2(s) /\ flash[1] = Bare(NoHead) /\ (Blind => flash[0] = Bare(1))
         \/ todo = Wipe3(s) /\ flash[1] = Bare(0) /\ (Blind => flash[0] = Bare(1))
         \/ todo = Wipe4(s) /\ flash[1] = Bare(0) /\ flash[0] = Bare(NoHead)
         \/ todo = Wipe5(s) /\ Factory
  BY <1>1, <1>2, <1>4 DEF s
<1>7. \/ /\ todo = Wipe1(s) /\ (Blind => Factory)
         /\ Head(todo) = Erase(1) /\ Head(todo).do = "erase"
         /\ Tail(todo) = Wipe2(s) /\ Tail(todo) \in Seq(Tasks)
      \/ /\ todo = Wipe2(s) /\ flash[1] = Bare(NoHead) /\ (Blind => flash[0] = Bare(1))
         /\ Head(todo) = Header(1, 0) /\ Head(todo).do = "head"
         /\ Tail(todo) = Wipe3(s) /\ Tail(todo) \in Seq(Tasks) /\ ~Compacting
      \/ /\ todo = Wipe3(s) /\ flash[1] = Bare(0) /\ (Blind => flash[0] = Bare(1))
         /\ Head(todo) = Erase(0) /\ Head(todo).do = "erase"
         /\ Tail(todo) = Wipe4(s) /\ Tail(todo) \in Seq(Tasks)
      \/ /\ todo = Wipe4(s) /\ flash[1] = Bare(0) /\ flash[0] = Bare(NoHead)
         /\ Head(todo) = Header(0, 1) /\ Head(todo).do = "head"
         /\ Tail(todo) = Wipe5(s) /\ Tail(todo) \in Seq(Tasks) /\ ~Compacting
      \/ /\ todo = Wipe5(s) /\ Factory /\ Head(todo).do = "wiped"
         /\ Tail(todo) = s /\ Tail(todo) \in Seq(Tasks)
  BY <1>3, <1>5, <1>6, WipeFacts, ZenonT(60)
<1> QED BY <1>6, <1>7 DEF s

\* A reclamation goes on over a bank that is erased or gets a header of the wipe.
LEMMA ReclaimingKept ==
    ASSUME TypeOK, NEW v, NEW twice, Reclaiming(v, twice), NEW b \in Banks,
           UNCHANGED <<up, goal, bank, gen>>, flash' \in Flashes,
           flash'[1 - b] = flash[1 - b], flash'[b].head \in {NoHead, 0, 1}
    PROVE  Reclaiming(v, twice)'
<1>1. gen \in Nat /\ bank \in Banks /\ (bank = b \/ bank = 1 - b)
  BY TypeFacts, BankFacts
<1>2. Headed => Headed'
  BY <1>1 DEF Headed, NoHead
<1> QED BY <1>2 DEF Reclaiming

LEMMA EraseBankIInv ==
    ASSUME IInv, EraseBank
    PROVE  IInv'
<1> USE DEF IInv
<1> DEFINE b == Head(todo).bank
<1>1. b \in Banks /\ Tail(todo) \in Seq(Tasks)
  <2>1. todo # <<>> /\ todo \in Seq(Tasks) /\ Head(todo).do = "erase"
    BY TypeFacts DEF EraseBank, Doing
  <2>2. Head(todo) \in Tasks /\ Tail(todo) \in Seq(Tasks) BY <2>1, HeadTailProperties
  <2>3. \A t \in Tasks : t.do = "erase" => t.bank \in Banks BY DEF Tasks
  <2> QED BY <2>1, <2>2, <2>3
<1>2. /\ todo' = Tail(todo)
      /\ UNCHANGED <<bank, gen, cursor, index, up, faults, goal, broken>>
      /\ flash' = Formatted(b, NoHead) /\ SetFlash(Formatted(b, NoHead))
  BY DEF EraseBank, ram, SetFlash
<1>3. flash' \in Flashes /\ flash'[b] = Bare(NoHead) /\ flash'[1 - b] = flash[1 - b]
  BY <1>1, <1>2, BankSet
<1> HIDE DEF b
<1>4. /\ flash'[b].head = NoHead /\ flash'[b].recs = <<>> /\ Len(<<>>) = 0
      /\ Banks = {b, 1 - b}
  BY <1>1, <1>3 DEF Bare, Banks
<1>5. HistoryOK' /\ stored' \in Store /\ dirty' \in BOOLEAN
  BY <1>2, <1>3, HistoryKept
<1>6. TypeOK'
  BY <1>1, <1>2, <1>3, <1>5 DEF TypeOK, Flashes
<1>7. Fits'
  BY <1>3, <1>4, CapAssumption DEF Fits
<1>8. HeadsOK'
  <2>1. \A c \in Banks : flash'[c] = flash[c] \/ flash'[c].head = NoHead
    BY <1>3, <1>4
  <2> QED BY <1>3, <2>1 DEF HeadsOK, BanksOrdered, Banks, NoHead
<1>9. Phase'
  <2>1. CASE MakingRoom
    <3>1. 1 - bank \in Banks /\ gen + 1 \in Nat /\ bank \in Banks BY TypeFacts DEF Banks
    <3>2. /\ Erase(1 - bank).do = "erase" /\ Erase(1 - bank).bank = 1 - bank
          /\ Header(1 - bank, gen + 1).do = "head"
      BY <3>1, TaskFacts
    <3>3. PICK w \in Updates :
             todo = <<Erase(1 - bank), Header(1 - bank, gen + 1), Copy(LiveKeys), w>>
      <4>1. ~ \E w \in Updates : todo = <<Header(1 - bank, gen + 1), Copy(LiveKeys), w>>
        BY <3>2 DEF EraseBank, Doing
      <4> QED BY <2>1, <4>1 DEF MakingRoom
    <3>4. b = 1 - bank /\ todo' = <<Header(1 - bank, gen + 1), Copy(LiveKeys), w>>
      BY <1>2, <3>2, <3>3 DEF b
    <3>5. flash'[1 - bank] = Bare(NoHead) /\ flash'[bank] = flash[bank] /\ 1 - (1 - bank) = bank
      BY <1>3, <3>1, <3>4 DEF Banks
    <3>6. Steady'
      <4>1. flash'[1 - bank].head < gen BY <1>4, <3>1, <3>4, TypeFacts DEF NoHead
      <4> QED BY <1>2, <2>1, <3>5, <4>1 DEF MakingRoom, Steady, Headed, Mirrors
    <3>7. LiveKeys' = LiveKeys BY <1>2 DEF LiveKeys
    <3>8. /\ up' = "ready" /\ goal' = None /\ cursor' = Cap
          /\ todo' = <<Header(1 - bank', gen' + 1), Copy(LiveKeys'), w>>
          /\ flash'[1 - bank'] = Bare(NoHead)
      BY <1>2, <2>1, <3>4, <3>5, <3>7 DEF MakingRoom
    <3>9. MakingRoom' BY <3>6, <3>8 DEF MakingRoom
    <3> QED BY <3>9 DEF Phase
  <2>2. CASE Wiping
    <3>0. Erase(0).bank = 0 /\ Erase(1).bank = 1 /\ 0 \in Banks /\ 1 \in Banks
      BY TaskFacts DEF Banks
    <3>1. PICK v \in Payloads \cup {None}, twice \in BOOLEAN :
             /\ Reclaiming(v, twice)
             /\ \/ /\ (Blind => Factory) /\ Head(todo) = Erase(1)
                   /\ Tail(todo) = Wipe2(Rest(v, twice))
                \/ /\ flash[1] = Bare(0) /\ Head(todo) = Erase(0)
                   /\ Tail(todo) = Wipe4(Rest(v, twice))
      BY <2>2, WipingAt DEF EraseBank, Doing
    <3>2. Reclaiming(v, twice)'
      BY <1>1, <1>2, <1>3, <1>4, <3>1, ReclaimingKept
    <3>3. Blind' = Blind BY <1>2 DEF Blind
    <3>4. CASE (Blind => Factory) /\ Head(todo) = Erase(1) /\ Tail(todo) = Wipe2(Rest(v, twice))
      <4>1. b = 1 /\ 1 - b = 0 BY <3>0, <3>4 DEF b
      <4>2. flash'[1] = Bare(NoHead) /\ flash'[0] = flash[0] BY <1>3, <4>1
      <4>3. Blind' => flash'[0] = Bare(1) BY <3>3, <3>4, <4>2 DEF Factory
      <4>4. Wiping' BY <1>2, <3>2, <3>4, <4>2, <4>3 DEF Wiping
      <4> QED BY <4>4 DEF Phase
    <3>5. CASE flash[1] = Bare(0) /\ Head(todo) = Erase(0) /\ Tail(todo) = Wipe4(Rest(v, twice))
      <4>1. b = 0 /\ 1 - b = 1 BY <3>0, <3>5 DEF b
      <4>2. flash'[0] = Bare(NoHead) /\ flash'[1] = Bare(0) BY <1>3, <3>5, <4>1
      <4>3. Wiping' BY <1>2, <3>2, <3>5, <4>2 DEF Wiping
      <4> QED BY <4>3 DEF Phase
    <3> QED BY <3>1, <3>4, <3>5
  <2> QED BY <2>1, <2>2, DoingOnly DEF EraseBank
<1> QED BY <1>5, <1>6, <1>7, <1>8, <1>9

\* When a compaction begins, its copy step has all that RAM mirrors to copy.
LEMMA MovedFirst ==
    ASSUME TypeOK, Steady, ~broken, flash'[bank] = flash[bank],
           Len(flash'[1 - bank].recs) = 0, UNCHANGED <<bank, gen, index>>, goal' = Ram,
           NEW L, L = LiveKeys
    PROVE  Moved(L)'
<1>1. Mirrors BY DEF Steady
<1>2. /\ cursor \in 0..Len(flash[bank].recs)
      /\ \A k \in Keys : Read(k) = FoundIn(flash[bank].recs, cursor, k)
  BY <1>1, MirrorsRam
<1>3. flash[bank].recs \in Seq(Cells) /\ bank \in Banks
  BY TypeFacts, BankFacts
<1>4. \A k \in Keys : index[k] = LastOf(flash[bank].recs, cursor, k)
  BY <1>1 DEF Mirrors, ScanIndex
<1>5. ASSUME NEW k \in Keys PROVE Wanted(goal', k) = Read(k)
  <2>1. CASE k = Schema
    BY <1>1, <1>2, <2>1 DEF Wanted, Mirrors
  <2>2. CASE k # Schema
    BY <2>2 DEF Wanted, Ram, DataKeys
  <2> QED BY <2>1, <2>2
<1>6. ASSUME NEW k \in Keys
      PROVE  IF index[k] = 0 THEN k \notin L /\ Wanted(goal', k) = None
             ELSE /\ k \in L
                  /\ Holds(flash[bank].recs, index[k], k, Wanted(goal', k))
  <2>1. CASE index[k] = 0
    BY <1>5, <2>1 DEF LiveKeys, Read, ReadAt
  <2>2. CASE index[k] # 0
    <3> DEFINE i == index[k]
    <3>1. /\ i \in 1..Len(flash[bank].recs) /\ flash[bank].recs[i].key = k
      BY <1>2, <1>3, <1>4, <2>2, FoundCell
    <3>2. Wanted(goal', k) = flash[bank].recs[i].val
      BY <1>2, <1>4, <1>5, <2>2 DEF FoundIn
    <3>3. flash[bank].recs[i] \in Cells
      BY <1>3, <3>1, LogFacts
    <3>4. flash[bank].recs[i] = [key |-> k, val |-> Wanted(goal', k)]
      BY <3>1, <3>2, <3>3 DEF Cells
    <3> QED BY <2>2, <3>1, <3>4 DEF LiveKeys, Holds
  <2> QED BY <2>1, <2>2
<1>7. flash'[bank'].head = gen'
  BY <1>1 DEF Mirrors
<1>8. \A k \in Keys : IF index'[k] = 0 THEN k \notin L /\ Wanted(goal', k) = None
                      ELSE Holds(flash'[IF k \in L THEN bank' ELSE 1 - bank'].recs,
                                 index'[k], k, Wanted(goal', k))
  BY <1>6
<1>9. 1..Len(flash'[1 - bank'].recs) = {}
  OBVIOUS
<1> QED BY <1>7, <1>8, <1>9 DEF Moved

LEMMA WriteBankHeaderIInv ==
    ASSUME IInv, WriteBankHeader
    PROVE  IInv'
<1> USE DEF IInv
<1> DEFINE b == Head(todo).bank  g == Head(todo).gen
<1>1. b \in Banks /\ g \in Nat /\ Tail(todo) \in Seq(Tasks)
  <2>1. todo # <<>> /\ todo \in Seq(Tasks) /\ Head(todo).do = "head"
    BY TypeFacts DEF WriteBankHeader, Doing
  <2>2. Head(todo) \in Tasks /\ Tail(todo) \in Seq(Tasks) BY <2>1, HeadTailProperties
  <2>3. \A t \in Tasks : t.do = "head" => t.bank \in Banks /\ t.gen \in Nat BY DEF Tasks
  <2> QED BY <2>1, <2>2, <2>3
<1>2. /\ todo' = Tail(todo) /\ goal' = IF Compacting /\ goal = None THEN Ram ELSE goal
      /\ UNCHANGED <<bank, gen, cursor, index, up, faults, broken>>
      /\ flash' = [flash EXCEPT ![b].head = g] /\ SetFlash([flash EXCEPT ![b].head = g])
  BY DEF WriteBankHeader, ram, SetFlash
<1>3. /\ flash' \in Flashes /\ flash'[1 - b] = flash[1 - b] /\ flash'[b].head = g
      /\ flash'[b].recs = flash[b].recs /\ flash'[b] = [head |-> g, recs |-> flash[b].recs]
  <2> HIDE DEF b, g
  <2> QED BY <1>1, <1>2, HeadSet
<1>4. Banks = {b, 1 - b}
  BY <1>1 DEF Banks
<1> HIDE DEF b, g
<1>5. HistoryOK' /\ stored' \in Store /\ dirty' \in BOOLEAN
  BY <1>2, <1>3, HistoryKept
<1>6. TypeOK'
  <2>1. goal' \in Store \cup {None} BY <1>2, RamType, TypeFacts
  <2> QED BY <1>1, <1>2, <1>3, <1>5, <2>1 DEF TypeOK, Flashes
<1>7. Fits'
  BY <1>3, <1>4 DEF Fits
<1>8. HeadsOK' /\ Phase'
  <2>1. CASE MakingRoom
    <3>1. 1 - bank \in Banks /\ gen + 1 \in Nat /\ bank \in Banks /\ 1 - (1 - bank) = bank
      BY TypeFacts DEF Banks
    <3>2. /\ Erase(1 - bank).do = "erase" /\ Header(1 - bank, gen + 1).bank = 1 - bank
          /\ Header(1 - bank, gen + 1).do = "head" /\ Header(1 - bank, gen + 1).gen = gen + 1
      BY <3>1, TaskFacts
    <3>3. PICK w \in Updates :
             /\ todo = <<Header(1 - bank, gen + 1), Copy(LiveKeys), w>>
             /\ flash[1 - bank] = Bare(NoHead)
      <4>1. ~ \E w \in Updates :
                 todo = <<Erase(1 - bank), Header(1 - bank, gen + 1), Copy(LiveKeys), w>>
        BY <3>2 DEF WriteBankHeader, Doing
      <4> QED BY <2>1, <4>1 DEF MakingRoom
    <3>4. b = 1 - bank /\ g = gen + 1 /\ todo' = <<Copy(LiveKeys), w>>
      BY <1>2, <3>2, <3>3 DEF b, g
    <3>5. flash'[1 - bank] = Bare(gen + 1) /\ flash'[bank] = flash[bank]
      BY <1>3, <3>1, <3>3, <3>4 DEF Bare
    <3>6. /\ flash'[1 - bank].head = gen + 1 /\ Len(flash'[1 - bank].recs) = 0
          /\ Headed /\ goal = None /\ up = "ready" /\ gen \in Nat
      BY <2>1, <3>5, TypeFacts DEF Bare, MakingRoom, Steady
    <3>7. Headed' BY <1>2, <3>5, <3>6 DEF Headed
    <3>8. LiveKeys \in SUBSET Keys /\ Cardinality(LiveKeys) \in Nat
          /\ Cardinality(LiveKeys) <= Cardinality(Keys)
      <4>1. LiveKeys \in SUBSET Keys BY DEF LiveKeys
      <4> QED BY <4>1, KeysAssumption, FS_Subset, FS_CardinalityType
    <3>9. goal' = Ram
      <4>1. Copy(LiveKeys).do = "copy" BY <3>8, TaskFacts
      <4>2. 2 \in DOMAIN todo /\ todo[2] = Copy(LiveKeys) BY <3>3
      <4>3. Compacting BY <4>1, <4>2 DEF Compacting
      <4> QED BY <1>2, <3>6, <4>3
    <3>10. goal' # None BY <3>9, RamType, TypeFacts
    <3>11. PICK L \in SUBSET Keys : L = LiveKeys
      BY <3>8
    <3>12. Moving'
      <4>1. ~broken' => Moved(L)'
        BY <1>2, <2>1, <3>5, <3>6, <3>9, <3>11, MovedFirst DEF MakingRoom
      <4>2. /\ todo' = <<Copy(L), w>>
            /\ Len(flash'[1 - bank'].recs) + Cardinality(L) <= Cardinality(Keys)
        <5>1. Cardinality(L) \in Nat /\ Cardinality(L) <= Cardinality(Keys)
          BY <3>8, <3>11
        <5>2. 0 + Cardinality(L) <= Cardinality(Keys)
          BY <5>1
        <5>3. Len(flash'[1 - bank].recs) + Cardinality(L) <= Cardinality(Keys)
          BY <3>6, <5>2
        <5>4. todo' = <<Copy(L), w>>
          BY <3>4, <3>11
        <5> QED BY <1>2, <5>3, <5>4
      <4>3. up' = "ready" /\ Headed' /\ flash'[1 - bank'].head = gen' + 1 /\ goal' # None
        BY <1>2, <3>6, <3>7, <3>10
      <4> QED BY <4>1, <4>2, <4>3 DEF Moving
    <3>13. HeadsOK'
      <4>1. flash'[bank].head <= gen /\ flash'[bank].head = flash[bank].head
        BY <3>5, <3>6 DEF Headed
      <4>2. flash'[bank].head \in Nat \cup {NoHead} BY <1>3, <3>1, BankFacts
      <4> QED BY <3>1, <3>5, <3>6, <4>1, <4>2 DEF HeadsOK, BanksOrdered, Banks, NoHead
    <3> QED BY <3>12, <3>13 DEF Phase
  <2>2. CASE Wiping
    <3>0. /\ Header(0, 1).bank = 0 /\ Header(1, 0).bank = 1 /\ Header(0, 1).gen = 1
          /\ Header(1, 0).gen = 0 /\ 0 \in Banks /\ 1 \in Banks
      BY TaskFacts DEF Banks
    <3>1. PICK v \in Payloads \cup {None}, twice \in BOOLEAN :
             /\ Reclaiming(v, twice) /\ ~Compacting
             /\ \/ /\ flash[1] = Bare(NoHead) /\ (Blind => flash[0] = Bare(1))
                   /\ Head(todo) = Header(1, 0) /\ Tail(todo) = Wipe3(Rest(v, twice))
                \/ /\ flash[1] = Bare(0) /\ flash[0] = Bare(NoHead)
                   /\ Head(todo) = Header(0, 1) /\ Tail(todo) = Wipe5(Rest(v, twice))
      BY <2>2, WipingAt DEF WriteBankHeader, Doing
    <3>2. goal' = goal BY <1>2, <3>1
    <3>3. Blind' = Blind BY <1>2, <3>2 DEF Blind
    <3>4. g \in {0, 1} BY <3>0, <3>1 DEF g
    <3>5. Reclaiming(v, twice)'
      BY <1>1, <1>2, <1>3, <3>1, <3>2, <3>4, ReclaimingKept
    <3>6. CASE /\ flash[1] = Bare(NoHead) /\ (Blind => flash[0] = Bare(1))
               /\ Head(todo) = Header(1, 0) /\ Tail(todo) = Wipe3(Rest(v, twice))
      <4>1. b = 1 /\ 1 - b = 0 /\ g = 0 BY <3>0, <3>6 DEF b, g
      <4>2. flash'[1] = Bare(0) /\ flash'[0] = flash[0] BY <1>3, <3>6, <4>1 DEF Bare
      <4>3. Wiping' BY <1>2, <3>3, <3>5, <3>6, <4>2 DEF Wiping
      <4>4. flash'[1].head = 0 /\ Len(flash'[1].recs) = 0 /\ flash[0].head # 0
        BY <4>2 DEF Bare, HeadsOK
      <4>5. HeadsOK' BY <4>2, <4>4 DEF HeadsOK, BanksOrdered, Banks
      <4> QED BY <4>3, <4>5 DEF Phase
    <3>7. CASE /\ flash[1] = Bare(0) /\ flash[0] = Bare(NoHead)
               /\ Head(todo) = Header(0, 1) /\ Tail(todo) = Wipe5(Rest(v, twice))
      <4>1. b = 0 /\ 1 - b = 1 /\ g = 1 BY <3>0, <3>7 DEF b, g
      <4>2. flash'[0] = Bare(1) /\ flash'[1] = Bare(0) BY <1>3, <3>7, <4>1 DEF Bare
      <4>3. Wiping' BY <1>2, <3>5, <3>7, <4>2 DEF Wiping, Factory
      <4>4. flash'[0].head = 1 /\ flash'[1].head = 0 /\ Len(flash'[1].recs) = 0
        BY <4>2 DEF Bare
      <4>5. HeadsOK' BY <4>4 DEF HeadsOK, BanksOrdered, Banks
      <4> QED BY <4>3, <4>5 DEF Phase
    <3> QED BY <3>1, <3>6, <3>7
  <2> QED BY <2>1, <2>2, DoingOnly DEF WriteBankHeader
<1> QED BY <1>5, <1>6, <1>7, <1>8

LEMMA WipedIInv ==
    ASSUME IInv, Wiped
    PROVE  IInv'
<1> USE DEF IInv
<1>1. PICK v \in Payloads \cup {None}, twice \in BOOLEAN :
         /\ Reclaiming(v, twice) /\ Factory
         /\ Tail(todo) = Rest(v, twice) /\ Tail(todo) \in Seq(Tasks)
  <2>1. Wiping /\ Head(todo).do = "wiped" BY DoingOnly DEF Wiped, Doing
  <2> QED BY <2>1, WipingAt
<1>2. /\ flash' = flash /\ stored' = stored /\ dirty' = dirty /\ up' = up /\ goal' = goal
      /\ faults' = faults /\ bank' = 0 /\ gen' = 1 /\ cursor' = 0
      /\ index' = [k \in Keys |-> 0] /\ broken' = FALSE /\ todo' = Tail(todo)
  BY DEF Wiped, rom
<1>3. TypeOK'
  <2>1. 0 \in 0..Cap /\ 0 \in Banks BY CapAssumption DEF Banks
  <2> QED BY <1>1, <1>2, <2>1 DEF TypeOK
<1>4. Fits' /\ HeadsOK' /\ HistoryOK'
  BY <1>2 DEF Fits, HeadsOK, BanksOrdered, HistoryOK
<1>5. Headed'
  <2>1. flash'[0].head = 1 BY <1>1, <1>2 DEF Factory, Bare
  <2> QED BY <1>2, <2>1 DEF Headed
<1>6. Factory'
  BY <1>1, <1>2 DEF Factory
<1>7. CASE twice = TRUE
  <2>1. todo' = Wipe1(Rest(None, FALSE)) BY <1>1, <1>2, <1>7 DEF Rest
  <2>2. up = "mounting" /\ v = None BY <1>1, <1>7 DEF Reclaiming
  <2>3. Reclaiming(None, FALSE)' BY <1>1, <1>2, <2>2 DEF Reclaiming
  <2>4. Wiping' BY <1>6, <2>1, <2>3 DEF Wiping
  <2> QED BY <1>3, <1>4, <2>4 DEF Phase
<1>8. CASE twice = FALSE
  <2>1. todo' = Founded(v) BY <1>1, <1>2, <1>8 DEF Rest
  <2>2. Reclaiming(v, FALSE)' BY <1>1, <1>2, <1>5, <1>8 DEF Reclaiming
  <2>3. Founding' BY <1>2, <1>6, <2>1, <2>2 DEF Founding
  <2> QED BY <1>3, <1>4, <2>3 DEF Phase
<1> QED BY <1>7, <1>8

-----------------------------------------------------------------------------
(* Appending a record. *)

\* A whole record behind the last one, with its index entry, keeps RAM a mirror.
LEMMA MirrorsAppended ==
    ASSUME TypeOK, Mirrors, NEW key \in DataKeys, NEW val \in Payloads \cup {Gone},
           Len(flash[bank].recs) <= cursor,
           flash'[bank].head = flash[bank].head, flash'[1 - bank] = flash[1 - bank],
           flash'[bank].recs = Placed(flash[bank].recs, cursor + 1, [key |-> key, val |-> val]),
           index' = [index EXCEPT ![key] = IF val = Gone THEN 0 ELSE cursor + 1],
           cursor' = cursor + 1, UNCHANGED <<bank, gen>>
    PROVE  /\ Mirrors' /\ Len(flash'[bank].recs) = cursor + 1
           /\ \A k \in Keys : FoundIn(flash'[bank].recs, cursor + 1, k) =
                 IF k # key THEN FoundIn(flash[bank].recs, cursor, k)
                 ELSE IF val = Gone THEN None ELSE val
<1> DEFINE recs == flash[bank].recs
           cell == [key |-> key, val |-> val]
           p == Placed(recs, cursor + 1, cell)
<1>1. recs \in Seq(Cells) /\ Len(recs) \in Nat /\ cursor \in Nat
  BY BothLogs
<1>2. cursor = Len(recs) /\ WholePart(recs) = cursor
  <2>1. cursor = WholePart(recs) /\ WholePart(recs) \in 0..Len(recs)
    BY <1>1, WholePartFacts DEF Mirrors
  <2> QED BY <1>1, <2>1
<1>3. key \in Keys /\ key # Schema /\ cell \in Cells /\ cell # Torn
  BY NotTorn DEF DataKeys, Cells
<1>4. cell.key = key /\ cell.val = val
  OBVIOUS
<1>5. flash'[bank].recs = p
  OBVIOUS
<1> HIDE DEF recs, cell
<1>6. /\ Len(p) = cursor + 1 /\ WholePart(p) = cursor + 1
      /\ \A k : LastOf(p, cursor + 1, k) = IF cell.key # k THEN LastOf(recs, cursor, k)
                                           ELSE IF cell.val = Gone THEN 0 ELSE cursor + 1
      /\ \A k \in Keys : FoundIn(p, cursor + 1, k) =
            IF cell.key # k THEN FoundIn(recs, cursor, k)
            ELSE IF cell.val = Gone THEN None ELSE cell.val
  BY <1>1, <1>2, <1>3, Extended
<1> HIDE DEF p
<1>7. index' = ScanIndex(p, cursor + 1)
  <2>1. index = [k \in Keys |-> LastOf(recs, cursor, k)]
    BY DEF Mirrors, ScanIndex, recs
  <2> QED BY <1>3, <1>4, <1>6, <2>1 DEF ScanIndex
<1>8. FoundIn(p, cursor + 1, Schema) = Current
  <2>1. FoundIn(recs, cursor, Schema) = Current BY DEF Mirrors, recs
  <2> QED BY <1>3, <1>4, <1>6, <2>1, PayloadFacts
<1>9. Mirrors'
  BY <1>5, <1>6, <1>7, <1>8 DEF Mirrors
<1> QED BY <1>4, <1>5, <1>6, <1>9 DEF recs

\* A torn cell behind the records RAM mirrors, or over one that is torn.
LEMMA MirrorsDamaged ==
    ASSUME TypeOK, Mirrors,
           flash'[bank].head = flash[bank].head, flash'[1 - bank] = flash[1 - bank],
           flash'[bank].recs = Placed(flash[bank].recs, cursor + 1, Torn)
    PROVE  /\ flash'[bank].recs \in Seq(Cells) /\ WholePart(flash'[bank].recs) = cursor
           /\ ScanIndex(flash'[bank].recs, cursor) = ScanIndex(flash[bank].recs, cursor)
           /\ \A k \in Keys : FoundIn(flash'[bank].recs, cursor, k)
                                 = FoundIn(flash[bank].recs, cursor, k)
           /\ Len(flash'[bank].recs) > cursor
<1> DEFINE recs == flash[bank].recs
           p == Placed(recs, cursor + 1, Torn)
<1>1. recs \in Seq(Cells) /\ Len(recs) \in Nat /\ cursor \in Nat
  BY BothLogs
<1>2. WholePart(recs) = cursor /\ cursor \in 0..Len(recs)
  BY <1>1, WholePartFacts DEF Mirrors
<1>3. flash'[bank].recs = p
  OBVIOUS
<1> HIDE DEF recs
<1>4. /\ p \in Seq(Cells) /\ Len(p) = (IF cursor = Len(recs) THEN cursor + 1 ELSE Len(recs))
      /\ WholePart(p) = cursor
      /\ \A k : LastOf(p, cursor, k) = LastOf(recs, cursor, k)
      /\ \A k \in Keys : FoundIn(p, cursor, k) = FoundIn(recs, cursor, k)
  BY <1>1, <1>2, Damaged
<1> HIDE DEF p
<1>5. ScanIndex(p, cursor) = ScanIndex(recs, cursor)
  BY <1>4 DEF ScanIndex
<1>6. Len(p) > cursor
  BY <1>1, <1>2, <1>4
<1> QED BY <1>3, <1>4, <1>5, <1>6 DEF recs

\* What the append steps have in common.
LEMMA AppendedFacts ==
    ASSUME IInv, Doing("append"), NEW cell \in Cells, Appended(cell), cursor < Cap
    PROVE  /\ flash' \in Flashes /\ flash'[bank].head = flash[bank].head
           /\ flash'[bank].recs = Placed(flash[bank].recs, cursor + 1, cell)
           /\ flash'[1 - bank] = flash[1 - bank]
           /\ HistoryOK' /\ stored' \in Store /\ dirty' \in BOOLEAN /\ Fits'
           /\ \A b \in Banks : flash'[b].head = flash[b].head
           /\ bank = 0 \/ cell.key # Schema => HeadsOK'
           /\ broken' \in BOOLEAN => TypeOK'
<1> USE DEF IInv
<1> DEFINE recs == flash[bank].recs  i == cursor + 1  p == Placed(recs, i, cell)
<1>1. /\ recs \in Seq(Cells) /\ Len(recs) \in Nat /\ cursor \in Nat /\ i \in Nat \ {0}
      /\ bank \in Banks /\ 1 - bank \in Banks /\ Banks = {bank, 1 - bank} /\ Cap \in Nat
  BY BothLogs
<1>2. Len(recs) <= Cap
  BY <1>1 DEF Fits
<1> HIDE DEF recs, i
<1>3. /\ p \in Seq(Cells) /\ Len(p) = (IF i > Len(recs) THEN i ELSE Len(recs))
      /\ p[i] = cell /\ \A j \in 1..Len(recs) : j # i => p[j] = recs[j]
      /\ \A j \in 1..Len(p) : j > Len(recs) => p[j] \in {cell, Torn}
  <2>1. recs \in Seq(Cells) /\ i \in Nat \ {0} /\ cell \in Cells
    BY <1>1
  <2>2. /\ Placed(recs, i, cell) \in Seq(Cells)
        /\ Len(Placed(recs, i, cell)) = (IF i > Len(recs) THEN i ELSE Len(recs))
        /\ Placed(recs, i, cell)[i] = cell
        /\ \A j \in 1..Len(recs) : j # i => Placed(recs, i, cell)[j] = recs[j]
        /\ \A j \in 1..Len(Placed(recs, i, cell)) :
              j > Len(recs) => Placed(recs, i, cell)[j] \in {cell, Torn}
    BY ONLY <2>1, PlacedFacts
  <2> QED BY <2>2 DEF p
<1> HIDE DEF p
<1>4. flash' = [flash EXCEPT ![bank].recs = p] /\ SetFlash([flash EXCEPT ![bank].recs = p])
  BY DEF Appended, SetFlash, p, recs, i
<1>5. /\ flash' \in Flashes /\ flash'[bank].head = flash[bank].head
      /\ flash'[bank].recs = p /\ flash'[1 - bank] = flash[1 - bank]
  BY <1>1, <1>3, <1>4, RecsSet
<1>6. HistoryOK' /\ stored' \in Store /\ dirty' \in BOOLEAN
  BY <1>4, <1>5, HistoryKept
<1>7. Len(p) <= Cap
  BY <1>1, <1>2, <1>3 DEF i
<1>8. Fits'
  BY <1>1, <1>5, <1>7 DEF Fits
<1>9. \A b \in Banks : flash'[b].head = flash[b].head
  BY <1>1, <1>5
<1>10. ASSUME bank = 0 \/ cell.key # Schema PROVE HeadsOK'
  <2>1. ASSUME flash'[1].head = 0, NEW j \in 1..Len(flash'[1].recs)
        PROVE  flash'[1].recs[j].key # Schema
    <3>0. flash[1].head = 0 BY <1>9, <2>1 DEF Banks
    <3>1. CASE bank = 0
      <4>1. flash'[1] = flash[1] BY <1>5, <3>1
      <4> QED BY <2>1, <3>0, <4>1 DEF HeadsOK
    <3>2. CASE bank = 1
      <4>1. cell.key # Schema /\ flash'[1].recs = p /\ recs = flash[1].recs
        BY <1>5, <1>10, <3>2 DEF recs
      <4>2. Torn.key # Schema BY PayloadFacts DEF Torn
      <4>3. \A q \in 1..Len(recs) : recs[q].key # Schema BY <3>0, <4>1 DEF HeadsOK
      <4>4. p[j] = cell \/ p[j] = Torn \/ (j \in 1..Len(recs) /\ p[j] = recs[j])
        BY <1>1, <1>3, <2>1, <4>1
      <4> QED BY <4>1, <4>2, <4>3, <4>4
    <3> QED BY <1>1, <3>1, <3>2 DEF Banks
  <2> QED BY <1>5, <1>9, <2>1, HeadsKept
<1>11. ASSUME broken' \in BOOLEAN PROVE TypeOK'
  <2>1. todo # <<>> /\ todo \in Seq(Tasks) /\ todo' = Tail(todo) /\ Tail(todo) \in Seq(Tasks)
    BY TypeFacts, HeadTailProperties DEF Doing, Appended, Finish
  <2>2. /\ bank' = bank /\ gen' = gen /\ cursor' = cursor + 1 /\ faults' = faults
        /\ index' = [index EXCEPT ![Head(todo).key] = IF Head(todo).val = Gone THEN 0 ELSE i]
        /\ up' \in {"ready", up} /\ goal' \in {None, goal}
    BY DEF Appended, Finish, i
  <2>3. index' \in [Keys -> Nat]
    BY <1>1, <2>2, TypeFacts
  <2>4. cursor' \in 0..Cap
    BY <1>1, <2>2
  <2> QED BY <1>5, <1>6, <1>11, <2>1, <2>2, <2>3, <2>4 DEF TypeOK, Flashes
<1> QED BY <1>5, <1>6, <1>8, <1>9, <1>10, <1>11 DEF p, recs, i

LEMMA AppendTask ==
    ASSUME TypeOK, Doing("append")
    PROVE  /\ todo # <<>> /\ Head(todo).key \in Keys /\ Head(todo).val \in Payloads \cup {Gone}
           /\ [key |-> Head(todo).key, val |-> Head(todo).val] \in Cells
<1>1. todo # <<>> /\ todo \in Seq(Tasks) /\ Head(todo).do = "append"
  BY TypeFacts DEF Doing
<1>2. Head(todo) \in Tasks
  BY <1>1, HeadTailProperties
<1>3. \A t \in Tasks : t.do = "append" => t.key \in Keys /\ t.val \in Payloads \cup {Gone}
  BY DEF Tasks
<1> QED BY <1>1, <1>2, <1>3 DEF Cells

\* The record of an update: RAM still mirrors the flash, and one key has changed.
LEMMA WritingFacts ==
    ASSUME TypeOK, Writing, AppendRecord, ~broken,
           flash'[bank].head = flash[bank].head, flash'[1 - bank] = flash[1 - bank],
           flash'[bank].recs = Placed(flash[bank].recs, cursor + 1,
                                      [key |-> Head(todo).key, val |-> Head(todo).val])
    PROVE  /\ Mirrors' /\ Len(flash'[bank].recs) = cursor + 1
           /\ \A k \in Keys \ {Head(todo).key} :
                 FoundIn(flash'[bank].recs, cursor + 1, k) = FoundIn(flash[bank].recs, cursor, k)
<1>1. PICK w \in Updates : todo = <<w>>
  BY DEF Writing
<1> DEFINE key == Head(todo).key  val == Head(todo).val
<1>2. key \in DataKeys /\ val \in Payloads \cup {Gone}
  BY <1>1, UpdateFacts
<1>3. /\ Mirrors /\ Len(flash[bank].recs) <= cursor /\ cursor' = cursor + 1
      /\ index' = [index EXCEPT ![key] = IF val = Gone THEN 0 ELSE cursor + 1]
      /\ UNCHANGED <<bank, gen>>
  BY DEF Writing, Steady, AppendRecord, Appended
<1>4. flash'[bank].recs = Placed(flash[bank].recs, cursor + 1, [key |-> key, val |-> val])
  OBVIOUS
<1> HIDE DEF key, val
<1>5. /\ Mirrors' /\ Len(flash'[bank].recs) = cursor + 1
      /\ \A k \in Keys : FoundIn(flash'[bank].recs, cursor + 1, k) =
            IF k # key THEN FoundIn(flash[bank].recs, cursor, k)
            ELSE IF val = Gone THEN None ELSE val
  BY <1>2, <1>3, <1>4, MirrorsAppended
<1> QED BY <1>5 DEF key

\* The first record after a wipe.
LEMMA FoundingFacts ==
    ASSUME TypeOK, Founding, AppendRecord,
           flash'[bank].head = flash[bank].head, flash'[1 - bank] = flash[1 - bank],
           flash'[bank].recs = Placed(flash[bank].recs, cursor + 1,
                                      [key |-> Head(todo).key, val |-> Head(todo).val])
    PROVE  /\ Mirrors' /\ bank' = 0 /\ gen' = 1 /\ cursor' = 1 /\ Len(flash'[0].recs) = 1
           /\ \A k \in DataKeys : index'[k] = 0 /\ FoundIn(flash'[0].recs, 1, k) = None
<1>1. PICK v \in Payloads \cup {None} : todo = Founded(v)
  BY DEF Founding
<1>2. Head(todo).key = Schema /\ Head(todo).val = Current
  BY <1>1, FoundedFirst
<1>3. /\ bank = 0 /\ gen = 1 /\ cursor = 0 /\ index = [k \in Keys |-> 0]
      /\ flash[0] = Bare(1) /\ flash[1] = Bare(0)
  BY DEF Founding, Factory
<1>4. /\ bank' = 0 /\ gen' = 1 /\ cursor' = 1
      /\ index' = [index EXCEPT ![Schema] = IF Current = Gone THEN 0 ELSE cursor + 1]
  <2>1. /\ bank' = bank /\ gen' = gen /\ cursor' = cursor + 1
        /\ index' = [index EXCEPT ![Head(todo).key] = IF Head(todo).val = Gone THEN 0
                                                     ELSE cursor + 1]
    BY DEF AppendRecord, Appended
  <2>2. index' = [index EXCEPT ![Schema] = IF Current = Gone THEN 0 ELSE cursor + 1]
    BY <1>2, <2>1, Zenon
  <2>3. bank' = 0 /\ gen' = 1 /\ cursor' = 1
    BY <1>3, <2>1
  <2> QED BY <2>2, <2>3, Zenon
<1>5. Current # Gone /\ Schema \in Keys
  BY PayloadFacts
<1> DEFINE cell == [key |-> Schema, val |-> Current]
           old == <<>>
           n == 0
           p == Placed(old, n + 1, cell)
<1>6. old \in Seq(Cells) /\ Len(old) = 0 /\ WholePart(old) = 0
      /\ \A k : LastOf(old, 0, k) = 0 /\ FoundIn(old, 0, k) = None
  BY EmptyLog
<1>7. flash'[0].recs = p
  <2>1. flash[0].recs = <<>> BY <1>3 DEF Bare
  <2> QED BY <1>2, <1>3, <2>1
<1>8. cell \in Cells /\ cell # Torn /\ cell.key = Schema /\ cell.val = Current
  BY NotTorn, PayloadFacts DEF Cells
<1> HIDE DEF cell, old, n
<1>9. n = Len(old) /\ n = 0 /\ WholePart(old) = n /\ old \in Seq(Cells)
  BY <1>6 DEF n
<1>10. /\ Len(p) = 1 /\ WholePart(p) = 1
       /\ \A k : LastOf(p, 1, k) = IF cell.key # k THEN LastOf(old, 0, k)
                                   ELSE IF cell.val = Gone THEN 0 ELSE 1
       /\ \A k \in Keys : FoundIn(p, 1, k) = IF cell.key # k THEN FoundIn(old, 0, k)
                                             ELSE IF cell.val = Gone THEN None ELSE cell.val
  <2>1. /\ Len(p) = n + 1 /\ WholePart(p) = n + 1
        /\ \A k : LastOf(p, n + 1, k) = IF cell.key # k THEN LastOf(old, n, k)
                                        ELSE IF cell.val = Gone THEN 0 ELSE n + 1
        /\ \A k \in Keys : FoundIn(p, n + 1, k) =
              IF cell.key # k THEN FoundIn(old, n, k)
              ELSE IF cell.val = Gone THEN None ELSE cell.val
    <3>1. p = Placed(old, n + 1, cell) OBVIOUS
    <3>2. n = Len(old) /\ WholePart(old) = n /\ old \in Seq(Cells) BY <1>9
    <3> HIDE DEF p
    <3> QED BY ONLY <1>8, <3>1, <3>2, Extended
  <2>2. n = 0 /\ n + 1 = 1 BY <1>9
  <2> QED BY <2>1, <2>2
<1> HIDE DEF p
<1>11. \A k : LastOf(p, 1, k) = IF k = Schema THEN 1 ELSE 0
  BY <1>5, <1>6, <1>8, <1>10
<1>12. \A k \in Keys : FoundIn(p, 1, k) = IF k = Schema THEN Current ELSE None
  BY <1>5, <1>6, <1>8, <1>10
<1>13. index' = [k \in Keys |-> IF k = Schema THEN 1 ELSE 0]
  BY <1>3, <1>4, <1>5
<1>14. index' = ScanIndex(p, 1)
  BY <1>11, <1>13 DEF ScanIndex
<1>15. flash'[0].head = 1 /\ flash'[1].head = 0
  BY <1>3 DEF Bare
<1>16. Mirrors'
  <2>1. flash'[bank'].head = gen' /\ flash'[1 - bank'].head < gen'
    BY <1>4, <1>15
  <2>2. FoundIn(p, 1, Schema) = Current BY <1>5, <1>12
  <2> QED BY <1>4, <1>7, <1>10, <1>14, <2>1, <2>2 DEF Mirrors
<1>17. \A k \in DataKeys : index'[k] = 0 /\ FoundIn(p, 1, k) = None
  BY <1>12, <1>13 DEF DataKeys
<1> QED BY <1>4, <1>7, <1>10, <1>16, <1>17

\* The security record, written again at the end of an erase-all.
LEMMA RestoringFacts ==
    ASSUME TypeOK, Restoring, AppendRecord,
           flash'[bank].head = flash[bank].head, flash'[1 - bank] = flash[1 - bank],
           flash'[bank].recs = Placed(flash[bank].recs, cursor + 1,
                                      [key |-> Head(todo).key, val |-> Head(todo).val])
    PROVE  /\ Mirrors' /\ Len(flash'[bank].recs) = cursor + 1 /\ Tail(todo) = <<>>
           /\ \A k \in DataKeys : FoundIn(flash'[bank].recs, cursor + 1, k) = goal[k]
<1>1. PICK v \in Payloads : todo = Rewrite(v) /\ goal = Kept(v)
  BY DEF Restoring
<1>2. /\ Head(todo) = Append1(Sec, v) /\ Tail(todo) = <<>>
      /\ Head(todo).key = Sec /\ Head(todo).val = v /\ v # Gone
  <2>1. v \in Payloads \cup {None} /\ v \in Payloads \cup {Gone} /\ v # None /\ v # Gone
    BY PayloadFacts
  <2>2. Head(todo) = Append1(Sec, v) /\ Tail(todo) = <<>>
    BY <1>1, <2>1, FoundedFacts
  <2> QED BY <2>1, <2>2, TaskFacts, PayloadFacts
<1>3. /\ Mirrors /\ Len(flash[bank].recs) <= cursor /\ cursor' = cursor + 1
      /\ index' = [index EXCEPT ![Sec] = IF v = Gone THEN 0 ELSE cursor + 1]
      /\ UNCHANGED <<bank, gen>> /\ \A k \in DataKeys : index[k] = 0
  BY <1>2 DEF Restoring, AppendRecord, Appended
<1>4. flash'[bank].recs = Placed(flash[bank].recs, cursor + 1, [key |-> Sec, val |-> v])
  BY <1>2
<1>5. Sec \in DataKeys /\ v \in Payloads \cup {Gone} /\ DataKeys \subseteq Keys
  BY TypeFacts
<1>6. /\ Mirrors' /\ Len(flash'[bank].recs) = cursor + 1
      /\ \A k \in Keys : FoundIn(flash'[bank].recs, cursor + 1, k) =
            IF k # Sec THEN FoundIn(flash[bank].recs, cursor, k)
            ELSE IF v = Gone THEN None ELSE v
  BY <1>3, <1>4, <1>5, MirrorsAppended
<1>7. \A k \in DataKeys : FoundIn(flash[bank].recs, cursor, k) = None
  BY <1>3, <1>5 DEF Mirrors, ScanIndex, FoundIn
<1>8. \A k \in DataKeys : goal[k] = IF k = Sec THEN v ELSE None
  BY <1>1 DEF Kept
<1> QED BY <1>2, <1>5, <1>6, <1>7, <1>8

LEMMA AppendRecordIInv ==
    ASSUME IInv, AppendRecord
    PROVE  IInv'
<1> USE DEF IInv
<1> DEFINE cell == [key |-> Head(todo).key, val |-> Head(todo).val]
<1>1. cell \in Cells /\ Appended(cell) /\ cursor < Cap /\ Doing("append") /\ broken' = broken
  BY AppendTask DEF AppendRecord
<1>2. /\ flash'[bank].head = flash[bank].head
      /\ flash'[bank].recs = Placed(flash[bank].recs, cursor + 1, cell)
      /\ flash'[1 - bank] = flash[1 - bank]
      /\ HistoryOK' /\ Fits' /\ (bank = 0 \/ cell.key # Schema => HeadsOK')
      /\ TypeOK'
  <2>1. broken' \in BOOLEAN BY <1>1 DEF TypeOK
  <2> HIDE DEF cell
  <2> QED BY <1>1, <2>1, AppendedFacts
<1>3. /\ todo' = Tail(todo) /\ bank' = bank /\ gen' = gen /\ cursor' = cursor + 1
      /\ up' = (IF Tail(todo) = <<>> /\ up = "mounting" THEN "ready" ELSE up)
      /\ goal' = (IF Tail(todo) = <<>> THEN None ELSE goal)
  BY <1>1 DEF Appended, Finish
<1>4. CASE Writing
  <2>1. PICK w \in Updates : todo = <<w>> BY <1>4 DEF Writing
  <2>2. Tail(todo) = <<>> /\ cell.key # Schema BY <2>1, UpdateFacts
  <2>3. Headed' BY <1>2, <1>3, <1>4 DEF Writing, Steady, Headed
  <2>4. ~broken => Mirrors' BY <1>2, <1>4, WritingFacts
  <2>5. AtRest' BY <1>1, <1>3, <1>4, <2>2, <2>3, <2>4 DEF Writing, AtRest, Steady
  <2> QED BY <1>2, <2>2, <2>5 DEF Phase
<1>5. CASE Founding
  <2>1. /\ Mirrors' /\ bank' = 0 /\ gen' = 1 /\ cursor' = 1 /\ Len(flash'[0].recs) = 1
        /\ \A k \in DataKeys : index'[k] = 0
    BY <1>2, <1>5, FoundingFacts
  <2>2. PICK v \in Payloads \cup {None} : Reclaiming(v, FALSE) /\ todo = Founded(v)
    BY <1>5 DEF Founding
  <2>3. todo' = Rewrite(v) BY <1>3, <2>2, FoundedFacts
  <2>4. Headed' BY <2>1 DEF Headed, Mirrors
  <2>5. bank = 0 /\ ~broken BY <1>5 DEF Founding
  <2>6. CASE v = None
    <3>1. todo' = <<>> /\ goal' = None /\ up' = "ready"
      BY <1>3, <2>2, <2>3, <2>6, FoundedFacts DEF Reclaiming
    <3>2. AtRest' BY <2>1, <2>4, <3>1 DEF AtRest, Steady
    <3> QED BY <1>2, <2>5, <3>2 DEF Phase
  <2>7. CASE v # None
    <3>1. todo' # <<>> BY <2>3, <2>7, FoundedFacts
    <3>2. up = "ready" /\ goal = Kept(v) BY <2>2, <2>7 DEF Reclaiming
    <3>3. up' = "ready" /\ goal' = Kept(v) BY <1>3, <3>1, <3>2
    <3>4. Restoring' BY <1>1, <2>1, <2>3, <2>5, <2>7, <3>3 DEF Restoring
    <3> QED BY <1>2, <2>5, <3>4 DEF Phase
  <2> QED BY <2>6, <2>7
<1>6. CASE Restoring
  <2>1. Mirrors' /\ Tail(todo) = <<>>
    BY <1>2, <1>6, RestoringFacts
  <2>2. bank = 0 /\ gen = 1 /\ up = "ready" /\ ~broken BY <1>6 DEF Restoring
  <2>3. Headed' BY <1>3, <2>1, <2>2 DEF Headed, Mirrors
  <2>4. AtRest' BY <1>1, <1>3, <2>1, <2>2, <2>3 DEF AtRest, Steady
  <2> QED BY <1>2, <2>2, <2>4 DEF Phase
<1> QED BY <1>1, <1>4, <1>5, <1>6, DoingOnly

LEMMA AppendOverDirtIInv ==
    ASSUME IInv, AppendOverDirt
    PROVE  IInv'
<1> USE DEF IInv
<1>1. Writing
  <2>1. Writing \/ Founding \/ Restoring BY DoingOnly DEF AppendOverDirt
  <2>2. cursor < Len(flash[bank].recs) BY DEF AppendOverDirt
  <2>3. Founding => bank = 0 /\ cursor = 0 /\ Len(flash[0].recs) = 0
    BY DEF Founding, Factory, Bare
  <2>4. Restoring => bank = 0 /\ cursor = 1 /\ Len(flash[0].recs) = 1
    BY DEF Restoring
  <2>5. ~Founding BY <2>2, <2>3
  <2>6. ASSUME Restoring PROVE FALSE
    <3>1. cursor = 1 /\ Len(flash[bank].recs) = 1 BY <2>4, <2>6
    <3> QED BY <2>2, <3>1
  <2> QED BY <2>1, <2>5, <2>6
<1>2. Torn \in Cells /\ Torn.key # Schema
  BY PayloadFacts DEF Torn, Cells
<1>3. Appended(Torn) /\ Doing("append") /\ broken' = TRUE /\ cursor < Cap
  <2>1. cursor < Len(flash[bank].recs) /\ Len(flash[bank].recs) <= Cap
    BY BothLogs DEF AppendOverDirt, Fits
  <2>2. cursor < Cap
    BY <2>1, BothLogs
  <2> QED BY <2>2 DEF AppendOverDirt
<1>4. /\ flash'[bank].head = flash[bank].head
      /\ HistoryOK' /\ Fits' /\ HeadsOK' /\ TypeOK'
  BY <1>2, <1>3, AppendedFacts
<1>5. PICK w \in Updates : todo = <<w>> BY <1>1 DEF Writing
<1>6. todo' = <<>> /\ up' = "ready" /\ goal' = None /\ bank' = bank /\ gen' = gen
  BY <1>1, <1>3, <1>5 DEF Appended, Finish, Writing
<1>7. AtRest'
  BY <1>1, <1>3, <1>4, <1>6 DEF AtRest, Steady, Headed, Writing
<1> QED BY <1>4, <1>7 DEF Phase

-----------------------------------------------------------------------------
(* Moving the live records. *)

LEMMA MovingAt ==
    ASSUME TypeOK, Moving
    PROVE  \E w \in Updates, left \in SUBSET Keys :
              /\ todo = <<Copy(left), w>> /\ todo # <<>> /\ Tail(todo) = <<w>>
              /\ Head(todo) = Copy(left) /\ Head(todo).do = "copy" /\ Head(todo).left = left
              /\ Len(flash[1 - bank].recs) + Cardinality(left) <= Cardinality(Keys)
              /\ ~broken => goal # None /\ Moved(left)
              /\ IsFiniteSet(left) /\ Cardinality(left) \in Nat /\ Cardinality(Keys) \in Nat
              /\ Cardinality(Keys) < Cap
<1>1. PICK w \in Updates, left \in SUBSET Keys :
         /\ todo = <<Copy(left), w>>
         /\ Len(flash[1 - bank].recs) + Cardinality(left) <= Cardinality(Keys)
         /\ ~broken => goal # None /\ Moved(left)
  BY DEF Moving
<1>2. Copy(left).do = "copy" /\ Copy(left).left = left
  BY TaskFacts
<1>3. IsFiniteSet(left) /\ Cardinality(left) \in Nat /\ Cardinality(Keys) \in Nat
  BY KeysAssumption, FS_Subset, FS_CardinalityType
<1>4. todo # <<>> /\ Tail(todo) = <<w>> /\ Head(todo) = Copy(left)
  BY <1>1
<1> QED BY <1>1, <1>2, <1>3, <1>4, CapAssumption

LEMMA CopyRecordIInv ==
    ASSUME IInv, CopyRecord
    PROVE  IInv'
<1> USE DEF IInv
<1>1. Moving
  BY DoingOnly DEF CopyRecord
<1>2. PICK w \in Updates, left \in SUBSET Keys :
         /\ todo = <<Copy(left), w>> /\ Head(todo).left = left
         /\ Len(flash[1 - bank].recs) + Cardinality(left) <= Cardinality(Keys)
         /\ ~broken => goal # None /\ Moved(left)
         /\ IsFiniteSet(left) /\ Cardinality(left) \in Nat /\ Cardinality(Keys) \in Nat
         /\ Cardinality(Keys) < Cap
  BY <1>1, MovingAt
<1>3. PICK k \in left :
         /\ SetFlash([flash EXCEPT ![1 - bank].recs = Append(@, Cell(bank, index[k]))])
         /\ index' = [index EXCEPT ![k] = Len(flash[1 - bank].recs) + 1]
         /\ todo' = [todo EXCEPT ![1].left = @ \ {k}]
  BY <1>2 DEF CopyRecord
<1>4. UNCHANGED <<bank, gen, cursor, up, faults, goal, broken>>
  BY DEF CopyRecord
<1> DEFINE old == flash[1 - bank].recs
           cell == Cell(bank, index[k])
           new == Append(old, cell)
<1>5. old \in Seq(Cells) /\ Len(old) \in Nat /\ cell \in Cells
  BY BothLogs, CellFacts
<1>6. flash' = [flash EXCEPT ![1 - bank].recs = new] /\ SetFlash([flash EXCEPT ![1 - bank].recs = new])
  BY <1>3 DEF SetFlash
<1> HIDE DEF old, cell
<1>7. /\ new \in Seq(Cells) /\ Len(new) = Len(old) + 1 /\ new[Len(old) + 1] = cell
      /\ \A i \in 1..Len(old) : new[i] = old[i]
  BY <1>5, AppendProperties
<1> HIDE DEF new
<1>8. /\ flash' \in Flashes /\ flash'[1 - bank].head = flash[1 - bank].head
      /\ flash'[1 - bank].recs = new /\ flash'[bank] = flash[bank]
  BY <1>6, <1>7, BothLogs, RecsSet
<1>9. HistoryOK' /\ stored' \in Store /\ dirty' \in BOOLEAN
  BY <1>6, <1>8, HistoryKept
<1>10. todo' = <<Copy(left \ {k}), w>> /\ todo' \in Seq(Tasks)
  <2>1. todo' = <<[Copy(left) EXCEPT !.left = @ \ {k}], w>>
    <3>1. todo' = [<<Copy(left), w>> EXCEPT ![1] = [Copy(left) EXCEPT !.left = @ \ {k}]]
      <4>1. todo[1] = Copy(left) BY <1>2
      <4> QED BY <1>2, <1>3, <4>1
    <3>2. \A x, y : [<<x, w>> EXCEPT ![1] = y] = <<y, w>>
      OBVIOUS
    <3> QED BY <3>1, <3>2, Zenon
  <2>2. [Copy(left) EXCEPT !.left = @ \ {k}] = Copy(left \ {k})
    BY DEF Copy
  <2>3. Copy(left \ {k}) \in Tasks /\ w \in Tasks BY TaskFacts, UpdateFacts
  <2> QED BY <2>1, <2>2, <2>3
<1>11. Cardinality(left \ {k}) \in Nat /\ Len(new) + Cardinality(left \ {k}) <= Cardinality(Keys)
  <2>1. Cardinality(left \ {k}) = Cardinality(left) - 1 /\ IsFiniteSet(left \ {k})
    BY <1>2, FS_RemoveElement
  <2>2. Cardinality(left \ {k}) \in Nat BY <2>1, FS_CardinalityType
  <2> QED BY <1>2, <1>5, <1>7, <2>1, <2>2 DEF old
<1>12. TypeOK'
  <2>1. index' \in [Keys -> Nat] BY <1>3, <1>5, TypeFacts, SMTT(30) DEF old
  <2> QED BY <1>4, <1>8, <1>9, <1>10, <2>1 DEF TypeOK, Flashes
<1>13. Fits'
  <2>1. Len(new) <= Cap BY <1>2, <1>5, <1>7, <1>11, CapAssumption
  <2> QED BY <1>8, <2>1, BothLogs DEF Fits
<1>14. Headed /\ up = "ready" /\ flash[1 - bank].head = gen + 1
  BY <1>1 DEF Moving
<1>15. HeadsOK'
  <2>1. \A b \in Banks : flash'[b].head = flash[b].head BY <1>8, BothLogs
  <2>2. ASSUME flash'[1].head = 0 PROVE flash'[1] = flash[1]
    <3>1. bank = 1
      <4>1. CASE bank = 0
        <5>1. flash[1].head = gen + 1 /\ flash'[1].head = flash[1].head
          BY <1>14, <2>1, <4>1 DEF Banks
        <5> QED BY <2>2, <5>1, BothLogs
      <4> QED BY <4>1, BothLogs DEF Banks
    <3> QED BY <1>8, <3>1
  <2>3. flash[1].head = 0 => \A i \in 1..Len(flash[1].recs) : flash[1].recs[i].key # Schema
    BY DEF HeadsOK
  <2>4. flash'[1].head = 0
          => \A i \in 1..Len(flash'[1].recs) : flash'[1].recs[i].key # Schema
    BY <2>2, <2>3
  <2> QED BY <1>8, <2>1, <2>4, HeadsKept
<1>16. ASSUME ~broken PROVE Moved(left \ {k})'
  <2>1. /\ flash[bank].head = gen
        /\ \A j \in Keys : IF index[j] = 0 THEN j \notin left /\ Wanted(goal, j) = None
                           ELSE Holds(flash[IF j \in left THEN bank ELSE 1 - bank].recs,
                                      index[j], j, Wanted(goal, j))
        /\ \A i \in 1..Len(old) : old[i].key \in Keys \ left /\ index[old[i].key] = i
    BY <1>2, <1>16 DEF Moved, old
  <2>2. /\ index[k] # 0 /\ cell = [key |-> k, val |-> Wanted(goal, k)]
    <3>1. Holds(flash[bank].recs, index[k], k, Wanted(goal, k)) /\ index[k] # 0
      BY <2>1
    <3> QED BY <3>1 DEF Holds, Cell, cell
  <2>3. /\ index'[k] = Len(old) + 1 /\ \A j \in Keys \ {k} : index'[j] = index[j]
    BY <1>3, TypeFacts DEF old
  <2>4. ASSUME NEW j \in Keys
        PROVE  IF index'[j] = 0 THEN j \notin left \ {k} /\ Wanted(goal', j) = None
               ELSE Holds(flash'[IF j \in left \ {k} THEN bank' ELSE 1 - bank'].recs,
                          index'[j], j, Wanted(goal', j))
    <3>1. CASE j = k
      <4>1. Holds(new, Len(old) + 1, k, Wanted(goal, k))
        BY <1>5, <1>7, <2>2 DEF Holds
      <4> QED BY <1>4, <1>5, <1>8, <2>3, <3>1, <4>1
    <3>2. CASE j # k /\ index[j] = 0
      BY <1>4, <2>1, <2>3, <3>2
    <3>3. CASE j # k /\ index[j] # 0 /\ j \in left
      BY <1>4, <1>8, <2>1, <2>3, <3>3
    <3>4. CASE j # k /\ index[j] # 0 /\ j \notin left
      <4>1. Holds(old, index[j], j, Wanted(goal, j))
        BY <2>1, <3>4 DEF old
      <4>2. Holds(new, index[j], j, Wanted(goal, j))
        BY <1>5, <1>7, <4>1 DEF Holds
      <4> QED BY <1>4, <1>8, <2>3, <3>4, <4>2
    <3> QED BY <3>1, <3>2, <3>3, <3>4
  <2>5. ASSUME NEW i \in 1..Len(new)
        PROVE  new[i].key \in Keys \ (left \ {k}) /\ index'[new[i].key] = i
    <3>1. CASE i = Len(old) + 1
      BY <1>7, <2>2, <2>3, <3>1
    <3>2. CASE i # Len(old) + 1
      <4>1. i \in 1..Len(old) /\ new[i] = old[i] BY <1>5, <1>7, <3>2
      <4>2. old[i].key \in Keys \ left /\ index[old[i].key] = i /\ old[i].key # k
        BY <2>1, <4>1
      <4> QED BY <2>3, <4>1, <4>2
    <3> QED BY <3>1, <3>2
  <2> QED BY <1>4, <1>8, <2>1, <2>4, <2>5 DEF Moved
<1>17. Moving'
  <2>1. Headed' BY <1>4, <1>8, <1>14 DEF Headed
  <2>2. PICK rest \in SUBSET Keys : rest = left \ {k} OBVIOUS
  <2>3. /\ todo' = <<Copy(rest), w>>
        /\ Len(flash'[1 - bank'].recs) + Cardinality(rest) <= Cardinality(Keys)
    BY <1>4, <1>8, <1>10, <1>11, <2>2
  <2>4. ~broken' => goal' # None /\ Moved(rest)'
    BY <1>2, <1>4, <1>16, <2>2
  <2>5. up' = "ready" /\ flash'[1 - bank'].head = gen' + 1
    BY <1>4, <1>8, <1>14
  <2> QED BY <2>1, <2>3, <2>4, <2>5 DEF Moving
<1> QED BY <1>9, <1>12, <1>13, <1>15, <1>17 DEF Phase

\* When everything has moved, the other bank mirrors what was wanted.
LEMMA SwitchMirrors ==
    ASSUME TypeOK, Moving, Moved({}), goal # None, SwitchBank
    PROVE  /\ Mirrors' /\ Len(flash'[bank'].recs) = cursor'
           /\ \A k \in DataKeys : FoundIn(flash'[bank'].recs, cursor', k) = goal[k]
<1> DEFINE recs == flash[1 - bank].recs  n == Len(recs)
<1>1. recs \in Seq(Cells) /\ n \in Nat
  BY BothLogs
<1>2. /\ bank' = 1 - bank /\ gen' = gen + 1 /\ cursor' = n /\ index' = index
      /\ flash' = flash
  BY DEF SwitchBank, rom
<1>3. /\ flash[bank].head = gen /\ flash[1 - bank].head = gen + 1
      /\ \A k \in Keys : IF index[k] = 0 THEN Wanted(goal, k) = None
                         ELSE Holds(recs, index[k], k, Wanted(goal, k))
      /\ \A i \in 1..n : recs[i].key \in Keys /\ index[recs[i].key] = i
  BY DEF Moving, Moved
<1> HIDE DEF recs
<1>4. WholePart(recs) = n
  <2>1. \A i \in 1..n : recs[i] # Torn
    <3>1. Torn.key \notin Keys BY PayloadFacts DEF Torn
    <3> QED BY <1>3, <3>1
  <2>2. n \in 0..Len(recs) BY <1>1
  <2> QED BY <1>1, <2>1, <2>2, WholePartIs
<1>5. ASSUME NEW k \in Keys
      PROVE  LastOf(recs, n, k) = index[k] /\ FoundIn(recs, n, k) = Wanted(goal, k)
  <2>1. CASE index[k] = 0
    <3>1. \A i \in 1..n : recs[i].key # k BY <1>3, <2>1
    <3>2. IsLast(recs, n, k, 0) BY <3>1 DEF IsLast
    <3>3. n \in 0..Len(recs) BY <1>1
    <3>4. LastOf(recs, n, k) = 0 BY <1>1, <3>2, <3>3, LastOfIs
    <3> QED BY <1>3, <2>1, <3>4 DEF FoundIn
  <2>2. CASE index[k] # 0
    <3> DEFINE m == index[k]
    <3>1. m \in 1..n /\ recs[m].key = k /\ recs[m].val = Wanted(goal, k)
      <4>1. Holds(recs, m, k, Wanted(goal, k)) BY <1>3, <2>2
      <4> HIDE DEF m
      <4> QED BY <4>1 DEF Holds
    <3>2. \A j \in m + 1..n : recs[j].key # k BY <1>1, <1>3, <3>1
    <3>3. Wanted(goal, k) # Gone
      <4>1. goal \in Store BY TypeFacts
      <4>2. k \in DataKeys => goal[k] \in Payloads \cup {None} BY <4>1 DEF Store
      <4> QED BY <4>2, PayloadFacts DEF Wanted, DataKeys
    <3>4. IsLast(recs, n, k, m) BY <3>1, <3>2, <3>3 DEF IsLast
    <3>5. n \in 0..Len(recs) BY <1>1
    <3>6. LastOf(recs, n, k) = m BY <1>1, <3>4, <3>5, LastOfIs
    <3> QED BY <2>2, <3>1, <3>6 DEF FoundIn
  <2> QED BY <2>1, <2>2
<1>6. Wanted(goal, Schema) = Current /\ \A k \in DataKeys : Wanted(goal, k) = goal[k]
  BY DEF Wanted, DataKeys
<1>7. index' = ScanIndex(recs, n)
  <2>1. index \in [Keys -> Nat] BY TypeFacts
  <2> QED BY <1>2, <1>5, <2>1 DEF ScanIndex
<1>8. flash'[bank'].recs = recs /\ flash'[bank'].head = gen' /\ flash'[1 - bank'].head < gen'
  <2>1. 1 - (1 - bank) = bank /\ gen \in Nat BY BothLogs
  <2> QED BY <1>2, <1>3, <2>1 DEF recs
<1>9. FoundIn(recs, n, Schema) = Current BY <1>5, <1>6, PayloadFacts
<1>10. Mirrors'
  BY <1>2, <1>4, <1>7, <1>8, <1>9 DEF Mirrors
<1> QED BY <1>2, <1>5, <1>6, <1>8, <1>10, TypeFacts

LEMMA SwitchBankIInv ==
    ASSUME IInv, SwitchBank
    PROVE  IInv'
<1> USE DEF IInv
<1>1. Moving
  BY DoingOnly DEF SwitchBank
<1>2. PICK w \in Updates, left \in SUBSET Keys :
         /\ Tail(todo) = <<w>> /\ Head(todo).left = left
         /\ Len(flash[1 - bank].recs) + Cardinality(left) <= Cardinality(Keys)
         /\ ~broken => goal # None /\ Moved(left)
         /\ Cardinality(left) \in Nat /\ Cardinality(Keys) \in Nat /\ Cardinality(Keys) < Cap
  BY <1>1, MovingAt
<1>3. left = {}
  BY <1>2 DEF SwitchBank
<1>4. /\ bank' = 1 - bank /\ gen' = gen + 1 /\ cursor' = Len(flash[1 - bank].recs)
      /\ index' = index /\ flash' = flash /\ stored' = stored /\ dirty' = dirty
      /\ up' = up /\ faults' = faults /\ broken' = broken /\ todo' = <<w>> /\ goal' = None
  BY <1>2 DEF SwitchBank, rom
<1>5. TypeOK'
  <2>1. cursor' \in 0..Cap /\ bank' \in Banks /\ gen' \in Nat
    <3>1. Len(flash[1 - bank].recs) \in Nat /\ Cap \in Nat /\ gen \in Nat /\ 1 - bank \in Banks
      BY BothLogs
    <3> QED BY <1>2, <1>4, <3>1
  <2>2. todo' \in Seq(Tasks) BY <1>4, UpdateFacts
  <2> QED BY <1>4, <2>1, <2>2 DEF TypeOK
<1>6. Fits' /\ HeadsOK' /\ HistoryOK'
  BY <1>4 DEF Fits, HeadsOK, BanksOrdered, HistoryOK
<1>7. Headed' /\ up = "ready"
  <2>1. /\ Headed /\ up = "ready" /\ flash[1 - bank].head = gen + 1 /\ gen \in Nat
    BY <1>1, BothLogs DEF Moving
  <2> QED BY <1>4, <2>1 DEF Headed
<1>8. ~broken => Mirrors'
  BY <1>1, <1>2, <1>3, SwitchMirrors
<1>9. Writing'
  BY <1>4, <1>7, <1>8 DEF Writing, Steady
<1> QED BY <1>5, <1>6, <1>9 DEF Phase

-----------------------------------------------------------------------------
(* Steps that fail. *)

\* Whatever a cut primitive leaves, the two banks stay in order.
LEMMA CutFacts ==
    ASSUME IInv, Cut
    PROVE  /\ flash' \in Flashes /\ HistoryOK' /\ stored' \in Store /\ dirty' \in BOOLEAN
           /\ Fits' /\ HeadsOK'
           /\ \A b \in Banks : flash'[b].head \in {flash[b].head, NoHead}
<1> USE DEF IInv
<1>1. CASE UNCHANGED rom
  <2>1. flash' = flash /\ flash' \in Flashes BY <1>1, TypeFacts DEF rom
  <2>2. HistoryOK' /\ stored' \in Store /\ dirty' \in BOOLEAN BY <1>1, <2>1, HistoryKept
  <2> QED BY <2>1, <2>2 DEF Fits, HeadsOK, BanksOrdered
<1>2. CASE /\ Doing("append") /\ cursor < Cap /\ Len(flash[bank].recs) <= cursor
           /\ SetFlash([flash EXCEPT ![bank].recs = Placed(@, cursor + 1, Torn)])
  <2> DEFINE recs == flash[bank].recs  i == cursor + 1  p == Placed(recs, i, Torn)
  <2>1. /\ recs \in Seq(Cells) /\ Len(recs) \in Nat /\ cursor \in Nat /\ i \in Nat \ {0}
        /\ bank \in Banks /\ Banks = {bank, 1 - bank} /\ Cap \in Nat /\ Torn \in Cells
    BY BothLogs DEF Torn, Cells, Payloads
  <2>2. Len(recs) <= cursor /\ i <= Cap
    BY <1>2, <2>1
  <2> HIDE DEF recs, i
  <2>3. /\ p \in Seq(Cells) /\ Len(p) = (IF i > Len(recs) THEN i ELSE Len(recs))
        /\ p[i] = Torn /\ \A j \in 1..Len(recs) : j # i => p[j] = recs[j]
        /\ \A j \in 1..Len(p) : j > Len(recs) => p[j] \in {Torn, Torn}
    <3>1. recs \in Seq(Cells) /\ i \in Nat \ {0} /\ Torn \in Cells
      BY <2>1
    <3>2. /\ Placed(recs, i, Torn) \in Seq(Cells)
          /\ Len(Placed(recs, i, Torn)) = (IF i > Len(recs) THEN i ELSE Len(recs))
          /\ Placed(recs, i, Torn)[i] = Torn
          /\ \A j \in 1..Len(recs) : j # i => Placed(recs, i, Torn)[j] = recs[j]
          /\ \A j \in 1..Len(Placed(recs, i, Torn)) :
                j > Len(recs) => Placed(recs, i, Torn)[j] \in {Torn, Torn}
      BY ONLY <3>1, PlacedFacts
    <3> QED BY <3>2 DEF p
  <2> HIDE DEF p
  <2>4. flash' = [flash EXCEPT ![bank].recs = p] /\ SetFlash([flash EXCEPT ![bank].recs = p])
    BY <1>2 DEF SetFlash, p, recs, i
  <2>5. /\ flash' \in Flashes /\ flash'[bank].head = flash[bank].head
        /\ flash'[bank].recs = p /\ flash'[1 - bank] = flash[1 - bank]
    BY <2>1, <2>3, <2>4, RecsSet
  <2>6. HistoryOK' /\ stored' \in Store /\ dirty' \in BOOLEAN
    BY <2>4, <2>5, HistoryKept
  <2>7. Len(p) <= Cap
    BY <2>1, <2>2, <2>3 DEF i
  <2>8. Fits'
    BY <2>1, <2>5, <2>7 DEF Fits
  <2>9. \A b \in Banks : flash'[b].head = flash[b].head
    BY <2>1, <2>5
  <2>10. HeadsOK'
    <3>1. ASSUME flash'[1].head = 0, NEW j \in 1..Len(flash'[1].recs)
          PROVE  flash'[1].recs[j].key # Schema
      <4>0. flash[1].head = 0 BY <2>9, <3>1 DEF Banks
      <4>1. CASE bank = 0
        <5>1. flash'[1] = flash[1] BY <2>5, <4>1
        <5> QED BY <3>1, <4>0, <5>1 DEF HeadsOK
      <4>2. CASE bank = 1
        <5>1. flash'[1].recs = p /\ recs = flash[1].recs
          BY <2>5, <4>2 DEF recs
        <5>2. Torn.key # Schema BY PayloadFacts DEF Torn
        <5>3. \A q \in 1..Len(recs) : recs[q].key # Schema BY <4>0, <5>1 DEF HeadsOK
        <5>4. p[j] = Torn \/ (j \in 1..Len(recs) /\ p[j] = recs[j])
          BY <2>1, <2>3, <3>1, <5>1
        <5> QED BY <5>1, <5>2, <5>3, <5>4
      <4> QED BY <2>1, <4>1, <4>2 DEF Banks
    <3> QED BY <2>5, <2>9, <3>1, HeadsKept
  <2> QED BY <2>5, <2>6, <2>8, <2>9, <2>10
<1>3. CASE Doing("erase") /\ SetFlash(Formatted(Head(todo).bank, NoHead))
  <2> DEFINE b == Head(todo).bank
  <2>1. b \in Banks
    <3>1. todo # <<>> /\ todo \in Seq(Tasks) /\ Head(todo).do = "erase"
      BY <1>3, TypeFacts DEF Doing
    <3>2. Head(todo) \in Tasks BY <3>1, HeadTailProperties
    <3>3. \A t \in Tasks : t.do = "erase" => t.bank \in Banks BY DEF Tasks
    <3> QED BY <3>1, <3>2, <3>3
  <2>2. flash' = Formatted(b, NoHead) /\ SetFlash(Formatted(b, NoHead))
    BY <1>3 DEF SetFlash
  <2>3. flash' \in Flashes /\ flash'[b] = Bare(NoHead) /\ flash'[1 - b] = flash[1 - b]
    BY <2>1, <2>2, BankSet
  <2> HIDE DEF b
  <2>4. /\ flash'[b].head = NoHead /\ flash'[b].recs = <<>> /\ Len(<<>>) = 0
        /\ Banks = {b, 1 - b}
    BY <2>1, <2>3 DEF Bare, Banks
  <2>5. HistoryOK' /\ stored' \in Store /\ dirty' \in BOOLEAN
    BY <2>2, <2>3, HistoryKept
  <2>6. Fits'
    BY <2>3, <2>4, CapAssumption DEF Fits
  <2>7. \A c \in Banks : flash'[c] = flash[c] \/ flash'[c].head = NoHead
    BY <2>3, <2>4
  <2>8. HeadsOK'
    BY <2>3, <2>7 DEF HeadsOK, BanksOrdered, Banks, NoHead
  <2> QED BY <2>3, <2>5, <2>6, <2>7, <2>8
<1>4. CASE Copying /\ SetFlash([flash EXCEPT ![1 - bank].recs = Append(@, Torn)])
  <2> DEFINE old == flash[1 - bank].recs  new == Append(old, Torn)
  <2>1. Moving BY <1>4, DoingOnly DEF Copying
  <2>2. PICK left \in SUBSET Keys :
           /\ Head(todo).left = left /\ IsFiniteSet(left)
           /\ Len(flash[1 - bank].recs) + Cardinality(left) <= Cardinality(Keys)
           /\ Cardinality(left) \in Nat /\ Cardinality(Keys) \in Nat /\ Cardinality(Keys) < Cap
    BY <2>1, MovingAt
  <2>3. old \in Seq(Cells) /\ Len(old) \in Nat /\ Torn \in Cells
    BY BothLogs DEF Torn, Cells, Payloads
  <2>4. flash' = [flash EXCEPT ![1 - bank].recs = new] /\ SetFlash([flash EXCEPT ![1 - bank].recs = new])
    BY <1>4 DEF SetFlash
  <2>5. Len(old) < Cap
    BY <2>2, <2>3, CapAssumption
  <2> HIDE DEF old
  <2>6. new \in Seq(Cells) /\ Len(new) = Len(old) + 1
    BY <2>3, AppendProperties
  <2> HIDE DEF new
  <2>7. /\ flash' \in Flashes /\ flash'[1 - bank].head = flash[1 - bank].head
        /\ flash'[1 - bank].recs = new /\ flash'[bank] = flash[bank]
    BY <2>4, <2>6, BothLogs, RecsSet
  <2>8. HistoryOK' /\ stored' \in Store /\ dirty' \in BOOLEAN
    BY <2>4, <2>7, HistoryKept
  <2>9. Fits'
    <3>1. Len(new) <= Cap BY <2>3, <2>5, <2>6, CapAssumption
    <3> QED BY <2>7, <3>1, BothLogs DEF Fits
  <2>10. \A b \in Banks : flash'[b].head = flash[b].head
    BY <2>7, BothLogs
  <2>11. HeadsOK'
    <3>1. ASSUME flash'[1].head = 0 PROVE flash'[1] = flash[1]
      <4>1. CASE bank = 0
        <5>1. flash[1].head = gen + 1 /\ flash'[1].head = flash[1].head
          BY <2>1, <2>10, <4>1 DEF Moving, Banks
        <5> QED BY <3>1, <5>1, BothLogs
      <4>2. CASE bank = 1
        BY <2>7, <4>2
      <4> QED BY <4>1, <4>2, BothLogs DEF Banks
    <3>2. flash[1].head = 0 => \A i \in 1..Len(flash[1].recs) : flash[1].recs[i].key # Schema
      BY DEF HeadsOK
    <3>3. flash'[1].head = 0
            => \A i \in 1..Len(flash'[1].recs) : flash'[1].recs[i].key # Schema
      BY <2>10, <3>1, <3>2 DEF Banks
    <3> QED BY <2>7, <2>10, <3>3, HeadsKept
  <2> QED BY <2>7, <2>8, <2>9, <2>10, <2>11
<1> QED BY <1>1, <1>2, <1>3, <1>4 DEF Cut

\* While RAM mirrors the flash, a cut changes nothing that is stored.
LEMMA CutMirrored ==
    ASSUME IInv, Cut, Mirrors, Writing \/ MakingRoom \/ Restoring
    PROVE  /\ flash'[bank].head = gen /\ flash'[1 - bank].head < gen
           /\ WholePart(flash'[bank].recs) = cursor
           /\ ScanIndex(flash'[bank].recs, cursor) = ScanIndex(flash[bank].recs, cursor)
           /\ \A k \in Keys : FoundIn(flash'[bank].recs, cursor, k)
                                 = FoundIn(flash[bank].recs, cursor, k)
           /\ stored' = stored /\ dirty' \in {dirty, TRUE}
<1> USE DEF IInv
<1>1. /\ flash' \in Flashes /\ HistoryOK' /\ dirty' \in BOOLEAN
      /\ \A b \in Banks : flash'[b].head \in {flash[b].head, NoHead}
  BY CutFacts
<1>2. /\ flash[bank].head = gen /\ flash[1 - bank].head < gen /\ gen \in Nat
      /\ WholePart(flash[bank].recs) = cursor
      /\ FoundIn(flash[bank].recs, cursor, Schema) = Current
  BY BothLogs DEF Mirrors
<1>3. flash'[1 - bank].head < gen
  BY <1>1, <1>2, BothLogs DEF NoHead
<1>4. \/ flash'[bank] = flash[bank]
      \/ /\ flash'[bank].head = flash[bank].head /\ flash'[1 - bank] = flash[1 - bank]
         /\ flash'[bank].recs = Placed(flash[bank].recs, cursor + 1, Torn)
  <2>1. CASE UNCHANGED rom
    BY <2>1 DEF rom
  <2>2. CASE /\ Doing("append") /\ cursor < Cap /\ Len(flash[bank].recs) <= cursor
             /\ SetFlash([flash EXCEPT ![bank].recs = Placed(@, cursor + 1, Torn)])
    <3>1. bank \in Banks /\ 1 - bank # bank /\ 1 - bank \in Banks /\ flash \in Flashes
      BY BothLogs, TypeFacts
    <3>2. flash' = [flash EXCEPT ![bank].recs = Placed(@, cursor + 1, Torn)]
      BY <2>2 DEF SetFlash
    <3> QED BY <3>1, <3>2 DEF Flashes
  <2>3. CASE Doing("erase") /\ SetFlash(Formatted(Head(todo).bank, NoHead))
    <3>1. 1 - bank \in Banks /\ gen + 1 \in Nat BY BothLogs
    <3>2. Erase(1 - bank).do = "erase" /\ Erase(1 - bank).bank = 1 - bank
          /\ Header(1 - bank, gen + 1).do = "head"
      BY <3>1, TaskFacts
    <3>3. MakingRoom BY <2>3, PhaseHeads DEF Doing
    <3>4. PICK w \in Updates :
             todo = <<Erase(1 - bank), Header(1 - bank, gen + 1), Copy(LiveKeys), w>>
      <4>1. ~ \E w \in Updates : todo = <<Header(1 - bank, gen + 1), Copy(LiveKeys), w>>
        BY <2>3, <3>2 DEF Doing
      <4> QED BY <3>3, <4>1 DEF MakingRoom
    <3>5. Head(todo).bank = 1 - bank BY <3>2, <3>4
    <3>6. flash' = Formatted(1 - bank, NoHead) BY <2>3, <3>5 DEF SetFlash
    <3>7. flash'[1 - (1 - bank)] = flash[1 - (1 - bank)] BY <3>1, <3>6, BankSet
    <3> QED BY <3>7, BothLogs
  <2>4. ~Copying
    BY PhaseHeads DEF Copying, Doing
  <2> QED BY <2>1, <2>2, <2>3, <2>4 DEF Cut
<1>5. /\ flash'[bank].head = gen /\ WholePart(flash'[bank].recs) = cursor
      /\ ScanIndex(flash'[bank].recs, cursor) = ScanIndex(flash[bank].recs, cursor)
      /\ \A k \in Keys : FoundIn(flash'[bank].recs, cursor, k) = FoundIn(flash[bank].recs, cursor, k)
      /\ flash'[bank] = flash[bank] \/ Len(flash'[bank].recs) > cursor
  BY <1>2, <1>4, MirrorsDamaged
<1>6. /\ stored = [k \in DataKeys |-> FoundIn(flash[bank].recs, cursor, k)]
      /\ dirty \in BOOLEAN /\ (dirty <=> cursor < Len(flash[bank].recs))
  <2>1. flash \in Flashes /\ bank \in Banks /\ dirty \in BOOLEAN BY TypeFacts DEF TypeOK
  <2>2. /\ StoredIn(flash) = [k \in DataKeys |-> FoundIn(flash[bank].recs, cursor, k)]
        /\ DirtyIn(flash) <=> cursor < Len(flash[bank].recs)
    BY <1>2, <2>1, StoredHigher
  <2>3. stored = StoredIn(flash) /\ dirty = DirtyIn(flash) BY DEF HistoryOK
  <2> QED BY <2>1, <2>2, <2>3
<1>7. /\ stored' = [k \in DataKeys |-> FoundIn(flash'[bank].recs, cursor, k)]
      /\ dirty' <=> cursor < Len(flash'[bank].recs)
  <2>1. FoundIn(flash'[bank].recs, cursor, Schema) = Current BY <1>2, <1>5, PayloadFacts
  <2>2. /\ StoredIn(flash') = [k \in DataKeys |-> FoundIn(flash'[bank].recs, cursor, k)]
        /\ DirtyIn(flash') <=> cursor < Len(flash'[bank].recs)
    BY <1>1, <1>3, <1>5, <2>1, BothLogs, StoredHigher
  <2>3. stored' = StoredIn(flash') /\ dirty' = DirtyIn(flash') BY <1>1 DEF HistoryOK
  <2> QED BY <2>2, <2>3
<1>8. stored' = stored
  BY <1>5, <1>6, <1>7 DEF DataKeys
<1>9. dirty' \in {dirty, TRUE}
  BY <1>1, <1>5, <1>6, <1>7
<1> QED BY <1>3, <1>5, <1>8, <1>9

LEMMA StepFailsIInv ==
    ASSUME IInv, StepFails
    PROVE  IInv'
<1> USE DEF IInv
<1>1. /\ flash' \in Flashes /\ HistoryOK' /\ stored' \in Store /\ dirty' \in BOOLEAN
      /\ Fits' /\ HeadsOK' /\ \A b \in Banks : flash'[b].head \in {flash[b].head, NoHead}
  BY CutFacts DEF StepFails
<1>2. /\ faults' = faults + 1 /\ todo' = <<>> /\ goal' = None
      /\ up' = (IF up = "mounting" THEN "failed" ELSE up)
      /\ broken' = \/ broken \/ Doing("copy")
                   \/ up = "ready" /\ goal # None /\ ~(Doing("append") /\ Head(todo).key = Sec)
      /\ bank' = bank /\ gen' = gen /\ cursor' = cursor /\ index' = index
  BY DEF StepFails, ram
<1>3. TypeOK'
  <2>1. <<>> \in Seq(Tasks) OBVIOUS
  <2>2. broken' \in BOOLEAN BY <1>2 DEF TypeOK, Doing
  <2> QED BY <1>1, <1>2, <2>1, <2>2 DEF TypeOK, Flashes
<1>4. todo # <<>>
  BY DEF StepFails, Doing, Copying
<1>5. Headed => Headed'
  BY <1>1, <1>2, BothLogs DEF Headed, NoHead
<1>6. ASSUME Mirrors, Writing \/ MakingRoom \/ Restoring PROVE Mirrors'
  <2>1. Cut BY DEF StepFails
  <2>2. /\ flash'[bank].head = gen /\ flash'[1 - bank].head < gen
        /\ WholePart(flash'[bank].recs) = cursor
        /\ ScanIndex(flash'[bank].recs, cursor) = ScanIndex(flash[bank].recs, cursor)
        /\ \A k \in Keys : FoundIn(flash'[bank].recs, cursor, k) = FoundIn(flash[bank].recs, cursor, k)
    BY <1>6, <2>1, CutMirrored
  <2> QED BY <1>2, <1>6, <2>2, PayloadFacts DEF Mirrors
<1>7. up # "off" /\ (up = "ready" => Headed' /\ (~broken' => Mirrors'))
  <2>1. CASE AtRest
    BY <1>4, <2>1 DEF AtRest
  <2>2. CASE Writing \/ MakingRoom
    <3>1. up = "ready" /\ Headed /\ (~broken => Mirrors)
      BY <2>2 DEF Writing, MakingRoom, Steady
    <3>2. ~broken' => ~broken BY <1>2
    <3> QED BY <1>5, <1>6, <2>2, <3>1, <3>2
  <2>3. CASE Moving
    <3>1. up = "ready" /\ Headed BY <2>3 DEF Moving
    <3>2. broken' BY <1>2, <2>3, PhaseHeads
    <3> QED BY <1>5, <3>1, <3>2
  <2>4. CASE Wiping
    <3>1. PICK v \in Payloads \cup {None}, twice \in BOOLEAN : Reclaiming(v, twice)
      BY <2>4 DEF Wiping
    <3>2. up # "off" /\ (up = "ready" => goal # None /\ Headed) BY <3>1 DEF Reclaiming
    <3>3. ~Doing("append") BY <2>4, PhaseHeads DEF Doing
    <3>4. up = "ready" => broken' BY <1>2, <3>2, <3>3
    <3> QED BY <1>5, <3>2, <3>4
  <2>5. CASE Founding
    <3>1. PICK v \in Payloads \cup {None} : Reclaiming(v, FALSE) /\ todo = Founded(v)
      BY <2>5 DEF Founding
    <3>2. up # "off" /\ (up = "ready" => goal # None /\ Headed) BY <3>1 DEF Reclaiming
    <3>3. Head(todo).key # Sec
      BY <3>1, FoundedFirst, PayloadFacts
    <3>4. up = "ready" => broken' BY <1>2, <3>2, <3>3
    <3> QED BY <1>5, <3>2, <3>4
  <2>6. CASE Restoring
    <3>1. up = "ready" /\ Mirrors /\ gen = 1 BY <2>6 DEF Restoring
    <3>2. Headed BY <3>1 DEF Headed, Mirrors
    <3> QED BY <1>5, <1>6, <2>6, <3>1, <3>2
  <2> QED BY <2>1, <2>2, <2>3, <2>4, <2>5, <2>6 DEF Phase
<1>8. AtRest'
  BY <1>2, <1>7 DEF AtRest, Steady
<1> QED BY <1>1, <1>3, <1>8 DEF Phase

LEMMA PowerLossIInv ==
    ASSUME IInv, PowerLoss
    PROVE  IInv'
<1> USE DEF IInv
<1>1. /\ bank' = 0 /\ gen' = 0 /\ cursor' = 0 /\ index' = [k \in Keys |-> 0]
      /\ up' = "off" /\ todo' = <<>> /\ goal' = None /\ broken' = FALSE
      /\ Cut \/ UNCHANGED rom
      /\ faults' \in {faults, faults + 1}
  BY DEF PowerLoss
<1>2. Cut
  BY <1>1 DEF Cut
<1>3. /\ flash' \in Flashes /\ HistoryOK' /\ stored' \in Store /\ dirty' \in BOOLEAN
      /\ Fits' /\ HeadsOK'
  BY <1>2, CutFacts
<1>4. TypeOK'
  <2>1. <<>> \in Seq(Tasks) /\ 0 \in Banks /\ 0 \in 0..Cap BY CapAssumption DEF Banks
  <2>2. index' \in [Keys -> Nat] BY <1>1
  <2>3. faults' \in Nat BY <1>1 DEF TypeOK
  <2> QED BY <1>1, <1>3, <2>1, <2>2, <2>3 DEF TypeOK, Flashes
<1>5. AtRest'
  BY <1>1 DEF AtRest
<1> QED BY <1>3, <1>4, <1>5 DEF Phase

-----------------------------------------------------------------------------
(* The invariant. *)

LEMMA StepIInv ==
    ASSUME IInv, [Next]_vars
    PROVE  IInv'
<1>1. CASE Next
  <2>1. ASSUME NEW w \in Writes, Write(w[1], w[2]) PROVE IInv' BY <2>1, WriteIInv
  <2>2. ASSUME NEW k \in DataKeys, Delete(k) PROVE IInv' BY <2>2, DeleteIInv
  <2>3. CASE Mount \/ MountMisread BY <2>3, MountIInv, MountMisreadIInv
  <2>4. CASE EraseAll BY <2>4, EraseAllIInv
  <2>5. CASE AppendFull \/ AppendRecord \/ AppendOverDirt
    BY <2>5, AppendFullIInv, AppendRecordIInv, AppendOverDirtIInv
  <2>6. CASE EraseBank \/ WriteBankHeader \/ Wiped
    BY <2>6, EraseBankIInv, WriteBankHeaderIInv, WipedIInv
  <2>7. CASE CopyRecord \/ SwitchBank BY <2>7, CopyRecordIInv, SwitchBankIInv
  <2>8. CASE StepFails \/ PowerLoss BY <2>8, StepFailsIInv, PowerLossIInv
  <2> QED BY <1>1, <2>1, <2>2, <2>3, <2>4, <2>5, <2>6, <2>7, <2>8 DEF Next
<1>2. CASE UNCHANGED vars
  <2> USE DEF IInv
  <2>1. /\ flash' = flash /\ bank' = bank /\ gen' = gen /\ cursor' = cursor /\ index' = index
        /\ up' = up /\ todo' = todo /\ faults' = faults /\ stored' = stored /\ dirty' = dirty
        /\ goal' = goal /\ broken' = broken
    BY <1>2 DEF vars
  <2>2. TypeOK' /\ Fits' /\ HeadsOK' /\ HistoryOK'
    BY <2>1 DEF TypeOK, Fits, HeadsOK, BanksOrdered, HistoryOK
  <2>3. (Mirrors <=> Mirrors') /\ (Headed <=> Headed') /\ (Factory <=> Factory')
        /\ LiveKeys = LiveKeys'
    BY <2>1 DEF Mirrors, Headed, Factory, LiveKeys
  <2>4. AtRest => AtRest' BY <2>1, <2>3 DEF AtRest, Steady
  <2>5. Writing => Writing' BY <2>1, <2>3 DEF Writing, Steady
  <2>6. MakingRoom => MakingRoom' BY <2>1, <2>3 DEF MakingRoom, Steady
  <2>7. ASSUME NEW left, Moved(left) PROVE Moved(left)' BY <2>1, <2>7 DEF Moved
  <2>8. ASSUME Moving PROVE Moving'
    <3>1. PICK w \in Updates, left \in SUBSET Keys :
             /\ todo = <<Copy(left), w>>
             /\ Len(flash[1 - bank].recs) + Cardinality(left) <= Cardinality(Keys)
             /\ ~broken => goal # None /\ Moved(left)
      BY <2>8 DEF Moving
    <3>2. ~broken' => goal' # None /\ Moved(left)' BY <2>1, <2>7, <3>1
    <3> QED BY <2>1, <2>3, <2>8, <3>1, <3>2 DEF Moving
  <2>9. ASSUME NEW v, NEW twice, Reclaiming(v, twice) PROVE Reclaiming(v, twice)'
    BY <2>1, <2>3, <2>9 DEF Reclaiming
  <2>10. ASSUME Wiping PROVE Wiping'
    <3>1. Blind' <=> Blind BY <2>1 DEF Blind
    <3> QED BY <2>1, <2>3, <2>9, <2>10, <3>1 DEF Wiping
  <2>11. Founding => Founding' BY <2>1, <2>3, <2>9 DEF Founding
  <2>12. Restoring => Restoring' BY <2>1, <2>3 DEF Restoring
  <2> QED BY <2>2, <2>4, <2>5, <2>6, <2>8, <2>10, <2>11, <2>12 DEF Phase
<1> QED BY <1>1, <1>2

\* Every step of nvm_store_append.c, cut or whole, leads from one point of a call
\* to another.
THEOREM InductiveInvariant == Spec => []IInv
<1>1. Init => IInv BY InitIInv
<1>2. IInv /\ [Next]_vars => IInv' BY StepIInv
<1> QED BY <1>1, <1>2, PTL DEF Spec

\* Every variable keeps its type: no log outgrows its bank's records, no cursor
\* its bank.
THEOREM TypeCorrect == Spec => []TypeOK
<1>1. IInv => TypeOK BY DEF IInv
<1> QED BY <1>1, InductiveInvariant, PTL

\* The boot never has to choose between two banks of the same generation.
THEOREM BanksAlwaysOrdered == Spec => []BanksOrdered
<1>1. IInv => BanksOrdered BY DEF IInv, HeadsOK
<1> QED BY <1>1, InductiveInvariant, PTL

\* What the store answers between two calls is what a boot would restore.
LEMMA IInvDurable ==
    ASSUME IInv
    PROVE  AckedIsDurable
<1> USE DEF IInv
<1>1. SUFFICES ASSUME up = "ready", goal = None, ~broken PROVE Ram = stored
  BY DEF AckedIsDurable
<1>2. Mirrors
  <2>1. ~Moving BY <1>1 DEF Moving
  <2>2. ~Wiping /\ ~Founding BY <1>1 DEF Wiping, Founding, Reclaiming
  <2> QED BY <1>1, <2>1, <2>2 DEF Phase, AtRest, Writing, MakingRoom, Restoring, Steady
<1> QED BY <1>2, MirrorsRam DEF HistoryOK

\* An acknowledged write survives a power loss that comes right after the call.
THEOREM AcknowledgedIsDurable == Spec => []AckedIsDurable
<1>1. IInv => AckedIsDurable BY IInvDurable
<1> QED BY <1>1, InductiveInvariant, PTL

-----------------------------------------------------------------------------
(* The refinement: every step is a step of the dictionary, or none. *)

Matched == Dictionary!Next \/ UNCHANGED Dictionary!kvVars

\* A store that is broken promises nothing before its next boot.
LEMMA BrokenMatched ==
    ASSUME broken, stored' \in Store
    PROVE  Matched
<1>1. Dictionary!Broken
  BY DEF Dictionary!Broken, Dictionary!Store, Store, Mode
<1> QED BY <1>1 DEF Matched, Dictionary!Next

\* The steps that show nothing of themselves.
LEMMA StutterMatched ==
    ASSUME ~broken, ~broken', stored' = stored, dirty' = dirty, goal' = goal, faults' = faults
    PROVE  Matched
<1>1. UNCHANGED Dictionary!kvVars
  BY DEF Dictionary!kvVars, Mode
<1> QED BY <1>1 DEF Matched

\* The last byte of a record: one key changes, whatever came before it.
LEMMA PutMatched ==
    ASSUME ~broken, ~broken', goal = None, goal' = None, dirty' = dirty, faults' = faults,
           stored' \in Store, NEW k \in DataKeys,
           \A j \in DataKeys \ {k} : stored'[j] = stored[j]
    PROVE  Matched
<1>1. Dictionary!Sound /\ Mode' = Mode
  BY DEF Dictionary!Sound, Mode
<1>2. Dictionary!Put
  BY <1>1 DEF Dictionary!Put, Dictionary!Store, Store
<1> QED BY <1>2 DEF Matched, Dictionary!Next

LEMMA FaultMatched ==
    ASSUME ~broken, ~broken', goal = None, goal' = None, stored' = stored,
           dirty' = dirty \/ dirty' = TRUE, faults' > faults
    PROVE  Matched
<1>1. Dictionary!Sound /\ (Mode' = Mode \/ Mode' = "torn")
  BY DEF Dictionary!Sound, Mode
<1>2. Dictionary!Fault
  BY <1>1 DEF Dictionary!Fault
<1> QED BY <1>2 DEF Matched, Dictionary!Next

\* A boot reclaims to keep everything, an erase-all to keep the security record.
LEMMA ReclaimMatched ==
    ASSUME ~broken, ~broken', goal = None, stored' \in Store, dirty' \in BOOLEAN, faults' = faults,
           goal' \in {stored, [k \in DataKeys |-> IF k = Sec THEN stored[k] ELSE None]}
    PROVE  Matched
<1>1. Dictionary!Sound /\ Mode' \in {"whole", "torn"}
  BY DEF Dictionary!Sound, Mode
<1>2. Dictionary!Reclaim
  BY <1>1 DEF Dictionary!Reclaim, Dictionary!Store, Store
<1> QED BY <1>2 DEF Matched, Dictionary!Next

LEMMA ShuffleMatched ==
    ASSUME ~broken, ~broken', goal # None, goal' = goal, stored' \in Store, dirty' \in BOOLEAN,
           faults' = faults
    PROVE  Matched
<1>1. Mode' \in {"whole", "torn"}
  BY DEF Mode
<1>2. Dictionary!Shuffle
  BY <1>1 DEF Dictionary!Shuffle, Dictionary!Store, Store
<1> QED BY <1>2 DEF Matched, Dictionary!Next

LEMMA ReclaimedMatched ==
    ASSUME ~broken, ~broken', goal # None, goal' = None, stored' = goal, dirty' = FALSE,
           faults' = faults
    PROVE  Matched
<1>1. Mode' = "whole"
  BY DEF Mode
<1>2. Dictionary!Reclaimed
  BY <1>1 DEF Dictionary!Reclaimed
<1> QED BY <1>2 DEF Matched, Dictionary!Next

LEMMA InterruptedMatched ==
    ASSUME ~broken, goal # None, goal' = None, stored' \in Store, faults' > faults
    PROVE  Matched
<1>1. Dictionary!Interrupted
  BY DEF Dictionary!Interrupted, Dictionary!Store, Store
<1> QED BY <1>1 DEF Matched, Dictionary!Next

LEMMA BreakMatched ==
    ASSUME ~broken, broken', goal = None, stored' = stored, dirty \/ faults' > faults
    PROVE  Matched
<1>1. Mode' = "broken" /\ (Mode = "torn" \/ faults' > faults)
  BY DEF Mode
<1>2. Dictionary!Break
  BY <1>1 DEF Dictionary!Break
<1> QED BY <1>2 DEF Matched, Dictionary!Next

-----------------------------------------------------------------------------
(* Each step in turn. *)

\* A call takes the store over from a state of rest.
LEMMA RestMirrors ==
    ASSUME IInv, todo = <<>>
    PROVE  goal = None /\ (up = "ready" /\ ~broken => Ram = stored /\ Mirrors)
<1> USE DEF IInv
<1>1. AtRest
  BY DoingOnly
<1> QED BY <1>1, MirrorsRam DEF AtRest, Steady, HistoryOK

LEMMA MountMatched ==
    ASSUME IInv, IInv', Mount \/ MountMisread
    PROVE  Matched
<1> USE DEF IInv
<1>1. up = "off"
  BY DEF Mount, MountMisread
<1>2. AtRest
  BY <1>1 DEF Phase, Writing, MakingRoom, Moving, Wiping, Reclaiming, Founding, Restoring
<1>3. goal = None /\ ~broken
  BY <1>1, <1>2 DEF AtRest
<1>4. stored \in Store /\ stored' \in Store /\ faults \in Nat
  BY DEF TypeOK
<1>5. CASE Mount
  <2>1. /\ stored' = stored /\ dirty' = dirty /\ faults' = faults /\ ~broken'
        /\ goal' \in {None, stored} /\ dirty \in BOOLEAN
    BY <1>3, <1>5 DEF Mount, rom, TypeOK
  <2>2. CASE goal' = None BY <1>3, <2>1, <2>2, StutterMatched
  <2>3. CASE goal' = stored BY <1>3, <1>4, <2>1, <2>3, ReclaimMatched
  <2> QED BY <2>1, <2>2, <2>3
<1>6. CASE MountMisread
  <2>1. stored' = stored /\ faults' > faults /\ broken' BY <1>4, <1>6 DEF MountMisread, rom
  <2> QED BY <1>3, <2>1, BreakMatched
<1> QED BY <1>5, <1>6

LEMMA EraseAllMatched ==
    ASSUME IInv, IInv', ~broken, EraseAll
    PROVE  Matched
<1> USE DEF IInv
<1>1. goal = None /\ Ram = stored
  BY RestMirrors DEF EraseAll, Idle
<1>2. stored' = stored /\ dirty' = dirty /\ faults' = faults /\ ~broken'
  BY DEF EraseAll, rom
<1>3. stored' \in Store /\ dirty' \in BOOLEAN
  BY DEF TypeOK
<1>4. stored[Sec] = Read(Sec)
  BY <1>1, TypeFacts DEF Ram
<1>5. goal' = [k \in DataKeys |-> IF k = Sec THEN stored[k] ELSE None]
  BY <1>4 DEF EraseAll
<1> QED BY <1>1, <1>2, <1>3, <1>5, ReclaimMatched

\* What a boot finds in a log that RAM mirrors.
LEMMA MirroredStored ==
    ASSUME IInv, Mirrors
    PROVE  /\ stored = [k \in DataKeys |-> FoundIn(flash[bank].recs, cursor, k)]
           /\ dirty <=> cursor < Len(flash[bank].recs)
<1> USE DEF IInv
<1> QED BY BothLogs, TypeFacts, StoredHigher DEF Mirrors, HistoryOK

LEMMA AppendRecordMatched ==
    ASSUME IInv, IInv', ~broken, AppendRecord
    PROVE  Matched
<1> USE DEF IInv
<1> DEFINE cell == [key |-> Head(todo).key, val |-> Head(todo).val]
<1>1. /\ cell \in Cells /\ Appended(cell) /\ cursor < Cap /\ Doing("append") /\ ~broken'
      /\ Len(flash[bank].recs) <= cursor
  BY AppendTask DEF AppendRecord
<1>2. /\ flash' \in Flashes /\ flash'[bank].head = flash[bank].head
      /\ flash'[bank].recs = Placed(flash[bank].recs, cursor + 1, cell)
      /\ flash'[1 - bank] = flash[1 - bank]
  <2> HIDE DEF cell
  <2> QED BY <1>1, AppendedFacts
<1>3. /\ todo' = Tail(todo) /\ bank' = bank /\ gen' = gen /\ cursor' = cursor + 1
      /\ goal' = (IF Tail(todo) = <<>> THEN None ELSE goal) /\ faults' = faults
      /\ stored' = StoredIn(flash') /\ dirty' = DirtyIn(flash')
      /\ stored' \in Store /\ dirty' \in BOOLEAN
  BY <1>1 DEF Appended, Finish, TypeOK, HistoryOK
<1>4. ASSUME Mirrors', Len(flash'[bank].recs) = cursor + 1
      PROVE  /\ stored' = [k \in DataKeys |-> FoundIn(flash'[bank].recs, cursor + 1, k)]
             /\ dirty' = FALSE
  <2> DEFINE c == cursor + 1
  <2>1. /\ flash'[1 - bank].head < flash'[bank].head /\ c = WholePart(flash'[bank].recs)
        /\ FoundIn(flash'[bank].recs, c, Schema) = Current /\ ~(c < Len(flash'[bank].recs))
        /\ bank \in Banks
    BY <1>3, <1>4, BothLogs DEF Mirrors
  <2> HIDE DEF c
  <2>2. /\ StoredIn(flash') = [k \in DataKeys |-> FoundIn(flash'[bank].recs, c, k)]
        /\ DirtyIn(flash') <=> c < Len(flash'[bank].recs)
    BY <1>2, <2>1, StoredHigher
  <2>3. DirtyIn(flash') = FALSE BY <1>3, <2>1, <2>2
  <2> QED BY <1>3, <2>2, <2>3 DEF c
<1>5. CASE Writing
  <2>1. PICK w \in Updates : todo = <<w>> BY <1>5 DEF Writing
  <2>2. Tail(todo) = <<>> /\ Head(todo) = w /\ w.key \in DataKeys BY <2>1, UpdateFacts
  <2>3. goal = None /\ Mirrors BY <1>5 DEF Writing, Steady
  <2>4. /\ Mirrors' /\ Len(flash'[bank].recs) = cursor + 1
        /\ \A k \in Keys \ {w.key} :
              FoundIn(flash'[bank].recs, cursor + 1, k) = FoundIn(flash[bank].recs, cursor, k)
    BY <1>2, <1>5, <2>2, WritingFacts
  <2>5. dirty = FALSE
    <3>1. (dirty <=> cursor < Len(flash[bank].recs)) /\ dirty \in BOOLEAN
      BY <2>3, MirroredStored DEF TypeOK
    <3>2. ~(cursor < Len(flash[bank].recs)) BY <1>1, BothLogs
    <3> QED BY <3>1, <3>2
  <2>6. dirty' = dirty /\ goal' = None BY <1>3, <1>4, <2>2, <2>4, <2>5
  <2>7. ASSUME NEW j \in DataKeys \ {w.key} PROVE stored'[j] = stored[j]
    <3>1. stored'[j] = FoundIn(flash'[bank].recs, cursor + 1, j) BY <1>4, <2>4
    <3>2. stored[j] = FoundIn(flash[bank].recs, cursor, j) BY <2>3, MirroredStored
    <3>3. j \in Keys \ {w.key} BY TypeFacts
    <3> QED BY <2>4, <3>1, <3>2, <3>3
  <2> QED BY <1>1, <1>3, <2>2, <2>3, <2>6, <2>7, PutMatched
<1>6. CASE Founding
  <2>1. /\ Mirrors' /\ Len(flash'[0].recs) = 1 /\ bank = 0 /\ cursor + 1 = 1
        /\ \A k \in DataKeys : FoundIn(flash'[0].recs, 1, k) = None
    <3>1. bank = 0 /\ cursor + 1 = 1 BY <1>6 DEF Founding
    <3>2. /\ Mirrors' /\ Len(flash'[0].recs) = 1
          /\ \A k \in DataKeys : FoundIn(flash'[0].recs, 1, k) = None
      BY <1>2, <1>6, FoundingFacts
    <3> QED BY <3>1, <3>2
  <2>2. stored' = Kept(None) /\ dirty' = FALSE
    <3>1. /\ stored' = [k \in DataKeys |-> FoundIn(flash'[0].recs, 1, k)]
          /\ dirty' = FALSE
      BY <1>4, <2>1
    <3> QED BY <2>1, <3>1, NothingKept
  <2>3. PICK v \in Payloads \cup {None} : Reclaiming(v, FALSE) /\ todo = Founded(v)
    BY <1>6 DEF Founding
  <2>4. todo' = Rewrite(v) BY <1>3, <2>3, FoundedFacts
  <2>5. goal \in {None, Kept(v)} /\ (v # None => goal # None)
    BY <2>3 DEF Reclaiming
  <2>6. stored = Kept(None) /\ dirty = FALSE
    <3>1. flash[0].recs = <<>> /\ flash[1].recs = <<>> /\ flash \in Flashes
      BY <1>6, TypeFacts DEF Founding, Factory, Bare
    <3> QED BY <3>1, StoredNothing DEF HistoryOK
  <2>7. CASE v # None
    <3>1. goal' = goal BY <1>3, <2>4, <2>7, FoundedFacts
    <3> QED BY <1>1, <1>3, <2>5, <2>7, <3>1, ShuffleMatched
  <2>8. CASE v = None
    <3>1. goal' = None BY <1>3, <2>4, <2>8, FoundedFacts
    <3>2. CASE goal = None BY <1>1, <1>3, <2>2, <2>6, <3>1, <3>2, StutterMatched
    <3>3. CASE goal # None BY <1>1, <1>3, <2>2, <2>5, <2>8, <3>1, <3>3, ReclaimedMatched
    <3> QED BY <3>2, <3>3
  <2> QED BY <2>7, <2>8
<1>7. CASE Restoring
  <2>1. /\ Mirrors' /\ Len(flash'[bank].recs) = cursor + 1 /\ Tail(todo) = <<>>
        /\ \A k \in DataKeys : FoundIn(flash'[bank].recs, cursor + 1, k) = goal[k]
    BY <1>2, <1>7, RestoringFacts
  <2>2. PICK v \in Payloads : goal = Kept(v) BY <1>7 DEF Restoring
  <2>3. goal # None /\ goal = [k \in DataKeys |-> goal[k]]
    <3>1. Kept(v) \in Store BY DEF Kept, Store
    <3>2. Kept(v) # None BY <3>1, TypeFacts
    <3> QED BY <2>2, <3>2 DEF Kept
  <2>4. stored' = goal /\ dirty' = FALSE /\ goal' = None BY <1>3, <1>4, <2>1, <2>3
  <2> QED BY <1>1, <1>3, <2>3, <2>4, ReclaimedMatched
<1> QED BY <1>1, <1>5, <1>6, <1>7, DoingOnly

\* A record programmed over cells that hold the rest of a torn one.
LEMMA AppendOverDirtMatched ==
    ASSUME IInv, IInv', ~broken, AppendOverDirt
    PROVE  Matched
<1> USE DEF IInv
<1>1. /\ Doing("append") /\ cursor < Len(flash[bank].recs) /\ Appended(Torn) /\ broken'
      /\ Torn \in Cells /\ Len(flash[bank].recs) <= Cap /\ Len(flash[bank].recs) \in Nat
      /\ cursor \in Nat /\ Cap \in Nat /\ bank \in Banks
  BY BothLogs DEF AppendOverDirt, Torn, Cells, Payloads, Fits
<1>2. cursor < Cap
  BY <1>1
<1>3. /\ flash' \in Flashes /\ flash'[bank].head = flash[bank].head
      /\ flash'[bank].recs = Placed(flash[bank].recs, cursor + 1, Torn)
      /\ flash'[1 - bank] = flash[1 - bank]
  BY <1>1, <1>2, AppendedFacts
<1>4. Writing
  <2>1. ~Founding
    <3>1. ASSUME Founding PROVE FALSE
      <4>1. flash[bank].recs = <<>> /\ cursor = 0 BY <3>1 DEF Founding, Factory, Bare
      <4> QED BY <1>1, <4>1
    <3> QED BY <3>1
  <2>2. ~Restoring
    <3>1. ASSUME Restoring PROVE FALSE
      <4>1. Len(flash[bank].recs) = 1 /\ cursor = 1 BY <3>1 DEF Restoring
      <4> QED BY <1>1, <4>1
    <3> QED BY <3>1
  <2> QED BY <1>1, <2>1, <2>2, DoingOnly
<1>5. goal = None /\ Mirrors
  BY <1>4 DEF Writing, Steady
<1>6. /\ stored = [k \in DataKeys |-> FoundIn(flash[bank].recs, cursor, k)]
      /\ dirty
  BY <1>1, <1>5, MirroredStored
<1>7. /\ cursor = WholePart(flash'[bank].recs)
      /\ \A k \in Keys : FoundIn(flash'[bank].recs, cursor, k) = FoundIn(flash[bank].recs, cursor, k)
  BY <1>3, <1>5, MirrorsDamaged
<1>8. FoundIn(flash'[bank].recs, cursor, Schema) = Current
  BY <1>5, <1>7, PayloadFacts DEF Mirrors
<1>9. flash'[1 - bank].head < flash'[bank].head
  BY <1>3, <1>5 DEF Mirrors
<1>10. StoredIn(flash') = [k \in DataKeys |-> FoundIn(flash'[bank].recs, cursor, k)]
  BY <1>1, <1>3, <1>7, <1>8, <1>9, StoredHigher
<1>11. stored' = stored
  BY <1>6, <1>7, <1>10, TypeFacts DEF HistoryOK
<1> QED BY <1>1, <1>5, <1>6, <1>11, BreakMatched

\* The wipe of a store that holds nothing leaves nothing to find.
LEMMA BlindWipe ==
    ASSUME IInv, Wiping, Blind
    PROVE  /\ stored = Kept(None) /\ dirty = FALSE
           /\ flash[0].recs = <<>> /\ flash[1].recs = <<>>
<1> USE DEF IInv
<1>1. flash[0].recs = <<>> /\ flash[1].recs = <<>> /\ flash \in Flashes
  BY TypeFacts DEF Wiping, Factory, Bare
<1> QED BY <1>1, StoredNothing DEF HistoryOK

LEMMA WipeMatched ==
    ASSUME IInv, IInv', ~broken, ~broken', Wiping, NEW b \in Banks, flash'[1 - b] = flash[1 - b],
           flash'[b].recs \in {<<>>, flash[b].recs}, goal' = goal, faults' = faults
    PROVE  Matched
<1> USE DEF IInv
<1>1. stored' \in Store /\ dirty' \in BOOLEAN /\ flash' \in Flashes
  BY DEF TypeOK, Flashes
<1>2. CASE goal # None
  BY <1>1, <1>2, ShuffleMatched
<1>3. CASE goal = None
  <2>1. /\ stored = Kept(None) /\ dirty = FALSE /\ flash[0].recs = <<>> /\ flash[1].recs = <<>>
    BY <1>3, BlindWipe DEF Blind
  <2>2. flash'[0].recs = <<>> /\ flash'[1].recs = <<>> BY <2>1 DEF Banks
  <2>3. stored' = Kept(None) /\ dirty' = FALSE BY <1>1, <2>2, StoredNothing DEF HistoryOK
  <2> QED BY <2>1, <2>3, StutterMatched
<1> QED BY <1>2, <1>3

\* The bank of the live records is chosen, whatever is under way in the other one.
LEMMA OtherBank ==
    ASSUME IInv, IInv', Mirrors, flash'[bank] = flash[bank], flash'[1 - bank].head < gen
    PROVE  stored' = stored /\ dirty' = dirty
<1> USE DEF IInv
<1>1. /\ bank \in Banks /\ flash' \in Flashes /\ cursor = WholePart(flash'[bank].recs)
      /\ FoundIn(flash'[bank].recs, cursor, Schema) = Current
      /\ flash'[1 - bank].head < flash'[bank].head
      /\ dirty \in BOOLEAN /\ dirty' \in BOOLEAN
  BY BothLogs DEF Mirrors, TypeOK, Flashes
<1>2. /\ StoredIn(flash') = [k \in DataKeys |-> FoundIn(flash'[bank].recs, cursor, k)]
      /\ DirtyIn(flash') <=> cursor < Len(flash'[bank].recs)
  BY <1>1, StoredHigher
<1>3. /\ stored = [k \in DataKeys |-> FoundIn(flash[bank].recs, cursor, k)]
      /\ dirty <=> cursor < Len(flash[bank].recs)
  BY MirroredStored
<1>4. dirty' = dirty
  BY <1>1, <1>2, <1>3 DEF HistoryOK
<1> QED BY <1>2, <1>3, <1>4 DEF HistoryOK

LEMMA MakingRoomAt ==
    ASSUME TypeOK, MakingRoom
    PROVE  /\ Doing("erase") => Head(todo).bank = 1 - bank
           /\ Doing("head") => Head(todo).bank = 1 - bank /\ Compacting
<1>1. /\ 1 - bank \in Banks /\ gen + 1 \in Nat /\ LiveKeys \in SUBSET Keys
  BY TypeFacts DEF Banks, LiveKeys
<1>2. /\ Erase(1 - bank).do = "erase" /\ Erase(1 - bank).bank = 1 - bank
      /\ Header(1 - bank, gen + 1).do = "head" /\ Header(1 - bank, gen + 1).bank = 1 - bank
      /\ Copy(LiveKeys).do = "copy"
  BY <1>1, TaskFacts
<1>3. PICK w \in Updates :
         \/ todo = <<Erase(1 - bank), Header(1 - bank, gen + 1), Copy(LiveKeys), w>>
         \/ todo = <<Header(1 - bank, gen + 1), Copy(LiveKeys), w>>
  BY DEF MakingRoom
<1>4. CASE todo = <<Erase(1 - bank), Header(1 - bank, gen + 1), Copy(LiveKeys), w>>
  BY <1>2, <1>4 DEF Doing
<1>5. CASE todo = <<Header(1 - bank, gen + 1), Copy(LiveKeys), w>>
  <2>1. Head(todo) = Header(1 - bank, gen + 1) /\ 2 \in DOMAIN todo /\ todo[2] = Copy(LiveKeys)
    BY <1>5
  <2> QED BY <1>2, <2>1 DEF Doing, Compacting
<1> QED BY <1>3, <1>4, <1>5

LEMMA EraseBankMatched ==
    ASSUME IInv, IInv', ~broken, EraseBank
    PROVE  Matched
<1> USE DEF IInv
<1> DEFINE b == Head(todo).bank
<1>1. Doing("erase") /\ UNCHANGED <<bank, faults, goal>> /\ ~broken' /\ flash' = Formatted(b, NoHead)
  BY DEF EraseBank, SetFlash, ram
<1>2. CASE MakingRoom
  <2>1. b = 1 - bank /\ 1 - bank \in Banks /\ 1 - (1 - bank) = bank
    BY <1>1, <1>2, MakingRoomAt, BothLogs
  <2>2. Mirrors /\ gen \in Nat BY <1>2, TypeFacts DEF MakingRoom, Steady
  <2>3. flash'[bank] = flash[bank] /\ flash'[1 - bank] = Bare(NoHead) BY <1>1, <2>1, BankSet
  <2>4. flash'[1 - bank].head < gen
    <3>1. gen >= 1 BY <1>2 DEF MakingRoom, Steady, Headed
    <3> QED BY <2>2, <2>3, <3>1 DEF Bare, NoHead
  <2>5. stored' = stored /\ dirty' = dirty BY <2>2, <2>3, <2>4, OtherBank
  <2> QED BY <1>1, <2>5, StutterMatched
<1>3. CASE Wiping
  <2>1. b \in Banks
    <3>1. PICK v \in Payloads \cup {None}, twice \in BOOLEAN : Head(todo) \in {Erase(0), Erase(1)}
      BY <1>1, <1>3, WipingAt DEF Doing
    <3> QED BY <3>1, TaskFacts DEF Banks
  <2> HIDE DEF b
  <2>2. flash'[b] = Bare(NoHead) /\ flash'[1 - b] = flash[1 - b] BY <1>1, <2>1, BankSet
  <2>3. flash'[b].recs \in {<<>>, flash[b].recs} BY <2>2 DEF Bare
  <2> QED BY <1>1, <1>3, <2>1, <2>2, <2>3, WipeMatched
<1> QED BY <1>1, <1>2, <1>3, DoingOnly

LEMMA WriteBankHeaderMatched ==
    ASSUME IInv, IInv', ~broken, WriteBankHeader
    PROVE  Matched
<1> USE DEF IInv
<1> DEFINE b == Head(todo).bank  g == Head(todo).gen
<1>1. /\ Doing("head") /\ faults' = faults /\ ~broken' /\ flash' = [flash EXCEPT ![b].head = g]
      /\ goal' = (IF Compacting /\ goal = None THEN Ram ELSE goal)
      /\ stored' \in Store /\ dirty' \in BOOLEAN
  BY DEF WriteBankHeader, SetFlash, TypeOK
<1>2. CASE MakingRoom
  <2>1. Compacting /\ goal = None /\ Mirrors
    BY <1>1, <1>2, MakingRoomAt DEF MakingRoom, Steady
  <2>2. goal' = stored BY <1>1, <2>1, MirrorsRam DEF HistoryOK
  <2> QED BY <1>1, <2>1, <2>2, ReclaimMatched
<1>3. CASE Wiping
  <2>1. Head(todo) \in {Header(1, 0), Header(0, 1)} /\ ~Compacting
    BY <1>1, <1>3, WipingAt DEF Doing
  <2>2. b \in Banks /\ g \in Nat BY <2>1, TaskFacts DEF Banks
  <2> HIDE DEF b, g
  <2>3. flash'[b].recs = flash[b].recs /\ flash'[1 - b] = flash[1 - b] BY <1>1, <2>2, HeadSet
  <2>4. goal' = goal BY <1>1, <2>1
  <2> QED BY <1>1, <1>3, <2>2, <2>3, <2>4, WipeMatched
<1> QED BY <1>1, <1>2, <1>3, DoingOnly

LEMMA MovingMatched ==
    ASSUME IInv, IInv', ~broken, CopyRecord \/ SwitchBank
    PROVE  Matched
<1> USE DEF IInv
<1>1. Moving /\ stored' \in Store /\ dirty' \in BOOLEAN /\ faults' = faults /\ ~broken'
  BY DoingOnly DEF CopyRecord, SwitchBank, TypeOK
<1>2. PICK left \in SUBSET Keys : Head(todo).left = left /\ goal # None /\ Moved(left)
  BY <1>1, MovingAt
<1>3. CASE CopyRecord
  <2>1. goal' = goal BY <1>3 DEF CopyRecord
  <2> QED BY <1>1, <1>2, <2>1, ShuffleMatched
<1>4. CASE SwitchBank
  <2>1. left = {} BY <1>2, <1>4 DEF SwitchBank
  <2>2. /\ Mirrors' /\ Len(flash'[bank'].recs) = cursor'
        /\ \A k \in DataKeys : FoundIn(flash'[bank'].recs, cursor', k) = goal[k]
    BY <1>1, <1>2, <1>4, <2>1, SwitchMirrors
  <2>3. /\ bank' \in Banks /\ cursor' \in Nat /\ flash' \in Flashes
        /\ flash'[1 - bank'].head < flash'[bank'].head
        /\ cursor' = WholePart(flash'[bank'].recs)
        /\ FoundIn(flash'[bank'].recs, cursor', Schema) = Current
    BY <2>2, CapAssumption DEF Mirrors, TypeOK, Flashes
  <2>4. /\ StoredIn(flash') = [k \in DataKeys |-> FoundIn(flash'[bank'].recs, cursor', k)]
        /\ DirtyIn(flash') <=> cursor' < Len(flash'[bank'].recs)
    BY <2>3, StoredHigher
  <2>5. goal = [k \in DataKeys |-> goal[k]] BY <1>2 DEF TypeOK, Store
  <2>6. stored' = goal BY <2>2, <2>4, <2>5 DEF HistoryOK
  <2>7. dirty' = FALSE BY <1>1, <2>2, <2>3, <2>4 DEF HistoryOK
  <2>8. goal' = None BY <1>4 DEF SwitchBank
  <2> QED BY <1>1, <1>2, <2>6, <2>7, <2>8, ReclaimedMatched
<1> QED BY <1>3, <1>4

\* A primitive that is cut outside of a reclamation changes nothing a boot would find.
LEMMA CutKeeps ==
    ASSUME IInv, IInv', Cut, ~broken, goal = None
    PROVE  stored' = stored /\ (dirty' = dirty \/ dirty' = TRUE) /\ ~Doing("copy")
<1> USE DEF IInv
<1>1. ~Moving /\ ~Restoring
  <2>1. ~Moving BY DEF Moving
  <2>2. ASSUME NEW v \in Payloads PROVE Kept(v) # None
    <3>1. Kept(v) \in Store BY <2>2 DEF Kept, Store
    <3> QED BY <3>1, TypeFacts
  <2> QED BY <2>1, <2>2 DEF Restoring
<1>2. ~Doing("copy")
  BY <1>1, DoingOnly
<1>3. /\ flash' \in Flashes /\ dirty' \in BOOLEAN
      /\ stored' = StoredIn(flash') /\ dirty' = DirtyIn(flash')
  BY CutFacts DEF HistoryOK
<1>4. CASE UNCHANGED rom
  BY <1>2, <1>4 DEF rom
<1>5. CASE ~UNCHANGED rom
  <2>1. \/ /\ Doing("append")
           /\ SetFlash([flash EXCEPT ![bank].recs = Placed(@, cursor + 1, Torn)])
        \/ Doing("erase") /\ SetFlash(Formatted(Head(todo).bank, NoHead))
    BY <1>2, <1>5 DEF Cut, Copying
  <2>2. Writing \/ MakingRoom \/ Wiping \/ Founding
    BY <1>1, <2>1, DoingOnly
  <2>3. CASE Writing \/ MakingRoom
    <3>1. Mirrors BY <2>3 DEF Writing, MakingRoom, Steady
    <3>2. stored' = stored /\ dirty' \in {dirty, TRUE} BY <2>3, <3>1, CutMirrored
    <3>3. dirty' = dirty \/ dirty' = TRUE BY <3>2, Zenon
    <3> QED BY <1>2, <3>2, <3>3, Zenon
  <2>4. CASE Wiping
    <3>1. /\ stored = Kept(None) /\ dirty = FALSE
          /\ flash[0].recs = <<>> /\ flash[1].recs = <<>>
      BY <2>4, BlindWipe DEF Blind
    <3>2. PICK b \in Banks : flash' = Formatted(b, NoHead)
      <4>1. ~Doing("append") BY <2>4, PhaseHeads DEF Doing
      <4>2. Doing("erase") /\ flash' = Formatted(Head(todo).bank, NoHead)
        BY <2>1, <4>1 DEF SetFlash
      <4>3. Head(todo) \in {Erase(0), Erase(1)} BY <2>4, <4>2, WipingAt DEF Doing
      <4>4. Head(todo).bank \in Banks BY <4>3, TaskFacts DEF Banks
      <4> QED BY <4>2, <4>4
    <3>3. flash'[b] = Bare(NoHead) /\ flash'[1 - b] = flash[1 - b] BY <3>2, BankSet
    <3>4. flash'[0].recs = <<>> /\ flash'[1].recs = <<>> BY <3>1, <3>3 DEF Banks, Bare
    <3>5. stored' = Kept(None) /\ dirty' = FALSE BY <1>3, <3>4, StoredNothing
    <3> QED BY <1>2, <3>1, <3>5
  <2>5. CASE Founding
    <3>1. bank = 0 /\ cursor + 1 = 1 /\ flash[0] = Bare(1) /\ flash[1] = Bare(0)
      BY <2>5 DEF Founding, Factory
    <3>2. flash[0].recs = <<>> /\ flash[1].recs = <<>> /\ flash \in Flashes /\ flash[0].head = 1
          /\ flash[1].head = 0
      BY <3>1, TypeFacts DEF Bare
    <3>3. stored = Kept(None) /\ dirty = FALSE BY <3>2, StoredNothing DEF HistoryOK
    <3>4. Doing("append") BY <2>5, PhaseHeads
    <3>5. flash' = [flash EXCEPT ![0].recs = Placed(flash[0].recs, 1, Torn)]
      BY <2>1, <3>1, <3>4 DEF SetFlash, Doing
    <3> DEFINE p == Placed(flash[0].recs, 1, Torn)
    <3>6. p \in Seq(Cells) /\ WholePart(p) = 0 /\ FoundIn(p, 0, Schema) = None
      <4> DEFINE recs == flash[0].recs  n == 0  q == Placed(recs, n + 1, Torn)
      <4>1. recs \in Seq(Cells) /\ WholePart(recs) = n /\ FoundIn(recs, n, Schema) = None
            /\ Schema \in Keys /\ q = p
        BY <3>2, EmptyLog, PayloadFacts
      <4> HIDE DEF recs, n, q
      <4>2. /\ q \in Seq(Cells) /\ WholePart(q) = n
            /\ \A k \in Keys : FoundIn(q, n, k) = FoundIn(recs, n, k)
        BY <4>1, Damaged DEF q
      <4> QED BY <4>1, <4>2 DEF n
    <3> HIDE DEF p
    <3>7. flash'[0].recs = p /\ flash'[0].head = 1 /\ flash'[1].head = 0
      <4>1. 0 \in Banks /\ 1 - 0 = 1 BY DEF Banks
      <4> QED BY <3>2, <3>5, <3>6, <4>1, RecsSet DEF p
    <3>8. Chosen(Heads(flash')) = 0
      BY <1>3, <3>7, ChosenFacts DEF Banks
    <3>9. StoredIn(flash') = Kept(None)
      BY <1>3, <3>6, <3>7, <3>8, PayloadFacts, StoredFacts
    <3> QED BY <1>2, <1>3, <3>3, <3>9
  <2> QED BY <2>2, <2>3, <2>4, <2>5, Zenon
<1> QED BY <1>4, <1>5, Zenon

LEMMA CutMatched ==
    ASSUME IInv, IInv', ~broken, Cut, faults' > faults, goal' = None,
           broken' => goal # None \/ Doing("copy")
    PROVE  Matched
<1>1. stored' \in Store
  BY DEF IInv, TypeOK
<1>2. CASE goal # None
  BY <1>1, <1>2, InterruptedMatched
<1>3. CASE goal = None
  <2>1. stored' = stored /\ (dirty' = dirty \/ dirty' = TRUE) /\ ~broken' BY <1>3, CutKeeps
  <2> QED BY <1>3, <2>1, FaultMatched
<1> QED BY <1>2, <1>3

LEMMA FaultyMatched ==
    ASSUME IInv, IInv', ~broken, StepFails \/ PowerLoss
    PROVE  Matched
<1>1. faults \in Nat
  BY DEF IInv, TypeOK
<1>2. CASE StepFails
  <2>1. /\ Cut /\ faults' = faults + 1 /\ goal' = None
        /\ broken' => goal # None \/ Doing("copy")
    BY <1>2 DEF StepFails
  <2> QED BY <1>1, <2>1, CutMatched
<1>3. CASE PowerLoss
  <2>1. CASE todo = <<>>
    <3>1. goal = None BY <2>1, RestMirrors
    <3>2. /\ stored' = stored /\ dirty' = dirty /\ faults' = faults /\ goal' = None /\ ~broken'
      BY <1>3, <2>1 DEF PowerLoss, rom
    <3> QED BY <3>1, <3>2, StutterMatched
  <2>2. CASE todo # <<>>
    <3>1. Cut /\ faults' = faults + 1 /\ goal' = None /\ ~broken' BY <1>3, <2>2 DEF PowerLoss
    <3> QED BY <1>1, <3>1, CutMatched
  <2> QED BY <2>1, <2>2
<1> QED BY <1>2, <1>3

-----------------------------------------------------------------------------
LEMMA InitMatched ==
    ASSUME Init
    PROVE  Dictionary!Init
  BY DEF Init, Dictionary!Init, Dictionary!Empty, Mode

LEMMA StepMatched ==
    ASSUME IInv, IInv', [Next]_vars
    PROVE  Matched
<1>1. stored' \in Store
  BY DEF IInv, TypeOK
<1>2. CASE broken
  BY <1>1, <1>2, BrokenMatched
<1>3. CASE ~broken
  <2>1. ASSUME (\E w \in Writes : Write(w[1], w[2])) \/ (\E k \in DataKeys : Delete(k))
                  \/ AppendFull \/ Wiped \/ UNCHANGED vars
        PROVE  Matched
    <3>1. stored' = stored /\ dirty' = dirty /\ goal' = goal /\ faults' = faults /\ ~broken'
      BY <1>3, <2>1 DEF Write, Delete, AppendFull, Wiped, vars, rom
    <3> QED BY <1>3, <3>1, StutterMatched
  <2>2. CASE Mount \/ MountMisread BY <2>2, MountMatched
  <2>3. CASE EraseAll BY <1>3, <2>3, EraseAllMatched
  <2>4. CASE AppendRecord \/ AppendOverDirt
    BY <1>3, <2>4, AppendRecordMatched, AppendOverDirtMatched
  <2>5. CASE EraseBank \/ WriteBankHeader
    BY <1>3, <2>5, EraseBankMatched, WriteBankHeaderMatched
  <2>6. CASE CopyRecord \/ SwitchBank BY <1>3, <2>6, MovingMatched
  <2>7. CASE StepFails \/ PowerLoss BY <1>3, <2>7, FaultyMatched
  <2> QED BY <2>1, <2>2, <2>3, <2>4, <2>5, <2>6, <2>7 DEF Next
<1> QED BY <1>2, <1>3

\* The store is a dictionary: a write or a delete is one change of one key or
\* none at all, whatever is compacted, cut or lost on the way to it.
THEOREM StoreIsDictionary == Spec => Atomic
<1>1. Init => Dictionary!Init BY InitMatched
<1>2. IInv /\ IInv' /\ [Next]_vars => [Dictionary!Next]_(Dictionary!kvVars)
  BY StepMatched DEF Matched
<1> QED BY <1>1, <1>2, InductiveInvariant, PTL DEF Spec, Atomic, Dictionary!Spec

=============================================================================
