----------------------------- MODULE DtcProofs -----------------------------
(***************************************************************************)
(* What a clear promises and what a flush keeps, proved for every table of *)
(* DTCs, every set of status bits and every capacity of the mirror.        *)
(***************************************************************************)
EXTENDS Dtc, TLAPS

\* A DTC that is gone from the RAM and from the images made of it.
GoneFromRam(d) ==
    /\ status[d] = {} /\ task.image[d] = {}
    /\ \A w \in Which : record[w] # d /\ task.copy[w] # d

GoneFromNvm(d) ==
    /\ mirror # None /\ d \in Saved => mirror[d] = {}
    /\ records # None => \A w \in Which : records[w] # d

\* While a clear is being written, what it was asked to clear stays gone.
ClearInv ==
    /\ task.at \in {"idle", "saved", "reset"} => asked = {}
    /\ \A d \in cleared : GoneFromRam(d) /\ GoneFromNvm(d)
    /\ task.at \in {"serialise", "records"} => \A d \in asked : GoneFromRam(d)
    /\ task.at = "records" => mirror # None /\ \A d \in asked \cap Saved : mirror[d] = {}

\* A fault that the mirror has and the table or the image has not is excused.
MirrorInv ==
    /\ task.at = "clear" => task.what \in Dtcs /\ task.what \in excused
    /\ mirror # None => \A d \in Saved : mirror[d] # {} /\ status[d] = {} => d \in excused
    /\ task.at = "serialise" =>
         /\ \A d \in Dtcs : task.image[d] # {} /\ status[d] = {} => d \in excused
         /\ mirror # None =>
              \A i \in 1..Entries : i < task.next /\ mirror[Table[i]] # {}
                                    /\ task.image[Table[i]] = {} => Table[i] \in excused

\* While no monitor reports, the images, and then the NVM, agree with the table.
QuietInv ==
    quiet =>
        /\ task.at = "serialise" =>
             \A i \in 1..Entries : i < task.next => task.image[Table[i]] = status[Table[i]]
        /\ task.at \in {"records", "saved"} =>
             mirror # None /\ \A d \in Saved : mirror[d] = status[d]
        /\ task.at = "records" =>
             \A i \in DOMAIN RecordOrder :
                i < task.next => task.copy[RecordOrder[i]] = record[RecordOrder[i]]
        /\ task.at = "saved" => records = record

IInv == TypeOK /\ ClearInv /\ MirrorInv /\ QuietInv

Tasks ==
    [at : {"idle", "clear", "serialise", "records", "saved", "reset"},
     what : Dtcs \cup {"clear", "reset", None}, next : Nat \ {0},
     image : Statuses, copy : Records]

\* The entries of the mirror are the DTCs it saves.
LEMMA SavedEntries ==
    /\ Entries \in Nat /\ Saved \subseteq Dtcs
    /\ \A i \in 1..Entries : Table[i] \in Saved
    /\ \A d \in Saved : \E i \in 1..Entries : d = Table[i]
<1> DEFINE n == Len(Table)
           indices == DOMAIN Table
<1>1. n \in Nat /\ indices = 1..n /\ PersistMax \in Nat
  <2>1. PICK S : Table \in Seq(S) BY TableAssumption
  <2> QED BY <2>1, PersistMaxAssumption
<1>2. Entries = IF n <= PersistMax THEN n ELSE PersistMax
  BY DEF Entries
<1> HIDE DEF n, indices
<1>3. Entries \in Nat /\ \A i \in 1..Entries : i \in indices /\ i <= PersistMax
  BY <1>1, <1>2
<1>4. \A j \in indices : j <= PersistMax => j \in 1..Entries
  BY <1>1, <1>2
<1> USE DEF indices
<1> QED BY <1>3, <1>4, Zenon DEF Saved, Dtcs

\* The initial values.
LEMMA Blank ==
    /\ Clean \in Statuses /\ NoRecord \in Records /\ Idle \in Tasks
    /\ Idle.at = "idle" /\ Idle.image = Clean /\ Idle.copy = NoRecord
    /\ Idle.next = 1 /\ None \notin Dtcs
BY NoneAssumption DEF Clean, NoRecord, Idle, Statuses, Records, Tasks

\* The initial state.
LEMMA InitOK == Init => IInv
<1> SUFFICES ASSUME Init PROVE IInv
  OBVIOUS
<1>1. TypeOK BY Blank DEF Init, TypeOK, Tasks
<1>2. ClearInv BY Blank DEF Init, ClearInv
<1>3. MirrorInv BY Blank DEF Init, MirrorInv
<1>4. QuietInv BY DEF Init, QuietInv
<1> QED BY <1>1, <1>2, <1>3, <1>4 DEF IInv

\* A status is reported.
LEMMA SetStatusOK ==
    ASSUME IInv, NEW d \in Dtcs, NEW bits \in SUBSET Bits, SetStatus(d, bits)
    PROVE IInv'
<1> USE DEF IInv
<1>1. /\ status' = [status EXCEPT ![d] = bits] /\ record' = Noted(d, bits)
      /\ UNCHANGED <<permanent, setting, mirror, records, task>> /\ ~quiet'
      /\ status \in Statuses /\ record \in Records
  BY DEF SetStatus, nvm, TypeOK
<1>2. status' \in Statuses /\ record' \in Records
  BY <1>1 DEF Noted, Statuses, Records, Which
<1>3. TypeOK' BY <1>1, <1>2 DEF SetStatus, TypeOK
<1>4. ASSUME NEW e \in Dtcs, GoneFromRam(e), e # d \/ bits \subseteq status[d]
      PROVE GoneFromRam(e)'
  <2>1. status'[e] = {} BY <1>1, <1>4 DEF GoneFromRam, Statuses
  <2>2. ASSUME NEW w \in Which PROVE record'[w] # e
    BY <1>1, <1>4 DEF Noted, GoneFromRam
  <2> QED BY <1>1, <1>4, <2>1, <2>2 DEF GoneFromRam
<1>5. ClearInv'
  <2>1. /\ asked' \subseteq asked /\ (bits \subseteq status[d] \/ d \notin asked')
        /\ cleared' \subseteq cleared /\ (bits \subseteq status[d] \/ d \notin cleared')
    BY DEF SetStatus
  <2>2. asked \subseteq Dtcs /\ cleared \subseteq Dtcs BY DEF TypeOK
  <2>3. \A e \in cleared' : GoneFromRam(e)' /\ GoneFromNvm(e)'
    BY <1>1, <1>4, <2>1, <2>2 DEF ClearInv, GoneFromNvm
  <2>4. task'.at \in {"serialise", "records"} => \A e \in asked' : GoneFromRam(e)'
    BY <1>1, <1>4, <2>1, <2>2 DEF ClearInv
  <2> QED BY <1>1, <2>1, <2>3, <2>4 DEF ClearInv
<1>6. MirrorInv'
  <2>1. excused \subseteq excused' /\ (bits = {} => d \in excused')
    BY DEF SetStatus
  <2>2. \A e \in Dtcs : status'[e] = {} => status[e] = {} \/ e \in excused'
    BY <1>1, <2>1 DEF Statuses
  <2> QED BY <1>1, <2>1, <2>2, SavedEntries DEF MirrorInv
<1>7. QuietInv' BY <1>1 DEF QuietInv
<1> QED BY <1>3, <1>5, <1>6, <1>7

\* A clear of all DTCs.
LEMMA ClearAllOK ==
    ASSUME IInv, ClearAll
    PROVE IInv'
<1> USE DEF IInv
<1>1. /\ status' = [d \in Dtcs |-> IF d \in ClearedByAll THEN {} ELSE status[d]]
      /\ record' = NoRecord /\ task' = [Idle EXCEPT !.at = "serialise", !.what = "clear"]
      /\ asked' = Dtcs \ permanent /\ excused' = excused \cup (Dtcs \ permanent)
      /\ UNCHANGED <<permanent, setting, mirror, records, cleared>> /\ quiet'
      /\ status \in Statuses /\ cleared \subseteq Dtcs /\ quiet' \in BOOLEAN
  BY DEF ClearAll, Begin, nvm, TypeOK
<1>2. /\ task' \in Tasks /\ task'.at = "serialise" /\ task'.image = Clean
      /\ task'.copy = NoRecord /\ task'.next = 1
  BY <1>1, Blank DEF Tasks
<1>3. status' \in Statuses
      /\ \A d \in Dtcs : status'[d] = IF d \in permanent THEN status[d] ELSE {}
  BY <1>1 DEF ClearedByAll, Statuses
<1>4. TypeOK' BY <1>1, <1>2, <1>3, Blank DEF TypeOK, Tasks
<1>5. ASSUME NEW d \in Dtcs, d \in cleared \/ d \in asked' PROVE GoneFromRam(d)'
  <2>1. status'[d] = {} BY <1>1, <1>3, <1>5 DEF ClearInv, GoneFromRam
  <2>2. Clean[d] = {} BY DEF Clean
  <2>3. \A w \in Which : NoRecord[w] # d BY Blank DEF NoRecord
  <2> QED BY <1>1, <1>2, <2>1, <2>2, <2>3 DEF GoneFromRam
<1>6. ClearInv' BY <1>1, <1>2, <1>5 DEF ClearInv, GoneFromNvm
<1>7. MirrorInv'
  <2>1. \A d \in Dtcs : task'.image[d] = {} BY <1>2 DEF Clean
  <2>2. \A d \in Saved : status'[d] = {} => status[d] = {} \/ d \in excused'
    BY <1>1, <1>3, SavedEntries
  <2>3. \A i \in 1..Entries : ~(i < task'.next) BY <1>2
  <2> QED BY <1>1, <1>2, <2>1, <2>2, <2>3 DEF MirrorInv
<1>8. QuietInv'
  <2>1. \A i \in 1..Entries : ~(i < task'.next) BY <1>2
  <2> QED BY <1>2, <2>1 DEF QuietInv
<1> QED BY <1>4, <1>6, <1>7, <1>8

\* One DTC is asked to be cleared, or what the table is about is left alone.
LEMMA AskOK ==
    ASSUME IInv, (\E d \in Dtcs : SetPermanent(d) \/ ClearOneAsked(d)) \/ SetSetting
    PROVE IInv'
<1> USE DEF IInv
<1>1. ASSUME NEW d \in Dtcs, SetPermanent(d) PROVE IInv'
  <2>1. permanent' \subseteq Dtcs BY <1>1 DEF SetPermanent, TypeOK
  <2>2. UNCHANGED <<status, record, setting, mirror, records, task, asked, cleared,
                    excused, quiet>>
    BY <1>1 DEF SetPermanent, nvm, history
  <2> QED BY <2>1, <2>2 DEF TypeOK, ClearInv, GoneFromRam, GoneFromNvm, MirrorInv, QuietInv
<1>2. CASE SetSetting
  <2>1. setting' \in BOOLEAN BY <1>2 DEF SetSetting
  <2>2. UNCHANGED <<status, record, permanent, mirror, records, task, asked, cleared,
                    excused, quiet>>
    BY <1>2 DEF SetSetting, nvm, history
  <2> QED BY <2>1, <2>2 DEF TypeOK, ClearInv, GoneFromRam, GoneFromNvm, MirrorInv, QuietInv
<1>3. ASSUME NEW d \in Dtcs, ClearOneAsked(d) PROVE IInv'
  <2>1. /\ task' = [Idle EXCEPT !.at = "clear", !.what = d] /\ asked' = {d}
        /\ excused' = excused \cup {d} /\ task.at = "idle"
        /\ UNCHANGED <<status, record, permanent, setting, mirror, records, cleared, quiet>>
    BY <1>3 DEF ClearOneAsked, ram, nvm
  <2>2. /\ task' \in Tasks /\ task'.at = "clear" /\ task'.what = d
        /\ task'.image = Clean /\ task'.copy = NoRecord
    BY <2>1, Blank DEF Tasks
  <2>3. TypeOK' BY <2>1, <2>2 DEF TypeOK, Tasks
  <2>4. \A e \in cleared : GoneFromRam(e)'
    <3>1. \A e \in Dtcs : Clean[e] = {} /\ \A w \in Which : NoRecord[w] # e
      BY Blank DEF Clean, NoRecord
    <3> QED BY <2>1, <2>2, <3>1 DEF ClearInv, GoneFromRam, TypeOK
  <2>5. ClearInv' BY <2>1, <2>2, <2>4 DEF ClearInv, GoneFromNvm
  <2>6. MirrorInv' BY <2>1, <2>2 DEF MirrorInv
  <2>7. QuietInv' BY <2>2 DEF QuietInv
  <2> QED BY <2>3, <2>5, <2>6, <2>7
<1> QED BY <1>1, <1>2, <1>3

\* That DTC is cleared, with what was reported of it meanwhile.
LEMMA ClearOneOK ==
    ASSUME IInv, ClearOne
    PROVE IInv'
<1> USE DEF IInv
<1> DEFINE d == task.what
<1>1. /\ status' = [status EXCEPT ![d] = {}] /\ record' = Forget(d) /\ asked' = {d}
      /\ task' = [Idle EXCEPT !.at = "serialise", !.what = "clear"] /\ task.at = "clear"
      /\ UNCHANGED <<permanent, setting, mirror, records, cleared, excused>> /\ quiet'
      /\ quiet' \in BOOLEAN /\ status \in Statuses /\ record \in Records
      /\ d \in Dtcs /\ d \in excused /\ cleared \subseteq Dtcs
  BY DEF ClearOne, Begin, nvm, TypeOK, MirrorInv
<1> HIDE DEF d
<1>2. /\ task' \in Tasks /\ task'.at = "serialise" /\ task'.image = Clean
      /\ task'.copy = NoRecord /\ task'.next = 1
  BY <1>1, Blank DEF Tasks
<1>3. status' \in Statuses /\ status'[d] = {}
      /\ \A e \in Dtcs : e # d => status'[e] = status[e]
  BY <1>1 DEF Statuses
<1>4. record' \in Records BY <1>1 DEF Forget, Records
<1>5. TypeOK' BY <1>1, <1>2, <1>3, <1>4 DEF TypeOK, Tasks
<1>6. ASSUME NEW e \in Dtcs, e = d \/ GoneFromRam(e) PROVE GoneFromRam(e)'
  <2>1. status'[e] = {} BY <1>3, <1>6 DEF GoneFromRam
  <2>2. Clean[e] = {} BY DEF Clean
  <2>3. \A w \in Which : NoRecord[w] # e BY Blank DEF NoRecord
  <2>4. \A w \in Which : record'[w] # e
    BY <1>1, <1>6, Blank DEF Forget, GoneFromRam
  <2> QED BY <1>1, <1>2, <2>1, <2>2, <2>3, <2>4 DEF GoneFromRam
<1>7. ClearInv' BY <1>1, <1>2, <1>6 DEF ClearInv, GoneFromNvm
<1>8. MirrorInv'
  <2>1. \A e \in Dtcs : task'.image[e] = {} BY <1>2 DEF Clean
  <2>2. \A e \in Saved : status'[e] = {} => status[e] = {} \/ e \in excused'
    BY <1>1, <1>3, SavedEntries
  <2>3. \A i \in 1..Entries : ~(i < task'.next) BY <1>2
  <2> QED BY <1>1, <1>2, <2>1, <2>2, <2>3 DEF MirrorInv
<1>9. QuietInv'
  <2>1. \A i \in 1..Entries : ~(i < task'.next) BY <1>2
  <2> QED BY <1>2, <2>1 DEF QuietInv
<1> QED BY <1>5, <1>7, <1>8, <1>9

\* The flush before a reset begins.
LEMMA ResetOK ==
    ASSUME IInv, Reset
    PROVE IInv'
<1> USE DEF IInv
<1>1. /\ task' = [Idle EXCEPT !.at = "serialise", !.what = "reset"] /\ task.at = "idle"
      /\ UNCHANGED <<status, record, permanent, setting, mirror, records, asked, cleared,
                     excused>> /\ quiet' \in BOOLEAN /\ asked = {}
  BY DEF Reset, Begin, ram, nvm, ClearInv
<1>2. /\ task' \in Tasks /\ task'.at = "serialise" /\ task'.image = Clean
      /\ task'.copy = NoRecord /\ task'.next = 1
  BY <1>1, Blank DEF Tasks
<1>3. TypeOK' BY <1>1, <1>2 DEF TypeOK, Tasks
<1>4. \A e \in Dtcs : Clean[e] = {} /\ \A w \in Which : NoRecord[w] # e
  BY Blank DEF Clean, NoRecord
<1>5. ClearInv'
  <2>1. \A e \in cleared : GoneFromRam(e)'
    BY <1>1, <1>2, <1>4 DEF ClearInv, GoneFromRam, TypeOK
  <2> QED BY <1>1, <1>2, <2>1 DEF ClearInv, GoneFromNvm
<1>6. \A i \in 1..Entries : ~(i < task'.next) BY <1>2
<1>7. MirrorInv' BY <1>1, <1>2, <1>4, <1>6 DEF MirrorInv
<1>8. QuietInv' BY <1>2, <1>6 DEF QuietInv
<1> QED BY <1>3, <1>5, <1>7, <1>8

\* An entry is serialised.
LEMMA SerialiseEntryOK ==
    ASSUME IInv, SerialiseEntry
    PROVE IInv'
<1> USE DEF IInv
<1> DEFINE d == Table[task.next]
<1>1. /\ task' = [task EXCEPT !.image[d] = status[d], !.next = task.next + 1]
      /\ task.at = "serialise" /\ task.next \in 1..Entries /\ d \in Saved /\ d \in Dtcs
      /\ UNCHANGED <<status, record, permanent, setting, mirror, records, asked, cleared,
                     excused, quiet>>
      /\ task \in Tasks /\ status \in Statuses
  BY SavedEntries DEF SerialiseEntry, ram, nvm, history, TypeOK, Tasks
<1> HIDE DEF d
<1>2. /\ task' \in Tasks /\ task'.at = "serialise" /\ task'.copy = task.copy
      /\ task'.next = task.next + 1
      /\ task'.image = [task.image EXCEPT ![d] = status[d]]
  <2> DEFINE image == [task.image EXCEPT ![d] = status[d]]
             next == task.next + 1
  <2>1. image \in Statuses /\ next \in Nat \ {0} BY <1>1 DEF Tasks, Statuses
  <2>2. task' = [task EXCEPT !.image = image, !.next = next] BY <1>1 DEF Tasks
  <2> HIDE DEF image, next
  <2>3. /\ task' \in Tasks /\ task'.at = "serialise" /\ task'.copy = task.copy
        /\ task'.next = next /\ task'.image = image
    BY <1>1, <2>1, <2>2 DEF Tasks
  <2> QED BY <2>3 DEF image, next
<1>3. /\ task'.image[d] = status[d] /\ \A e \in Dtcs : e # d => task'.image[e] = task.image[e]
  BY <1>1, <1>2 DEF Tasks, Statuses
<1>4. TypeOK' BY <1>1, <1>2 DEF TypeOK, Tasks
<1>5. ASSUME NEW e \in Dtcs, GoneFromRam(e) PROVE GoneFromRam(e)'
  BY <1>1, <1>2, <1>3, <1>5 DEF GoneFromRam
<1>6. ClearInv' BY <1>1, <1>2, <1>5 DEF ClearInv, GoneFromNvm, TypeOK
<1>7. ASSUME NEW i \in 1..Entries, i < task'.next
      PROVE Table[i] \in Saved /\ Table[i] \in Dtcs /\ (i < task.next \/ Table[i] = d)
  <2>1. i < task.next \/ i = task.next BY <1>1, <1>2, <1>7, SavedEntries
  <2> QED BY <2>1, SavedEntries DEF d
<1>8. MirrorInv'
  <2>1. \A e \in Dtcs : task'.image[e] # {} /\ status[e] = {} => e \in excused
    BY <1>1, <1>3 DEF MirrorInv
  <2>2. ASSUME mirror # None, NEW i \in 1..Entries, i < task'.next, mirror[Table[i]] # {},
               task'.image[Table[i]] = {}
        PROVE Table[i] \in excused
    BY <1>1, <1>3, <1>7, <2>2 DEF MirrorInv
  <2> QED BY <1>1, <1>2, <2>1, <2>2 DEF MirrorInv
<1>9. QuietInv'
  <2>1. ASSUME quiet, NEW i \in 1..Entries, i < task'.next
        PROVE task'.image[Table[i]] = status[Table[i]]
    BY <1>1, <1>3, <1>7, <2>1 DEF QuietInv
  <2> QED BY <1>1, <1>2, <2>1 DEF QuietInv
<1> QED BY <1>4, <1>6, <1>8, <1>9

\* The mirror is written.
LEMMA MirrorWrittenOK ==
    ASSUME IInv, MirrorWritten
    PROVE IInv'
<1> USE DEF IInv
<1>1. /\ mirror' = [d \in Saved |-> task.image[d]] /\ task.at = "serialise"
      /\ task' = [task EXCEPT !.at = "records", !.next = 1, !.image = Clean]
      /\ excused' = {d \in excused : status[d] = {}}
      /\ UNCHANGED <<status, record, permanent, setting, records, asked, cleared, quiet>>
      /\ task \in Tasks /\ cleared \subseteq Dtcs /\ asked \subseteq Dtcs
  BY DEF MirrorWritten, ram, TypeOK, Tasks
<1>2. \A i \in 1..Entries : i < task.next
  BY SavedEntries DEF MirrorWritten, TypeOK
<1>3. /\ task' \in Tasks /\ task'.at = "records" /\ task'.copy = task.copy
      /\ task'.image = Clean /\ task'.next = 1
  BY <1>1, Blank DEF Tasks
<1>4. mirror' \in [Saved -> SUBSET Bits] /\ mirror' # None
  BY <1>1, SavedEntries, NoneAssumption DEF Tasks, Statuses
<1>5. TypeOK' BY <1>1, <1>3, <1>4 DEF TypeOK, Tasks
<1>6. ASSUME NEW d \in Dtcs, GoneFromRam(d)
      PROVE GoneFromRam(d)' /\ (d \in Saved => mirror'[d] = {})
  <2>1. Clean[d] = {} BY DEF Clean
  <2> QED BY <1>1, <1>3, <1>6, <2>1 DEF GoneFromRam
<1>7. ClearInv' BY <1>1, <1>3, <1>4, <1>6 DEF ClearInv, GoneFromNvm
<1>8. MirrorInv'
  <2>1. ASSUME NEW d \in Saved, mirror'[d] # {}, status[d] = {} PROVE d \in excused'
    BY <1>1, <2>1, SavedEntries DEF MirrorInv
  <2> QED BY <1>1, <1>3, <2>1 DEF MirrorInv
<1>9. QuietInv'
  <2>1. ASSUME quiet, NEW d \in Saved PROVE mirror'[d] = status[d]
    <3>1. PICK i \in 1..Entries : d = Table[i] BY SavedEntries
    <3> QED BY <1>1, <1>2, <2>1, <3>1 DEF QuietInv
  <2>2. \A i \in DOMAIN RecordOrder : ~(i < 1) BY RecordOrderAssumption
  <2> QED BY <1>1, <1>3, <1>4, <2>1, <2>2 DEF QuietInv
<1> QED BY <1>5, <1>7, <1>8, <1>9

\* The call ends: a clear is answered, a flush goes on to the reset.
LEMMA AnsweredTask ==
    ASSUME NEW done \in BOOLEAN, Answered(done)
    PROVE /\ task' \in Tasks /\ task'.at \in {"idle", "saved", "reset"}
          /\ task'.image = Clean /\ task'.copy = NoRecord
          /\ task'.at = "saved" => done /\ task.what = "reset"
          /\ asked' = {} /\ cleared' = IF done THEN cleared \cup asked ELSE cleared
BY Blank DEF Answered, Tasks

\* The mirror or the records are not written.
LEMMA NotWrittenOK ==
    ASSUME IInv, MirrorNotWritten \/ RecordsNotWritten
    PROVE IInv'
<1> USE DEF IInv
<1>1. /\ UNCHANGED <<status, record, permanent, setting, mirror, records, excused, quiet>>
      /\ Answered(FALSE)
  BY DEF MirrorNotWritten, RecordsNotWritten, ram, nvm
<1>2. /\ task' \in Tasks /\ task'.at \in {"idle", "reset"} /\ task'.image = Clean
      /\ task'.copy = NoRecord /\ asked' = {} /\ cleared' = cleared
  BY <1>1, AnsweredTask
<1>3. TypeOK' BY <1>1, <1>2 DEF TypeOK, Tasks
<1>4. \A d \in Dtcs : Clean[d] = {} /\ \A w \in Which : NoRecord[w] # d
  BY Blank DEF Clean, NoRecord
<1>5. \A d \in cleared : GoneFromRam(d)'
  BY <1>1, <1>2, <1>4 DEF ClearInv, GoneFromRam, TypeOK
<1>6. ClearInv' BY <1>1, <1>2, <1>5 DEF ClearInv, GoneFromNvm
<1>7. MirrorInv' BY <1>1, <1>2 DEF MirrorInv
<1>8. QuietInv' BY <1>1, <1>2 DEF QuietInv
<1> QED BY <1>3, <1>6, <1>7, <1>8

\* A record is serialised.
LEMMA SerialiseRecordOK ==
    ASSUME IInv, SerialiseRecord
    PROVE IInv'
<1> USE DEF IInv
<1> DEFINE w == RecordOrder[task.next]
<1>0. /\ task.next \in DOMAIN RecordOrder /\ w \in Which
      /\ DOMAIN RecordOrder \subseteq Nat
  <2>1. task.next \in Nat \ {0} /\ task.next <= Len(RecordOrder)
    BY DEF SerialiseRecord, TypeOK
  <2> QED BY <2>1, RecordOrderAssumption
<1>1. /\ task' = [task EXCEPT !.copy[w] = record[w], !.next = task.next + 1]
      /\ task.at = "records" /\ task \in Tasks /\ record \in Records
      /\ UNCHANGED <<status, record, permanent, setting, mirror, records, asked, cleared,
                     excused, quiet>>
  BY DEF SerialiseRecord, ram, nvm, history, TypeOK, Tasks
<1> HIDE DEF w
<1>2. /\ task' \in Tasks /\ task'.at = "records" /\ task'.image = task.image
      /\ task'.next = task.next + 1 /\ task'.copy = [task.copy EXCEPT ![w] = record[w]]
  <2> DEFINE copy == [task.copy EXCEPT ![w] = record[w]]
             next == task.next + 1
  <2>1. copy \in Records /\ next \in Nat \ {0} BY <1>0, <1>1 DEF Tasks, Records
  <2>2. task' = [task EXCEPT !.copy = copy, !.next = next] BY <1>1 DEF Tasks
  <2> HIDE DEF copy, next
  <2>3. /\ task' \in Tasks /\ task'.at = "records" /\ task'.image = task.image
        /\ task'.next = next /\ task'.copy = copy
    BY <1>1, <2>1, <2>2 DEF Tasks
  <2> QED BY <2>3 DEF copy, next
<1>3. \A v \in Which : task'.copy[v] = IF v = w THEN record[w] ELSE task.copy[v]
  BY <1>1, <1>2 DEF Tasks, Records
<1>4. TypeOK' BY <1>1, <1>2 DEF TypeOK, Tasks
<1>5. ASSUME NEW d \in Dtcs, GoneFromRam(d) PROVE GoneFromRam(d)'
  BY <1>1, <1>2, <1>3, <1>5 DEF GoneFromRam
<1>6. ClearInv' BY <1>1, <1>2, <1>5 DEF ClearInv, GoneFromNvm, TypeOK
<1>7. MirrorInv' BY <1>1, <1>2 DEF MirrorInv
<1>8. QuietInv'
  <2>1. ASSUME quiet, NEW i \in DOMAIN RecordOrder, i < task'.next
        PROVE task'.copy[RecordOrder[i]] = record[RecordOrder[i]]
    <3>1. i < task.next \/ i = task.next BY <1>0, <1>2, <2>1
    <3>2. RecordOrder[i] \in Which BY RecordOrderAssumption
    <3> QED BY <1>1, <1>3, <2>1, <3>1, <3>2 DEF QuietInv, w
  <2> QED BY <1>1, <1>2, <2>1 DEF QuietInv
<1> QED BY <1>4, <1>6, <1>7, <1>8

\* The records are written, and the clear is answered positively.
LEMMA RecordsWrittenOK ==
    ASSUME IInv, RecordsWritten
    PROVE IInv'
<1> USE DEF IInv
<1>1. /\ records' = task.copy /\ Answered(TRUE) /\ task.at = "records"
      /\ UNCHANGED <<status, record, permanent, setting, mirror, excused, quiet>>
      /\ task \in Tasks /\ cleared \subseteq Dtcs /\ asked \subseteq Dtcs
  BY DEF RecordsWritten, ram, TypeOK, Tasks
<1>2. /\ task' \in Tasks /\ task'.at \in {"idle", "saved", "reset"} /\ task'.image = Clean
      /\ task'.copy = NoRecord /\ asked' = {} /\ cleared' = cleared \cup asked
  BY <1>1, AnsweredTask
<1>3. TypeOK' BY <1>1, <1>2 DEF TypeOK, Tasks
<1>4. \A d \in Dtcs : Clean[d] = {} /\ \A w \in Which : NoRecord[w] # d
  BY Blank DEF Clean, NoRecord
<1>5. \A d \in cleared' : GoneFromRam(d)
  BY <1>1, <1>2 DEF ClearInv
<1>6. \A d \in cleared' : GoneFromRam(d)'
  BY <1>1, <1>2, <1>4, <1>5 DEF GoneFromRam
<1>7. \A d \in cleared' : GoneFromNvm(d)'
  <2>1. \A d \in cleared' : d \in Saved => mirror[d] = {}
    BY <1>1, <1>2 DEF ClearInv, GoneFromNvm
  <2> QED BY <1>1, <1>5, <2>1 DEF GoneFromNvm, GoneFromRam
<1>8. ClearInv' BY <1>2, <1>6, <1>7 DEF ClearInv
<1>9. MirrorInv' BY <1>1, <1>2 DEF MirrorInv
<1>10. QuietInv'
  <2>1. ASSUME quiet PROVE records' = record
    <3>1. \A i \in DOMAIN RecordOrder : i < task.next
      BY RecordOrderAssumption DEF RecordsWritten, TypeOK
    <3>2. \A w \in Which : task.copy[w] = record[w]
      BY <1>1, <2>1, <3>1, RecordOrderAssumption DEF QuietInv
    <3> QED BY <1>1, <3>2 DEF TypeOK, Tasks, Records
  <2> QED BY <1>1, <1>2, <2>1 DEF QuietInv
<1> QED BY <1>3, <1>8, <1>9, <1>10

\* A boot, after a reset or a power loss at any step.
LEMMA BootOK ==
    ASSUME IInv, NEW mirrorRead \in BOOLEAN, NEW recordsRead \in BOOLEAN,
           Boot(mirrorRead, recordsRead)
    PROVE IInv'
<1> USE DEF IInv
<1>1. /\ task' = Idle /\ asked' = {} /\ ~quiet' /\ permanent' = {} /\ setting' = TRUE
      /\ quiet' \in BOOLEAN /\ UNCHANGED <<mirror, records, cleared>>
      /\ excused' = IF mirrorRead THEN excused ELSE Dtcs
      /\ cleared \subseteq Dtcs /\ excused \subseteq Dtcs
  BY DEF Boot, nvm, TypeOK
<1>2. /\ status' \in Statuses
      /\ \A d \in Dtcs : status'[d] = IF mirrorRead /\ mirror # None /\ d \in Saved
                                       THEN mirror[d] ELSE {}
  BY DEF Boot, Statuses, TypeOK
<1>3. record' \in Records /\ (record' = NoRecord \/ (records # None /\ record' = records))
  BY Blank DEF Boot, TypeOK
<1>4. TypeOK' BY <1>1, <1>2, <1>3, Blank DEF TypeOK, Tasks
<1>5. \A d \in Dtcs : Clean[d] = {} /\ \A w \in Which : NoRecord[w] # d
  BY Blank DEF Clean, NoRecord
<1>6. ASSUME NEW d \in cleared PROVE GoneFromRam(d)'
  <2>1. GoneFromNvm(d) /\ d \in Dtcs BY <1>1 DEF ClearInv
  <2> QED BY <1>1, <1>2, <1>3, <1>5, <2>1, Blank DEF GoneFromRam, GoneFromNvm
<1>7. ClearInv' BY <1>1, <1>6, Blank DEF ClearInv, GoneFromNvm
<1>8. MirrorInv' BY <1>1, <1>2, Blank, SavedEntries DEF MirrorInv
<1>9. QuietInv' BY <1>1 DEF QuietInv
<1> QED BY <1>4, <1>7, <1>8, <1>9

\* Every step keeps the invariant.
LEMMA StepOK == IInv /\ [Next]_vars => IInv'
<1> SUFFICES ASSUME IInv, [Next]_vars PROVE IInv'
  OBVIOUS
<1>1. CASE \E d \in Dtcs, bits \in SUBSET Bits : SetStatus(d, bits)
  BY <1>1, SetStatusOK
<1>2. CASE (\E d \in Dtcs : SetPermanent(d) \/ ClearOneAsked(d)) \/ SetSetting
  BY <1>2, AskOK
<1>3. CASE ClearAll \/ ClearOne \/ Reset
  BY <1>3, ClearAllOK, ClearOneOK, ResetOK
<1>4. CASE SerialiseEntry \/ MirrorWritten \/ MirrorNotWritten
  BY <1>4, SerialiseEntryOK, MirrorWrittenOK, NotWrittenOK
<1>5. CASE SerialiseRecord \/ RecordsWritten \/ RecordsNotWritten
  BY <1>5, SerialiseRecordOK, RecordsWrittenOK, NotWrittenOK
<1>6. CASE Reboot
  BY <1>6, BootOK DEF Reboot
<1>7. CASE UNCHANGED vars
  BY <1>7 DEF vars, ram, nvm, history, IInv, TypeOK, ClearInv, GoneFromRam, GoneFromNvm,
              MirrorInv, QuietInv
<1> QED BY <1>1, <1>2, <1>3, <1>4, <1>5, <1>6, <1>7 DEF Next

\* The invariant holds from the start on.
THEOREM Invariant == Spec => []IInv
<1> QED BY InitOK, StepOK, PTL DEF Spec

-----------------------------------------------------------------------------
(* What it shows. *)

\* Types of the table, its NVM records and the task.
THEOREM TypeCorrect == Spec => []TypeOK
<1>1. IInv => TypeOK BY DEF IInv
<1> QED BY <1>1, Invariant, PTL

\* A clear that was answered positively is durable, wherever the power is lost.
THEOREM ClearsAreDurable == Spec => []ClearIsDurable
<1>1. IInv => ClearIsDurable
  BY DEF IInv, ClearInv, GoneFromRam, GoneFromNvm, ClearIsDurable
<1> QED BY <1>1, Invariant, PTL

\* Only an excused fault leaves the mirror: it is one that the image had, or that
\* the table had when the image was made.
THEOREM PermanentFaultsSurvive == Spec => PermanentSurvives
<1>1. ASSUME IInv, [Next]_vars, NEW d \in Saved, mirror # None, mirror[d] # {},
             mirror'[d] = {}
      PROVE d \in excused
  <2>1. CASE MirrorWritten
    <3>1. task.image[d] = {} /\ task.at = "serialise" BY <1>1, <2>1 DEF MirrorWritten
    <3>2. PICK i \in 1..Entries : d = Table[i] BY SavedEntries
    <3>3. i < task.next BY <1>1, <2>1, SavedEntries DEF MirrorWritten, IInv, TypeOK
    <3> QED BY <1>1, <3>1, <3>2, <3>3 DEF IInv, MirrorInv
  <2>2. CASE UNCHANGED mirror
    BY <1>1, <2>2
  <2>3. ASSUME Next PROVE MirrorWritten \/ UNCHANGED mirror
    BY <2>3 DEF Next, SetStatus, SetPermanent, ClearOneAsked, SetSetting, ClearAll, ClearOne,
                Reset, SerialiseEntry, MirrorNotWritten, SerialiseRecord, RecordsWritten,
                RecordsNotWritten, Reboot, Boot, ram, nvm
  <2> QED BY <1>1, <2>1, <2>2, <2>3 DEF vars, nvm
<1>2. IInv /\ [Next]_vars
      => [\A d \in Saved : mirror # None /\ mirror[d] # {} /\ mirror'[d] = {}
                          => d \in excused]_vars
  BY <1>1
<1> QED BY <1>2, Invariant, PTL DEF Spec, PermanentSurvives

\* After a reset that a flush preceded, the table and the records are what they
\* were, unless a monitor reported in between.
THEOREM ResetsKeep == Spec => ResetKeeps
<1>1. ASSUME IInv, task.at = "saved", quiet, Boot(TRUE, TRUE)
      PROVE record' = record /\ \A d \in Saved : status'[d] = status[d]
  <2>1. /\ mirror # None /\ records = record /\ \A d \in Saved : mirror[d] = status[d]
    BY <1>1 DEF IInv, QuietInv
  <2>2. records # None BY <1>1, <2>1, NoneAssumption DEF IInv, TypeOK
  <2> QED BY <1>1, <2>1, <2>2, SavedEntries DEF Boot
<1>2. IInv /\ [Next]_vars
      => [task.at = "saved" /\ quiet /\ Boot(TRUE, TRUE)
          => record' = record /\ \A d \in Saved : status'[d] = status[d]]_vars
  BY <1>1
<1> QED BY <1>2, Invariant, PTL DEF Spec, ResetKeeps

=============================================================================
