----------------------------- MODULE NvmAppend -----------------------------
(***************************************************************************)
(* The append-only NVM store of platform/zephyr/nvm_store_append.c: two    *)
(* flash banks, each a header with a generation and a log of records; an   *)
(* index in RAM; compaction into the other bank when the log is full; the  *)
(* choice of a bank at boot.  Every flash primitive is a step of its own,  *)
(* and power may be lost before, in the middle of or after each.           *)
(*                                                                         *)
(* A call in progress is the sequence of flash steps it has left (todo).   *)
(* A record is one cell of the log, whatever its length; a cell whose      *)
(* bytes do not pass the CRC check is Torn.                                *)
(***************************************************************************)
EXTENDS Integers, Sequences, FiniteSets

CONSTANTS
    Keys,           \* the record keys of nvm_store.h in use, Schema and Sec among them
    Schema,         \* NVM_KEY_SCHEMA_VERSION
    Sec,            \* NVM_KEY_SEC_STATE
    Vals,           \* payloads
    Writes,         \* the key and payload pairs the application writes
    Current,        \* NVM_SCHEMA_VERSION_CURRENT
    Junk,           \* bytes nobody wrote
    Gone,           \* the payload of a tombstone
    None,
    Cap,            \* records that fit into a bank
    MaxGen,         \* bound on the generations explored
    MaxFaults       \* bound on power losses in a call, flash errors and misreads

ASSUME KeysAssumption == {Schema, Sec} \subseteq Keys /\ IsFiniteSet(Keys)
ASSUME WritesAssumption == Writes \subseteq (Keys \ {Schema}) \X Vals
\* The markers are no keys, no payloads and no store.
ASSUME MarksAssumption ==
    /\ Schema # Sec
    /\ None \notin Keys \cup Vals \cup {Current, Junk, Gone}
    /\ Gone \notin Vals \cup {Current, Junk}
    /\ None \notin [Keys \ {Schema} -> Vals \cup {Current, Junk, None}]
\* The seven keys of nvm_store.h and one more record fit into a bank.
ASSUME CapAssumption == Cap \in Nat /\ Cap > Cardinality(Keys)
ASSUME BoundsAssumption == MaxGen \in Nat /\ MaxFaults \in Nat

Banks == {0, 1}
NoHead == -1                    \* the header has no magic
Torn == [key |-> None, val |-> Junk]
DataKeys == Keys \ {Schema}

VARIABLES
    flash,      \* both banks: header and log
    bank,       \* s_active_bank
    gen,        \* s_generation
    cursor,     \* s_write_cursor, in records
    index,      \* s_index: the cell of each live key, 0 for none
    up,         \* "off" | "mounting" | "ready" (s_initialized) | "failed"
    todo,       \* the flash steps the call in progress has left
    faults,     \* faults so far (bound)
    stored,     \* history: what the next boot would find in the flash
    dirty,      \* history: the log that boot would use ends in cells it cannot read
    goal,       \* history: what the reclamation under way has to leave
    broken      \* history: RAM and flash have parted

vars == <<flash, bank, gen, cursor, index, up, todo, faults, stored, dirty, goal, broken>>
rom == <<flash, stored, dirty>>
ram == <<bank, gen, cursor, index>>

\* What a read may answer, a cell of the log, and what a boot may find.
Payloads == Vals \cup {Current, Junk}
Cells == [key : Keys \cup {None}, val : Payloads \cup {Gone}]
Store == [DataKeys -> Payloads \cup {None}]

\* The flash steps a call may have left.
Tasks ==
    [do : {"erase"}, bank : Banks] \cup [do : {"head"}, bank : Banks, gen : Nat]
        \cup [do : {"append"}, key : Keys, val : Payloads \cup {Gone}]
        \cup [do : {"copy"}, left : SUBSET Keys] \cup [do : {"wiped"}]

\* The cursor never leaves its bank, and whatever a boot finds is a payload or nothing.
TypeOK ==
    /\ flash \in [Banks -> [head : Nat \cup {NoHead}, recs : Seq(Cells)]]
    /\ bank \in Banks /\ gen \in Nat /\ cursor \in 0..Cap /\ index \in [Keys -> Nat]
    /\ up \in {"off", "mounting", "ready", "failed"}
    /\ todo \in Seq(Tasks)
    /\ faults \in Nat
    /\ stored \in Store /\ dirty \in BOOLEAN
    /\ goal \in Store \cup {None}
    /\ broken \in BOOLEAN

-----------------------------------------------------------------------------
(* Reading the flash. *)

Cell(b, i) == IF i \in 1..Len(flash[b].recs) THEN flash[b].recs[i] ELSE Torn

\* scan_bank stops at the first record that is blank or fails its CRC.
WholePart(recs) ==
    CHOOSE n \in 0..Len(recs) : /\ \A i \in 1..n : recs[i] # Torn
                                /\ n = Len(recs) \/ recs[n + 1] = Torn

\* The record of key k after n records: the last one wins, a tombstone removes it.
LastOf(recs, n, k) ==
    LET mine == {i \in 1..n : recs[i].key = k}
        last == CHOOSE i \in mine : \A j \in mine : j <= i
    IN IF mine = {} \/ recs[last].val = Gone THEN 0 ELSE last

ScanIndex(recs, n) == [k \in Keys |-> LastOf(recs, n, k)]

\* read_internal copies the payload without checking its CRC.
ReadAt(b, ix, k) ==
    IF ix[k] = 0 THEN None
    ELSE IF Cell(b, ix[k]).val = Gone THEN Junk ELSE Cell(b, ix[k]).val

Read(k) == ReadAt(bank, index, k)

\* The bank with the valid magic and the higher generation (NoHead is the lowest).
Chosen(head) == IF head[0] > head[1] THEN 0 ELSE 1

Heads(f) == [b \in Banks |-> f[b].head]

\* What a boot finds: a bank without its schema record is wiped.
StoredIn(f) ==
    LET b == Chosen(Heads(f))
        recs == f[b].recs
        n == WholePart(recs)
        Found(k) == LET i == LastOf(recs, n, k) IN IF i = 0 THEN None ELSE recs[i].val
        empty == f[b].head = NoHead \/ Found(Schema) # Current
    IN [k \in DataKeys |-> IF empty THEN None ELSE Found(k)]

DirtyIn(f) == LET recs == f[Chosen(Heads(f))].recs IN WholePart(recs) < Len(recs)

SetFlash(f) == flash' = f /\ stored' = StoredIn(f) /\ dirty' = DirtyIn(f)

Ram == [k \in DataKeys |-> Read(k)]

-----------------------------------------------------------------------------
(* The flash steps of a call. *)

Append1(k, v) == [do |-> "append", key |-> k, val |-> v]

FormatBank(b, g) == <<[do |-> "erase", bank |-> b], [do |-> "head", bank |-> b, gen |-> g]>>

FullWipe == FormatBank(1, 0) \o FormatBank(0, 1) \o <<[do |-> "wiped"]>>

LiveKeys == {k \in Keys : index[k] # 0}

\* Mutant: the new bank gets the generation of the old one.
CompactionSameGen == FormatBank(1 - bank, gen) \o <<[do |-> "copy", left |-> LiveKeys]>>

Compaction == FormatBank(1 - bank, gen + 1) \o <<[do |-> "copy", left |-> LiveKeys]>>

FreshStore == FullWipe \o <<Append1(Schema, Current)>>

Doing(d) == todo # <<>> /\ Head(todo).do = d

Idle == up = "ready" /\ todo = <<>>

\* A compaction is under way: its copy step is still to come.
Compacting == \E i \in DOMAIN todo : todo[i].do = "copy"

Copying == Doing("copy") /\ Head(todo).left # {}

Formatted(b, h) == [flash EXCEPT ![b] = [head |-> h, recs |-> <<>>]]

-----------------------------------------------------------------------------
Init ==
    /\ flash = [b \in Banks |-> [head |-> NoHead, recs |-> <<>>]]
    /\ bank = 0 /\ gen = 0 /\ cursor = 0
    /\ index = [k \in Keys |-> 0]
    /\ up = "off"
    /\ todo = <<>>
    /\ faults = 0
    /\ stored = [k \in DataKeys |-> None]
    /\ dirty = FALSE
    /\ goal = None
    /\ broken = FALSE

\* nvm_store_init, from the headers and the records it could read.
MountOn(head, limit, schemaRead) ==
    LET b == Chosen(head)
        n == IF limit < WholePart(flash[b].recs) THEN limit ELSE WholePart(flash[b].recs)
        ix == ScanIndex(flash[b].recs, n)
    IN IF head[b] = NoHead
       THEN /\ up' = "mounting"
            /\ todo' = FullWipe \o FreshStore
            /\ UNCHANGED ram
       ELSE /\ bank' = b /\ gen' = head[b] /\ cursor' = n /\ index' = ix
            /\ IF schemaRead /\ ReadAt(b, ix, Schema) = Current
               THEN up' = "ready" /\ todo' = <<>>
               ELSE up' = "mounting" /\ todo' = FreshStore

Mount ==
    /\ up = "off"
    /\ MountOn(Heads(flash), Cap, TRUE)
    /\ goal' = IF todo' = <<>> THEN None ELSE stored
    /\ UNCHANGED <<rom, faults, broken>>

\* One flash_read of the boot fails: of a header, of a record, of the schema.
MountMisread ==
    /\ up = "off"
    /\ faults < MaxFaults
    /\ \/ \E b \in Banks :
             Heads(flash)[b] # NoHead /\ MountOn([Heads(flash) EXCEPT ![b] = NoHead], Cap, TRUE)
       \/ \E n \in 0..Cap - 1 :
             n < WholePart(flash[Chosen(Heads(flash))].recs) /\ MountOn(Heads(flash), n, TRUE)
       \/ Heads(flash)[Chosen(Heads(flash))] # NoHead /\ MountOn(Heads(flash), Cap, FALSE)
    /\ faults' = faults + 1
    /\ broken' = TRUE
    /\ UNCHANGED <<rom, goal>>

\* nvm_store_write; writing what is already there is answered without a write.
Write(k, v) ==
    /\ Idle
    /\ Read(k) # v
    /\ gen < MaxGen \/ cursor < Cap
    /\ todo' = <<Append1(k, v)>>
    /\ UNCHANGED <<rom, ram, up, faults, goal, broken>>

\* nvm_store_delete
Delete(k) ==
    /\ Idle
    /\ index[k] # 0
    /\ gen < MaxGen \/ cursor < Cap
    /\ todo' = <<Append1(k, Gone)>>
    /\ UNCHANGED <<rom, ram, up, faults, goal, broken>>

\* Mutant: erase-all does not write the security record again.
EraseAllDropsSec ==
    /\ Idle
    /\ todo' = FreshStore
    /\ goal' = [k \in DataKeys |-> IF k = Sec THEN Read(Sec) ELSE None]
    /\ UNCHANGED <<rom, ram, up, faults, broken>>

\* nvm_store_erase_all keeps the security record by writing it again.
EraseAll ==
    /\ Idle
    /\ todo' = FreshStore \o (IF index[Sec] = 0 THEN <<>> ELSE <<Append1(Sec, Read(Sec))>>)
    /\ goal' = [k \in DataKeys |-> IF k = Sec THEN Read(Sec) ELSE None]
    /\ UNCHANGED <<rom, ram, up, faults, broken>>

-----------------------------------------------------------------------------
(* Steps that go well. *)

\* The last step of nvm_store_init makes the store ready.
Finish(rest) ==
    /\ todo' = rest
    /\ up' = IF rest = <<>> /\ up = "mounting" THEN "ready" ELSE up
    /\ goal' = IF rest = <<>> THEN None ELSE goal

\* append_record compacts first when the log is full.
AppendFull ==
    /\ Doing("append")
    /\ cursor = Cap
    /\ todo' = Compaction \o todo
    /\ UNCHANGED <<rom, ram, up, faults, goal, broken>>

\* Programming cell i; unwritten cells before it stay blank, which a scan takes as Torn.
Placed(recs, i, cell) ==
    [j \in 1..(IF i > Len(recs) THEN i ELSE Len(recs)) |->
        IF j = i THEN cell ELSE IF j <= Len(recs) THEN recs[j] ELSE Torn]

\* Mutant: a tombstone leaves the index entry of its key alone.
AppendedTombstoneKept(cell) ==
    /\ SetFlash([flash EXCEPT ![bank].recs = Placed(@, cursor + 1, cell)])
    /\ index' = [index EXCEPT ![Head(todo).key] = IF Head(todo).val = Gone THEN @ ELSE cursor + 1]
    /\ cursor' = cursor + 1
    /\ Finish(Tail(todo))
    /\ UNCHANGED <<bank, gen, faults>>

Appended(cell) ==
    /\ SetFlash([flash EXCEPT ![bank].recs = Placed(@, cursor + 1, cell)])
    /\ index' = [index EXCEPT ![Head(todo).key] = IF Head(todo).val = Gone THEN 0 ELSE cursor + 1]
    /\ cursor' = cursor + 1
    /\ Finish(Tail(todo))
    /\ UNCHANGED <<bank, gen, faults>>

AppendRecord ==
    /\ Doing("append")
    /\ cursor < Cap
    /\ Len(flash[bank].recs) <= cursor
    /\ Appended([key |-> Head(todo).key, val |-> Head(todo).val])
    /\ UNCHANGED broken

\* The cursor is on flash that is not erased: the driver may program over it.
AppendOverDirt ==
    /\ Doing("append")
    /\ cursor < Len(flash[bank].recs)
    /\ Appended(Torn)
    /\ broken' = TRUE

EraseBank ==
    /\ Doing("erase")
    /\ SetFlash(Formatted(Head(todo).bank, NoHead))
    /\ todo' = Tail(todo)
    /\ UNCHANGED <<ram, up, faults, goal, broken>>

\* The header of a compaction is written before its records.
WriteBankHeader ==
    /\ Doing("head")
    /\ SetFlash([flash EXCEPT ![Head(todo).bank].head = Head(todo).gen])
    /\ todo' = Tail(todo)
    /\ goal' = IF Compacting /\ goal = None THEN Ram ELSE goal
    /\ UNCHANGED <<ram, up, faults, broken>>

Wiped ==
    /\ Doing("wiped")
    /\ bank' = 0 /\ gen' = 1 /\ cursor' = 0
    /\ index' = [k \in Keys |-> 0]
    /\ broken' = FALSE
    /\ todo' = Tail(todo)
    /\ UNCHANGED <<rom, up, faults, goal>>

\* One record of the live set; its index entry moves with it, the bank does not yet.
CopyRecord ==
    /\ Doing("copy")
    /\ \E k \in Head(todo).left :
          /\ SetFlash([flash EXCEPT ![1 - bank].recs = Append(@, Cell(bank, index[k]))])
          /\ index' = [index EXCEPT ![k] = Len(flash[1 - bank].recs) + 1]
          /\ todo' = [todo EXCEPT ![1].left = @ \ {k}]
    /\ UNCHANGED <<bank, gen, cursor, up, faults, goal, broken>>

SwitchBank ==
    /\ Doing("copy")
    /\ Head(todo).left = {}
    /\ bank' = 1 - bank
    /\ gen' = gen + 1
    /\ cursor' = Len(flash[1 - bank].recs)
    /\ todo' = Tail(todo)
    /\ goal' = None
    /\ UNCHANGED <<rom, index, up, faults, broken>>

-----------------------------------------------------------------------------
(* Steps that do not. *)

\* What a flash primitive that is cut, or that fails, may leave.
Cut ==
    \/ UNCHANGED rom
    \/ /\ Doing("append") /\ cursor < Cap /\ Len(flash[bank].recs) <= cursor
       /\ SetFlash([flash EXCEPT ![bank].recs = Placed(@, cursor + 1, Torn)])
    \/ Doing("erase") /\ SetFlash(Formatted(Head(todo).bank, NoHead))
    \/ Copying /\ SetFlash([flash EXCEPT ![1 - bank].recs = Append(@, Torn)])

\* The primitive reports an error: the call returns it and does nothing more.
StepFails ==
    /\ Doing("erase") \/ Doing("head") \/ Copying \/ (Doing("append") /\ cursor < Cap)
    /\ faults < MaxFaults
    /\ faults' = faults + 1
    /\ Cut
    /\ todo' = <<>>
    /\ up' = IF up = "mounting" THEN "failed" ELSE up
    /\ goal' = None
    /\ broken' = \/ broken \/ Doing("copy")
                 \/ up = "ready" /\ goal # None /\ ~(Doing("append") /\ Head(todo).key = Sec)
    /\ UNCHANGED ram

PowerLoss ==
    /\ up # "off"
    /\ IF todo = <<>> THEN UNCHANGED <<rom, faults>>
       ELSE faults < MaxFaults /\ faults' = faults + 1 /\ Cut
    /\ bank' = 0 /\ gen' = 0 /\ cursor' = 0
    /\ index' = [k \in Keys |-> 0]
    /\ up' = "off"
    /\ todo' = <<>>
    /\ goal' = None
    /\ broken' = FALSE

Next ==
    \/ Mount \/ MountMisread
    \/ \E w \in Writes : Write(w[1], w[2])
    \/ \E k \in DataKeys : Delete(k)
    \/ EraseAll
    \/ AppendFull \/ AppendRecord \/ AppendOverDirt
    \/ EraseBank \/ WriteBankHeader \/ Wiped \/ CopyRecord \/ SwitchBank
    \/ StepFails \/ PowerLoss

Spec == Init /\ [][Next]_vars

-----------------------------------------------------------------------------
\* What the store answers is what a boot would restore: an acknowledged write
\* survives a power loss that comes right after the call.
AckedIsDurable ==
    up = "ready" /\ goal = None /\ ~broken => Ram = stored

\* The boot never has to choose between two banks of the same generation.
BanksOrdered ==
    \A b \in Banks : flash[b].head # NoHead => flash[1 - b].head # flash[b].head

Mode == IF broken THEN "broken" ELSE IF dirty THEN "torn" ELSE "whole"

\* Writes and deletes are atomic, and outside of the two windows of KvStore no
\* fault changes what is stored.
Dictionary ==
    INSTANCE KvStore WITH Keys <- DataKeys, Vals <- Payloads, Kept <- {Sec},
                          kv <- stored, mode <- Mode,
                          goal <- IF broken THEN None ELSE goal

Atomic == Dictionary!Spec

=============================================================================
