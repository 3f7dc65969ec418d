-------------------------------- MODULE Dtc --------------------------------
(***************************************************************************)
(* Trouble codes: the table of config/dtc_database.c with its first and    *)
(* most recent records, the two NVM records config/dtc_mirror.c keeps of   *)
(* it, ClearDiagnosticInformation (0x14), and the flush before an ECUReset *)
(* (0x11).                                                                 *)
(*                                                                         *)
(* Two threads: the diagnostic task clears, serialises and writes; a       *)
(* monitor reports statuses at any time.  The lock of the database covers  *)
(* one call, so the monitor gets between any two calls of a clear.  Power  *)
(* may be lost at any step; one NVM write is atomic (see NvmAppend).       *)
(***************************************************************************)
EXTENDS Naturals, Sequences

CONSTANTS
    Table,          \* the registered DTCs, in the order of registration
    PersistMax,     \* DTC_MIRROR_MAX_PERSISTED_DTCS
    Bits,           \* the status bits that records are kept of
    RecordOrder,    \* k_record_order: the records, <<"first" | "recent", bit>>
    None

ASSUME PersistMaxAssumption == PersistMax \in Nat \ {0}
ASSUME TableAssumption == Table \in Seq({Table[i] : i \in DOMAIN Table}) /\ Table # <<>>

VARIABLES
    status,         \* s_dtc_table[].status_byte, as the set of its bits
    record,         \* s_records
    permanent,      \* the DTCs with is_permanent
    setting,        \* uds_comm_control_dtc_setting_is_on
    mirror,         \* NVM_KEY_DTC_MIRROR, None while absent
    records,        \* NVM_KEY_DTC_RECORDS, None while absent
    task,           \* the clear or flush the diagnostic task is at
    asked,          \* history: what the clear under way has to clear
    cleared,        \* history: cleared with a positive answer, not raised since
    excused,        \* history: may leave the mirror even if permanent
    quiet           \* history: no status reported since the flush began

ram == <<status, record, permanent, setting>>
nvm == <<mirror, records>>
history == <<asked, cleared, excused, quiet>>
vars == <<ram, nvm, task, history>>

Dtcs == {Table[i] : i \in DOMAIN Table}
Which == {"first", "recent"} \X Bits
Saved == {Table[i] : i \in {j \in DOMAIN Table : j <= PersistMax}}

Statuses == [Dtcs -> SUBSET Bits]
Records == [Which -> Dtcs \cup {None}]

ASSUME RecordOrderAssumption ==
    /\ RecordOrder \in Seq(Which)
    /\ Which = {RecordOrder[i] : i \in DOMAIN RecordOrder}
ASSUME NoneAssumption == None \notin Dtcs \cup Records \cup [Saved -> SUBSET Bits]

Clean == [d \in Dtcs |-> {}]
NoRecord == [w \in Which |-> None]

Idle == [at |-> "idle", what |-> None, next |-> 1, image |-> Clean, copy |-> NoRecord]

Init ==
    /\ status = Clean /\ record = NoRecord /\ permanent = {} /\ setting = TRUE
    /\ mirror = None /\ records = None
    /\ task = Idle
    /\ asked = {} /\ cleared = {} /\ excused = {} /\ quiet = FALSE

-----------------------------------------------------------------------------
(* dtc_database.c: one call, under the lock. *)

\* records_forget
Forget(d) == [w \in Which |-> IF record[w] = d THEN None ELSE record[w]]

\* records_note_transition
Noted(d, bits) ==
    [w \in Which |->
        IF w[2] \in bits \ status[d] /\ (w[1] = "recent" \/ record[w] = None)
        THEN d ELSE record[w]]

\* dtc_database_set_status, called by the monitor; refused while 0x85 has turned
\* the setting off.
SetStatus(d, bits) ==
    /\ setting
    /\ record' = Noted(d, bits)
    /\ status' = [status EXCEPT ![d] = bits]
    /\ asked' = IF bits \subseteq status[d] THEN asked ELSE asked \ {d}
    /\ cleared' = IF bits \subseteq status[d] THEN cleared ELSE cleared \ {d}
    /\ excused' = IF bits = {} THEN excused \cup {d} ELSE excused
    /\ quiet' = FALSE
    /\ UNCHANGED <<permanent, setting, nvm, task>>

\* dtc_database_set_permanent, called by the application.
SetPermanent(d) ==
    /\ permanent' = (permanent \cup {d}) \ (permanent \cap {d})
    /\ UNCHANGED <<status, record, setting, nvm, task, history>>

\* uds_comm_control: 0x85 off or on, and back to on.
SetSetting ==
    /\ task.at = "idle"
    /\ setting' = ~setting
    /\ UNCHANGED <<status, record, permanent, nvm, task, history>>

\* What dtc_database_clear_non_permanent clears.
\* Mutant of ClearedByAll: clear_all, which the permanent ones do not survive.
ClearedByAllEvenPermanent == Dtcs

ClearedByAll == Dtcs \ permanent

-----------------------------------------------------------------------------
(* 0x14 and the reset, in the diagnostic task. *)

Begin(what) == task' = [Idle EXCEPT !.at = "serialise", !.what = what]

ClearAll ==
    /\ task.at = "idle"
    /\ status' = [d \in Dtcs |-> IF d \in ClearedByAll THEN {} ELSE status[d]]
    /\ record' = NoRecord
    /\ Begin("clear")
    /\ asked' = Dtcs \ permanent
    /\ excused' = excused \cup (Dtcs \ permanent)
    /\ quiet' = TRUE
    /\ UNCHANGED <<permanent, setting, nvm, cleared>>

\* One DTC: is_permanent is read here, without the lock, and the DTC cleared
\* by a call of its own.  A permanent DTC is answered with nothing done.
ClearOneAsked(d) ==
    /\ task.at = "idle" /\ d \notin permanent
    /\ task' = [Idle EXCEPT !.at = "clear", !.what = d]
    /\ asked' = {d}
    /\ excused' = excused \cup {d}
    /\ UNCHANGED <<ram, nvm, cleared, quiet>>

\* dtc_database_clear_one; a status the monitor reported before it is cleared too.
ClearOne ==
    LET d == task.what IN
    /\ task.at = "clear"
    /\ status' = [status EXCEPT ![d] = {}]
    /\ record' = Forget(d)
    /\ Begin("clear")
    /\ asked' = {d}
    /\ quiet' = TRUE
    /\ UNCHANGED <<permanent, setting, nvm, cleared, excused>>

\* 0x11: zephyr_port_nvm_flush before the reset.
Reset ==
    /\ task.at = "idle"
    /\ Begin("reset")
    /\ quiet' = TRUE
    /\ UNCHANGED <<ram, nvm, asked, cleared, excused>>

Answered(done) ==
    /\ task' = IF task.what = "reset" THEN [Idle EXCEPT !.at = IF done THEN "saved" ELSE "reset"]
               ELSE Idle
    /\ cleared' = IF done THEN cleared \cup asked ELSE cleared
    /\ asked' = {}

-----------------------------------------------------------------------------
(* dtc_mirror_flush_all: the entries one by one, the mirror, the records   *)
(* one by one, the records' NVM record.                                    *)

\* Mutant of Entries: the loop stops one entry early.
EntriesShort == IF Len(Table) < PersistMax THEN Len(Table) ELSE PersistMax - 1

Entries == IF Len(Table) <= PersistMax THEN Len(Table) ELSE PersistMax

SerialiseEntry ==
    /\ task.at = "serialise" /\ task.next <= Entries
    /\ LET d == Table[task.next] IN
        task' = [task EXCEPT !.image[d] = status[d], !.next = task.next + 1]
    /\ UNCHANGED <<ram, nvm, history>>

MirrorWritten ==
    /\ task.at = "serialise" /\ task.next > Entries
    /\ mirror' = [d \in Saved |-> task.image[d]]
    /\ task' = [task EXCEPT !.at = "records", !.next = 1, !.image = Clean]
    /\ excused' = {d \in excused : status[d] = {}}
    /\ UNCHANGED <<ram, records, asked, cleared, quiet>>

\* Mutant of MirrorNotWritten: the failure is not answered.
MirrorWriteIgnored ==
    /\ task.at = "serialise" /\ task.next > Entries
    /\ Answered(TRUE)
    /\ UNCHANGED <<ram, nvm, excused, quiet>>

\* The write fails: the records are not written either.
MirrorNotWritten ==
    /\ task.at = "serialise" /\ task.next > Entries
    /\ Answered(FALSE)
    /\ UNCHANGED <<ram, nvm, excused, quiet>>

SerialiseRecord ==
    /\ task.at = "records" /\ task.next <= Len(RecordOrder)
    /\ LET w == RecordOrder[task.next] IN
        task' = [task EXCEPT !.copy[w] = record[w], !.next = task.next + 1]
    /\ UNCHANGED <<ram, nvm, history>>

RecordsWritten ==
    /\ task.at = "records" /\ task.next > Len(RecordOrder)
    /\ records' = task.copy
    /\ Answered(TRUE)
    /\ UNCHANGED <<ram, mirror, excused, quiet>>

RecordsNotWritten ==
    /\ task.at = "records" /\ task.next > Len(RecordOrder)
    /\ Answered(FALSE)
    /\ UNCHANGED <<ram, nvm, excused, quiet>>

-----------------------------------------------------------------------------
(* Boot: dtc_database_init, the registrations, dtc_mirror_load.            *)

\* The mirror is read and whole, or not and the table stays clean; the records
\* are looked at only after a whole mirror.
Boot(mirrorRead, recordsRead) ==
    /\ status' = [d \in Dtcs |-> IF mirrorRead /\ mirror # None /\ d \in Saved
                                  THEN mirror[d] ELSE {}]
    /\ record' = IF mirrorRead /\ recordsRead /\ mirror # None /\ records # None
                  THEN records ELSE NoRecord
    /\ permanent' = {} /\ setting' = TRUE
    /\ task' = Idle
    /\ asked' = {} /\ quiet' = FALSE
    /\ excused' = IF mirrorRead THEN excused ELSE Dtcs
    /\ UNCHANGED <<nvm, cleared>>

\* The reset comes, or the power is lost, at any step.
Reboot == \E mirrorRead, recordsRead \in BOOLEAN : Boot(mirrorRead, recordsRead)

-----------------------------------------------------------------------------
Next ==
    \/ \E d \in Dtcs, bits \in SUBSET Bits : SetStatus(d, bits)
    \/ \E d \in Dtcs : SetPermanent(d) \/ ClearOneAsked(d)
    \/ SetSetting
    \/ ClearAll \/ ClearOne \/ Reset
    \/ SerialiseEntry \/ MirrorWritten \/ MirrorNotWritten
    \/ SerialiseRecord \/ RecordsWritten \/ RecordsNotWritten
    \/ Reboot

Spec == Init /\ [][Next]_vars

-----------------------------------------------------------------------------
(* Properties. *)

\* Types.
TypeOK ==
    /\ status \in Statuses /\ record \in Records
    /\ permanent \subseteq Dtcs /\ setting \in BOOLEAN
    /\ mirror \in [Saved -> SUBSET Bits] \cup {None}
    /\ records \in Records \cup {None}
    /\ task \in [at : {"idle", "clear", "serialise", "records", "saved", "reset"},
                 what : Dtcs \cup {"clear", "reset", None}, next : Nat \ {0},
                 image : Statuses, copy : Records]
    /\ asked \subseteq Dtcs /\ cleared \subseteq Dtcs /\ excused \subseteq Dtcs
    /\ quiet \in BOOLEAN

\* A DTC whose clear was answered positively, and that no monitor has reported
\* since, stays cleared: in the table, in the mirror and in the records, whatever
\* writes failed before or fail later and wherever the power is lost.
ClearIsDurable ==
    \A d \in cleared :
        /\ status[d] = {}
        /\ mirror # None /\ d \in Saved => mirror[d] = {}
        /\ \A w \in Which : record[w] # d /\ (records # None => records[w] # d)

\* A fault leaves the mirror only because the monitor reported it gone, because
\* it was not permanent when 0x14 came, or because a boot could not read the
\* mirror; never because 0x14 cleared a permanent DTC.
PermanentSurvives ==
    [][\A d \in Saved :
        mirror # None /\ mirror[d] # {} /\ mirror'[d] = {} => d \in excused]_vars

\* What a flush before a reset wrote without a report in between is what the
\* table and the records show after the reset, if the boot can read it.
ResetKeeps ==
    [][task.at = "saved" /\ quiet /\ Boot(TRUE, TRUE)
        => record' = record /\ \A d \in Saved : status'[d] = status[d]]_vars

=============================================================================
