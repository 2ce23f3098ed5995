------------------------- MODULE AttachmentInventory -------------------------
(***************************************************************************)
(* The attachments of one capture: the objects copied below the store, the *)
(* ledger that records them, its seal, and the receipt both must agree     *)
(* with (record_persisted_attachment_save and                              *)
(* seal_persisted_attachment_inventory of capture/service.py, the          *)
(* attachment ledger of capture/store.py, the attachment half of           *)
(* _reconcile_persisted_capture in cli.py).                                *)
(*                                                                         *)
(* All writers hold the capture's lock.  A save links the object, replaces *)
(* the ledger and then deletes the receipt; its process may die, or a      *)
(* write may raise, in between.  Message ledger and coverage are           *)
(* CaptureEvidence's: here they are a number that changes when one does.   *)
(***************************************************************************)
EXTENDS SequencesExt

CONSTANTS
    Row,           \* observed rows: window, index, message and hash
    Attachment,    \* attachment ids
    Ref,           \* names of managed objects
    Content,       \* what an object may hold
    Nothing,       \* no object, seal, receipt or operation
    MaxEvidence,   \* bound: changes of the message ledger or the coverage
    MaxLost        \* bound: objects that vanish from the disk

\* A record of the attachment ledger, its seal, and what a receipt is bound to:
\* the code keeps digests of the two files.
Record == [attachment : Attachment, ref : Ref, content : Content]
Seal == [evidence : Nat, records : Seq(Record)]
Bound == [evidence : Nat, records : Seq(Record), seal : Seal \cup {Nothing}]

ASSUME InventoryBoundsAssumption == MaxEvidence \in Nat /\ MaxLost \in Nat
ASSUME NothingAssumption ==
    Nothing \notin Content /\ Nothing \notin Seal /\ Nothing \notin Bound

VARIABLES
    attachmentsOf, \* the attachment ids the event of each row lists
    evidence,      \* version of message ledger and coverage
    objects,       \* content of each managed object
    records,       \* records of the attachment ledger
    seal,          \* seal of the attachment ledger
    receipt,       \* what the receipt on disk is bound to
    op,            \* the operation that holds the lock
    lost           \* history: objects that vanished

vars == <<attachmentsOf, evidence, objects, records, seal, receipt, op, lost>>

Init ==
    /\ attachmentsOf = [row \in Row |-> Nothing]
    /\ evidence = 0 /\ records = <<>> /\ seal = Nothing
    /\ objects = [ref \in Ref |-> Nothing]
    /\ receipt = Nothing /\ op = Nothing /\ lost = {}

Observed == {row \in Row : attachmentsOf[row] # Nothing}

Discovered == UNION {attachmentsOf[row] : row \in Observed}

Recorded == {rec.attachment : rec \in ToSet(records)}

\* _verify_managed_record of every record.
ObjectsVerify == \A rec \in ToSet(records) : objects[rec.ref] = rec.content

\* Mutant of Binding: the seal is not bound.
BindingWithoutSeal == [evidence |-> evidence, records |-> records]

Binding == [evidence |-> evidence, records |-> records, seal |-> seal]

CurrentSeal == [evidence |-> evidence, records |-> records]

------------------------------------------------------------------------------
(***************************************************************************)
(* Evidence                                                                *)
(***************************************************************************)

\* Mutant of Observe: the receipt is left where it is.
ObserveKeepingReceipt(row, ids) ==
    /\ op = Nothing /\ evidence < MaxEvidence
    /\ attachmentsOf' = IF row \in Observed THEN attachmentsOf
                        ELSE [attachmentsOf EXCEPT ![row] = ids]
    /\ evidence' = evidence + 1
    /\ UNCHANGED <<objects, records, seal, receipt, op, lost>>

\* A merge of a window.  A row that is in the ledger keeps the attachment ids it
\* was first seen with; the coverage may still lack its window, because the merge
\* that saved the ledger died.  The receipt is deleted in any case.
Observe(row, ids) ==
    /\ op = Nothing /\ evidence < MaxEvidence
    /\ \/ /\ row \notin Observed
          /\ attachmentsOf' = [attachmentsOf EXCEPT ![row] = ids]
          /\ evidence' = evidence + 1
       \/ /\ row \in Observed
          /\ evidence' \in {evidence, evidence + 1}
          /\ UNCHANGED attachmentsOf
    /\ receipt' = Nothing
    /\ UNCHANGED <<objects, records, seal, op, lost>>

\* An event is advanced on the capture's checkpoint.
AdvanceCheckpoint ==
    /\ op = Nothing
    /\ receipt' = Nothing
    /\ UNCHANGED <<attachmentsOf, evidence, objects, records, seal, op, lost>>

\* Somebody removes an object behind the program's back.
LoseObject(ref) ==
    /\ objects[ref] # Nothing /\ Cardinality(lost) < MaxLost
    /\ objects' = [objects EXCEPT ![ref] = Nothing]
    /\ lost' = lost \cup {ref}
    /\ UNCHANGED <<attachmentsOf, evidence, records, seal, receipt, op>>

------------------------------------------------------------------------------
(***************************************************************************)
(* Saving an attachment.  A save that repeats a record changes nothing; a  *)
(* caller with a stale record count is refused.                            *)
(***************************************************************************)

\* Mutant of Saveable: an object that is there already is taken as it is.
SaveableAsIs(attachment, ref, content) ==
    /\ attachment \in Discovered \ Recorded
    /\ \A rec \in ToSet(records) : rec.ref # ref
    /\ seal = Nothing

\* Mutant of Saveable: two records may name one object.
SaveableShared(attachment, ref, content) ==
    /\ attachment \in Discovered \ Recorded
    /\ seal = Nothing
    /\ objects[ref] \in {Nothing, content}

\* Mutant of Saveable: the seal is not looked at.
SaveableSealed(attachment, ref, content) ==
    /\ attachment \in Discovered \ Recorded
    /\ \A rec \in ToSet(records) : rec.ref # ref
    /\ objects[ref] \in {Nothing, content}

\* The checks of record_persisted_attachment_save.  An object that no record
\* names is left over from a save that died; it is adopted if it is the same.
Saveable(attachment, ref, content) ==
    /\ attachment \in Discovered \ Recorded
    /\ \A rec \in ToSet(records) : rec.ref # ref
    /\ seal = Nothing
    /\ objects[ref] \in {Nothing, content}

\* The object is linked into place, once it is complete, if it is not there.
LinkObject(attachment, ref, content) ==
    /\ op = Nothing
    /\ Saveable(attachment, ref, content)
    /\ objects' = [objects EXCEPT ![ref] = IF @ = Nothing THEN content ELSE @]
    /\ op' = [step |-> "save_ledger",
              record |-> [attachment |-> attachment, ref |-> ref,
                          content |-> content]]
    /\ UNCHANGED <<attachmentsOf, evidence, records, seal, receipt, lost>>

Saving == op # Nothing /\ op.step = "save_ledger"

\* save_attachment_save_ledger replaces the file, then deletes the receipt.
\* When something raises after the file is replaced, the caller finds its record
\* in the ledger, checks the object and reports success; the receipt stays.
SaveRecord ==
    /\ Saving
    /\ records' = Append(records, op.record)
    /\ \/ op' = [step |-> "drop_receipt"]
       \/ objects[op.record.ref] = op.record.content /\ op' = Nothing
    /\ UNCHANGED <<attachmentsOf, evidence, objects, seal, receipt, lost>>

\* The file could not be replaced: the object is removed again.
RollBackSave ==
    /\ Saving
    /\ objects' = [objects EXCEPT ![op.record.ref] = Nothing]
    /\ op' = Nothing
    /\ UNCHANGED <<attachmentsOf, evidence, records, seal, receipt, lost>>

DropReceipt ==
    /\ op # Nothing /\ op.step = "drop_receipt"
    /\ receipt' = Nothing /\ op' = Nothing
    /\ UNCHANGED <<attachmentsOf, evidence, objects, records, seal, lost>>

\* The process dies, or an exception ends the operation as it stands.
OperationDies ==
    /\ op # Nothing
    /\ op' = Nothing
    /\ UNCHANGED <<attachmentsOf, evidence, objects, records, seal, receipt, lost>>

------------------------------------------------------------------------------
(***************************************************************************)
(* Sealing and reconciling                                                 *)
(***************************************************************************)

\* The durable evidence must exist, and every discovered attachment be saved.
\* The same seal again changes nothing; another one is refused for good.
SealInventory ==
    /\ op = Nothing
    /\ Observed # {}
    /\ ObjectsVerify
    /\ Discovered = Recorded
    /\ seal = Nothing
    /\ seal' = CurrentSeal
    /\ op' = [step |-> "drop_receipt"]
    /\ UNCHANGED <<attachmentsOf, evidence, objects, records, receipt, lost>>

\* Mutant of InventoryComplete: a seal is enough, whatever was sealed.
InventoryOnceComplete ==
    \/ Discovered = {}
    \/ seal # Nothing /\ ObjectsVerify

InventoryComplete ==
    \/ Discovered = {}
    \/ /\ seal = CurrentSeal
       /\ ObjectsVerify
       /\ Discovered = Recorded

\* The rest of the gate is CaptureEvidence's: here it may be satisfied as soon as
\* something was observed.  A receipt that does not load is an error.
Reconcile ==
    /\ op = Nothing
    /\ Observed # {}
    /\ InventoryComplete
    /\ receipt = Nothing
    /\ receipt' = Binding
    /\ UNCHANGED <<attachmentsOf, evidence, objects, records, seal, op, lost>>

Next ==
    \/ \E row \in Row, ids \in SUBSET Attachment : Observe(row, ids)
    \/ AdvanceCheckpoint
    \/ \E ref \in Ref : LoseObject(ref)
    \/ \E attachment \in Attachment, ref \in Ref, content \in Content :
           LinkObject(attachment, ref, content)
    \/ SaveRecord \/ RollBackSave \/ DropReceipt \/ OperationDies
    \/ SealInventory \/ Reconcile

Spec == Init /\ [][Next]_vars

------------------------------------------------------------------------------
(***************************************************************************)
(* Properties                                                              *)
(***************************************************************************)

\* Types of the files and of the operation under way.
TypeOK ==
    /\ attachmentsOf \in [Row -> (SUBSET Attachment) \cup {Nothing}]
    /\ evidence \in Nat
    /\ objects \in [Ref -> Content \cup {Nothing}]
    /\ records \in Seq(Record)
    /\ seal \in Seal \cup {Nothing}
    /\ receipt \in Bound \cup {Nothing}
    /\ op \in [step : {"save_ledger"}, record : Record]
              \cup [step : {"drop_receipt"}] \cup {Nothing}
    /\ lost \subseteq Ref

\* Every record has its object, with the content the record was made for,
\* whatever save died or was rolled back in the meantime: a rollback never takes
\* the object of another record, and no foreign object is adopted.  Only objects
\* that were removed from outside are missing.
RecordsHaveObjects ==
    \A rec \in ToSet(records) :
        objects[rec.ref] = rec.content \/ rec.ref \in lost

\* One record per attachment and one per object, also when saves that died are
\* repeated or given up for others.
OneRecordEach ==
    \A i, j \in DOMAIN records :
        \/ records[i].attachment = records[j].attachment
        \/ records[i].ref = records[j].ref
        => i = j

\* A sealed ledger stays as it is, and its seal too, while evidence moves on.
SealIsFinal == [][seal # Nothing => seal' = seal /\ records' = records]_vars

\* load_full_capture_receipt accepts the receipt.
ReceiptLoads == receipt = Binding /\ ObjectsVerify

\* A receipt that loads covers every attachment of every row that was observed,
\* although rows are observed, and attachments saved, in any order around seal
\* and reconcile.
FullHasEveryAttachment == ReceiptLoads => Discovered \subseteq Recorded

\* There is one way only to a receipt that is on disk and does not match: an
\* inventory without attachments is sealed after the receipt was made, and the
\* process dies before the receipt is deleted.  Saving attachments never leads to
\* one, although it deletes the receipt last (save_attachment_save_ledger).
StaleOnlyByEmptySeal ==
    (receipt # Nothing /\ receipt # Binding) =>
        /\ Discovered = {} /\ records = <<>>
        /\ receipt.seal = Nothing /\ seal # Nothing
==============================================================================
