---------------------- MODULE AttachmentInventoryProofs ----------------------
(***************************************************************************)
(* Proofs about AttachmentInventory, for every set of rows, attachments,   *)
(* objects and contents and every bound.                                   *)
(***************************************************************************)
EXTENDS AttachmentInventory, TLAPS

(***************************************************************************)
(* Records as a sequence and as a set.                                     *)
(***************************************************************************)

\* Appending a record adds it to the set of records, and nothing else.
LEMMA ToSetOfAppend ==
    ASSUME NEW S, NEW s \in Seq(S), NEW x \in S
    PROVE  /\ Append(s, x) \in Seq(S)
           /\ ToSet(Append(s, x)) = ToSet(s) \cup {x}
<1>1. /\ Append(s, x) \in Seq(S) /\ Len(s) \in Nat
      /\ DOMAIN s = 1 .. Len(s)
      /\ DOMAIN Append(s, x) = 1 .. (Len(s) + 1)
      /\ \A i \in 1 .. Len(s) : Append(s, x)[i] = s[i]
      /\ Append(s, x)[Len(s) + 1] = x
  OBVIOUS
<1>2. 1 .. (Len(s) + 1) = (1 .. Len(s)) \cup {Len(s) + 1}
  BY <1>1
<1>3. ASSUME NEW y PROVE y \in ToSet(Append(s, x)) <=> y \in ToSet(s) \cup {x}
  BY <1>1, <1>2 DEF ToSet
<1> QED BY <1>1, <1>3

\* A sequence of records holds records.
LEMMA ToSetTyped ==
    ASSUME NEW S, NEW s \in Seq(S)
    PROVE  ToSet(s) \subseteq S
BY DEF ToSet

\* Only the empty ledger records nothing.
LEMMA NoRecords ==
    ASSUME NEW S, NEW s \in Seq(S), ToSet(s) = {}
    PROVE  s = <<>>
<1>1. Len(s) \in Nat /\ DOMAIN s = 1 .. Len(s)
  OBVIOUS
<1>2. Len(s) = 0
  <2>1. SUFFICES ASSUME Len(s) # 0 PROVE FALSE
    OBVIOUS
  <2>2. 1 \in DOMAIN s
    BY <1>1, <2>1
  <2>3. s[1] \in ToSet(s)
    BY <2>2 DEF ToSet
  <2> QED BY <2>3
<1> QED BY <1>2

------------------------------------------------------------------------------
(***************************************************************************)
(* Types                                                                   *)
(***************************************************************************)

\* A save under way carries a record.
LEMMA SavingCarriesRecord ==
    ASSUME TypeOK, Saving
    PROVE  op.record \in Record
BY DEF TypeOK, Saving

\* The types of the files hold in every state (record_persisted_attachment_save,
\* seal_persisted_attachment_inventory).
THEOREM InventoryTypeCorrect == Spec => []TypeOK
<1>1. Init => TypeOK
  BY InventoryBoundsAssumption DEF Init, TypeOK
<1>2. TypeOK /\ [Next]_vars => TypeOK'
  <2> SUFFICES ASSUME TypeOK, [Next]_vars PROVE TypeOK'
    OBVIOUS
  <2>1. ASSUME NEW row \in Row, NEW ids \in SUBSET Attachment, Observe(row, ids)
        PROVE TypeOK'
    <3>1. evidence' \in Nat
      BY <2>1 DEF Observe, TypeOK
    <3>2. attachmentsOf' \in [Row -> (SUBSET Attachment) \cup {Nothing}]
      BY <2>1 DEF Observe, TypeOK
    <3> QED BY <2>1, <3>1, <3>2 DEF Observe, TypeOK
  <2>2. CASE AdvanceCheckpoint
    BY <2>2 DEF AdvanceCheckpoint, TypeOK
  <2>3. ASSUME NEW ref \in Ref, LoseObject(ref) PROVE TypeOK'
    BY <2>3 DEF LoseObject, TypeOK
  <2>4. ASSUME NEW attachment \in Attachment, NEW ref \in Ref,
               NEW content \in Content, LinkObject(attachment, ref, content)
        PROVE TypeOK'
    <3>1. objects' \in [Ref -> Content \cup {Nothing}]
      BY <2>4 DEF LinkObject, TypeOK
    <3>2. op' \in [step : {"save_ledger"}, record : Record]
      BY <2>4 DEF LinkObject, Record
    <3> QED BY <2>4, <3>1, <3>2 DEF LinkObject, TypeOK
  <2>5. CASE SaveRecord
    <3>1. op.record \in Record
      BY <2>5, SavingCarriesRecord DEF SaveRecord
    <3>2. records' \in Seq(Record)
      BY <2>5, <3>1, ToSetOfAppend DEF SaveRecord, TypeOK
    <3>3. op' \in [step : {"drop_receipt"}] \cup {Nothing}
      BY <2>5 DEF SaveRecord
    <3> QED BY <2>5, <3>2, <3>3 DEF SaveRecord, TypeOK
  <2>6. CASE RollBackSave
    BY <2>6 DEF RollBackSave, TypeOK
  <2>7. CASE DropReceipt
    BY <2>7 DEF DropReceipt, TypeOK
  <2>8. CASE OperationDies
    BY <2>8 DEF OperationDies, TypeOK
  <2>9. CASE SealInventory
    BY <2>9 DEF SealInventory, CurrentSeal, Seal, TypeOK
  <2>10. CASE Reconcile
    BY <2>10 DEF Reconcile, Binding, Bound, TypeOK
  <2>11. CASE UNCHANGED vars
    BY <2>11 DEF vars, TypeOK
  <2> QED BY <2>1, <2>2, <2>3, <2>4, <2>5, <2>6, <2>7, <2>8, <2>9, <2>10, <2>11
             DEF Next
<1> QED BY <1>1, <1>2, PTL DEF Spec

------------------------------------------------------------------------------
(***************************************************************************)
(* Records and objects.                                                    *)
(*                                                                         *)
(* Between the link of an object and the save of its record the object     *)
(* belongs to nobody in the ledger: what Saveable checked is still true    *)
(* when the record is appended or the object is removed again, because     *)
(* the lock keeps other savers out.                                        *)
(***************************************************************************)
SavingIsFresh ==
    Saving =>
        /\ seal = Nothing
        /\ \A rec \in ToSet(records) :
               rec.attachment # op.record.attachment /\ rec.ref # op.record.ref
        /\ \/ objects[op.record.ref] = op.record.content
           \/ op.record.ref \in lost

\* SavingIsFresh holds in every state (the checks at service.py's save).
LEMMA SavingIsFreshInvariant == Spec => []SavingIsFresh
<1>1. Init => SavingIsFresh
  BY DEF Init, SavingIsFresh, Saving
<1>2. TypeOK /\ SavingIsFresh /\ [Next]_vars => SavingIsFresh'
  <2> SUFFICES ASSUME TypeOK, SavingIsFresh, [Next]_vars PROVE SavingIsFresh'
    OBVIOUS
  <2>1. ASSUME NEW row \in Row, NEW ids \in SUBSET Attachment, Observe(row, ids)
        PROVE SavingIsFresh'
    BY <2>1 DEF Observe, SavingIsFresh, Saving
  <2>2. CASE AdvanceCheckpoint
    BY <2>2 DEF AdvanceCheckpoint, SavingIsFresh, Saving
  <2>3. ASSUME NEW ref \in Ref, LoseObject(ref) PROVE SavingIsFresh'
    <3> SUFFICES ASSUME Saving PROVE SavingIsFresh'
      BY <2>3 DEF LoseObject, SavingIsFresh, Saving
    <3>1. op.record.ref \in Ref
      BY SavingCarriesRecord DEF Record
    <3> QED BY <2>3, <3>1 DEF LoseObject, SavingIsFresh, Saving, TypeOK
  <2>4. ASSUME NEW attachment \in Attachment, NEW ref \in Ref,
               NEW content \in Content, LinkObject(attachment, ref, content)
        PROVE SavingIsFresh'
    <3>1. /\ op'.record.attachment = attachment /\ op'.record.ref = ref
          /\ op'.record.content = content
      BY <2>4 DEF LinkObject
    <3>2. objects'[ref] = content
      BY <2>4 DEF LinkObject, Saveable, TypeOK
    <3>3. \A rec \in ToSet(records) : rec.attachment # attachment /\ rec.ref # ref
      BY <2>4 DEF LinkObject, Saveable, Recorded
    <3> QED BY <2>4, <3>1, <3>2, <3>3 DEF LinkObject, Saveable, SavingIsFresh
  <2>5. CASE SaveRecord
    BY <2>5 DEF SaveRecord, SavingIsFresh, Saving
  <2>6. CASE RollBackSave
    BY <2>6 DEF RollBackSave, SavingIsFresh, Saving
  <2>7. CASE DropReceipt
    BY <2>7 DEF DropReceipt, SavingIsFresh, Saving
  <2>8. CASE OperationDies
    BY <2>8 DEF OperationDies, SavingIsFresh, Saving
  <2>9. CASE SealInventory
    BY <2>9 DEF SealInventory, SavingIsFresh, Saving
  <2>10. CASE Reconcile
    BY <2>10 DEF Reconcile, SavingIsFresh, Saving
  <2>11. CASE UNCHANGED vars
    BY <2>11 DEF vars, SavingIsFresh, Saving
  <2> QED BY <2>1, <2>2, <2>3, <2>4, <2>5, <2>6, <2>7, <2>8, <2>9, <2>10, <2>11
             DEF Next
<1> QED BY <1>1, <1>2, InventoryTypeCorrect, PTL DEF Spec

\* Every record has its object, with the content it was recorded for, whatever
\* saves died or were rolled back; only objects removed from outside are missing.
THEOREM RecordsKeepTheirObjects == Spec => []RecordsHaveObjects
<1>1. Init => RecordsHaveObjects
  BY DEF Init, RecordsHaveObjects, ToSet
<1>2. TypeOK /\ SavingIsFresh /\ RecordsHaveObjects /\ [Next]_vars
          => RecordsHaveObjects'
  <2> SUFFICES ASSUME TypeOK, SavingIsFresh, RecordsHaveObjects, [Next]_vars
               PROVE  RecordsHaveObjects'
    OBVIOUS
  <2>0. ToSet(records) \subseteq Record
    BY ToSetTyped DEF TypeOK
  <2>1. ASSUME NEW row \in Row, NEW ids \in SUBSET Attachment, Observe(row, ids)
        PROVE RecordsHaveObjects'
    BY <2>1 DEF Observe, RecordsHaveObjects
  <2>2. CASE AdvanceCheckpoint
    BY <2>2 DEF AdvanceCheckpoint, RecordsHaveObjects
  <2>3. ASSUME NEW ref \in Ref, LoseObject(ref) PROVE RecordsHaveObjects'
    BY <2>3, <2>0 DEF LoseObject, RecordsHaveObjects, TypeOK, Record
  <2>4. ASSUME NEW attachment \in Attachment, NEW ref \in Ref,
               NEW content \in Content, LinkObject(attachment, ref, content)
        PROVE RecordsHaveObjects'
    BY <2>4, <2>0 DEF LinkObject, Saveable, RecordsHaveObjects, TypeOK, Record
  <2>5. CASE SaveRecord
    <3>1. op.record \in Record
      BY <2>5, SavingCarriesRecord DEF SaveRecord
    <3>2. ToSet(records') = ToSet(records) \cup {op.record}
      BY <2>5, <3>1, ToSetOfAppend DEF SaveRecord, TypeOK
    <3> QED BY <2>5, <3>2 DEF SaveRecord, SavingIsFresh, RecordsHaveObjects
  <2>6. CASE RollBackSave
    <3>1. op.record.ref \in Ref
      BY <2>6, SavingCarriesRecord DEF RollBackSave, Record
    <3> QED BY <2>6, <3>1, <2>0
            DEF RollBackSave, SavingIsFresh, RecordsHaveObjects, TypeOK, Record
  <2>7. CASE DropReceipt
    BY <2>7 DEF DropReceipt, RecordsHaveObjects
  <2>8. CASE OperationDies
    BY <2>8 DEF OperationDies, RecordsHaveObjects
  <2>9. CASE SealInventory
    BY <2>9 DEF SealInventory, RecordsHaveObjects
  <2>10. CASE Reconcile
    BY <2>10 DEF Reconcile, RecordsHaveObjects
  <2>11. CASE UNCHANGED vars
    BY <2>11 DEF vars, RecordsHaveObjects
  <2> QED BY <2>1, <2>2, <2>3, <2>4, <2>5, <2>6, <2>7, <2>8, <2>9, <2>10, <2>11
             DEF Next
<1> QED BY <1>1, <1>2, InventoryTypeCorrect, SavingIsFreshInvariant, PTL DEF Spec

\* The records change in one way only: a save appends the one it carries.
LEMMA OnlySavesRecord ==
    ASSUME [Next]_vars
    PROVE  records' = records \/ SaveRecord
BY DEF Next, vars, Observe, AdvanceCheckpoint, LoseObject, LinkObject, RollBackSave,
       DropReceipt, OperationDies, SealInventory, Reconcile

\* No attachment has two records and no object has two, also when saves that died
\* are repeated or given up for others.
THEOREM RecordsAreUnique == Spec => []OneRecordEach
<1>1. Init => OneRecordEach
  BY DEF Init, OneRecordEach
<1>2. TypeOK /\ SavingIsFresh /\ OneRecordEach /\ [Next]_vars => OneRecordEach'
  <2> SUFFICES ASSUME TypeOK, SavingIsFresh, OneRecordEach, SaveRecord
               PROVE  OneRecordEach'
    BY OnlySavesRecord DEF OneRecordEach
  <2>1. /\ records \in Seq(Record) /\ op.record \in Record
        /\ records' = Append(records, op.record)
    BY SavingCarriesRecord DEF SaveRecord, TypeOK
  <2>2. /\ Len(records) \in Nat /\ DOMAIN records = 1 .. Len(records)
        /\ DOMAIN records' = 1 .. (Len(records) + 1)
        /\ \A i \in 1 .. Len(records) : records'[i] = records[i]
        /\ records'[Len(records) + 1] = op.record
    BY <2>1
  <2>3. \A i \in 1 .. Len(records) :
            /\ records[i].attachment # op.record.attachment
            /\ records[i].ref # op.record.ref
    BY <2>2 DEF SaveRecord, SavingIsFresh, ToSet
  <2>4. SUFFICES ASSUME NEW i \in DOMAIN records', NEW j \in DOMAIN records',
                        \/ records'[i].attachment = records'[j].attachment
                        \/ records'[i].ref = records'[j].ref
                 PROVE  i = j
    BY DEF OneRecordEach
  <2>5. CASE i \in 1 .. Len(records) /\ j \in 1 .. Len(records)
    BY <2>2, <2>4, <2>5 DEF OneRecordEach
  <2>6. CASE i = Len(records) + 1 /\ j = Len(records) + 1
    BY <2>6
  <2>7. CASE i \in 1 .. Len(records) /\ j = Len(records) + 1
    BY <2>2, <2>3, <2>4, <2>7
  <2>8. CASE i = Len(records) + 1 /\ j \in 1 .. Len(records)
    BY <2>2, <2>3, <2>4, <2>8
  <2> QED BY <2>2, <2>5, <2>6, <2>7, <2>8
<1> QED BY <1>1, <1>2, InventoryTypeCorrect, SavingIsFreshInvariant, PTL DEF Spec

\* Once the inventory is sealed, neither the seal nor the records change.
THEOREM SealsAreFinal == Spec => SealIsFinal
<1>1. SavingIsFresh /\ [Next]_vars
          => [seal # Nothing => seal' = seal /\ records' = records]_vars
  <2> SUFFICES ASSUME SavingIsFresh, [Next]_vars, seal # Nothing
               PROVE  seal' = seal /\ records' = records
    OBVIOUS
  <2>1. ~Saving
    BY DEF SavingIsFresh
  <2>2. records' = records
    BY <2>1, OnlySavesRecord DEF SaveRecord
  <2>3. seal' = seal
    BY DEF Next, vars, Observe, AdvanceCheckpoint, LoseObject, LinkObject, SaveRecord,
           RollBackSave, DropReceipt, OperationDies, SealInventory, Reconcile
  <2> QED BY <2>2, <2>3
<1> QED BY <1>1, SavingIsFreshInvariant, PTL DEF Spec, SealIsFinal

------------------------------------------------------------------------------
(***************************************************************************)
(* The receipt.                                                            *)
(*                                                                         *)
(* Every step that could add an attachment to what was observed deletes    *)
(* the receipt, so while there is one everything is recorded; and then     *)
(* there is nothing to save, so no save is under way next to a receipt.    *)
(* A receipt without a seal was made of rows without attachments.          *)
(***************************************************************************)
ReceiptCovers ==
    receipt # Nothing =>
        /\ Discovered \subseteq Recorded
        /\ Discovered = {} \/ receipt.seal # Nothing
        /\ ~Saving

\* ReceiptCovers holds in every state (reconcile, and who deletes the receipt).
LEMMA ReceiptCoversInvariant == Spec => []ReceiptCovers
<1>1. Init => ReceiptCovers
  BY DEF Init, ReceiptCovers
<1>2. TypeOK /\ ReceiptCovers /\ [Next]_vars => ReceiptCovers'
  <2> SUFFICES ASSUME TypeOK, ReceiptCovers, [Next]_vars PROVE ReceiptCovers'
    OBVIOUS
  <2> USE DEF Discovered, Observed, Recorded
  <2>1. ASSUME NEW row \in Row, NEW ids \in SUBSET Attachment, Observe(row, ids)
        PROVE ReceiptCovers'
    BY <2>1 DEF Observe, ReceiptCovers
  <2>2. CASE AdvanceCheckpoint
    BY <2>2 DEF AdvanceCheckpoint, ReceiptCovers
  <2>3. ASSUME NEW ref \in Ref, LoseObject(ref) PROVE ReceiptCovers'
    BY <2>3 DEF LoseObject, ReceiptCovers, Saving
  <2>4. ASSUME NEW attachment \in Attachment, NEW ref \in Ref,
               NEW content \in Content, LinkObject(attachment, ref, content)
        PROVE ReceiptCovers'
    <3>1. receipt = Nothing
      BY <2>4 DEF LinkObject, Saveable, ReceiptCovers
    <3> QED BY <2>4, <3>1 DEF LinkObject, ReceiptCovers
  <2>5. CASE SaveRecord
    BY <2>5 DEF SaveRecord, ReceiptCovers
  <2>6. CASE RollBackSave
    BY <2>6 DEF RollBackSave, ReceiptCovers
  <2>7. CASE DropReceipt
    BY <2>7 DEF DropReceipt, ReceiptCovers
  <2>8. CASE OperationDies
    BY <2>8 DEF OperationDies, ReceiptCovers, Saving
  <2>9. CASE SealInventory
    BY <2>9 DEF SealInventory, ReceiptCovers, Saving
  <2>10. CASE Reconcile
    <3>1. Discovered = {} \/ (Discovered = Recorded /\ seal = CurrentSeal)
      BY <2>10 DEF Reconcile, InventoryComplete
    <3>2. CurrentSeal \in Seal /\ Binding.seal = seal
      BY DEF TypeOK, CurrentSeal, Seal, Binding
    <3>3. Discovered = {} \/ Binding.seal # Nothing
      BY <3>1, <3>2, NothingAssumption
    <3> QED BY <2>10, <3>1, <3>3 DEF Reconcile, ReceiptCovers, Saving
  <2>11. CASE UNCHANGED vars
    BY <2>11 DEF vars, ReceiptCovers, Saving
  <2> QED BY <2>1, <2>2, <2>3, <2>4, <2>5, <2>6, <2>7, <2>8, <2>9, <2>10, <2>11
             DEF Next
<1> QED BY <1>1, <1>2, InventoryTypeCorrect, PTL DEF Spec

\* A receipt that loads covers every attachment of every row that was observed.
THEOREM FullCoversAttachments == Spec => []FullHasEveryAttachment
<1>1. TypeOK => Binding # Nothing
  BY NothingAssumption DEF Binding, Bound, TypeOK
<1>2. TypeOK /\ ReceiptCovers => FullHasEveryAttachment
  BY <1>1 DEF ReceiptCovers, FullHasEveryAttachment, ReceiptLoads
<1> QED BY <1>2, InventoryTypeCorrect, ReceiptCoversInvariant, PTL

(***************************************************************************)
(* The stale receipt.                                                      *)
(***************************************************************************)

\* The one way to a receipt that is on disk and does not match: an inventory
\* without attachments is sealed after the receipt was made, and the process dies
\* before the receipt is deleted.
THEOREM OnlyEmptySealsLeaveStale == Spec => []StaleOnlyByEmptySeal
<1>1. Init => StaleOnlyByEmptySeal
  BY DEF Init, StaleOnlyByEmptySeal
<1>2. TypeOK /\ ReceiptCovers /\ StaleOnlyByEmptySeal /\ [Next]_vars
          => StaleOnlyByEmptySeal'
  <2> SUFFICES ASSUME TypeOK, ReceiptCovers, StaleOnlyByEmptySeal, [Next]_vars
               PROVE  StaleOnlyByEmptySeal'
    OBVIOUS
  <2> USE DEF Discovered, Observed
  <2>1. ASSUME NEW row \in Row, NEW ids \in SUBSET Attachment, Observe(row, ids)
        PROVE StaleOnlyByEmptySeal'
    BY <2>1 DEF Observe, StaleOnlyByEmptySeal
  <2>2. CASE AdvanceCheckpoint
    BY <2>2 DEF AdvanceCheckpoint, StaleOnlyByEmptySeal
  <2>3. ASSUME NEW ref \in Ref, LoseObject(ref) PROVE StaleOnlyByEmptySeal'
    BY <2>3 DEF LoseObject, StaleOnlyByEmptySeal, Binding
  <2>4. ASSUME NEW attachment \in Attachment, NEW ref \in Ref,
               NEW content \in Content, LinkObject(attachment, ref, content)
        PROVE StaleOnlyByEmptySeal'
    BY <2>4 DEF LinkObject, StaleOnlyByEmptySeal, Binding
  <2>5. CASE SaveRecord
    BY <2>5 DEF SaveRecord, ReceiptCovers, StaleOnlyByEmptySeal
  <2>6. CASE RollBackSave
    BY <2>6 DEF RollBackSave, StaleOnlyByEmptySeal, Binding
  <2>7. CASE DropReceipt
    BY <2>7 DEF DropReceipt, StaleOnlyByEmptySeal
  <2>8. CASE OperationDies
    BY <2>8 DEF OperationDies, StaleOnlyByEmptySeal, Binding
  <2>9. CASE SealInventory
    <3> SUFFICES ASSUME receipt # Nothing PROVE StaleOnlyByEmptySeal'
      BY <2>9 DEF SealInventory, StaleOnlyByEmptySeal
    <3>1. receipt = Binding /\ receipt.seal = Nothing
      BY <2>9 DEF SealInventory, StaleOnlyByEmptySeal, Binding
    <3>2. Discovered = {} /\ Recorded = {}
      BY <2>9, <3>1 DEF SealInventory, ReceiptCovers
    <3>3. records = <<>>
      <4>1. ToSet(records) = {}
        BY <3>2 DEF Recorded
      <4>2. records \in Seq(Record)
        BY DEF TypeOK
      <4> QED BY <4>1, <4>2, NoRecords
    <3>4. seal' # Nothing
      BY <2>9, NothingAssumption DEF SealInventory, CurrentSeal, Seal, TypeOK
    <3> QED BY <2>9, <3>1, <3>2, <3>3, <3>4 DEF SealInventory, StaleOnlyByEmptySeal
  <2>10. CASE Reconcile
    BY <2>10 DEF Reconcile, StaleOnlyByEmptySeal, Binding
  <2>11. CASE UNCHANGED vars
    BY <2>11 DEF vars, StaleOnlyByEmptySeal, Binding
  <2> QED BY <2>1, <2>2, <2>3, <2>4, <2>5, <2>6, <2>7, <2>8, <2>9, <2>10, <2>11
             DEF Next
<1> QED BY <1>1, <1>2, InventoryTypeCorrect, ReceiptCoversInvariant, PTL DEF Spec
==============================================================================
