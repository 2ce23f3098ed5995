------------------------- MODULE DurableCaptureProofs -------------------------
(***************************************************************************)
(* Proofs about DurableCapture, for any number of processes, every set of  *)
(* routes and events and every bound.                                      *)
(***************************************************************************)
EXTENDS DurableCapture, FiniteSetTheorems, TLAPS

(***************************************************************************)
(* What advancing a run keeps.  These lemmas are about the operators of    *)
(* CaptureLoop; CaptureRunProofs proves them of the same operators in the  *)
(* module with the other variables.                                        *)
(***************************************************************************)

\* Every event names a known type and a known approval action, if any.
LEMMA EventFields ==
    ASSUME NEW ev \in Event
    PROVE  /\ ev.type \in EventType
           /\ ev.action \in ApprovalAction \cup {None}
BY DEF Event

\* A stage or gate event that is accepted leads to a state of the machine.
LEMMA NextStageTyped ==
    ASSUME NEW r \in Run, NEW ev \in Event
    PROVE  NextStage(r, ev) \in State \cup {None}
BY DEF NextStage, Transition, State, Stage, TerminalState

\* Checkpointing keeps a run a run.
LEMMA CheckpointedTyped ==
    ASSUME NEW r \in Run, NEW ev \in Event
    PROVE  Checkpointed(r, ev) \in Run
<1> DEFINE v == IF ev.type = "visible_snapshot_saved" THEN "saved" ELSE r.visible
           b == CASE r.state = "full_closed" -> "full"
                  [] r.state = "blocked_closed" -> "blocked"
                  [] OTHER -> r.background
           n == r.seq + 1
<1>0. n \in Nat
  BY DEF Run
<1>1. v \in {"pending", "saved"}
  BY DEF Run
<1>2. b \in {"running", "full", "blocked"}
  BY DEF Run
<1>3. Checkpointed(r, ev)
        = [r EXCEPT !.seq = n, !.visible = v, !.background = b]
  BY DEF Checkpointed, Run
<1> HIDE DEF v, b, n
<1> QED BY <1>0, <1>1, <1>2, <1>3 DEF Run

\* A run that advance_capture_run advances is a run again.
LEMMA AdvanceRunTyped ==
    ASSUME NEW r \in Run, NEW ev \in Event, Accepts(r, ev)
    PROVE  AdvanceCaptureRun(r, ev) \in Run
<1> USE EventFields
<1>2. ASSUME ev.type \in PauseEvent PROVE Pause(r, ev) \in Run
  <2> DEFINE s == IF ev.type = "auth_required" THEN "paused_auth" ELSE "paused_human_approval"
             a == IF ev.type = "human_approval_required" THEN ev.action ELSE None
  <2>1. s \in State
    BY DEF State, WaitingState, PausedState
  <2>2. a \in ApprovalAction \cup {None}
    OBVIOUS
  <2>3. ev.type \in Blocker
    BY <1>2 DEF PauseEvent, Blocker
  <2>4. Pause(r, ev) = [r EXCEPT !.resume = r.state, !.blocker = ev.type,
                                 !.state = s, !.pending = a]
    BY DEF Pause
  <2> HIDE DEF s, a
  <2> QED BY <2>1, <2>2, <2>3, <2>4 DEF Run
<1>3. ASSUME ev.type \in ResolveEvent PROVE ResumeRun(r) \in Run
  BY <1>3 DEF ResumeRun, Run, ResolveEvent, Accepts, Blocker
<1>4. FailRetryably(r) \in Run
  <2>1. /\ "blocked_closed" \in State /\ "retry_wait" \in State
        /\ "retry_budget_exhausted" \in Blocker /\ "retryable_failure" \in Blocker
    BY DEF State, WaitingState, TerminalState, Blocker
  <2> DEFINE n == r.retryUsed + 1
  <2>2. n \in Nat
    BY DEF Run
  <2>3. \/ FailRetryably(r) = [r EXCEPT !.retryUsed = n, !.state = "blocked_closed",
                                        !.blocker = "retry_budget_exhausted"]
        \/ FailRetryably(r) = [r EXCEPT !.retryUsed = n, !.resume = r.state,
                                        !.state = "retry_wait",
                                        !.blocker = "retryable_failure"]
    BY DEF FailRetryably, Run
  <2> HIDE DEF n
  <2> QED BY <2>1, <2>2, <2>3 DEF Run
<1>5. ASSUME ev.type = "retry_due" PROVE RetryRun(r) \in Run
  BY <1>5 DEF RetryRun, Run, Accepts, Blocker
<1>6. ASSUME ev.type \in StageEvent \cup GateEvent PROVE EnterStage(r, ev) \in Run
  <2>1. NextStage(r, ev) \in State
    BY <1>6, NextStageTyped DEF Accepts
  <2>2. "full_capture_gate_blocked" \in Blocker
    BY DEF Blocker
  <2> QED BY <2>1, <2>2 DEF EnterStage, Run
<1> QED BY <1>2, <1>3, <1>4, <1>5, <1>6, CheckpointedTyped
           DEF AdvanceCaptureRun, EventType

\* So is one that advance_capture_loop advances.
LEMMA AdvanceTyped ==
    ASSUME NEW r \in Run, NEW ev \in Event, Accepts(r, ev)
    PROVE  AdvanceCaptureLoop(r, ev) \in Run
<1>1. AdvanceCaptureRun(r, ev) \in Run
  BY AdvanceRunTyped
<1>2. CountPartialGate(r, ev) \in Run
  <2>1. "blocked_closed" \in State /\ "scan_pass_budget_exhausted" \in Blocker
    BY DEF State, TerminalState, Blocker
  <2>2. [AdvanceCaptureRun(r, ev) EXCEPT !.scanUsed = @ + 1] \in Run
    BY <1>1 DEF Run
  <2> DEFINE m == r.scanUsed + 1
             n == r.seq + 1
  <2>3. m \in Nat /\ n \in Nat
    BY DEF Run
  <2>4. [r EXCEPT !.state = "blocked_closed",
                  !.blocker = "scan_pass_budget_exhausted",
                  !.scanUsed = m, !.background = "blocked", !.seq = n] \in Run
    <3> HIDE DEF m, n
    <3> QED BY <2>1, <2>3 DEF Run
  <2> QED BY <2>2, <2>4 DEF CountPartialGate, Run
<1> QED BY <1>1, <1>2 DEF AdvanceCaptureLoop

\* Every accepted event adds one checkpoint.
LEMMA AdvanceCounts ==
    ASSUME NEW r \in Run, NEW ev \in Event, Accepts(r, ev)
    PROVE  AdvanceCaptureLoop(r, ev).seq = r.seq + 1
<1>1. AdvanceCaptureRun(r, ev).seq = r.seq + 1
  <2>1. CASE ev.type \in PauseEvent
    <3>1. AdvanceCaptureRun(r, ev) = Checkpointed(Pause(r, ev), ev)
      BY <2>1 DEF AdvanceCaptureRun, PauseEvent, ResolveEvent
    <3> QED BY <3>1 DEF Pause, Checkpointed, Run
  <2>2. CASE ev.type \in ResolveEvent
    BY <2>2 DEF AdvanceCaptureRun, ResumeRun, Checkpointed, PauseEvent, ResolveEvent, Run
  <2>3. CASE ev.type = "retryable_failure"
    BY <2>3 DEF AdvanceCaptureRun, FailRetryably, Checkpointed, PauseEvent,
                ResolveEvent, Run
  <2>4. CASE ev.type = "retry_due"
    BY <2>4 DEF AdvanceCaptureRun, RetryRun, Checkpointed, PauseEvent, ResolveEvent, Run
  <2>5. CASE ev.type \in StageEvent \cup GateEvent
    <3> DEFINE e == EnterStage(r, ev)
    <3>1. AdvanceCaptureRun(r, ev) = Checkpointed(e, ev)
      BY <2>5 DEF AdvanceCaptureRun, PauseEvent, ResolveEvent, StageEvent, GateEvent
    <3>2. e.seq = r.seq /\ DOMAIN e = DOMAIN r
      BY DEF EnterStage, Run
    <3> HIDE DEF e
    <3> QED BY <3>1, <3>2 DEF Checkpointed, Run
  <2> QED BY <2>1, <2>2, <2>3, <2>4, <2>5, EventFields DEF EventType
<1>2. CASE ev.type # "gate_partial"
  BY <1>1, <1>2 DEF AdvanceCaptureLoop
<1>3. CASE ev.type = "gate_partial"
  <2> DEFINE a == AdvanceCaptureRun(r, ev)
  <2>1. a \in Run
    BY <1>3, AdvanceRunTyped
  <2>2. a.seq = r.seq + 1
    BY <1>1
  <2> HIDE DEF a
  <2>3. CASE r.scanUsed + 1 < ScanPassBudget
    <3> DEFINE m == a.scanUsed + 1
    <3>1. AdvanceCaptureLoop(r, ev) = [a EXCEPT !.scanUsed = m]
      BY <1>3, <2>3 DEF AdvanceCaptureLoop, CountPartialGate, a
    <3> HIDE DEF m
    <3>2. [a EXCEPT !.scanUsed = m].seq = a.seq
      BY <2>1 DEF Run
    <3> QED BY <2>2, <3>1, <3>2
  <2>4. CASE ~(r.scanUsed + 1 < ScanPassBudget)
    BY <1>3, <2>4 DEF AdvanceCaptureLoop, CountPartialGate, Run
  <2> QED BY <2>3, <2>4
<1> QED BY <1>2, <1>3

\* A new run is a run.
LEMMA NewTyped ==
    ASSUME NEW route \in Route
    PROVE  NewCaptureLoop(route) \in Run
BY DEF NewCaptureLoop, Run, State, Stage, Blocker

Working == {"invalidate", "append", "save", "finish"}

(***************************************************************************)
(* Types.  A call that got as far as a write knows its event and the run   *)
(* it computed, and there is a checkpoint once anybody can submit.         *)
(***************************************************************************)
CallsAreKnown ==
    \A p \in Proc :
        /\ pc[p] \in {"submitted"} \cup Working =>
               call[p] \in Call /\ checkpoint \in Run
        /\ pc[p] \in Working => work[p] \in Run

\* A call that is admitted computes a run.
LEMMA AdmittedRun ==
    ASSUME TypeOK, CallsAreKnown, NEW p \in Proc, Admit(p)
    PROVE  /\ call[p] \in Call /\ call[p].ev \in Event /\ checkpoint \in Run
           /\ Accepts(checkpoint, call[p].ev)
           /\ work'[p] = AdvanceCaptureLoop(checkpoint, call[p].ev)
           /\ work'[p] \in Run
           /\ work'[p].seq = checkpoint.seq + 1
<1>1. call[p] \in Call /\ checkpoint \in Run
  BY DEF Admit, CallsAreKnown
<1>2. call[p].ev \in Event
  BY <1>1, DurableOfferedAssumption DEF Call
<1>3. Accepts(checkpoint, call[p].ev)
  BY DEF Admit, AdmitsNew, AdmitsRecovery
<1>4. work'[p] = AdvanceCaptureLoop(checkpoint, call[p].ev)
  BY DEF Admit, TypeOK
<1> QED BY <1>1, <1>2, <1>3, <1>4, AdvanceTyped, AdvanceCounts

\* The line a call appends is an entry of the ledger.
LEMMA EntryTyped ==
    ASSUME TypeOK, CallsAreKnown, NEW p \in Proc, pc[p] = "append"
    PROVE  LedgerEntry(p) \in Entry
BY DEF CallsAreKnown, Working, LedgerEntry, Entry, Call, Run

\* Types of files, lock and calls are kept by every step.
LEMMA TypesInvariant == Spec => [](TypeOK /\ CallsAreKnown)
<1>1. Init => TypeOK /\ CallsAreKnown
  <2>1. Init => TypeOK
    <3>1. Init => binding \in BOOLEAN
      BY Zenon DEF Init
    <3>2. Init => ledger \in Seq(Entry) /\ failures \in Nat
      BY DEF Init
    <3>3. Init => pc \in [Proc -> {"idle"}] /\ call \in [Proc -> {Absent}]
                 /\ work \in [Proc -> {Absent}]
      BY DEF Init
    <3> QED BY <3>1, <3>2, <3>3 DEF Init, TypeOK
  <2>2. Init => CallsAreKnown
    BY DEF Init, CallsAreKnown, Working
  <2> QED BY <2>1, <2>2
<1>2. TypeOK /\ CallsAreKnown /\ [Next]_vars => (TypeOK /\ CallsAreKnown)'
  <2> SUFFICES ASSUME TypeOK, CallsAreKnown, [Next]_vars
               PROVE  (TypeOK /\ CallsAreKnown)'
    OBVIOUS
  <2>1. ASSUME NEW p \in Proc, StartCapture(p) PROVE (TypeOK /\ CallsAreKnown)'
    BY <2>1 DEF StartCapture, disk, TypeOK, CallsAreKnown, Working
  <2>2. ASSUME NEW p \in Proc, PublishBinding(p) PROVE (TypeOK /\ CallsAreKnown)'
    BY <2>2 DEF PublishBinding, TypeOK, CallsAreKnown, Working
  <2>3. ASSUME NEW p \in Proc, CreateCheckpoint(p) PROVE (TypeOK /\ CallsAreKnown)'
    <3>1. checkpoint' \in Run
      BY <2>3, NewTyped, DurableRoutesAssumption DEF CreateCheckpoint, TypeOK
    <3> QED BY <2>3, <3>1 DEF CreateCheckpoint, Idle, TypeOK, CallsAreKnown, Working
  <2>4. ASSUME NEW p \in Proc, SubmitEvent(p) PROVE (TypeOK /\ CallsAreKnown)'
    <3>1. checkpoint \in Run
      BY <2>4 DEF SubmitEvent, TypeOK
    <3>2. call' \in [Proc -> Call \cup {Absent}] /\ call'[p] \in Call
          /\ \A q \in Proc : q # p => call'[q] = call[q]
      BY <2>4, <3>1 DEF SubmitEvent, TypeOK, Call, Run
    <3> QED BY <2>4, <3>1, <3>2 DEF SubmitEvent, disk, TypeOK, CallsAreKnown, Working
  <2>5. ASSUME NEW p \in Proc, LockBusy(p) PROVE (TypeOK /\ CallsAreKnown)'
    BY <2>5 DEF LockBusy, disk, Idle, TypeOK, CallsAreKnown, Working
  <2>6. ASSUME NEW p \in Proc, AcknowledgeDuplicate(p)
        PROVE (TypeOK /\ CallsAreKnown)'
    <3>1. call[p].id \in Id
      BY <2>6 DEF AcknowledgeDuplicate, CallsAreKnown, Call
    <3> QED BY <2>6, <3>1
            DEF AcknowledgeDuplicate, disk, Idle, TypeOK, CallsAreKnown, Working
  <2>7. ASSUME NEW p \in Proc, Admit(p) PROVE (TypeOK /\ CallsAreKnown)'
    BY <2>7, AdmittedRun DEF Admit, disk, TypeOK, CallsAreKnown, Working
  <2>8. ASSUME NEW p \in Proc, Refuse(p) PROVE (TypeOK /\ CallsAreKnown)'
    BY <2>8 DEF Refuse, disk, Idle, TypeOK, CallsAreKnown, Working
  <2>9. ASSUME NEW p \in Proc, InvalidateReceipt(p) PROVE (TypeOK /\ CallsAreKnown)'
    BY <2>9 DEF InvalidateReceipt, TypeOK, CallsAreKnown, Working
  <2>10. ASSUME NEW p \in Proc, AppendEvent(p) PROVE (TypeOK /\ CallsAreKnown)'
    <3>1. ledger' \in Seq(Entry)
      BY <2>10, EntryTyped DEF AppendEvent, TypeOK
    <3> QED BY <2>10, <3>1 DEF AppendEvent, TypeOK, CallsAreKnown, Working
  <2>11. ASSUME NEW p \in Proc, AppendConflict(p) PROVE (TypeOK /\ CallsAreKnown)'
    BY <2>11 DEF AppendConflict, disk, Idle, TypeOK, CallsAreKnown, Working
  <2>12. ASSUME NEW p \in Proc, SaveCheckpoint(p) PROVE (TypeOK /\ CallsAreKnown)'
    BY <2>12 DEF SaveCheckpoint, TypeOK, CallsAreKnown, Working
  <2>13. ASSUME NEW p \in Proc, FinishCall(p) PROVE (TypeOK /\ CallsAreKnown)'
    <3>1. call[p].id \in Id
      BY <2>13 DEF FinishCall, CallsAreKnown, Working, Call
    <3> QED BY <2>13, <3>1 DEF FinishCall, Idle, TypeOK, CallsAreKnown, Working
  <2>14. ASSUME NEW p \in Proc, PersistReceipt(p) PROVE (TypeOK /\ CallsAreKnown)'
    BY <2>14 DEF PersistReceipt, TypeOK, CallsAreKnown, Working
  <2>15. ASSUME NEW p \in Proc, FailBetweenWrites(p) PROVE (TypeOK /\ CallsAreKnown)'
    BY <2>15 DEF FailBetweenWrites, disk, Idle, TypeOK, CallsAreKnown, Working
  <2>16. ASSUME NEW p \in Proc, DieInAppend(p) PROVE (TypeOK /\ CallsAreKnown)'
    <3>1. ledger' \in Seq(Entry)
      BY <2>16, EntryTyped DEF DieInAppend, TypeOK
    <3> QED BY <2>16, <3>1 DEF DieInAppend, Idle, TypeOK, CallsAreKnown, Working
  <2>17. CASE UNCHANGED vars
    BY <2>17 DEF vars, disk, TypeOK, CallsAreKnown
  <2> QED BY <2>1, <2>2, <2>3, <2>4, <2>5, <2>6, <2>7, <2>8, <2>9, <2>10, <2>11,
             <2>12, <2>13, <2>14, <2>15, <2>16, <2>17 DEF Next
<1> QED BY <1>1, <1>2, PTL DEF Spec

\* The files, the lock and the calls have their types in every state
\* (start_capture_loop, advance_persisted_capture).
THEOREM DurableTypeCorrect == Spec => []TypeOK
BY TypesInvariant, PTL

------------------------------------------------------------------------------
(***************************************************************************)
(* Mutual exclusion.                                                       *)
(***************************************************************************)

\* A process is between two writes exactly while it holds the lock.
THEOREM WritersAreExclusive == Spec => []WritersExclude
<1>1. Init => WritersExclude
  BY AbsentAssumption DEF Init, WritersExclude
<1>2. TypeOK /\ WritersExclude /\ [Next]_vars => WritersExclude'
  <2> SUFFICES ASSUME TypeOK, WritersExclude, [Next]_vars PROVE WritersExclude'
    OBVIOUS
  <2>0. Absent \notin Proc
    BY AbsentAssumption
  <2>1. ASSUME NEW p \in Proc, StartCapture(p) PROVE WritersExclude'
    BY <2>0, <2>1 DEF StartCapture, TypeOK, WritersExclude
  <2>2. ASSUME NEW p \in Proc, PublishBinding(p) PROVE WritersExclude'
    BY <2>2 DEF PublishBinding, TypeOK, WritersExclude
  <2>3. ASSUME NEW p \in Proc, CreateCheckpoint(p) PROVE WritersExclude'
    BY <2>0, <2>3 DEF CreateCheckpoint, Idle, TypeOK, WritersExclude
  <2>4. ASSUME NEW p \in Proc, SubmitEvent(p) PROVE WritersExclude'
    BY <2>4 DEF SubmitEvent, TypeOK, WritersExclude
  <2>5. ASSUME NEW p \in Proc, LockBusy(p) PROVE WritersExclude'
    BY <2>5 DEF LockBusy, Idle, TypeOK, WritersExclude
  <2>6. ASSUME NEW p \in Proc, AcknowledgeDuplicate(p) PROVE WritersExclude'
    BY <2>6 DEF AcknowledgeDuplicate, Idle, TypeOK, WritersExclude
  <2>7. ASSUME NEW p \in Proc, Admit(p) PROVE WritersExclude'
    BY <2>0, <2>7 DEF Admit, TypeOK, WritersExclude
  <2>8. ASSUME NEW p \in Proc, Refuse(p) PROVE WritersExclude'
    BY <2>8 DEF Refuse, Idle, TypeOK, WritersExclude
  <2>9. ASSUME NEW p \in Proc, InvalidateReceipt(p) PROVE WritersExclude'
    BY <2>9 DEF InvalidateReceipt, TypeOK, WritersExclude
  <2>10. ASSUME NEW p \in Proc, AppendEvent(p) PROVE WritersExclude'
    BY <2>10 DEF AppendEvent, TypeOK, WritersExclude
  <2>11. ASSUME NEW p \in Proc, AppendConflict(p) PROVE WritersExclude'
    BY <2>0, <2>11 DEF AppendConflict, Idle, TypeOK, WritersExclude
  <2>12. ASSUME NEW p \in Proc, SaveCheckpoint(p) PROVE WritersExclude'
    BY <2>12 DEF SaveCheckpoint, TypeOK, WritersExclude
  <2>13. ASSUME NEW p \in Proc, FinishCall(p) PROVE WritersExclude'
    BY <2>0, <2>13 DEF FinishCall, Idle, TypeOK, WritersExclude
  <2>14. ASSUME NEW p \in Proc, PersistReceipt(p) PROVE WritersExclude'
    BY <2>14 DEF PersistReceipt, WritersExclude
  <2>15. ASSUME NEW p \in Proc, FailBetweenWrites(p) PROVE WritersExclude'
    BY <2>0, <2>15 DEF FailBetweenWrites, Idle, TypeOK, WritersExclude
  <2>16. ASSUME NEW p \in Proc, DieInAppend(p) PROVE WritersExclude'
    BY <2>0, <2>16 DEF DieInAppend, Idle, TypeOK, WritersExclude
  <2>17. CASE UNCHANGED vars
    BY <2>17 DEF vars, WritersExclude
  <2> QED BY <2>1, <2>2, <2>3, <2>4, <2>5, <2>6, <2>7, <2>8, <2>9, <2>10, <2>11,
             <2>12, <2>13, <2>14, <2>15, <2>16, <2>17 DEF Next
<1> QED BY <1>1, <1>2, DurableTypeCorrect, PTL DEF Spec

\* While nobody holds the lock, nobody is between two writes.
LEMMA NobodyWrites ==
    ASSUME WritersExclude, lock = Absent, NEW q \in Proc
    PROVE  pc[q] \in {"idle", "submitted"}
BY AbsentAssumption DEF WritersExclude

\* While one process writes, the others do not.
LEMMA OthersWait ==
    ASSUME WritersExclude, NEW p \in Proc, pc[p] \notin {"idle", "submitted"}
    PROVE  lock = p /\ \A q \in Proc : q # p => pc[q] \in {"idle", "submitted"}
BY DEF WritersExclude

------------------------------------------------------------------------------
(***************************************************************************)
(* The receipt is gone from before the first write of a transition until   *)
(* its end, so there is none that the new ledger or checkpoint could make  *)
(* stale.                                                                  *)
(***************************************************************************)
ReceiptGone ==
    /\ ReceiptNeverStale
    /\ \A p \in Proc : pc[p] \in {"append", "save", "finish"} => receipt = Absent

\* ReceiptGone holds in every state (invalidate_full_capture_receipt first).
LEMMA ReceiptGoneInvariant == Spec => []ReceiptGone
<1>1. Init => ReceiptGone
  BY DEF Init, ReceiptGone, ReceiptNeverStale
<1>2. TypeOK /\ WritersExclude /\ ReceiptGone /\ [Next]_vars => ReceiptGone'
  <2> SUFFICES ASSUME TypeOK, WritersExclude, ReceiptGone, [Next]_vars
               PROVE  ReceiptGone'
    OBVIOUS
  <2> USE DEF ReceiptGone, ReceiptNeverStale
  <2>1. ASSUME NEW p \in Proc, StartCapture(p) PROVE ReceiptGone'
    BY <2>1 DEF StartCapture, disk, TypeOK
  <2>2. ASSUME NEW p \in Proc, PublishBinding(p) PROVE ReceiptGone'
    BY <2>2 DEF PublishBinding, TypeOK
  <2>3. ASSUME NEW p \in Proc, CreateCheckpoint(p) PROVE ReceiptGone'
    BY <2>3 DEF CreateCheckpoint
  <2>4. ASSUME NEW p \in Proc, SubmitEvent(p) PROVE ReceiptGone'
    BY <2>4 DEF SubmitEvent, disk, TypeOK
  <2>5. ASSUME NEW p \in Proc,
               LockBusy(p) \/ AcknowledgeDuplicate(p) \/ Refuse(p)
                 \/ AppendConflict(p) \/ FailBetweenWrites(p)
        PROVE ReceiptGone'
    BY <2>5 DEF LockBusy, AcknowledgeDuplicate, Refuse, AppendConflict,
                FailBetweenWrites, Idle, disk, TypeOK
  <2>6. ASSUME NEW p \in Proc, Admit(p) PROVE ReceiptGone'
    BY <2>6 DEF Admit, disk, TypeOK
  <2>7. ASSUME NEW p \in Proc, InvalidateReceipt(p) PROVE ReceiptGone'
    BY <2>7 DEF InvalidateReceipt
  <2>8. ASSUME NEW p \in Proc, AppendEvent(p) PROVE ReceiptGone'
    BY <2>8 DEF AppendEvent, TypeOK
  <2>9. ASSUME NEW p \in Proc, SaveCheckpoint(p) PROVE ReceiptGone'
    BY <2>9 DEF SaveCheckpoint, TypeOK
  <2>10. ASSUME NEW p \in Proc, FinishCall(p) PROVE ReceiptGone'
    BY <2>10 DEF FinishCall
  <2>11. ASSUME NEW p \in Proc, PersistReceipt(p) PROVE ReceiptGone'
    BY <2>11, NobodyWrites DEF PersistReceipt
  <2>12. ASSUME NEW p \in Proc, DieInAppend(p) PROVE ReceiptGone'
    BY <2>12 DEF DieInAppend, Idle, TypeOK
  <2>13. CASE UNCHANGED vars
    BY <2>13 DEF vars, disk
  <2> QED BY <2>1, <2>2, <2>3, <2>4, <2>5, <2>6, <2>7, <2>8, <2>9, <2>10, <2>11,
             <2>12, <2>13 DEF Next
<1> QED BY <1>1, <1>2, DurableTypeCorrect, WritersAreExclusive, PTL DEF Spec

\* A strict receipt on disk is bound to the checkpoint on disk, wherever a
\* transition dies.
THEOREM ReceiptsAreCurrent == Spec => []ReceiptNeverStale
<1>1. ReceiptGone => ReceiptNeverStale
  BY DEF ReceiptGone
<1> QED BY <1>1, ReceiptGoneInvariant, PTL

------------------------------------------------------------------------------
(***************************************************************************)
(* Each event once.                                                        *)
(*                                                                         *)
(* A call carries through its writes what it found out under the lock: the *)
(* place its event has, or will have, in the ledger is the one after the   *)
(* checkpoint's.  A caller that was answered finds its event at or before  *)
(* the checkpoint's sequence.                                              *)
(***************************************************************************)
Placed(id, n) == n \in DOMAIN ledger /\ ledger[n].id = id

LedgerInOrder ==
    /\ checkpoint = Absent => ledger = <<>> /\ acked = {}
    /\ checkpoint # Absent => Len(ledger) - checkpoint.seq \in {0, 1}
    /\ \A i, j \in DOMAIN ledger : ledger[i].id = ledger[j].id => i = j
    /\ \A id \in acked : \E n \in DOMAIN ledger :
           ledger[n].id = id /\ n <= checkpoint.seq

CallInOrder(p) ==
    /\ pc[p] \in {"bind", "create"} => checkpoint = Absent
    /\ pc[p] \in {"invalidate", "append", "save"} =>
           work[p].seq = checkpoint.seq + 1
    /\ pc[p] = "invalidate" =>
           \/ Placed(call[p].id, checkpoint.seq + 1)
           \/ call[p].id \notin Recorded /\ call[p].expected = checkpoint.seq
    /\ pc[p] = "append" =>
           call[p].id \notin Recorded /\ call[p].expected = checkpoint.seq
    /\ pc[p] = "save" => Placed(call[p].id, checkpoint.seq + 1)
    /\ pc[p] = "finish" => Placed(call[p].id, checkpoint.seq)

InOrder == LedgerInOrder /\ \A p \in Proc : CallInOrder(p)

\* A recorded id has the place SequenceOf gives it.
LEMMA SequenceIsPlace ==
    ASSUME NEW id \in Recorded
    PROVE  Placed(id, SequenceOf(id))
<1>1. \E i \in DOMAIN ledger : ledger[i].id = id
  BY DEF Recorded
<1> QED BY <1>1 DEF SequenceOf, Placed

\* A line at the end of the ledger, where the checkpoint is: the ledger is one
\* ahead, and no id is there twice.
LEMMA AppendKeepsOrder ==
    ASSUME TypeOK, CallsAreKnown, LedgerInOrder,
           NEW p \in Proc, pc[p] = "append", CallInOrder(p),
           Len(ledger) = call[p].expected,
           ledger' = Append(ledger, LedgerEntry(p)),
           UNCHANGED <<checkpoint, acked>>
    PROVE  /\ LedgerInOrder'
           /\ checkpoint.seq + 1 \in DOMAIN ledger'
           /\ ledger'[checkpoint.seq + 1].id = call[p].id
<1> DEFINE c == call[p].id
           n == Len(ledger)
<1>1. /\ checkpoint \in Run /\ call[p] \in Call /\ checkpoint # Absent
  BY AbsentAssumption DEF CallsAreKnown, Working
<1>2. checkpoint.seq = n /\ n \in Nat /\ DOMAIN ledger = 1 .. n
  BY <1>1 DEF CallInOrder, TypeOK
<1>3. LedgerEntry(p) \in Entry /\ LedgerEntry(p).id = c
  BY EntryTyped DEF LedgerEntry
<1>4. /\ DOMAIN ledger' = 1 .. (n + 1) /\ Len(ledger') = n + 1
      /\ \A i \in 1 .. n : ledger'[i] = ledger[i]
      /\ ledger'[n + 1].id = c
  BY <1>3 DEF TypeOK
<1>5. \A i \in 1 .. n : ledger[i].id # c
  BY <1>2 DEF CallInOrder, Recorded
<1> HIDE DEF c, n
<1>6. ASSUME NEW i \in DOMAIN ledger', NEW j \in DOMAIN ledger',
             ledger'[i].id = ledger'[j].id
      PROVE  i = j
  <2>1. CASE i \in 1 .. n /\ j \in 1 .. n
    BY <1>2, <1>4, <1>6, <2>1 DEF LedgerInOrder
  <2>2. CASE i = n + 1 \/ j = n + 1
    BY <1>2, <1>4, <1>5, <1>6, <2>2
  <2> QED BY <1>2, <1>4, <2>1, <2>2
<1>7. ASSUME NEW id \in acked'
      PROVE  \E m \in DOMAIN ledger' : ledger'[m].id = id /\ m <= checkpoint'.seq
  BY <1>2, <1>4 DEF LedgerInOrder
<1>8. Len(ledger') - checkpoint'.seq \in {0, 1}
  BY <1>2, <1>4
<1>9. LedgerInOrder'
  BY <1>1, <1>6, <1>7, <1>8 DEF LedgerInOrder
<1>10. /\ checkpoint.seq + 1 \in DOMAIN ledger'
       /\ ledger'[checkpoint.seq + 1].id = call[p].id
  BY <1>2, <1>4 DEF c
<1> QED BY <1>9, <1>10

\* InOrder holds in every state (advance_persisted_capture under its lock).
LEMMA InOrderInvariant == Spec => []InOrder
<1>1. Init => InOrder
  <2>1. Init => LedgerInOrder
    BY DEF Init, LedgerInOrder
  <2>2. Init => \A p \in Proc : CallInOrder(p)
    BY DEF Init, CallInOrder
  <2> QED BY <2>1, <2>2 DEF InOrder
<1>2. TypeOK /\ CallsAreKnown /\ WritersExclude /\ InOrder /\ [Next]_vars => InOrder'
  <2> SUFFICES ASSUME TypeOK, CallsAreKnown, WritersExclude, InOrder, [Next]_vars
               PROVE  InOrder'
    OBVIOUS
  <2>0. LedgerInOrder /\ \A p \in Proc : CallInOrder(p)
    BY DEF InOrder
  <2>a. ASSUME NEW p \in Proc, NEW q \in Proc, q # p,
               pc[p] \notin {"idle", "submitted"} \/ lock = Absent,
               pc'[q] = pc[q]
        PROVE  CallInOrder(q)'
    <3>1. pc[q] \in {"idle", "submitted"}
      BY <2>a, NobodyWrites, OthersWait
    <3> QED BY <2>a, <3>1 DEF CallInOrder
  <2>b. ASSUME NEW p \in Proc, pc'[p] \in {"idle", "submitted"}
        PROVE  CallInOrder(p)'
    BY <2>b DEF CallInOrder
  <2>1. ASSUME NEW p \in Proc, StartCapture(p) PROVE InOrder'
    <3>1. LedgerInOrder'
      BY <2>0, <2>1 DEF StartCapture, disk, LedgerInOrder
    <3>2. CallInOrder(p)'
      BY <2>1 DEF StartCapture, disk, TypeOK, CallInOrder
    <3>3. ASSUME NEW q \in Proc, q # p PROVE CallInOrder(q)'
      BY <2>1, <2>a, <3>3 DEF StartCapture, TypeOK
    <3> QED BY <3>1, <3>2, <3>3 DEF InOrder
  <2>2. ASSUME NEW p \in Proc, PublishBinding(p) PROVE InOrder'
    <3>1. LedgerInOrder'
      BY <2>0, <2>2 DEF PublishBinding, LedgerInOrder
    <3>2. CallInOrder(p)'
      BY <2>0, <2>2 DEF PublishBinding, TypeOK, CallInOrder
    <3>3. ASSUME NEW q \in Proc, q # p PROVE CallInOrder(q)'
      BY <2>2, <2>a, <3>3 DEF PublishBinding, TypeOK
    <3> QED BY <3>1, <3>2, <3>3 DEF InOrder
  <2>3. ASSUME NEW p \in Proc, CreateCheckpoint(p) PROVE InOrder'
    <3>1. checkpoint = Absent /\ ledger = <<>> /\ acked = {}
      BY <2>0, <2>3 DEF CreateCheckpoint, CallInOrder, LedgerInOrder
    <3>2. checkpoint' \in Run /\ checkpoint'.seq = 0
      BY <2>3, NewTyped, DurableRoutesAssumption
         DEF CreateCheckpoint, NewCaptureLoop, TypeOK
    <3>3. LedgerInOrder'
      BY <2>3, <3>1, <3>2, AbsentAssumption DEF CreateCheckpoint, LedgerInOrder
    <3>4. CallInOrder(p)'
      BY <2>3, <2>b DEF CreateCheckpoint, Idle, TypeOK
    <3>5. ASSUME NEW q \in Proc, q # p PROVE CallInOrder(q)'
      BY <2>3, <2>a, <3>5 DEF CreateCheckpoint, Idle, TypeOK
    <3> QED BY <3>3, <3>4, <3>5 DEF InOrder
  <2>4. ASSUME NEW p \in Proc, SubmitEvent(p) PROVE InOrder'
    <3>1. LedgerInOrder'
      BY <2>0, <2>4 DEF SubmitEvent, disk, LedgerInOrder
    <3>2. CallInOrder(p)'
      BY <2>4, <2>b DEF SubmitEvent, TypeOK
    <3>3. ASSUME NEW q \in Proc, q # p PROVE CallInOrder(q)'
      BY <2>0, <2>4, <3>3 DEF SubmitEvent, disk, TypeOK, CallInOrder, Placed, Recorded
    <3> QED BY <3>1, <3>2, <3>3 DEF InOrder
  <2>5. ASSUME NEW p \in Proc,
               LockBusy(p) \/ Refuse(p) \/ AppendConflict(p) \/ FailBetweenWrites(p)
        PROVE InOrder'
    <3>0. /\ UNCHANGED <<checkpoint, ledger, acked>>
          /\ pc' = [pc EXCEPT ![p] = "idle"]
          /\ \A q \in Proc : q # p => call'[q] = call[q] /\ work'[q] = work[q]
      BY <2>5 DEF LockBusy, Refuse, AppendConflict, FailBetweenWrites, Idle, disk,
                  TypeOK
    <3>1. LedgerInOrder'
      BY <2>0, <3>0 DEF LedgerInOrder
    <3>2. CallInOrder(p)'
      BY <3>0, <2>b DEF TypeOK
    <3>3. ASSUME NEW q \in Proc, q # p PROVE CallInOrder(q)'
      BY <2>0, <3>0, <3>3 DEF TypeOK, CallInOrder, Placed, Recorded
    <3> QED BY <3>1, <3>2, <3>3 DEF InOrder
  <2>6. ASSUME NEW p \in Proc, AcknowledgeDuplicate(p) PROVE InOrder'
    <3>1. Placed(call[p].id, checkpoint.seq)
      BY <2>6, SequenceIsPlace DEF AcknowledgeDuplicate, AlreadyApplied
    <3>2. checkpoint \in Run /\ checkpoint # Absent
      BY <2>6, AbsentAssumption DEF AcknowledgeDuplicate, CallsAreKnown
    <3>3. LedgerInOrder'
      BY <2>0, <2>6, <3>1, <3>2
         DEF AcknowledgeDuplicate, disk, LedgerInOrder, Placed, Run
    <3>4. CallInOrder(p)'
      BY <2>6, <2>b DEF AcknowledgeDuplicate, Idle, TypeOK
    <3>5. ASSUME NEW q \in Proc, q # p PROVE CallInOrder(q)'
      BY <2>6, <2>a, <3>5 DEF AcknowledgeDuplicate, Idle, TypeOK
    <3> QED BY <3>3, <3>4, <3>5 DEF InOrder
  <2>7. ASSUME NEW p \in Proc, Admit(p) PROVE InOrder'
    <3>1. LedgerInOrder'
      BY <2>0, <2>7 DEF Admit, disk, LedgerInOrder
    <3>2. work'[p].seq = checkpoint.seq + 1 /\ checkpoint.seq \in Nat
      BY <2>7, AdmittedRun DEF Run
    <3>3. \/ Placed(call[p].id, checkpoint.seq + 1)
          \/ call[p].id \notin Recorded /\ call[p].expected = checkpoint.seq
      <4>1. CASE AdmitsNew(call[p])
        BY <4>1 DEF AdmitsNew
      <4>2. CASE AdmitsRecovery(call[p])
        <5> DEFINE n == SequenceOf(call[p].id)
        <5>1. Placed(call[p].id, n) /\ checkpoint.seq = n - 1
          BY <4>2, SequenceIsPlace DEF AdmitsRecovery
        <5>2. n \in Nat
          BY <5>1 DEF Placed, TypeOK
        <5> HIDE DEF n
        <5>3. n = checkpoint.seq + 1
          BY <3>2, <5>1, <5>2
        <5> QED BY <5>1, <5>3
      <4> QED BY <2>7, <4>1, <4>2 DEF Admit
    <3>4. CallInOrder(p)'
      BY <2>7, <3>2, <3>3 DEF Admit, disk, TypeOK, CallInOrder, Placed, Recorded
    <3>5. ASSUME NEW q \in Proc, q # p PROVE CallInOrder(q)'
      BY <2>7, <2>a, <3>5 DEF Admit, TypeOK
    <3> QED BY <3>1, <3>4, <3>5 DEF InOrder
  <2>8. ASSUME NEW p \in Proc, InvalidateReceipt(p) PROVE InOrder'
    <3>1. LedgerInOrder'
      BY <2>0, <2>8 DEF InvalidateReceipt, LedgerInOrder
    <3>2. CallInOrder(p)'
      BY <2>0, <2>8 DEF InvalidateReceipt, TypeOK, CallInOrder, Placed, Recorded
    <3>3. ASSUME NEW q \in Proc, q # p PROVE CallInOrder(q)'
      BY <2>8, <2>a, <3>3 DEF InvalidateReceipt, TypeOK
    <3> QED BY <3>1, <3>2, <3>3 DEF InOrder
  <2>9. ASSUME NEW p \in Proc, AppendEvent(p) PROVE InOrder'
    <3>1. /\ LedgerInOrder'
          /\ checkpoint.seq + 1 \in DOMAIN ledger'
          /\ ledger'[checkpoint.seq + 1].id = call[p].id
      BY <2>0, <2>9, AppendKeepsOrder DEF AppendEvent
    <3>2. CallInOrder(p)'
      BY <2>0, <2>9, <3>1 DEF AppendEvent, TypeOK, CallInOrder, Placed
    <3>3. ASSUME NEW q \in Proc, q # p PROVE CallInOrder(q)'
      BY <2>9, <2>a, <3>3 DEF AppendEvent, TypeOK
    <3> QED BY <3>1, <3>2, <3>3 DEF InOrder
  <2>10. ASSUME NEW p \in Proc, SaveCheckpoint(p) PROVE InOrder'
    <3>1. /\ checkpoint \in Run /\ work[p] \in Run /\ checkpoint' = work[p]
          /\ work[p].seq = checkpoint.seq + 1
          /\ Placed(call[p].id, checkpoint.seq + 1)
          /\ checkpoint # Absent /\ work[p] # Absent
      BY <2>0, <2>10, AbsentAssumption
         DEF SaveCheckpoint, CallsAreKnown, Working, CallInOrder
    <3>2. Len(ledger) = checkpoint.seq + 1 /\ checkpoint.seq \in Nat
      BY <2>0, <3>1 DEF LedgerInOrder, Placed, TypeOK, Run
    <3>3. LedgerInOrder'
      BY <2>0, <2>10, <3>1, <3>2 DEF SaveCheckpoint, LedgerInOrder, TypeOK
    <3>4. CallInOrder(p)'
      BY <2>10, <3>1 DEF SaveCheckpoint, TypeOK, CallInOrder, Placed
    <3>5. ASSUME NEW q \in Proc, q # p PROVE CallInOrder(q)'
      BY <2>10, <2>a, <3>5 DEF SaveCheckpoint, TypeOK
    <3> QED BY <3>3, <3>4, <3>5 DEF InOrder
  <2>11. ASSUME NEW p \in Proc, FinishCall(p) PROVE InOrder'
    <3>1. /\ checkpoint \in Run /\ checkpoint # Absent
          /\ Placed(call[p].id, checkpoint.seq)
      BY <2>0, <2>11, AbsentAssumption
         DEF FinishCall, CallsAreKnown, Working, CallInOrder
    <3>2. LedgerInOrder'
      BY <2>0, <2>11, <3>1 DEF FinishCall, LedgerInOrder, Placed, Run
    <3>3. CallInOrder(p)'
      BY <2>11, <2>b DEF FinishCall, Idle, TypeOK
    <3>4. ASSUME NEW q \in Proc, q # p PROVE CallInOrder(q)'
      BY <2>11, <2>a, <3>4 DEF FinishCall, Idle, TypeOK
    <3> QED BY <3>2, <3>3, <3>4 DEF InOrder
  <2>12. ASSUME NEW p \in Proc, PersistReceipt(p) PROVE InOrder'
    BY <2>0, <2>12 DEF PersistReceipt, InOrder, LedgerInOrder, CallInOrder, Placed,
                       Recorded
  <2>13. ASSUME NEW p \in Proc, DieInAppend(p) PROVE InOrder'
    <3>1. LedgerInOrder'
      <4>1. CASE UNCHANGED ledger
        BY <2>0, <2>13, <4>1 DEF DieInAppend, LedgerInOrder
      <4>2. CASE ledger' = Append(ledger, LedgerEntry(p))
        BY <2>0, <2>13, <4>2, AppendKeepsOrder DEF DieInAppend
      <4> QED BY <2>13, <4>1, <4>2 DEF DieInAppend
    <3>2. CallInOrder(p)'
      BY <2>13, <2>b DEF DieInAppend, Idle, TypeOK
    <3>3. ASSUME NEW q \in Proc, q # p PROVE CallInOrder(q)'
      BY <2>13, <2>a, <3>3 DEF DieInAppend, Idle, TypeOK
    <3> QED BY <3>1, <3>2, <3>3 DEF InOrder
  <2>14. CASE UNCHANGED vars
    BY <2>0, <2>14 DEF vars, disk, InOrder, LedgerInOrder, CallInOrder, Placed, Recorded
  <2> QED BY <2>1, <2>2, <2>3, <2>4, <2>5, <2>6, <2>7, <2>8, <2>9, <2>10, <2>11,
             <2>12, <2>13, <2>14 DEF Next
<1> QED BY <1>1, <1>2, TypesInvariant, WritersAreExclusive, PTL DEF Spec

\* No event id is applied twice, and an event whose caller was told so is in the
\* checkpoint, for any number of retries from any number of processes.
THEOREM EventsAreAppliedOnce == Spec => []AppliedOnce
<1>1. InOrder => AppliedOnce
  <2> SUFFICES ASSUME InOrder PROVE AppliedOnce
    OBVIOUS
  <2>1. LedgerInOrder
    BY DEF InOrder
  <2>2. ASSUME NEW id \in acked
        PROVE  id \in Recorded /\ SequenceOf(id) <= checkpoint.seq
    <3>1. PICK n \in DOMAIN ledger : ledger[n].id = id /\ n <= checkpoint.seq
      BY <2>1 DEF LedgerInOrder
    <3>2. id \in Recorded
      BY <3>1 DEF Recorded
    <3>3. SequenceOf(id) = n
      BY <2>1, <3>1, <3>2, SequenceIsPlace DEF Placed, LedgerInOrder
    <3> QED BY <3>1, <3>2, <3>3
  <2> QED BY <2>1, <2>2 DEF AppliedOnce, LedgerInOrder
<1> QED BY <1>1, InOrderInvariant, PTL

------------------------------------------------------------------------------
(***************************************************************************)
(* The capture run implemented: the operators of CaptureLoop that the      *)
(* instance of CaptureRun brings are those of CaptureLoop.                 *)
(***************************************************************************)

\* The kinds of events and states are the same.
LEMMA SameKinds ==
    /\ Implemented!None = None
    /\ Implemented!PauseEvent = PauseEvent /\ Implemented!ResolveEvent = ResolveEvent
    /\ Implemented!StageEvent = StageEvent /\ Implemented!GateEvent = GateEvent
    /\ Implemented!EventType = EventType
    /\ Implemented!TerminalState = TerminalState
    /\ Implemented!Stage = Stage
BY DEF Implemented!None, None, Implemented!PauseEvent, PauseEvent,
       Implemented!ResolveEvent, ResolveEvent, Implemented!StageEvent, StageEvent,
       Implemented!GateEvent, GateEvent, Implemented!EventType, EventType,
       Implemented!TerminalState, TerminalState, Implemented!Stage, Stage

\* The state a stage or gate event leads to is the same.
LEMMA SameNextStage ==
    ASSUME NEW r, NEW ev
    PROVE  Implemented!NextStage(r, ev) = NextStage(r, ev)
BY DEF Implemented!NextStage, NextStage, Implemented!Transition, Transition,
       Implemented!BoundFullGate, BoundFullGate, Implemented!BoundBlockedGate,
       BoundBlockedGate, Implemented!None, None, Implemented!OfflineRoute, OfflineRoute

\* The same events are accepted.
LEMMA SameAccepts ==
    ASSUME NEW r, NEW ev
    PROVE  Implemented!Accepts(r, ev) <=> Accepts(r, ev)
BY SameKinds, SameNextStage DEF Implemented!Accepts, Accepts,
       Implemented!ApprovalMatches, ApprovalMatches

\* An event leads to the same run.
LEMMA SameAdvance ==
    ASSUME NEW r, NEW ev
    PROVE  Implemented!AdvanceCaptureLoop(r, ev) = AdvanceCaptureLoop(r, ev)
<1>1. ASSUME NEW s PROVE Implemented!Checkpointed(s, ev) = Checkpointed(s, ev)
  BY DEF Implemented!Checkpointed, Checkpointed
<1>2. Implemented!Pause(r, ev) = Pause(r, ev)
  BY SameKinds DEF Implemented!Pause, Pause
<1>3. Implemented!ResumeRun(r) = ResumeRun(r)
  BY SameKinds DEF Implemented!ResumeRun, ResumeRun
<1>4. Implemented!FailRetryably(r) = FailRetryably(r)
  BY DEF Implemented!FailRetryably, FailRetryably
<1>5. Implemented!RetryRun(r) = RetryRun(r)
  BY SameKinds DEF Implemented!RetryRun, RetryRun
<1>6. Implemented!EnterStage(r, ev) = EnterStage(r, ev)
  BY SameNextStage DEF Implemented!EnterStage, EnterStage
<1>7. Implemented!AdvanceCaptureRun(r, ev) = AdvanceCaptureRun(r, ev)
  BY <1>1, <1>2, <1>3, <1>4, <1>5, <1>6, SameKinds
     DEF Implemented!AdvanceCaptureRun, AdvanceCaptureRun
<1>8. Implemented!CountPartialGate(r, ev) = CountPartialGate(r, ev)
  BY <1>7 DEF Implemented!CountPartialGate, CountPartialGate
<1> QED BY <1>7, <1>8 DEF Implemented!AdvanceCaptureLoop, AdvanceCaptureLoop

\* A new run is the same.
LEMMA SameNew ==
    ASSUME NEW route
    PROVE  Implemented!NewCaptureLoop(route) = NewCaptureLoop(route)
BY SameKinds DEF Implemented!NewCaptureLoop, NewCaptureLoop

------------------------------------------------------------------------------
(***************************************************************************)
(* What a writer is about to save is the run after the event it submitted, *)
(* and that event is the one the ledger has in its place.                  *)
(***************************************************************************)
WorkIsNext(p) ==
    /\ pc[p] \in {"invalidate", "append", "save"} =>
           /\ Accepts(checkpoint, call[p].ev)
           /\ work[p] = AdvanceCaptureLoop(checkpoint, call[p].ev)
    /\ pc[p] = "invalidate" /\ call[p].id \in Recorded =>
           ledger[checkpoint.seq + 1].ev = call[p].ev
    /\ pc[p] = "save" => ledger[checkpoint.seq + 1].ev = call[p].ev

\* WorkIsNext holds of every process (the two paths of advance_persisted_capture).
LEMMA WorkIsNextInvariant == Spec => [](\A p \in Proc : WorkIsNext(p))
<1>1. Init => \A p \in Proc : WorkIsNext(p)
  BY DEF Init, WorkIsNext
<1>2. /\ TypeOK /\ CallsAreKnown /\ WritersExclude /\ InOrder
      /\ (\A p \in Proc : WorkIsNext(p)) /\ [Next]_vars
      => (\A p \in Proc : WorkIsNext(p))'
  <2> SUFFICES ASSUME TypeOK, CallsAreKnown, WritersExclude, InOrder, [Next]_vars,
                      \A p \in Proc : WorkIsNext(p),
                      NEW q \in Proc
               PROVE  WorkIsNext(q)'
    OBVIOUS
  <2>0. LedgerInOrder /\ CallInOrder(q) /\ WorkIsNext(q)
    BY DEF InOrder
  <2>a. CASE pc'[q] \in {"idle", "submitted", "bind", "create", "finish"}
    BY <2>a DEF WorkIsNext
  <2>b. ASSUME NEW p \in Proc, q # p,
               pc[p] \notin {"idle", "submitted"} \/ lock = Absent,
               pc'[q] = pc[q]
        PROVE  WorkIsNext(q)'
    BY <2>a, <2>b, NobodyWrites, OthersWait
  <2>1. ASSUME NEW p \in Proc,
               StartCapture(p) \/ PublishBinding(p) \/ CreateCheckpoint(p)
        PROVE WorkIsNext(q)'
    <3>1. CASE q = p
      BY <2>1, <2>a, <3>1 DEF StartCapture, PublishBinding, CreateCheckpoint, Idle, TypeOK
    <3>2. CASE q # p
      BY <2>1, <2>b, <3>2 DEF StartCapture, PublishBinding, CreateCheckpoint, Idle, TypeOK
    <3> QED BY <3>1, <3>2
  <2>2. ASSUME NEW p \in Proc,
               SubmitEvent(p) \/ LockBusy(p) \/ AcknowledgeDuplicate(p) \/ Refuse(p)
                 \/ AppendConflict(p) \/ FailBetweenWrites(p)
        PROVE WorkIsNext(q)'
    <3>0. /\ UNCHANGED <<checkpoint, ledger>>
          /\ pc'[p] \in {"idle", "submitted"}
          /\ q # p => pc'[q] = pc[q] /\ call'[q] = call[q] /\ work'[q] = work[q]
      BY <2>2 DEF SubmitEvent, LockBusy, AcknowledgeDuplicate, Refuse, AppendConflict,
                  FailBetweenWrites, Idle, disk, TypeOK
    <3>1. CASE q = p
      BY <3>0, <3>1, <2>a
    <3>2. CASE q # p
      BY <2>0, <3>0, <3>2 DEF WorkIsNext, Recorded
    <3> QED BY <3>1, <3>2
  <2>3. ASSUME NEW p \in Proc, Admit(p) PROVE WorkIsNext(q)'
    <3>1. CASE q = p
      <4>1. call[p].id \in Recorded => ledger[checkpoint.seq + 1].ev = call[p].ev
        <5>1. CASE AdmitsNew(call[p])
          BY <5>1 DEF AdmitsNew
        <5>2. CASE AdmitsRecovery(call[p])
          <6>1. /\ ledger[SequenceOf(call[p].id)].ev = call[p].ev
                /\ checkpoint.seq = SequenceOf(call[p].id) - 1
                /\ Placed(call[p].id, SequenceOf(call[p].id))
            BY <5>2, SequenceIsPlace DEF AdmitsRecovery, SameEvent
          <6>2. SequenceOf(call[p].id) \in Nat
            BY <6>1 DEF Placed, TypeOK
          <6> QED BY <6>1, <6>2
        <5> QED BY <2>3, <5>1, <5>2 DEF Admit
      <4> QED BY <2>3, <3>1, <4>1, AdmittedRun
              DEF Admit, disk, TypeOK, WorkIsNext, Recorded
    <3>2. CASE q # p
      BY <2>3, <2>b, <3>2 DEF Admit, TypeOK
    <3> QED BY <3>1, <3>2
  <2>4. ASSUME NEW p \in Proc, InvalidateReceipt(p) PROVE WorkIsNext(q)'
    <3>1. CASE q = p
      BY <2>0, <2>4, <3>1 DEF InvalidateReceipt, TypeOK, WorkIsNext, Recorded
    <3>2. CASE q # p
      BY <2>4, <2>b, <3>2 DEF InvalidateReceipt, TypeOK
    <3> QED BY <3>1, <3>2
  <2>5. ASSUME NEW p \in Proc, AppendEvent(p) PROVE WorkIsNext(q)'
    <3>1. CASE q = p
      <4>1. LedgerEntry(p) \in Entry /\ LedgerEntry(p).ev = call[p].ev
        BY <2>5, EntryTyped DEF AppendEvent, LedgerEntry
      <4>2. Len(ledger) = checkpoint.seq
        BY <2>0, <2>5, <3>1 DEF AppendEvent, CallInOrder
      <4>3. ledger'[Len(ledger) + 1].ev = call[p].ev
        BY <2>5, <4>1 DEF AppendEvent, TypeOK
      <4> QED BY <2>0, <2>5, <3>1, <4>2, <4>3 DEF AppendEvent, TypeOK, WorkIsNext
    <3>2. CASE q # p
      BY <2>5, <2>b, <3>2 DEF AppendEvent, TypeOK
    <3> QED BY <3>1, <3>2
  <2>6. ASSUME NEW p \in Proc,
               SaveCheckpoint(p) \/ FinishCall(p) \/ DieInAppend(p)
        PROVE WorkIsNext(q)'
    <3>1. CASE q = p
      BY <2>6, <2>a, <3>1 DEF SaveCheckpoint, FinishCall, DieInAppend, Idle, TypeOK
    <3>2. CASE q # p
      BY <2>6, <2>b, <3>2 DEF SaveCheckpoint, FinishCall, DieInAppend, Idle, TypeOK
    <3> QED BY <3>1, <3>2
  <2>7. ASSUME NEW p \in Proc, PersistReceipt(p) PROVE WorkIsNext(q)'
    BY <2>0, <2>7 DEF PersistReceipt, WorkIsNext, Recorded
  <2>8. CASE UNCHANGED vars
    BY <2>0, <2>8 DEF vars, disk, WorkIsNext, Recorded
  <2> QED BY <2>1, <2>2, <2>3, <2>4, <2>5, <2>6, <2>7, <2>8 DEF Next
<1> QED BY <1>1, <1>2, TypesInvariant, WritersAreExclusive, InOrderInvariant, PTL DEF Spec

\* The events of one type that the checkpoint contains.
Counted(t) == {i \in 1 .. checkpoint.seq : ledger[i].ev.type = t}

\* The first n numbers are n numbers.
LEMMA FirstNumbers ==
    ASSUME NEW n \in Nat
    PROVE  IsFiniteSet(1 .. n) /\ Cardinality(1 .. n) = n
<1>1. 1 \in Int /\ n \in Int
  OBVIOUS
<1>2. IsFiniteSet(1 .. n) /\ Cardinality(1 .. n) = IF 1 > n THEN 0 ELSE n - 1 + 1
  BY <1>1, FS_Interval, Zenon
<1> QED BY <1>2

\* The ledger has no more lines than there are ids.
LEMMA LedgerIsBounded ==
    ASSUME TypeOK, LedgerInOrder
    PROVE  Len(ledger) <= MaxEvents
<1> DEFINE S == 1 .. Len(ledger)
           f == [i \in S |-> ledger[i].id]
<1>1. Len(ledger) \in Nat /\ DOMAIN ledger = S
  BY DEF TypeOK
<1>2. f \in [S -> Id]
  <2>1. \A i \in S : ledger[i] \in Entry
    BY <1>1 DEF TypeOK
  <2>2. \A i \in S : ledger[i].id \in Id
    BY <2>1 DEF Entry
  <2> QED BY <2>2
<1>3. /\ IsFiniteSet(S) /\ Cardinality(S) = Len(ledger)
      /\ IsFiniteSet(Id) /\ Cardinality(Id) = MaxEvents
  BY <1>1, MaxEventsAssumption, FirstNumbers DEF Id
<1>4. SUFFICES ASSUME MaxEvents < Len(ledger) PROVE FALSE
  BY <1>1, MaxEventsAssumption
<1>5. PICK x \in S, y \in S : x # y /\ f[x] = f[y]
  <2> HIDE DEF S, f
  <2> QED BY <1>2, <1>3, <1>4, FS_PigeonHole
<1> QED BY <1>1, <1>5 DEF LedgerInOrder

\* What the checkpoint counts is finite and not more than its sequence.
LEMMA CountedFinite ==
    ASSUME TypeOK, checkpoint \in Run, NEW t
    PROVE  IsFiniteSet(Counted(t)) /\ Cardinality(Counted(t)) \in Nat
<1>1. IsFiniteSet(1 .. checkpoint.seq)
  BY FirstNumbers DEF Run
<1>2. Counted(t) \in SUBSET (1 .. checkpoint.seq)
  BY DEF Counted
<1> QED BY <1>1, <1>2, FS_Subset, FS_CardinalityType

\* A step that keeps the checkpoint and the lines up to its sequence changes
\* nothing of the run.
LEMMA KeepsRun ==
    ASSUME UNCHANGED <<request, checkpoint>>,
           checkpoint # Absent =>
               \A i \in 1 .. checkpoint.seq : ledger'[i] = ledger[i]
    PROVE  UNCHANGED Implemented!vars
<1>1. checkpoint # Absent =>
          \A t : {i \in 1 .. checkpoint.seq : ledger[i].ev.type = t}'
                 = {i \in 1 .. checkpoint.seq : ledger[i].ev.type = t}
  OBVIOUS
<1> QED BY <1>1 DEF Implemented!vars

\* Saving the checkpoint is a step of the run: the event in the ledger after the
\* checkpoint's is accepted, and counted.
LEMMA SaveAdvances ==
    ASSUME TypeOK, CallsAreKnown, InOrder, NEW p \in Proc, WorkIsNext(p),
           SaveCheckpoint(p)
    PROVE  Implemented!Next
<1> DEFINE e == call[p].ev
           n == checkpoint.seq + 1
<1>1. /\ checkpoint \in Run /\ checkpoint # Absent /\ work[p] \in Run
      /\ work[p] # Absent /\ call[p] \in Call
  BY AbsentAssumption DEF SaveCheckpoint, CallsAreKnown, Working
<1>2. /\ checkpoint' = work[p] /\ UNCHANGED <<request, ledger>>
      /\ Accepts(checkpoint, e) /\ work[p] = AdvanceCaptureLoop(checkpoint, e)
      /\ ledger[n].ev = e
  BY DEF SaveCheckpoint, WorkIsNext
<1>3. /\ e \in Offered /\ e \in Event /\ e.type \in EventType
  BY <1>1, DurableOfferedAssumption, EventFields DEF Call
<1>4. checkpoint.seq \in Nat /\ checkpoint'.seq = n /\ n \in Nat
  BY <1>1, <1>2 DEF SaveCheckpoint, InOrder, CallInOrder, Run
<1>5. n <= MaxEvents
  <2>1. n \in DOMAIN ledger
    BY DEF SaveCheckpoint, InOrder, CallInOrder, Placed
  <2>2. n <= Len(ledger) /\ Len(ledger) \in Nat
    BY <2>1 DEF TypeOK
  <2> QED BY <1>4, <2>2, LedgerIsBounded, MaxEventsAssumption DEF InOrder
<1> HIDE DEF e, n
<1>6. ASSUME NEW t
      PROVE  Counted(t)' = IF t = e.type THEN Counted(t) \cup {n} ELSE Counted(t)
  <2>1. 1 .. n = (1 .. checkpoint.seq) \cup {n}
    BY <1>4 DEF n
  <2>2. Counted(t)' = {i \in 1 .. n : ledger[i].ev.type = t}
    BY <1>2, <1>4 DEF Counted
  <2> QED BY <1>2, <2>1, <2>2 DEF Counted
<1>7. ASSUME NEW t
      PROVE  Cardinality(Counted(t)') = IF t = e.type THEN Cardinality(Counted(t)) + 1
                                        ELSE Cardinality(Counted(t))
  <2>1. n \notin Counted(t)
    BY <1>4 DEF Counted, n
  <2> QED BY <1>1, <1>6, <2>1, CountedFinite, FS_AddElement
<1>8. Cardinality(Counted("auth_required"))
        + Cardinality(Counted("human_approval_required")) < MaxEvents
  <2> DEFINE A == Counted("auth_required")
             H == Counted("human_approval_required")
  <2>1. IsFiniteSet(A) /\ IsFiniteSet(H) /\ A \cap H = {}
    BY <1>1, CountedFinite DEF Counted
  <2>2. Cardinality(A \cup H) = Cardinality(A) + Cardinality(H)
    <3>1. Cardinality(A \cup H)
            = Cardinality(A) + Cardinality(H) - Cardinality(A \cap H)
      BY <2>1, FS_Union, Zenon
    <3>2. Cardinality(A \cap H) = 0
      BY <2>1, FS_EmptySet
    <3>3. Cardinality(A) \in Nat /\ Cardinality(H) \in Nat
      BY <1>1, CountedFinite
    <3> QED BY <3>1, <3>2, <3>3
  <2>3. A \cup H \in SUBSET (1 .. checkpoint.seq)
    BY DEF Counted
  <2>4. /\ Cardinality(A \cup H) <= checkpoint.seq
    BY <1>4, <2>3, FirstNumbers, FS_Subset
  <2>5. Cardinality(A) \in Nat /\ Cardinality(H) \in Nat
    BY <1>1, CountedFinite
  <2> HIDE DEF A, H
  <2>6. Cardinality(A) + Cardinality(H) <= checkpoint.seq
    BY <2>2, <2>4
  <2>7. checkpoint.seq < MaxEvents
    BY <1>4, <1>5, MaxEventsAssumption DEF n
  <2>8. Cardinality(A) + Cardinality(H) < MaxEvents
    BY <1>4, <2>5, <2>6, <2>7, MaxEventsAssumption
  <2> QED BY <2>8 DEF A, H
<1>9. Implemented!Advance(e)
  <2>1. Implemented!Accepts(checkpoint, e)
    BY <1>2, SameAccepts
  <2>2. checkpoint' = Implemented!AdvanceCaptureLoop(checkpoint, e)
    BY <1>2, SameAdvance
  <2> DEFINE before == [t \in EventType |-> Cardinality(Counted(t))]
             after  == [t \in EventType |-> Cardinality(Counted(t)')]
  <2>3. after = [before EXCEPT ![e.type] = @ + 1]
    BY <1>3, <1>7
  <2>4. before = [t \in EventType |->
                     IF checkpoint = Absent THEN 0
                     ELSE Cardinality({i \in 1 .. checkpoint.seq : ledger[i].ev.type = t})]
    BY <1>1 DEF Counted
  <2>5. after = [t \in EventType |->
                     IF checkpoint = Absent THEN 0
                     ELSE Cardinality({i \in 1 .. checkpoint.seq : ledger[i].ev.type = t})]'
    BY <1>1, <1>2 DEF Counted
  <2> QED BY <1>1, <1>2, <2>1, <2>2, <2>3, <2>4, <2>5 DEF Implemented!Advance
<1>10. Implemented!Pauses < MaxEvents
  <2>1. "auth_required" \in EventType /\ "human_approval_required" \in EventType
    BY DEF EventType, PauseEvent
  <2> QED BY <1>1, <1>8, <2>1 DEF Implemented!Pauses, Counted
<1>11. CASE e.type \in PauseEvent
  BY <1>3, <1>9, <1>10, <1>11, SameKinds DEF Implemented!Next, Implemented!RaiseBlocker
<1>12. CASE e.type \in ResolveEvent
  BY <1>3, <1>9, <1>12, SameKinds DEF Implemented!Next, Implemented!ResolveBlocker
<1>13. CASE e.type = "retryable_failure"
  BY <1>3, <1>9, <1>13 DEF Implemented!Next, Implemented!RetryableFailure
<1>14. CASE e.type = "retry_due"
  BY <1>3, <1>9, <1>14 DEF Implemented!Next, Implemented!RetryDue
<1>15. CASE e.type \in StageEvent
  BY <1>3, <1>9, <1>15, SameKinds DEF Implemented!Next, Implemented!CompleteStage
<1>16. CASE e.type \in GateEvent
  BY <1>3, <1>9, <1>16, SameKinds DEF Implemented!Next, Implemented!EvaluateGate
<1> QED BY <1>3, <1>11, <1>12, <1>13, <1>14, <1>15, <1>16 DEF EventType

\* The persisted capture implements the capture run of CaptureRun: whatever dies
\* and whoever races, the checkpoint moves only as one run moves on one event.
THEOREM DurableImplementsRun == Spec => ImplementsCaptureRun
<1>1. Init => Implemented!Init
  <2> SUFFICES ASSUME Init PROVE Implemented!Init
    OBVIOUS
  <2>1. request.route \in Routes /\ checkpoint = Absent
    BY DEF Init
  <2> QED BY <2>1, SameNew, SameKinds DEF Implemented!Init
<1>2. /\ TypeOK /\ CallsAreKnown /\ WritersExclude /\ InOrder
      /\ (\A p \in Proc : WorkIsNext(p)) /\ [Next]_vars
      => [Implemented!Next]_Implemented!vars
  <2> SUFFICES ASSUME TypeOK, CallsAreKnown, InOrder, [Next]_vars,
                      \A p \in Proc : WorkIsNext(p)
               PROVE  Implemented!Next \/ UNCHANGED Implemented!vars
    OBVIOUS
  <2>1. ASSUME NEW p \in Proc, SaveCheckpoint(p) PROVE Implemented!Next
    BY <2>1, SaveAdvances
  <2>2. ASSUME NEW p \in Proc, CreateCheckpoint(p) PROVE UNCHANGED Implemented!vars
    <3>1. checkpoint = Absent
      BY <2>2 DEF CreateCheckpoint, InOrder, CallInOrder
    <3>2. /\ checkpoint' = NewCaptureLoop(request.route) /\ UNCHANGED request
          /\ checkpoint' # Absent /\ checkpoint'.seq = 0
      <4>1. checkpoint' \in Run
        BY <2>2, NewTyped, DurableRoutesAssumption DEF CreateCheckpoint, TypeOK
      <4> QED BY <2>2, <4>1, AbsentAssumption DEF CreateCheckpoint, NewCaptureLoop
    <3>3. \A t : Cardinality({i \in 1 .. checkpoint'.seq : ledger'[i].ev.type = t}) = 0
      <4>1. \A t : {i \in 1 .. checkpoint'.seq : ledger'[i].ev.type = t} = {}
        BY <3>2
      <4> QED BY <4>1, FS_EmptySet
    <3> QED BY <3>1, <3>2, <3>3 DEF Implemented!vars
  <2>3. ASSUME NEW p \in Proc, AppendEvent(p) \/ DieInAppend(p)
        PROVE UNCHANGED Implemented!vars
    <3>1. /\ UNCHANGED <<request, checkpoint>>
          /\ ledger' = ledger \/ ledger' = Append(ledger, LedgerEntry(p))
          /\ pc[p] = "append"
      BY <2>3 DEF AppendEvent, DieInAppend
    <3>2. LedgerEntry(p) \in Entry
      BY <3>1, EntryTyped
    <3>3. \A i \in 1 .. Len(ledger) : ledger'[i] = ledger[i]
      BY <3>1, <3>2 DEF TypeOK
    <3>4. checkpoint # Absent => checkpoint.seq <= Len(ledger)
      BY DEF InOrder, LedgerInOrder, TypeOK, Run
    <3>5. checkpoint # Absent => \A i \in 1 .. checkpoint.seq : ledger'[i] = ledger[i]
      BY <3>3, <3>4 DEF TypeOK, Run
    <3> QED BY <3>1, <3>5, KeepsRun
  <2>4. CASE UNCHANGED <<request, checkpoint, ledger>>
    BY <2>4, KeepsRun
  <2>5. ASSUME NEW p \in Proc,
               \/ StartCapture(p) \/ PublishBinding(p) \/ SubmitEvent(p) \/ LockBusy(p)
               \/ AcknowledgeDuplicate(p) \/ Admit(p) \/ Refuse(p)
               \/ InvalidateReceipt(p) \/ AppendConflict(p) \/ FinishCall(p)
               \/ PersistReceipt(p) \/ FailBetweenWrites(p)
        PROVE UNCHANGED <<request, checkpoint, ledger>>
    BY <2>5 DEF StartCapture, PublishBinding, SubmitEvent, LockBusy,
                AcknowledgeDuplicate, Admit, Refuse, InvalidateReceipt, AppendConflict,
                FinishCall, PersistReceipt, FailBetweenWrites, disk
  <2>6. CASE UNCHANGED vars
    BY <2>4, <2>6 DEF vars, disk
  <2> QED BY <2>1, <2>2, <2>3, <2>4, <2>5, <2>6 DEF Next
<1> QED BY <1>1, <1>2, TypesInvariant, WritersAreExclusive, InOrderInvariant,
           WorkIsNextInvariant, PTL DEF Spec, ImplementsCaptureRun, Implemented!Spec

------------------------------------------------------------------------------
(***************************************************************************)
(* The interrupted attempt.                                                *)
(***************************************************************************)

\* An attempt whose first save was interrupted stays as it is: nobody gets the
\* lock on it again, and none of its files changes.
THEOREM InterruptedAttemptsStayClosed == Spec => InterruptedAttemptStaysClosed
<1>1. WritersExclude /\ [Next]_vars
          => [(binding /\ checkpoint = Absent /\ lock = Absent)
                 => UNCHANGED <<disk, lock>>]_vars
  <2> SUFFICES ASSUME WritersExclude, [Next]_vars,
                      binding, checkpoint = Absent, lock = Absent
               PROVE  UNCHANGED <<disk, lock>>
    OBVIOUS
  <2>1. ~CheckpointLoads
    BY DEF CheckpointLoads
  <2>2. \A p \in Proc : pc[p] \in {"idle", "submitted"} /\ lock # p
    BY NobodyWrites, AbsentAssumption
  <2>3. ASSUME NEW p \in Proc, LockBusy(p) \/ Refuse(p) PROVE UNCHANGED <<disk, lock>>
    BY <2>3 DEF LockBusy, Refuse
  <2>4. ASSUME NEW p \in Proc,
               StartCapture(p) \/ SubmitEvent(p) \/ AcknowledgeDuplicate(p)
                 \/ Admit(p) \/ PersistReceipt(p)
        PROVE FALSE
    BY <2>1, <2>4 DEF StartCapture, SubmitEvent, AcknowledgeDuplicate, Admit,
                      PersistReceipt
  <2>5. ASSUME NEW p \in Proc,
               PublishBinding(p) \/ CreateCheckpoint(p) \/ InvalidateReceipt(p)
                 \/ AppendEvent(p) \/ AppendConflict(p) \/ SaveCheckpoint(p)
                 \/ FinishCall(p) \/ FailBetweenWrites(p) \/ DieInAppend(p)
        PROVE FALSE
    BY <2>2, <2>5 DEF PublishBinding, CreateCheckpoint, InvalidateReceipt, AppendEvent,
                      AppendConflict, SaveCheckpoint, FinishCall, FailBetweenWrites,
                      DieInAppend
  <2>6. CASE UNCHANGED vars
    BY <2>6 DEF vars
  <2> QED BY <2>3, <2>4, <2>5, <2>6 DEF Next
<1> QED BY <1>1, WritersAreExclusive, PTL DEF Spec, InterruptedAttemptStaysClosed

------------------------------------------------------------------------------
(***************************************************************************)
(* Replaying the ledger.  A checkpoint has a history: the runs the ledger  *)
(* leads to, up to its sequence.  Saving a checkpoint makes it longer by   *)
(* one; nothing else changes a line it rests on.  Two histories of the     *)
(* same length end in the same run, so Replay ends in the checkpoint.      *)
(***************************************************************************)
IsHistory(h, n) ==
    h = [i \in 0 .. n |-> IF i = 0 THEN NewCaptureLoop(request.route)
                          ELSE AdvanceCaptureLoop(h[i - 1], ledger[i].ev)]

HasHistory ==
    checkpoint # Absent =>
        \E h : IsHistory(h, checkpoint.seq) /\ h[checkpoint.seq] = checkpoint

\* Induction on an interval: otherwise adding one maps G into G without 0, which
\* has one element less.
LEMMA CountsUp ==
    ASSUME NEW n \in Nat, NEW G, G \subseteq 0 .. n, 0 \in G,
           \A i \in G : i < n => i + 1 \in G
    PROVE  n \in G
<1> SUFFICES ASSUME n \notin G PROVE FALSE
  OBVIOUS
<1> DEFINE next == [i \in G |-> i + 1]
<1>1. IsFiniteSet(G) /\ IsFiniteSet(G \ {0}) /\ Cardinality(G) \in Nat
      /\ Cardinality(G \ {0}) = Cardinality(G) - 1
  <2>1. IsFiniteSet(0 .. n)
    BY FS_Interval
  <2>2. IsFiniteSet(G)
    BY <2>1, FS_Subset
  <2> QED
    BY <2>2, FS_RemoveElement, FS_CardinalityType
<1>2. next \in [G -> G \ {0}]
  OBVIOUS
<1>3. \E i, j \in G : i # j /\ next[i] = next[j]
  <2> HIDE DEF next
  <2>1. Cardinality(G \ {0}) < Cardinality(G)
    BY <1>1
  <2> QED BY <1>1, <1>2, <2>1, FS_PigeonHole
<1> QED
  BY <1>3

\* What a history is, place by place.
LEMMA HistorySteps ==
    ASSUME NEW n \in Nat, NEW h, IsHistory(h, n)
    PROVE  /\ h[0] = NewCaptureLoop(request.route)
           /\ \A i \in 1 .. n : h[i] = AdvanceCaptureLoop(h[i - 1], ledger[i].ev)
<1>1. 0 \in 0 .. n /\ \A i \in 1 .. n : i \in 0 .. n /\ i # 0
  OBVIOUS
<1> QED BY <1>1 DEF IsHistory

\* Histories of one length end in the same run.
LEMMA HistoryIsReplay ==
    ASSUME NEW n \in Nat, NEW h, IsHistory(h, n)
    PROVE  Replay(n) = h[n]
<1> DEFINE chosen == CHOOSE f : IsHistory(f, n)
           G == {i \in 0 .. n : chosen[i] = h[i]}
<1>1. IsHistory(chosen, n)
  <2> HIDE DEF IsHistory
  <2> QED OBVIOUS
<1>2. Replay(n) = chosen[n]
  BY DEF Replay, IsHistory
<1> HIDE DEF chosen
<1>3. 0 \in G
  BY <1>1, HistorySteps
<1>4. ASSUME NEW i \in G, i < n
      PROVE  i + 1 \in G
  <2>1. i + 1 \in 1 .. n /\ i + 1 \in 0 .. n /\ (i + 1) - 1 = i /\ chosen[i] = h[i]
    BY <1>4
  <2>2. /\ chosen[i + 1] = AdvanceCaptureLoop(chosen[i], ledger[i + 1].ev)
        /\ h[i + 1] = AdvanceCaptureLoop(h[i], ledger[i + 1].ev)
    BY <1>1, <2>1, HistorySteps
  <2> QED BY <2>1, <2>2
<1>5. n \in G
  <2>1. G \subseteq 0 .. n
    OBVIOUS
  <2> HIDE DEF G
  <2> QED BY <1>3, <1>4, <2>1, CountsUp
<1> QED BY <1>2, <1>5

\* A step that keeps the checkpoint and the lines up to its sequence keeps its
\* history.
LEMMA KeepsHistory ==
    ASSUME HasHistory, UNCHANGED <<request, checkpoint>>,
           checkpoint # Absent =>
               /\ checkpoint.seq \in Nat
               /\ \A i \in 1 .. checkpoint.seq : ledger'[i] = ledger[i]
    PROVE  HasHistory'
<1> SUFFICES ASSUME checkpoint # Absent
             PROVE  \E h : IsHistory(h, checkpoint.seq)' /\ h[checkpoint.seq] = checkpoint
  BY DEF HasHistory
<1> DEFINE n == checkpoint.seq
<1>1. PICK h : IsHistory(h, n) /\ h[n] = checkpoint
  BY DEF HasHistory
<1>2. h = [i \in 0 .. n |-> IF i = 0 THEN NewCaptureLoop(request.route)
                            ELSE AdvanceCaptureLoop(h[i - 1], ledger[i].ev)]
  BY <1>1 DEF IsHistory
<1>3. \A i \in 0 .. n : i = 0 \/ ledger'[i] = ledger[i]
  OBVIOUS
<1>4. h = [i \in 0 .. n |-> IF i = 0 THEN NewCaptureLoop(request'.route)
                            ELSE AdvanceCaptureLoop(h[i - 1], ledger'[i].ev)]
  <2> HIDE DEF n
  <2> QED BY <1>2, <1>3
<1> QED BY <1>1, <1>4 DEF IsHistory

\* A capture that is created has the history of a new run.
LEMMA CreateStartsHistory ==
    ASSUME TypeOK, NEW p \in Proc, CreateCheckpoint(p)
    PROVE  HasHistory'
<1>1. checkpoint' = NewCaptureLoop(request'.route) /\ checkpoint'.seq = 0
  BY DEF CreateCheckpoint, NewCaptureLoop
<1> DEFINE h == [i \in 0 .. 0 |-> NewCaptureLoop(request'.route)]
<1>2. h = [i \in 0 .. 0 |-> IF i = 0 THEN NewCaptureLoop(request'.route)
                            ELSE AdvanceCaptureLoop(h[i - 1], ledger'[i].ev)]
  <2>1. \A i \in 0 .. 0 : i = 0
    OBVIOUS
  <2> QED BY <2>1
<1>3. h[0] = checkpoint'
  BY <1>1
<1> HIDE DEF h
<1>4. \E g : IsHistory(g, 0)' /\ g[0] = checkpoint'
  BY <1>2, <1>3 DEF IsHistory
<1> QED BY <1>1, <1>4 DEF HasHistory

\* A checkpoint that is saved is one event further than the one before.
LEMMA SaveExtendsHistory ==
    ASSUME TypeOK, CallsAreKnown, InOrder, HasHistory,
           NEW p \in Proc, WorkIsNext(p), SaveCheckpoint(p)
    PROVE  HasHistory'
<1> DEFINE n == checkpoint.seq
<1>1. checkpoint \in Run /\ checkpoint # Absent
  BY AbsentAssumption DEF SaveCheckpoint, CallsAreKnown, Working
<1>2. /\ checkpoint' = AdvanceCaptureLoop(checkpoint, ledger[n + 1].ev)
      /\ UNCHANGED <<request, ledger>>
  BY DEF SaveCheckpoint, WorkIsNext
<1>3. n \in Nat /\ checkpoint'.seq = n + 1
  BY <1>1 DEF SaveCheckpoint, InOrder, CallInOrder, Run
<1>4. PICK h : IsHistory(h, n) /\ h[n] = checkpoint
  BY <1>1 DEF HasHistory
<1> HIDE DEF n
<1> DEFINE k == n + 1
           g == [i \in 0 .. k |-> IF i = k THEN checkpoint' ELSE h[i]]
<1>5. ASSUME NEW i \in 0 .. k
      PROVE  g[i] = IF i = 0 THEN NewCaptureLoop(request.route)
                    ELSE AdvanceCaptureLoop(g[i - 1], ledger[i].ev)
  <2>1. CASE i = 0
    BY <1>3, <1>4, <2>1, HistorySteps
  <2>2. CASE i \in 1 .. n
    <3>1. g[i] = h[i] /\ g[i - 1] = h[i - 1] /\ i # 0
      BY <1>3, <2>2
    <3>2. h[i] = AdvanceCaptureLoop(h[i - 1], ledger[i].ev)
      BY <1>3, <1>4, <2>2, HistorySteps
    <3> HIDE DEF g
    <3> QED BY <3>1, <3>2
  <2>3. CASE i = k
    <3>1. g[i] = checkpoint' /\ g[i - 1] = checkpoint /\ i # 0 /\ i = n + 1
      BY <1>3, <1>4, <2>3
    <3> HIDE DEF g
    <3> QED BY <1>2, <3>1
  <2> QED BY <1>3, <2>1, <2>2, <2>3
<1>6. g = [i \in 0 .. k |-> g[i]]
  OBVIOUS
<1>7. g[k] = checkpoint' /\ k = checkpoint'.seq
  BY <1>3
<1> HIDE DEF g, k
<1>8. g = [i \in 0 .. k |-> IF i = 0 THEN NewCaptureLoop(request'.route)
                            ELSE AdvanceCaptureLoop(g[i - 1], ledger'[i].ev)]
  BY <1>2, <1>5, <1>6
<1>9. \E f : /\ f = [i \in 0 .. checkpoint'.seq |->
                       IF i = 0 THEN NewCaptureLoop(request'.route)
                       ELSE AdvanceCaptureLoop(f[i - 1], ledger'[i].ev)]
            /\ f[checkpoint'.seq] = checkpoint'
  BY <1>7, <1>8
<1> QED BY <1>9 DEF HasHistory, IsHistory

\* Every checkpoint has a history (append_event before save_checkpoint).
LEMMA HistoryInvariant == Spec => []HasHistory
<1>1. Init => HasHistory
  BY DEF Init, HasHistory
<1>2. /\ TypeOK /\ CallsAreKnown /\ InOrder /\ (\A p \in Proc : WorkIsNext(p))
      /\ HasHistory /\ [Next]_vars
      => HasHistory'
  <2> SUFFICES ASSUME TypeOK, CallsAreKnown, InOrder, HasHistory, [Next]_vars,
                      \A p \in Proc : WorkIsNext(p)
               PROVE  HasHistory'
    OBVIOUS
  <2>0. checkpoint # Absent => /\ checkpoint.seq \in Nat
                               /\ checkpoint.seq <= Len(ledger)
    BY DEF InOrder, LedgerInOrder, TypeOK, Run
  <2>1. ASSUME NEW p \in Proc, SaveCheckpoint(p) PROVE HasHistory'
    BY <2>1, SaveExtendsHistory
  <2>2. ASSUME NEW p \in Proc, CreateCheckpoint(p) PROVE HasHistory'
    BY <2>2, CreateStartsHistory
  <2>3. ASSUME NEW p \in Proc, AppendEvent(p) \/ DieInAppend(p) PROVE HasHistory'
    <3>1. /\ UNCHANGED <<request, checkpoint>>
          /\ ledger' = ledger \/ ledger' = Append(ledger, LedgerEntry(p))
          /\ pc[p] = "append"
      BY <2>3 DEF AppendEvent, DieInAppend
    <3>2. LedgerEntry(p) \in Entry
      BY <3>1, EntryTyped
    <3>3. \A i \in 1 .. Len(ledger) : ledger'[i] = ledger[i]
      BY <3>1, <3>2 DEF TypeOK
    <3>4. checkpoint # Absent => \A i \in 1 .. checkpoint.seq : ledger'[i] = ledger[i]
      BY <2>0, <3>3 DEF TypeOK
    <3> QED BY <2>0, <3>1, <3>4, KeepsHistory
  <2>4. CASE UNCHANGED <<request, checkpoint, ledger>>
    BY <2>0, <2>4, KeepsHistory
  <2>5. ASSUME NEW p \in Proc,
               \/ StartCapture(p) \/ PublishBinding(p) \/ SubmitEvent(p) \/ LockBusy(p)
               \/ AcknowledgeDuplicate(p) \/ Admit(p) \/ Refuse(p)
               \/ InvalidateReceipt(p) \/ AppendConflict(p) \/ FinishCall(p)
               \/ PersistReceipt(p) \/ FailBetweenWrites(p)
        PROVE UNCHANGED <<request, checkpoint, ledger>>
    BY <2>5 DEF StartCapture, PublishBinding, SubmitEvent, LockBusy,
                AcknowledgeDuplicate, Admit, Refuse, InvalidateReceipt, AppendConflict,
                FinishCall, PersistReceipt, FailBetweenWrites, disk
  <2>6. CASE UNCHANGED vars
    BY <2>4, <2>6 DEF vars, disk
  <2> QED BY <2>1, <2>2, <2>3, <2>4, <2>5, <2>6 DEF Next
<1> QED BY <1>1, <1>2, TypesInvariant, InOrderInvariant, WorkIsNextInvariant, PTL DEF Spec

\* Whatever dies and whoever races, replaying the ledger up to its sequence gives
\* the checkpoint, and the ledger is at most one event ahead of it.
THEOREM CheckpointsReplay == Spec => []CheckpointIsReplay
<1>1. TypeOK /\ InOrder /\ HasHistory => CheckpointIsReplay
  <2> SUFFICES ASSUME TypeOK, InOrder, HasHistory PROVE CheckpointIsReplay
    OBVIOUS
  <2>1. CASE checkpoint = Absent
    BY <2>1 DEF InOrder, LedgerInOrder, CheckpointIsReplay
  <2>2. CASE checkpoint # Absent
    <3>1. checkpoint.seq \in Nat /\ Len(ledger) - checkpoint.seq \in {0, 1}
      BY <2>2 DEF InOrder, LedgerInOrder, TypeOK, Run
    <3>2. PICK h : IsHistory(h, checkpoint.seq) /\ h[checkpoint.seq] = checkpoint
      BY <2>2 DEF HasHistory
    <3>3. checkpoint = Replay(checkpoint.seq)
      BY <3>1, <3>2, HistoryIsReplay
    <3> QED BY <2>2, <3>1, <3>3 DEF CheckpointIsReplay
  <2> QED BY <2>1, <2>2
<1> QED BY <1>1, TypesInvariant, InOrderInvariant, HistoryInvariant, PTL
===============================================================================
