---------------------------- MODULE DurableCapture ----------------------------
(***************************************************************************)
(* One capture on disk: start_capture_loop and advance_persisted_capture   *)
(* of capture/service.py over the files of capture/store.py, with several  *)
(* processes calling them and any of them dying between two writes.        *)
(*                                                                         *)
(* A transition touches four files: the strict receipt (deleted first),    *)
(* the event ledger (one line appended), the checkpoint (replaced by       *)
(* rename) and the receipt again.  The attempt binding is written once,    *)
(* before the first checkpoint.  A lock file serialises the callers; the   *)
(* operating system releases it when its holder dies.                      *)
(*                                                                         *)
(* Everything a call reads under the lock it reads in one step: no other   *)
(* process writes these files without the lock.                            *)
(***************************************************************************)
EXTENDS CaptureLoop, Sequences, FiniteSets

CONSTANTS
    Proc,         \* the processes that may work on the capture
    Routes,       \* the routes captures are started with
    Offered,      \* the events callers submit
    Absent,       \* a file that does not exist, a call that is not there
    MaxEvents,    \* bound: length of the event ledger
    MaxFailures   \* bound: how many calls die or fail between two writes

ASSUME ProcAssumption == Proc # {}
ASSUME DurableRoutesAssumption == Routes \subseteq Route
ASSUME DurableOfferedAssumption == Offered \subseteq Event
ASSUME AbsentAssumption == Absent \notin Run /\ Absent \notin Proc
ASSUME MaxEventsAssumption == MaxEvents \in Nat
ASSUME MaxFailuresAssumption == MaxFailures \in Nat

VARIABLES
    request,      \* what the capture was requested with: route, attempt identity
    checkpoint,   \* checkpoints/<capture>.json
    binding,      \* does attempt-identities/<capture>.json exist
    ledger,       \* the complete lines of events/<capture>.jsonl
    tail,         \* how that file ends: "clean", "open" (no newline), "broken"
    receipt,      \* the checkpoint the strict receipt on disk is bound to
    lock,         \* holder of locks/<capture>.lock
    pc, call, work,
                  \* per process: next write, its arguments, the advanced run
    acked,        \* history: ids of the events whose call returned a status
    failures      \* history: calls that died or failed between two writes

disk == <<checkpoint, binding, ledger, tail, receipt>>
vars == <<request, disk, lock, pc, call, work, acked, failures>>

\* The blockers load_checkpoint lets through.
SafeBlocker == {None, "auth_required", "human_approval_required",
                "retryable_failure", "retry_budget_exhausted",
                "scan_pass_budget_exhausted"}

Id == 1 .. MaxEvents
Call == [id : Id, ev : Offered, expected : Nat]
Entry == [id : Id, ev : Offered, state : State, blocker : Blocker]

Init ==
    /\ request \in [route : Routes, attempt : BOOLEAN]
    /\ checkpoint = Absent /\ binding = FALSE
    /\ ledger = <<>> /\ tail = "clean"
    /\ receipt = Absent /\ lock = Absent
    /\ pc = [p \in Proc |-> "idle"]
    /\ call = [p \in Proc |-> Absent]
    /\ work = [p \in Proc |-> Absent]
    /\ acked = {} /\ failures = 0

------------------------------------------------------------------------------
(***************************************************************************)
(* Reading the store                                                       *)
(***************************************************************************)

\* Mutant of CheckpointLoads: a missing checkpoint is a new capture.
CheckpointLoadsUnbound ==
    checkpoint # Absent => checkpoint.blocker \in SafeBlocker

\* load_checkpoint raises on a binding without its checkpoint, on a checkpoint
\* of an attempt without its binding and on a blocker it does not know.
CheckpointLoads ==
    IF checkpoint = Absent THEN ~binding
    ELSE binding = request.attempt /\ checkpoint.blocker \in SafeBlocker

\* load_events raises on a line that is not JSON.
EventsLoad == tail # "broken"

Recorded == {ledger[i].id : i \in DOMAIN ledger}

\* The ids of the calls under way.
Pending == {call[p].id : p \in {q \in Proc : call[q] # Absent}}

SequenceOf(id) == CHOOSE i \in DOMAIN ledger : ledger[i].id = id

\* A receipt is written for, and loaded with, a checkpoint that waits for nothing.
Usable(run) == /\ run.blocker = None
               /\ run.state \notin WaitingState \cup {"blocked_closed"}

Idle(p) ==
    /\ pc' = [pc EXCEPT ![p] = "idle"]
    /\ call' = [call EXCEPT ![p] = Absent]
    /\ work' = [work EXCEPT ![p] = Absent]

------------------------------------------------------------------------------
(***************************************************************************)
(* start_capture_loop                                                      *)
(***************************************************************************)

\* Mutant of StartCapture: a capture that exists is started over.
StartCaptureOver(p) ==
    /\ pc[p] = "idle" /\ lock = Absent /\ CheckpointLoads
    /\ lock' = p
    /\ pc' = [pc EXCEPT ![p] = IF request.attempt THEN "bind" ELSE "create"]
    /\ UNCHANGED <<request, disk, call, work, acked, failures>>

\* A capture that exists is returned as it is; only a missing one is created.
StartCapture(p) ==
    /\ pc[p] = "idle" /\ lock = Absent
    /\ CheckpointLoads /\ checkpoint = Absent
    /\ lock' = p
    /\ pc' = [pc EXCEPT ![p] = IF request.attempt THEN "bind" ELSE "create"]
    /\ UNCHANGED <<request, disk, call, work, acked, failures>>

PublishBinding(p) ==
    /\ pc[p] = "bind"
    /\ binding' = TRUE
    /\ pc' = [pc EXCEPT ![p] = "create"]
    /\ UNCHANGED <<request, checkpoint, ledger, tail, receipt, lock, call, work,
                   acked, failures>>

CreateCheckpoint(p) ==
    /\ pc[p] = "create"
    /\ checkpoint' = NewCaptureLoop(request.route)
    /\ receipt' = Absent
    /\ lock' = Absent
    /\ Idle(p)
    /\ UNCHANGED <<request, binding, ledger, tail, acked, failures>>

------------------------------------------------------------------------------
(***************************************************************************)
(* advance_persisted_capture                                               *)
(***************************************************************************)

\* An operator reads the status, which carries the sequence, and submits an
\* event under an id of its choice: a new one, or one used before (a retry, or
\* by mistake).  New ids are taken in order, which ids are used being all that
\* matters.
SubmitEvent(p) ==
    /\ pc[p] = "idle"
    /\ CheckpointLoads /\ checkpoint # Absent
    /\ \E id \in Id, ev \in Offered :
           /\ id <= 1 + Cardinality(Recorded \cup Pending)
           /\ call' = [call EXCEPT ![p] = [id |-> id, ev |-> ev,
                                           expected |-> checkpoint.seq]]
    /\ pc' = [pc EXCEPT ![p] = "submitted"]
    /\ UNCHANGED <<request, disk, lock, work, acked, failures>>

\* The lock is not waited for: a caller that finds it held gives up.
LockBusy(p) ==
    /\ pc[p] = "submitted" /\ lock # Absent
    /\ Idle(p)
    /\ UNCHANGED <<request, disk, lock, acked, failures>>

\* The id is new: the event is applied to the checkpoint the caller saw.
AdmitsNew(c) ==
    /\ c.id \notin Recorded
    /\ checkpoint.seq = c.expected
    /\ Accepts(checkpoint, c.ev)

SameEvent(c) == ledger[SequenceOf(c.id)].ev = c.ev

\* Mutant of AlreadyApplied: an id found in the ledger is taken for applied.
AlreadyAppliedIfRecorded(c) == c.id \in Recorded /\ SameEvent(c)

\* The id was used for this very event, and the checkpoint contains it.
AlreadyApplied(c) ==
    /\ c.id \in Recorded /\ SameEvent(c)
    /\ checkpoint.seq = SequenceOf(c.id)

\* Mutant of AdmitsRecovery: the sequence compared is off by one.
AdmitsRecoveryOffByOne(c) ==
    /\ c.id \in Recorded /\ SameEvent(c)
    /\ checkpoint.seq = SequenceOf(c.id) - 2
    /\ Accepts(checkpoint, c.ev)

\* The id was used for this very event, and its caller died before the
\* checkpoint: the event is applied again, with the same outcome.
AdmitsRecovery(c) ==
    /\ c.id \in Recorded /\ SameEvent(c)
    /\ checkpoint.seq = SequenceOf(c.id) - 1
    /\ Accepts(checkpoint, c.ev)
    /\ LET entry == ledger[SequenceOf(c.id)]
           again == AdvanceCaptureLoop(checkpoint, c.ev)
       IN again.state = entry.state /\ again.blocker = entry.blocker

AcknowledgeDuplicate(p) ==
    /\ pc[p] = "submitted" /\ lock = Absent
    /\ CheckpointLoads /\ EventsLoad
    /\ AlreadyApplied(call[p])
    /\ acked' = acked \cup {call[p].id}
    /\ Idle(p)
    /\ UNCHANGED <<request, disk, lock, failures>>

Admit(p) ==
    /\ pc[p] = "submitted" /\ lock = Absent
    /\ CheckpointLoads /\ EventsLoad
    /\ AdmitsNew(call[p]) \/ AdmitsRecovery(call[p])
    /\ lock' = p
    /\ work' = [work EXCEPT ![p] = AdvanceCaptureLoop(checkpoint, call[p].ev)]
    /\ pc' = [pc EXCEPT ![p] = "invalidate"]
    /\ UNCHANGED <<request, disk, call, acked, failures>>

\* Anything else is answered with an exception, and the lock is released.
Refuse(p) ==
    /\ pc[p] = "submitted" /\ lock = Absent
    /\ \/ ~CheckpointLoads \/ ~EventsLoad
       \/ /\ ~AdmitsNew(call[p]) /\ ~AdmitsRecovery(call[p])
          /\ ~AlreadyApplied(call[p])
    /\ Idle(p)
    /\ UNCHANGED <<request, disk, lock, acked, failures>>

\* Mutant of InvalidateReceipt: the receipt is left to save_checkpoint.
InvalidateReceiptLater(p) ==
    /\ pc[p] = "invalidate"
    /\ pc' = [pc EXCEPT ![p] = IF call[p].id \in Recorded THEN "save" ELSE "append"]
    /\ UNCHANGED <<request, disk, lock, call, work, acked, failures>>

InvalidateReceipt(p) ==
    /\ pc[p] = "invalidate"
    /\ receipt' = Absent
    /\ pc' = [pc EXCEPT ![p] = IF call[p].id \in Recorded THEN "save" ELSE "append"]
    /\ UNCHANGED <<request, checkpoint, binding, ledger, tail, lock, call, work,
                   acked, failures>>

LedgerEntry(p) == [id |-> call[p].id, ev |-> call[p].ev,
                   state |-> work[p].state, blocker |-> work[p].blocker]

\* Mutant of AppendEvent: the ledger's length is not compared.
AppendEventAnywhere(p) ==
    /\ pc[p] = "append"
    /\ ledger' = Append(ledger, LedgerEntry(p))
    /\ tail' = IF tail = "open" THEN "broken" ELSE tail
    /\ pc' = [pc EXCEPT ![p] = "save"]
    /\ UNCHANGED <<request, checkpoint, binding, receipt, lock, call, work,
                   acked, failures>>

\* A line appended after an unterminated one makes one line of the two.
AppendEvent(p) ==
    /\ pc[p] = "append"
    /\ Len(ledger) = call[p].expected
    /\ ledger' = Append(ledger, LedgerEntry(p))
    /\ tail' = IF tail = "open" THEN "broken" ELSE tail
    /\ pc' = [pc EXCEPT ![p] = "save"]
    /\ UNCHANGED <<request, checkpoint, binding, receipt, lock, call, work,
                   acked, failures>>

\* The ledger is ahead of the checkpoint: append_event refuses another event.
AppendConflict(p) ==
    /\ pc[p] = "append"
    /\ Len(ledger) # call[p].expected
    /\ lock' = Absent
    /\ Idle(p)
    /\ UNCHANGED <<request, disk, acked, failures>>

SaveCheckpoint(p) ==
    /\ pc[p] = "save"
    /\ checkpoint' = work[p]
    /\ pc' = [pc EXCEPT ![p] = "finish"]
    /\ UNCHANGED <<request, binding, ledger, tail, receipt, lock, call, work,
                   acked, failures>>

\* save_checkpoint drops the receipt once more; then the status is returned.
FinishCall(p) ==
    /\ pc[p] = "finish"
    /\ receipt' = Absent
    /\ acked' = acked \cup {call[p].id}
    /\ lock' = Absent
    /\ Idle(p)
    /\ UNCHANGED <<request, checkpoint, binding, ledger, tail, failures>>

------------------------------------------------------------------------------
(***************************************************************************)
(* Receipts and failures                                                   *)
(***************************************************************************)

\* persist_strict_full_capture_receipt, under one lock and with one rename; the
\* evidence gate it also needs is CaptureEvidence's.
PersistReceipt(p) ==
    /\ pc[p] = "idle" /\ lock = Absent
    /\ CheckpointLoads /\ checkpoint # Absent /\ Usable(checkpoint)
    /\ receipt' = checkpoint
    /\ UNCHANGED <<request, checkpoint, binding, ledger, tail, lock, pc, call,
                   work, acked, failures>>

\* A call dies between two writes, or a write raises: nothing is undone.  The
\* rename of a checkpoint may be followed by an exception (the directory's
\* fsync), so a failure after it is one too.
FailBetweenWrites(p) ==
    /\ lock = p /\ failures < MaxFailures
    /\ failures' = failures + 1
    /\ lock' = Absent
    /\ Idle(p)
    /\ UNCHANGED <<request, disk, acked>>

\* A process dies inside the append, which only an exception rolls back.  The
\* line is cut short, or only its newline is missing.
DieInAppend(p) ==
    /\ pc[p] = "append" /\ Len(ledger) = call[p].expected
    /\ failures < MaxFailures
    /\ failures' = failures + 1
    /\ \/ tail' = "broken" /\ UNCHANGED ledger
       \/ /\ tail = "clean"
          /\ tail' = "open" /\ ledger' = Append(ledger, LedgerEntry(p))
    /\ lock' = Absent
    /\ Idle(p)
    /\ UNCHANGED <<request, checkpoint, binding, receipt, acked>>

Next ==
    \E p \in Proc :
        \/ StartCapture(p) \/ PublishBinding(p) \/ CreateCheckpoint(p)
        \/ SubmitEvent(p) \/ LockBusy(p) \/ AcknowledgeDuplicate(p)
        \/ Admit(p) \/ Refuse(p)
        \/ InvalidateReceipt(p) \/ AppendEvent(p) \/ AppendConflict(p)
        \/ SaveCheckpoint(p) \/ FinishCall(p)
        \/ PersistReceipt(p) \/ FailBetweenWrites(p) \/ DieInAppend(p)

Spec == Init /\ [][Next]_vars

(***************************************************************************)
(* A process that holds the lock goes on writing unless it dies, and a     *)
(* submitted call is answered.  The lock is not waited for, so recovery    *)
(* needs an operator who keeps retrying the event that is pending in the   *)
(* ledger until a retry finds the lock free: strong fairness.              *)
(***************************************************************************)
Write(p) ==
    \/ PublishBinding(p) \/ CreateCheckpoint(p)
    \/ InvalidateReceipt(p) \/ AppendEvent(p) \/ AppendConflict(p)
    \/ SaveCheckpoint(p) \/ FinishCall(p)

Answer(p) == LockBusy(p) \/ AcknowledgeDuplicate(p) \/ Admit(p) \/ Refuse(p)

LedgerAhead == checkpoint # Absent /\ Len(ledger) > checkpoint.seq

RetryPending(p) ==
    /\ LedgerAhead /\ lock = Absent
    /\ SubmitEvent(p)
    /\ call'[p].id = ledger[Len(ledger)].id /\ call'[p].ev = ledger[Len(ledger)].ev

Recover(p) == Admit(p) /\ AdmitsRecovery(call[p])

FairSpec ==
    /\ Spec
    /\ \A p \in Proc : /\ WF_vars(Write(p)) /\ WF_vars(Answer(p))
                       /\ SF_vars(RetryPending(p)) /\ SF_vars(Recover(p))

------------------------------------------------------------------------------
(***************************************************************************)
(* Properties                                                              *)
(***************************************************************************)

\* Types of the files, the lock and the calls.
TypeOK ==
    /\ request \in [route : Routes, attempt : BOOLEAN]
    /\ checkpoint \in Run \cup {Absent} /\ binding \in BOOLEAN
    /\ ledger \in Seq(Entry) /\ tail \in {"clean", "open", "broken"}
    /\ receipt \in Run \cup {Absent} /\ lock \in Proc \cup {Absent}
    /\ pc \in [Proc -> {"idle", "submitted", "bind", "create", "invalidate",
                        "append", "save", "finish"}]
    /\ call \in [Proc -> Call \cup {Absent}]
    /\ work \in [Proc -> Run \cup {Absent}]
    /\ acked \subseteq Id /\ failures \in Nat

\* The run the first n lines of the ledger lead to.
Replay(n) ==
    LET after[i \in 0 .. n] ==
            IF i = 0 THEN NewCaptureLoop(request.route)
            ELSE AdvanceCaptureLoop(after[i - 1], ledger[i].ev)
    IN after[n]

\* Whatever dies and whoever races, the checkpoint is what replaying the ledger
\* up to its sequence gives, and the ledger is at most one event ahead of it
\* (append_event before save_checkpoint, both under the transition lock).
CheckpointIsReplay ==
    IF checkpoint = Absent THEN ledger = <<>>
    ELSE /\ Len(ledger) - checkpoint.seq \in {0, 1}
         /\ checkpoint = Replay(checkpoint.seq)

\* An event id is applied once, however often its call is repeated and from
\* however many processes, and an event whose caller was told so stays in the
\* checkpoint (the scan for event_id in advance_persisted_capture).
AppliedOnce ==
    /\ \A i, j \in DOMAIN ledger : ledger[i].id = ledger[j].id => i = j
    /\ \A id \in acked : id \in Recorded /\ SequenceOf(id) <= checkpoint.seq

\* A strict receipt that is on disk is bound to the checkpoint that is on disk,
\* also when a transition dies half way (invalidate_full_capture_receipt comes
\* before the ledger and the checkpoint are touched).
ReceiptNeverStale == receipt # Absent => receipt = checkpoint

\* An attempt whose first save was interrupted stays refused: no later caller
\* gets as far as the lock's first write, so its checkpoint is not silently
\* recreated over the binding (save_checkpoint publishes the binding first).
InterruptedAttemptStaysClosed ==
    [][(binding /\ checkpoint = Absent /\ lock = Absent)
           => UNCHANGED <<disk, lock>>]_vars

\* One process at a time is between two writes.
WritersExclude ==
    \A p \in Proc : (pc[p] \notin {"idle", "submitted"}) <=> (lock = p)

\* An event left in the ledger by a call that died reaches the checkpoint when
\* its id is retried, unless the ledger can no longer be read.
PendingEventRecovered ==
    (LedgerAhead /\ EventsLoad) ~> (~LedgerAhead \/ ~EventsLoad)

\* The persisted capture implements the capture run: every write is a step of
\* one run that accepts one event at a time, or changes nothing of it.
Implemented == INSTANCE CaptureRun WITH
    run <- IF checkpoint = Absent THEN NewCaptureLoop(request.route)
           ELSE checkpoint,
    accepted <- [t \in EventType |->
        IF checkpoint = Absent THEN 0
        ELSE Cardinality({i \in 1 .. checkpoint.seq : ledger[i].ev.type = t})],
    MaxPauses <- MaxEvents

ImplementsCaptureRun == Implemented!Spec
==============================================================================
