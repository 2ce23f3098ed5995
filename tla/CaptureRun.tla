------------------------------ MODULE CaptureRun ------------------------------
(***************************************************************************)
(* One capture run from new_capture_loop to a terminal state, driven by    *)
(* the events advance_capture_loop accepts.  This is also the abstract     *)
(* specification DurableCapture implements: what a capture promises when   *)
(* nothing crashes and nobody races.                                       *)
(***************************************************************************)
EXTENDS CaptureLoop

CONSTANTS
    Routes,      \* the routes captures are started with
    Offered,     \* the events callers submit
    MaxPauses    \* bound: how often login or approval interrupts a run

ASSUME RoutesAssumption == Routes \subseteq Route
ASSUME OfferedAssumption == Offered \subseteq Event
ASSUME MaxPausesAssumption == MaxPauses \in Nat

VARIABLES
    run,         \* the envelope
    accepted     \* history: how many events of each type were accepted

vars == <<run, accepted>>

Pauses == accepted["auth_required"] + accepted["human_approval_required"]

Init ==
    /\ \E route \in Routes : run = NewCaptureLoop(route)
    /\ accepted = [t \in EventType |-> 0]

\* advance_capture_loop on one event; a rejected event changes nothing.
Advance(ev) ==
    /\ Accepts(run, ev)
    /\ run' = AdvanceCaptureLoop(run, ev)
    /\ accepted' = [accepted EXCEPT ![ev.type] = @ + 1]

RaiseBlocker ==
    /\ Pauses < MaxPauses
    /\ \E ev \in Offered : ev.type \in PauseEvent /\ Advance(ev)

ResolveBlocker == \E ev \in Offered : ev.type \in ResolveEvent /\ Advance(ev)

RetryableFailure ==
    \E ev \in Offered : ev.type = "retryable_failure" /\ Advance(ev)

RetryDue == \E ev \in Offered : ev.type = "retry_due" /\ Advance(ev)

CompleteStage == \E ev \in Offered : ev.type \in StageEvent /\ Advance(ev)

EvaluateGate == \E ev \in Offered : ev.type \in GateEvent /\ Advance(ev)

\* A closed run, or one whose resume_state is lost, may stop.
Closed == run.state \in TerminalState
Stranded == run.state \in WaitingState /\ run.resume = None

Next == \/ RaiseBlocker \/ ResolveBlocker
        \/ RetryableFailure \/ RetryDue
        \/ CompleteStage \/ EvaluateGate

Spec == Init /\ [][Next]_vars

(***************************************************************************)
(* The worker keeps working: it finishes the stage it is in, reports the   *)
(* gate's verdict, retries when the retry is due, and an operator resolves *)
(* what a run is paused for.  Failures and pauses are under no fairness.   *)
(***************************************************************************)
FairSpec == /\ Spec
            /\ WF_vars(CompleteStage) /\ WF_vars(EvaluateGate)
            /\ WF_vars(RetryDue) /\ WF_vars(ResolveBlocker)

------------------------------------------------------------------------------
(***************************************************************************)
(* Properties                                                              *)
(***************************************************************************)

\* Types of the envelope new_capture_loop creates and of the history.
TypeOK ==
    /\ run \in Run
    /\ accepted \in [EventType -> Nat]

\* The events without which a run cannot have got to a state.
NeededFor(state) ==
    LET preflight == IF run.route \in OfflineRoute THEN {}
                     ELSE {"visible_snapshot_saved"}
        walked    == preflight \cup {"route_ready", "oldest_reached"}
        collected == walked \cup {"latest_reached",
                                  "attachment_inventory_complete"}
        rescanned == collected \cup {"attachments_saved", "reconciled"}
    IN CASE state = "route_preflight" -> {"visible_snapshot_saved"}
         [] state = "traversing_to_oldest" -> preflight \cup {"route_ready"}
         [] state = "traversing_to_latest" -> walked
         [] state = "attachment_inventory" -> walked \cup {"latest_reached"}
         [] state = "downloading_attachments" -> collected
         [] state = "reconciling" -> collected \cup {"attachments_saved"}
         [] state = "stable_rescan" -> rescanned
         [] state = "gate_evaluating" -> rescanned \cup {"stable_rescan_complete"}
         [] state = "full_closed" ->
                rescanned \cup {"stable_rescan_complete", "gate_full"}
         [] OTHER -> {}

\* Every pause, failure and retry brings a run back to the stage it left, so
\* no detour lets a run reach (or resume into) a stage, and in the end
\* full_closed, without the event that completes each stage before it
\* (_TRANSITIONS together with resume_state).
NoStageSkipped ==
    \A state \in {run.state, run.resume} :
        \A t \in NeededFor(state) : accepted[t] > 0

\* The two budgets count what was really accepted, over all detours, and a run
\* that is still open has used up neither (retry.used, scan_pass.used).
BudgetsBound ==
    /\ run.retryUsed = accepted["retryable_failure"]
    /\ run.scanUsed = accepted["gate_partial"]
    /\ ~Closed => run.retryUsed <= RetryBudget /\ run.scanUsed < ScanPassBudget

\* A run that shows "full" to its consumers has no blocker, no pending
\* approval that was left unanswered, and nothing to resume: full_closed is
\* never reached while something is unresolved.
FullIsUnblocked ==
    run.background = "full" =>
        /\ run.state = "full_closed" /\ run.blocker = None
        /\ run.resume = None /\ run.pending = None

\* Partial gates cannot be rescanned forever and retries run out: a run whose
\* worker keeps working is closed, or is left waiting with nothing to resume.
ClosesOrStrands == <>(Closed \/ Stranded)

\* What the status projection and the operations card say of a waiting run:
\* resolving what it waits for lets it resume.
WaitingRunCanResume ==
    Decision(run.state) = "resolve_blocker" => run.resume # None
==============================================================================
