----------------------------- MODULE CaptureLoop -----------------------------
(***************************************************************************)
(* The capture loop as a pure state machine: the run envelope that         *)
(* capture/orchestrator.py and capture/loop.py create and advance.  Both   *)
(* files are functions from an envelope and an event to a new envelope, so *)
(* this module has operators and no variables.  CaptureRun turns them into *)
(* a specification, DurableCapture persists the envelope.                  *)
(*                                                                         *)
(* Digests and identifiers are abstracted to the comparisons the code      *)
(* makes with them: an event and a gate result are "scoped" or not to the  *)
(* capture they are applied to.                                            *)
(***************************************************************************)
EXTENDS Naturals

CONSTANTS
    ApprovalAction,   \* the fallback actions a human may be asked to approve
    RetryBudget,      \* new_capture_run: retry_budget
    ScanPassBudget    \* new_capture_loop: scan_pass_budget

None == "none"        \* Python's None

ASSUME RetryBudgetAssumption == RetryBudget \in Nat
ASSUME ScanPassBudgetAssumption == ScanPassBudget \in Nat \ {0}
ASSUME ApprovalActionAssumption == None \notin ApprovalAction

Route == {"in_app_browser", "chrome_extension", "rest_backfill",
          "saved_artifacts", "discord_desktop_accessibility"}

\* Routes that read no live page: they may skip the visible snapshot.
OfflineRoute == {"rest_backfill", "saved_artifacts"}

Stage == {"received", "route_preflight", "traversing_to_oldest",
          "traversing_to_latest", "attachment_inventory",
          "downloading_attachments", "reconciling", "stable_rescan",
          "gate_evaluating"}

PausedState == {"paused_auth", "paused_human_approval"}
WaitingState == PausedState \cup {"retry_wait"}
TerminalState == {"full_closed", "blocked_closed"}
State == Stage \cup WaitingState \cup TerminalState

PauseEvent == {"auth_required", "human_approval_required"}
ResolveEvent == {"auth_resolved", "human_approval_granted"}
StageEvent == {"visible_snapshot_saved", "route_ready", "oldest_reached",
               "latest_reached", "attachment_inventory_complete",
               "attachments_saved", "reconciled", "stable_rescan_complete"}
GateEvent == {"gate_full", "gate_partial", "gate_blocked"}
EventType == PauseEvent \cup ResolveEvent \cup StageEvent \cup GateEvent
             \cup {"retryable_failure", "retry_due"}

Blocker == {None, "auth_required", "human_approval_required",
            "retryable_failure", "retry_budget_exhausted",
            "scan_pass_budget_exhausted", "full_capture_gate_blocked"}

(***************************************************************************)
(* An event as the caller submits it.  "scoped": its capture_id is the     *)
(* run's.  "gate": the status of the attached gate result (which is        *)
(* confirmed exactly when it is full).  "gateScope": whose capture_id the  *)
(* gate result carries; results of older gates carry none.                 *)
(***************************************************************************)
Plain(type) == [type |-> type, action |-> None, scoped |-> FALSE,
                gate |-> None, gateScope |-> None]

Event == [type : EventType, action : ApprovalAction \cup {None},
          scoped : BOOLEAN, gate : {None, "full", "partial", "blocked"},
          gateScope : {None, "own", "other", "unset"}]

(***************************************************************************)
(* The envelope.  seq is the length of the checkpoints list; the identity  *)
(* fields other than the route never change and are left out.              *)
(***************************************************************************)
Run == [route : Route, state : State, resume : State \cup {None},
        blocker : Blocker, pending : ApprovalAction \cup {None},
        retryUsed : Nat, scanUsed : Nat,
        visible : {"pending", "saved"},
        background : {"running", "full", "blocked"},
        gateEvidence : {None, "full", "blocked"}, seq : Nat]

NewCaptureLoop(route) ==
    [route |-> route, state |-> "received", resume |-> None, blocker |-> None,
     pending |-> None, retryUsed |-> 0, scanUsed |-> 0, visible |-> "pending",
     background |-> "running", gateEvidence |-> None, seq |-> 0]

\* The table _TRANSITIONS; None where it has no entry.
Transition(state, type) ==
    CASE state = "received" /\ type = "visible_snapshot_saved" -> "route_preflight"
      [] state = "route_preflight" /\ type = "route_ready" -> "traversing_to_oldest"
      [] state = "traversing_to_oldest" /\ type = "oldest_reached" -> "traversing_to_latest"
      [] state = "traversing_to_latest" /\ type = "latest_reached" -> "attachment_inventory"
      [] state = "attachment_inventory" /\ type = "attachment_inventory_complete"
             -> "downloading_attachments"
      [] state = "downloading_attachments" /\ type = "attachments_saved" -> "reconciling"
      [] state = "reconciling" /\ type = "reconciled" -> "stable_rescan"
      [] state = "stable_rescan" /\ type = "stable_rescan_complete" -> "gate_evaluating"
      [] state = "gate_evaluating" /\ type = "gate_partial" -> "stable_rescan"
      [] OTHER -> None

BoundFullGate(ev) ==
    ev.gate = "full" /\ ev.scoped /\ ev.gateScope \in {"own", "unset"}

BoundBlockedGate(ev) ==
    ev.gate = "blocked" /\ ev.scoped /\ ev.gateScope = "own"

\* Mutant of NextStage: every route may skip the visible snapshot.
NextStageAnyRoute(r, ev) ==
    CASE r.state = "received" /\ ev.type = "route_ready" -> "traversing_to_oldest"
      [] r.state = "gate_evaluating" /\ ev.type = "gate_full"
             -> IF BoundFullGate(ev) THEN "full_closed" ELSE None
      [] r.state = "gate_evaluating" /\ ev.type = "gate_blocked"
             -> IF BoundBlockedGate(ev) THEN "blocked_closed" ELSE None
      [] OTHER -> Transition(r.state, ev.type)

\* The state a stage or gate event leads to; None where the code raises.
NextStage(r, ev) ==
    CASE r.state = "received" /\ ev.type = "route_ready" /\ r.route \in OfflineRoute
             -> "traversing_to_oldest"
      [] r.state = "gate_evaluating" /\ ev.type = "gate_full"
             -> IF BoundFullGate(ev) THEN "full_closed" ELSE None
      [] r.state = "gate_evaluating" /\ ev.type = "gate_blocked"
             -> IF BoundBlockedGate(ev) THEN "blocked_closed" ELSE None
      [] OTHER -> Transition(r.state, ev.type)

\* Mutant of ApprovalMatches: an approval must name the action it is for.
ApprovalMatchesNamed(r, ev) ==
    ev.scoped /\ r.pending # None /\ ev.action = r.pending

ApprovalMatches(r, ev) ==
    ev.scoped /\ (r.pending = None \/ ev.action = r.pending)

\* Mutant of Accepts: auth_resolved and retry_due do not look at resume_state.
AcceptsUnchecked(r, ev) ==
    /\ r.state \notin TerminalState
    /\ ev.type \in PauseEvent => r.blocker = None
    /\ ev.type = "auth_resolved" => r.state \in Stage \cup {"paused_auth"}
    /\ ev.type = "human_approval_granted" =>
           r.state = "paused_human_approval" /\ ApprovalMatches(r, ev)
    /\ ev.type = "retry_due" => r.state = "retry_wait"
    /\ ev.type \in StageEvent \cup GateEvent => NextStage(r, ev) # None

\* The events advance_capture_run does not answer with an exception.
Accepts(r, ev) ==
    /\ r.state \notin TerminalState
    /\ ev.type \in PauseEvent => r.blocker = None
    /\ ev.type = "auth_resolved" =>
           r.state = "paused_auth" /\ r.resume # None
    /\ ev.type = "human_approval_granted" =>
           /\ r.state = "paused_human_approval" /\ r.resume # None
           /\ ApprovalMatches(r, ev)
    /\ ev.type = "retry_due" => r.state = "retry_wait" /\ r.resume # None
    /\ ev.type \in StageEvent \cup GateEvent => NextStage(r, ev) # None

Pause(r, ev) ==
    [r EXCEPT !.resume = r.state, !.blocker = ev.type,
              !.state = IF ev.type = "auth_required"
                        THEN "paused_auth" ELSE "paused_human_approval",
              !.pending = IF ev.type = "human_approval_required"
                          THEN ev.action ELSE None]

\* Mutant of ResumeRun: the approval that was asked for stays pending.
ResumeRunKeepsPending(r) ==
    [r EXCEPT !.state = r.resume, !.resume = None, !.blocker = None]

ResumeRun(r) ==
    [r EXCEPT !.state = r.resume, !.resume = None, !.blocker = None,
              !.pending = None]

\* Mutant of FailRetryably: the budget is compared one failure too late.
FailRetryablyLate(r) ==
    IF r.retryUsed > RetryBudget
    THEN [r EXCEPT !.retryUsed = @ + 1, !.state = "blocked_closed",
                   !.blocker = "retry_budget_exhausted"]
    ELSE [r EXCEPT !.retryUsed = @ + 1, !.resume = r.state,
                   !.state = "retry_wait", !.blocker = "retryable_failure"]

\* Unlike Pause, a retryable failure does not look at the current blocker.
FailRetryably(r) ==
    IF r.retryUsed + 1 > RetryBudget
    THEN [r EXCEPT !.retryUsed = @ + 1, !.state = "blocked_closed",
                   !.blocker = "retry_budget_exhausted"]
    ELSE [r EXCEPT !.retryUsed = @ + 1, !.resume = r.state,
                   !.state = "retry_wait", !.blocker = "retryable_failure"]

RetryRun(r) == [r EXCEPT !.state = r.resume, !.resume = None, !.blocker = None]

EnterStage(r, ev) ==
    [r EXCEPT !.state = NextStage(r, ev),
              !.blocker = IF ev.type = "gate_blocked"
                          THEN "full_capture_gate_blocked" ELSE @,
              !.gateEvidence = IF ev.type = "gate_full" THEN "full"
                               ELSE IF ev.type = "gate_blocked" THEN "blocked"
                               ELSE @]

\* The lanes and the checkpoint list, brought up to date at the end.
Checkpointed(r, ev) ==
    [r EXCEPT !.seq = @ + 1,
              !.visible = IF ev.type = "visible_snapshot_saved"
                          THEN "saved" ELSE @,
              !.background = CASE r.state = "full_closed" -> "full"
                               [] r.state = "blocked_closed" -> "blocked"
                               [] OTHER -> @]

AdvanceCaptureRun(r, ev) ==
    Checkpointed(CASE ev.type \in PauseEvent -> Pause(r, ev)
                   [] ev.type \in ResolveEvent -> ResumeRun(r)
                   [] ev.type = "retryable_failure" -> FailRetryably(r)
                   [] ev.type = "retry_due" -> RetryRun(r)
                   [] OTHER -> EnterStage(r, ev), ev)

\* A partial gate is counted; the one that uses up the budget closes the run.
CountPartialGate(r, ev) ==
    IF r.scanUsed + 1 < ScanPassBudget
    THEN [AdvanceCaptureRun(r, ev) EXCEPT !.scanUsed = @ + 1]
    ELSE [r EXCEPT !.state = "blocked_closed",
                   !.blocker = "scan_pass_budget_exhausted",
                   !.scanUsed = @ + 1, !.background = "blocked",
                   !.seq = @ + 1]

AdvanceCaptureLoop(r, ev) ==
    IF ev.type = "gate_partial" THEN CountPartialGate(r, ev)
                                ELSE AdvanceCaptureRun(r, ev)

\* build_capture_status_projection: the decision shown for a state.
Decision(state) ==
    CASE state = "full_closed" -> "context_understanding"
      [] state = "blocked_closed" -> "human_review"
      [] state \in WaitingState -> "resolve_blocker"
      [] OTHER -> "continue_capture"
==============================================================================
