-------------------------- MODULE CaptureRunProofs --------------------------
(***************************************************************************)
(* Proofs about CaptureRun, for every set of routes, events and approval   *)
(* actions and every budget: what the operators of CaptureLoop do to a     *)
(* run's envelope, and the invariants that follow.                         *)
(***************************************************************************)
EXTENDS CaptureRun, TLAPS

(***************************************************************************)
(* What advance_capture_loop reads of an event.                            *)
(***************************************************************************)

\* Every event names a known type and a known approval action, if any.
LEMMA EventFields ==
    ASSUME NEW ev \in Event
    PROVE  /\ ev.type \in EventType
           /\ ev.action \in ApprovalAction \cup {None}
BY DEF Event

\* A stage or gate event that is accepted leads to a state of the machine.
LEMMA NextStageTyped ==
    ASSUME NEW r \in Run, NEW ev \in Event
    PROVE  NextStage(r, ev) \in State \cup {None}
BY DEF NextStage, Transition, State, Stage, TerminalState

\* Checkpointing keeps a run a run.
LEMMA CheckpointedTyped ==
    ASSUME NEW r \in Run, NEW ev \in Event
    PROVE  Checkpointed(r, ev) \in Run
<1> DEFINE v == IF ev.type = "visible_snapshot_saved" THEN "saved" ELSE r.visible
           b == CASE r.state = "full_closed" -> "full"
                  [] r.state = "blocked_closed" -> "blocked"
                  [] OTHER -> r.background
           n == r.seq + 1
<1>0. n \in Nat
  BY DEF Run
<1>1. v \in {"pending", "saved"}
  BY DEF Run
<1>2. b \in {"running", "full", "blocked"}
  BY DEF Run
<1>3. Checkpointed(r, ev)
        = [r EXCEPT !.seq = n, !.visible = v, !.background = b]
  BY DEF Checkpointed, Run
<1> HIDE DEF v, b, n
<1> QED BY <1>0, <1>1, <1>2, <1>3 DEF Run

\* A run that advance_capture_run advances is a run again.
LEMMA AdvanceRunTyped ==
    ASSUME NEW r \in Run, NEW ev \in Event, Accepts(r, ev)
    PROVE  AdvanceCaptureRun(r, ev) \in Run
<1> USE EventFields
<1>2. ASSUME ev.type \in PauseEvent PROVE Pause(r, ev) \in Run
  <2> DEFINE s == IF ev.type = "auth_required" THEN "paused_auth" ELSE "paused_human_approval"
             a == IF ev.type = "human_approval_required" THEN ev.action ELSE None
  <2>1. s \in State
    BY DEF State, WaitingState, PausedState
  <2>2. a \in ApprovalAction \cup {None}
    OBVIOUS
  <2>3. ev.type \in Blocker
    BY <1>2 DEF PauseEvent, Blocker
  <2>4. Pause(r, ev) = [r EXCEPT !.resume = r.state, !.blocker = ev.type,
                                 !.state = s, !.pending = a]
    BY DEF Pause
  <2> HIDE DEF s, a
  <2> QED BY <2>1, <2>2, <2>3, <2>4 DEF Run
<1>3. ASSUME ev.type \in ResolveEvent PROVE ResumeRun(r) \in Run
  BY <1>3 DEF ResumeRun, Run, ResolveEvent, Accepts, Blocker
<1>4. FailRetryably(r) \in Run
  <2>1. /\ "blocked_closed" \in State /\ "retry_wait" \in State
        /\ "retry_budget_exhausted" \in Blocker /\ "retryable_failure" \in Blocker
    BY DEF State, WaitingState, TerminalState, Blocker
  <2> DEFINE n == r.retryUsed + 1
  <2>2. n \in Nat
    BY DEF Run
  <2>3. \/ FailRetryably(r) = [r EXCEPT !.retryUsed = n, !.state = "blocked_closed",
                                        !.blocker = "retry_budget_exhausted"]
        \/ FailRetryably(r) = [r EXCEPT !.retryUsed = n, !.resume = r.state,
                                        !.state = "retry_wait",
                                        !.blocker = "retryable_failure"]
    BY DEF FailRetryably, Run
  <2> HIDE DEF n
  <2> QED BY <2>1, <2>2, <2>3 DEF Run
<1>5. ASSUME ev.type = "retry_due" PROVE RetryRun(r) \in Run
  BY <1>5 DEF RetryRun, Run, Accepts, Blocker
<1>6. ASSUME ev.type \in StageEvent \cup GateEvent PROVE EnterStage(r, ev) \in Run
  <2>1. NextStage(r, ev) \in State
    BY <1>6, NextStageTyped DEF Accepts
  <2>2. "full_capture_gate_blocked" \in Blocker
    BY DEF Blocker
  <2> QED BY <2>1, <2>2 DEF EnterStage, Run
<1> QED BY <1>2, <1>3, <1>4, <1>5, <1>6, CheckpointedTyped
           DEF AdvanceCaptureRun, EventType

\* So is one that advance_capture_loop advances.
LEMMA AdvanceTyped ==
    ASSUME NEW r \in Run, NEW ev \in Event, Accepts(r, ev)
    PROVE  AdvanceCaptureLoop(r, ev) \in Run
<1>1. AdvanceCaptureRun(r, ev) \in Run
  BY AdvanceRunTyped
<1>2. CountPartialGate(r, ev) \in Run
  <2>1. "blocked_closed" \in State /\ "scan_pass_budget_exhausted" \in Blocker
    BY DEF State, TerminalState, Blocker
  <2>2. [AdvanceCaptureRun(r, ev) EXCEPT !.scanUsed = @ + 1] \in Run
    BY <1>1 DEF Run
  <2> DEFINE m == r.scanUsed + 1
             n == r.seq + 1
  <2>3. m \in Nat /\ n \in Nat
    BY DEF Run
  <2>4. [r EXCEPT !.state = "blocked_closed",
                  !.blocker = "scan_pass_budget_exhausted",
                  !.scanUsed = m, !.background = "blocked", !.seq = n] \in Run
    <3> HIDE DEF m, n
    <3> QED BY <2>1, <2>3 DEF Run
  <2> QED BY <2>2, <2>4 DEF CountPartialGate, Run
<1> QED BY <1>1, <1>2 DEF AdvanceCaptureLoop

(***************************************************************************)
(* What each kind of event does to the fields the invariants are about.    *)
(***************************************************************************)

\* A pause remembers the state it interrupts.
LEMMA PauseEffect ==
    ASSUME NEW r \in Run, NEW ev \in Event, Accepts(r, ev), ev.type \in PauseEvent,
           NEW n, n = AdvanceCaptureLoop(r, ev)
    PROVE  /\ n.route = r.route /\ n.state \in PausedState /\ n.resume = r.state
           /\ n.retryUsed = r.retryUsed /\ n.scanUsed = r.scanUsed
           /\ n.background = r.background
<1>1. AdvanceCaptureLoop(r, ev) = Checkpointed(Pause(r, ev), ev)
  BY DEF AdvanceCaptureLoop, AdvanceCaptureRun, PauseEvent, ResolveEvent
<1>2. CASE ev.type = "auth_required"
  BY <1>1, <1>2 DEF Pause, Checkpointed, PausedState, Run
<1>3. CASE ev.type = "human_approval_required"
  BY <1>1, <1>3 DEF Pause, Checkpointed, PausedState, Run
<1> QED BY <1>2, <1>3 DEF PauseEvent

\* Resolving a blocker and a due retry return to the state that was remembered.
LEMMA ResumeEffect ==
    ASSUME NEW r \in Run, NEW ev \in Event, Accepts(r, ev),
           ev.type \in ResolveEvent \cup {"retry_due"},
           r.resume \notin TerminalState,
           NEW n, n = AdvanceCaptureLoop(r, ev)
    PROVE  /\ n.route = r.route /\ n.state = r.resume /\ n.resume = None
           /\ n.blocker = None
           /\ n.pending = IF ev.type = "retry_due" THEN r.pending ELSE None
           /\ n.retryUsed = r.retryUsed /\ n.scanUsed = r.scanUsed
           /\ n.background = r.background
BY DEF AdvanceCaptureLoop, AdvanceCaptureRun, ResumeRun, RetryRun, Checkpointed,
       PauseEvent, ResolveEvent, TerminalState, Run

\* A retryable failure is counted, and waits for its retry or closes the run.
LEMMA FailureEffect ==
    ASSUME NEW r \in Run, NEW ev \in Event, Accepts(r, ev),
           ev.type = "retryable_failure",
           NEW n, n = AdvanceCaptureLoop(r, ev)
    PROVE  /\ n.route = r.route
           /\ n.retryUsed = r.retryUsed + 1 /\ n.scanUsed = r.scanUsed
           /\ n.pending = r.pending
           /\ \/ /\ n.state = "retry_wait" /\ n.resume = r.state
                 /\ n.retryUsed <= RetryBudget /\ n.background = r.background
              \/ /\ n.state = "blocked_closed" /\ n.resume = r.resume
                 /\ n.background = "blocked"
<1>1. AdvanceCaptureLoop(r, ev) = Checkpointed(FailRetryably(r), ev)
  BY DEF AdvanceCaptureLoop, AdvanceCaptureRun, PauseEvent, ResolveEvent
<1>2. r.retryUsed \in Nat
  BY DEF Run
<1> QED BY <1>1, <1>2, RetryBudgetAssumption DEF FailRetryably, Checkpointed, Run

\* A stage or gate event that the partial gate's budget does not close the run
\* with follows the table, and touches neither budget nor what to resume.
LEMMA StageEffect ==
    ASSUME NEW r \in Run, NEW ev \in Event, Accepts(r, ev),
           ev.type \in StageEvent \cup GateEvent, ev.type # "gate_partial",
           NEW n, n = AdvanceCaptureLoop(r, ev)
    PROVE  /\ n.route = r.route /\ n.state = NextStage(r, ev)
           /\ n.resume = r.resume /\ n.pending = r.pending
           /\ n.blocker = IF ev.type = "gate_blocked"
                          THEN "full_capture_gate_blocked" ELSE r.blocker
           /\ n.retryUsed = r.retryUsed /\ n.scanUsed = r.scanUsed
           /\ n.background = CASE NextStage(r, ev) = "full_closed" -> "full"
                               [] NextStage(r, ev) = "blocked_closed" -> "blocked"
                               [] OTHER -> r.background
<1>1. AdvanceCaptureLoop(r, ev) = Checkpointed(EnterStage(r, ev), ev)
  BY DEF AdvanceCaptureLoop, AdvanceCaptureRun, PauseEvent, ResolveEvent,
         StageEvent, GateEvent
<1> DEFINE e == EnterStage(r, ev)
<1>2. /\ e.route = r.route /\ e.state = NextStage(r, ev)
      /\ e.resume = r.resume /\ e.pending = r.pending
      /\ e.blocker = IF ev.type = "gate_blocked"
                     THEN "full_capture_gate_blocked" ELSE r.blocker
      /\ e.retryUsed = r.retryUsed /\ e.scanUsed = r.scanUsed
      /\ e.background = r.background
      /\ e \in Run
  <2>1. NextStage(r, ev) \in State
    BY NextStageTyped DEF Accepts
  <2>2. "full_capture_gate_blocked" \in Blocker
    BY DEF Blocker
  <2> QED BY <2>1, <2>2 DEF EnterStage, Run
<1> HIDE DEF e
<1> QED BY <1>1, <1>2 DEF Checkpointed, Run, e

\* A partial gate is counted; it goes back to the rescan or closes the run.
LEMMA PartialGateEffect ==
    ASSUME NEW r \in Run, NEW ev \in Event, Accepts(r, ev), ev.type = "gate_partial",
           NEW n, n = AdvanceCaptureLoop(r, ev)
    PROVE  /\ r.state = "gate_evaluating"
           /\ n.route = r.route /\ n.resume = r.resume /\ n.pending = r.pending
           /\ n.retryUsed = r.retryUsed /\ n.scanUsed = r.scanUsed + 1
           /\ \/ /\ n.state = "stable_rescan" /\ n.blocker = r.blocker
                 /\ n.scanUsed < ScanPassBudget /\ n.background = r.background
              \/ n.state = "blocked_closed" /\ n.background = "blocked"
<1>1. r.state = "gate_evaluating" /\ NextStage(r, ev) = "stable_rescan"
  BY DEF Accepts, GateEvent, NextStage, Transition
<1>2. AdvanceCaptureLoop(r, ev) = CountPartialGate(r, ev)
  BY DEF AdvanceCaptureLoop
<1>3. AdvanceCaptureRun(r, ev) = Checkpointed(EnterStage(r, ev), ev)
  BY DEF AdvanceCaptureRun, PauseEvent, ResolveEvent
<1> DEFINE a == AdvanceCaptureRun(r, ev)
<1>4. /\ a.route = r.route /\ a.state = "stable_rescan" /\ a.blocker = r.blocker
      /\ a.resume = r.resume /\ a.pending = r.pending
      /\ a.retryUsed = r.retryUsed /\ a.scanUsed = r.scanUsed
      /\ a.background = r.background
  BY <1>1, <1>3 DEF EnterStage, Checkpointed, Run
<1>5. a \in Run
  <2>1. "stable_rescan" \in State
    BY DEF State, Stage
  <2>2. EnterStage(r, ev) \in Run
    BY <1>1, <2>1 DEF EnterStage, Run
  <2> QED BY <1>3, <2>2, CheckpointedTyped
<1> HIDE DEF a
<1>6. CASE r.scanUsed + 1 < ScanPassBudget
  <2>1. n = [a EXCEPT !.scanUsed = @ + 1]
    BY <1>2, <1>6 DEF CountPartialGate, a
  <2> QED BY <1>1, <1>4, <1>5, <1>6, <2>1 DEF Run
<1>7. CASE ~(r.scanUsed + 1 < ScanPassBudget)
  BY <1>1, <1>2, <1>7 DEF CountPartialGate, Run
<1> QED BY <1>6, <1>7

\* The kinds of events.
LEMMA EventKinds ==
    ASSUME NEW ev \in Event
    PROVE  \/ ev.type \in PauseEvent
           \/ ev.type \in ResolveEvent \cup {"retry_due"}
           \/ ev.type = "retryable_failure"
           \/ ev.type \in StageEvent \cup GateEvent /\ ev.type # "gate_partial"
           \/ ev.type = "gate_partial"
BY EventFields DEF EventType

\* Every accepted event adds one checkpoint.
LEMMA AdvanceCounts ==
    ASSUME NEW r \in Run, NEW ev \in Event, Accepts(r, ev)
    PROVE  AdvanceCaptureLoop(r, ev).seq = r.seq + 1
<1>1. AdvanceCaptureRun(r, ev).seq = r.seq + 1
  <2>1. CASE ev.type \in PauseEvent
    <3>1. AdvanceCaptureRun(r, ev) = Checkpointed(Pause(r, ev), ev)
      BY <2>1 DEF AdvanceCaptureRun, PauseEvent, ResolveEvent
    <3> QED BY <3>1 DEF Pause, Checkpointed, Run
  <2>2. CASE ev.type \in ResolveEvent
    BY <2>2 DEF AdvanceCaptureRun, ResumeRun, Checkpointed, PauseEvent, ResolveEvent, Run
  <2>3. CASE ev.type = "retryable_failure"
    BY <2>3 DEF AdvanceCaptureRun, FailRetryably, Checkpointed, PauseEvent,
                ResolveEvent, Run
  <2>4. CASE ev.type = "retry_due"
    BY <2>4 DEF AdvanceCaptureRun, RetryRun, Checkpointed, PauseEvent, ResolveEvent, Run
  <2>5. CASE ev.type \in StageEvent \cup GateEvent
    <3> DEFINE e == EnterStage(r, ev)
    <3>1. AdvanceCaptureRun(r, ev) = Checkpointed(e, ev)
      BY <2>5 DEF AdvanceCaptureRun, PauseEvent, ResolveEvent, StageEvent, GateEvent
    <3>2. e.seq = r.seq /\ DOMAIN e = DOMAIN r
      BY DEF EnterStage, Run
    <3> HIDE DEF e
    <3> QED BY <3>1, <3>2 DEF Checkpointed, Run
  <2> QED BY <2>1, <2>2, <2>3, <2>4, <2>5, EventKinds DEF GateEvent
<1>2. CASE ev.type # "gate_partial"
  BY <1>1, <1>2 DEF AdvanceCaptureLoop
<1>3. CASE ev.type = "gate_partial"
  <2> DEFINE a == AdvanceCaptureRun(r, ev)
  <2>1. a \in Run
    BY <1>3, AdvanceRunTyped
  <2>2. a.seq = r.seq + 1
    BY <1>1
  <2> HIDE DEF a
  <2>3. CASE r.scanUsed + 1 < ScanPassBudget
    <3> DEFINE m == a.scanUsed + 1
    <3>1. AdvanceCaptureLoop(r, ev) = [a EXCEPT !.scanUsed = m]
      BY <1>3, <2>3 DEF AdvanceCaptureLoop, CountPartialGate, a
    <3> HIDE DEF m
    <3>2. [a EXCEPT !.scanUsed = m].seq = a.seq
      BY <2>1 DEF Run
    <3> QED BY <2>2, <3>1, <3>2
  <2>4. CASE ~(r.scanUsed + 1 < ScanPassBudget)
    BY <1>3, <2>4 DEF AdvanceCaptureLoop, CountPartialGate, Run
  <2> QED BY <2>3, <2>4
<1> QED BY <1>2, <1>3

\* A new run is a run.
LEMMA NewTyped ==
    ASSUME NEW route \in Route
    PROVE  NewCaptureLoop(route) \in Run
BY DEF NewCaptureLoop, Run, State, Stage, Blocker

(***************************************************************************)
(* The theorems.  Every action of Next is Advance(ev) for an offered event *)
(* ev.                                                                     *)
(***************************************************************************)

\* Whatever action is taken, some event is advanced on.
LEMMA NextAdvances ==
    ASSUME Next
    PROVE  \E ev \in Event : Advance(ev)
BY OfferedAssumption DEF Next, RaiseBlocker, ResolveBlocker, RetryableFailure,
   RetryDue, CompleteStage, EvaluateGate

\* The envelope stays a capture run and the history stays a counter per event,
\* for every route, event set and budget (advance_capture_loop).
THEOREM TypeCorrect == Spec => []TypeOK
<1>1. Init => TypeOK
  BY RoutesAssumption DEF Init, TypeOK, NewCaptureLoop, Run, State, Stage, Blocker
<1>2. TypeOK /\ [Next]_vars => TypeOK'
  <2> SUFFICES ASSUME TypeOK, [Next]_vars PROVE TypeOK'
    OBVIOUS
  <2>1. ASSUME NEW ev \in Event, Advance(ev) PROVE TypeOK'
    <3>1. run' \in Run
      BY <2>1, AdvanceTyped DEF TypeOK, Advance
    <3>2. accepted' \in [EventType -> Nat]
      BY <2>1, EventFields DEF TypeOK, Advance
    <3> QED BY <3>1, <3>2 DEF TypeOK
  <2>2. CASE UNCHANGED vars
    BY <2>2 DEF TypeOK, vars
  <2> QED BY <2>1, <2>2, NextAdvances
<1> QED BY <1>1, <1>2, PTL DEF Spec

\* What a run resumes into is never a closed state, so a closed run is closed
\* by the step that records why.
ResumesOpen == run.resume \notin TerminalState

\* ResumesOpen holds in every state: advance_capture_run refuses closed runs.
LEMMA ResumesOpenInvariant == Spec => []ResumesOpen
<1>1. Init => ResumesOpen
  BY DEF Init, ResumesOpen, NewCaptureLoop, TerminalState, None
<1>2. TypeOK /\ ResumesOpen /\ [Next]_vars => ResumesOpen'
  <2> SUFFICES ASSUME TypeOK, ResumesOpen, [Next]_vars PROVE ResumesOpen'
    OBVIOUS
  <2>1. ASSUME NEW ev \in Event, Advance(ev) PROVE ResumesOpen'
    <3>0. /\ run \in Run /\ Accepts(run, ev)
          /\ run' = AdvanceCaptureLoop(run, ev)
          /\ run.state \notin TerminalState
      BY <2>1 DEF Advance, TypeOK, Accepts
    <3>1. CASE ev.type \in PauseEvent
      BY <3>0, <3>1, PauseEffect DEF ResumesOpen
    <3>2. CASE ev.type \in ResolveEvent \cup {"retry_due"}
      BY <3>0, <3>2, ResumeEffect DEF ResumesOpen, TerminalState, None
    <3>3. CASE ev.type = "retryable_failure"
      BY <3>0, <3>3, FailureEffect DEF ResumesOpen
    <3>4. CASE ev.type \in StageEvent \cup GateEvent /\ ev.type # "gate_partial"
      BY <3>0, <3>4, StageEffect DEF ResumesOpen
    <3>5. CASE ev.type = "gate_partial"
      BY <3>0, <3>5, PartialGateEffect DEF ResumesOpen
    <3> QED BY <3>1, <3>2, <3>3, <3>4, <3>5, EventKinds
  <2>2. CASE UNCHANGED vars
    BY <2>2 DEF ResumesOpen, vars
  <2> QED BY <2>1, <2>2, NextAdvances
<1> QED BY <1>1, <1>2, TypeCorrect, PTL DEF Spec

\* Retries and rescans are counted truthfully through every pause, failure and
\* resumption, and an open run has used up neither budget (retry.used and
\* scan_pass.used of advance_capture_run and advance_capture_loop).
THEOREM BudgetsAreBound == Spec => []BudgetsBound
<1>1. Init => BudgetsBound
  BY RetryBudgetAssumption, ScanPassBudgetAssumption
     DEF Init, BudgetsBound, NewCaptureLoop, EventType, GateEvent
<1>2. TypeOK /\ ResumesOpen /\ BudgetsBound /\ [Next]_vars => BudgetsBound'
  <2> SUFFICES ASSUME TypeOK, ResumesOpen, BudgetsBound, [Next]_vars
               PROVE  BudgetsBound'
    OBVIOUS
  <2>1. ASSUME NEW ev \in Event, Advance(ev) PROVE BudgetsBound'
    <3>0. /\ run \in Run /\ Accepts(run, ev)
          /\ run' = AdvanceCaptureLoop(run, ev)
          /\ run.state \notin TerminalState /\ run.resume \notin TerminalState
          /\ run.retryUsed <= RetryBudget /\ run.scanUsed < ScanPassBudget
      BY <2>1 DEF Advance, TypeOK, Accepts, ResumesOpen, BudgetsBound, Closed
    <3>a. \A t \in EventType :
              accepted'[t] = IF t = ev.type THEN accepted[t] + 1 ELSE accepted[t]
      BY <2>1 DEF Advance, TypeOK
    <3>b. /\ "retryable_failure" \in EventType /\ "gate_partial" \in EventType
          /\ run.retryUsed = accepted["retryable_failure"]
          /\ run.scanUsed = accepted["gate_partial"]
      BY DEF EventType, GateEvent, BudgetsBound
    <3>1. CASE ev.type \in PauseEvent
      BY <3>0, <3>a, <3>b, <3>1, PauseEffect DEF BudgetsBound, PauseEvent
    <3>2. CASE ev.type \in ResolveEvent \cup {"retry_due"}
      BY <3>0, <3>a, <3>b, <3>2, ResumeEffect DEF BudgetsBound, ResolveEvent
    <3>3. CASE ev.type = "retryable_failure"
      BY <3>0, <3>a, <3>b, <3>3, FailureEffect
         DEF BudgetsBound, Closed, TerminalState
    <3>4. CASE ev.type \in StageEvent \cup GateEvent /\ ev.type # "gate_partial"
      BY <3>0, <3>a, <3>b, <3>4, StageEffect DEF BudgetsBound, StageEvent, GateEvent
    <3>5. CASE ev.type = "gate_partial"
      BY <3>0, <3>a, <3>b, <3>5, PartialGateEffect
         DEF BudgetsBound, Closed, TerminalState
    <3> QED BY <3>1, <3>2, <3>3, <3>4, <3>5, EventKinds
  <2>2. CASE UNCHANGED vars
    BY <2>2 DEF BudgetsBound, Closed, vars
  <2> QED BY <2>1, <2>2, NextAdvances
<1> QED BY <1>1, <1>2, TypeCorrect, ResumesOpenInvariant, PTL DEF Spec

(***************************************************************************)
(* A stage is only reached from the stage before it.                       *)
(***************************************************************************)

\* What a state needs, the table's next state needs, but for the event itself.
LEMMA NeededGrows ==
    ASSUME TypeOK, NEW ev \in Event, Accepts(run, ev),
           ev.type \in StageEvent \cup GateEvent
    PROVE  NeededFor(NextStage(run, ev)) \subseteq NeededFor(run.state) \cup {ev.type}
<1>1. NextStage(run, ev) # None
  BY DEF Accepts
<1>2. CASE /\ run.state = "received" /\ ev.type = "route_ready"
           /\ run.route \in OfflineRoute
  BY <1>2 DEF NextStage, NeededFor
<1>3. CASE run.state = "gate_evaluating" /\ ev.type = "gate_full"
  BY <1>1, <1>3 DEF NextStage, NeededFor
<1>4. CASE run.state = "gate_evaluating" /\ ev.type = "gate_blocked"
  BY <1>1, <1>4 DEF NextStage, NeededFor
<1>5. CASE /\ ~(/\ run.state = "received" /\ ev.type = "route_ready"
                 /\ run.route \in OfflineRoute)
           /\ ~(run.state = "gate_evaluating" /\ ev.type \in {"gate_full", "gate_blocked"})
  <2>1. Transition(run.state, ev.type) # None
        /\ NextStage(run, ev) = Transition(run.state, ev.type)
    BY <1>1, <1>5 DEF NextStage
  <2> DEFINE Row(from, type, to) ==
           run.state = from /\ ev.type = type /\ NextStage(run, ev) = to
  <2>2. \/ Row("received", "visible_snapshot_saved", "route_preflight")
        \/ Row("route_preflight", "route_ready", "traversing_to_oldest")
        \/ Row("traversing_to_oldest", "oldest_reached", "traversing_to_latest")
        \/ Row("traversing_to_latest", "latest_reached", "attachment_inventory")
        \/ Row("attachment_inventory", "attachment_inventory_complete", "downloading_attachments")
        \/ Row("downloading_attachments", "attachments_saved", "reconciling")
        \/ Row("reconciling", "reconciled", "stable_rescan")
        \/ Row("stable_rescan", "stable_rescan_complete", "gate_evaluating")
        \/ Row("gate_evaluating", "gate_partial", "stable_rescan")
    BY <2>1 DEF Transition
  <2>a. CASE Row("received", "visible_snapshot_saved", "route_preflight")
    BY <2>a DEF NeededFor
  <2>b. CASE Row("route_preflight", "route_ready", "traversing_to_oldest")
    BY <2>b DEF NeededFor
  <2>c. CASE Row("traversing_to_oldest", "oldest_reached", "traversing_to_latest")
    BY <2>c DEF NeededFor
  <2>d. CASE Row("traversing_to_latest", "latest_reached", "attachment_inventory")
    BY <2>d DEF NeededFor
  <2>e. CASE Row("attachment_inventory", "attachment_inventory_complete", "downloading_attachments")
    BY <2>e DEF NeededFor
  <2>f. CASE Row("downloading_attachments", "attachments_saved", "reconciling")
    BY <2>f DEF NeededFor
  <2>g. CASE Row("reconciling", "reconciled", "stable_rescan")
    BY <2>g DEF NeededFor
  <2>h. CASE Row("stable_rescan", "stable_rescan_complete", "gate_evaluating")
    BY <2>h DEF NeededFor
  <2>i. CASE Row("gate_evaluating", "gate_partial", "stable_rescan")
    BY <2>i DEF NeededFor
  <2> HIDE DEF Row
  <2> QED BY <2>2, <2>a, <2>b, <2>c, <2>d, <2>e, <2>f, <2>g, <2>h, <2>i
<1> QED BY <1>2, <1>3, <1>4, <1>5

\* No detour through a pause, a failure or a retry lets a run reach a stage, or
\* full_closed, without the events that complete the stages before it
\* (_TRANSITIONS and resume_state in advance_capture_run).
THEOREM NoStageIsSkipped == Spec => []NoStageSkipped
<1>1. Init => NoStageSkipped
  BY DEF Init, NoStageSkipped, NeededFor, NewCaptureLoop, None
<1>2. TypeOK /\ ResumesOpen /\ NoStageSkipped /\ [Next]_vars => NoStageSkipped'
  <2> SUFFICES ASSUME TypeOK, ResumesOpen, NoStageSkipped, [Next]_vars
               PROVE  NoStageSkipped'
    OBVIOUS
  <2>1. ASSUME NEW ev \in Event, Advance(ev) PROVE NoStageSkipped'
    <3>0. /\ run \in Run /\ Accepts(run, ev)
          /\ run' = AdvanceCaptureLoop(run, ev)
          /\ run.resume \notin TerminalState
      BY <2>1 DEF Advance, TypeOK, ResumesOpen
    <3>a. \A t \in EventType : accepted[t] > 0 \/ t = ev.type => accepted'[t] > 0
      BY <2>1 DEF Advance, TypeOK
    <3>b. \A s : NeededFor(s) \subseteq EventType
      BY DEF NeededFor, EventType, StageEvent, GateEvent
    <3>c. run'.route = run.route => \A s : NeededFor(s)' = NeededFor(s)
      BY DEF NeededFor
    <3>d. \A s \in WaitingState \cup {"blocked_closed", None} : NeededFor(s) = {}
      BY DEF NeededFor, WaitingState, PausedState, None
    <3>1. CASE ev.type \in PauseEvent
      BY <3>0, <3>1, <3>a, <3>b, <3>c, <3>d, PauseEffect
         DEF NoStageSkipped, WaitingState
    <3>2. CASE ev.type \in ResolveEvent \cup {"retry_due"}
      BY <3>0, <3>2, <3>a, <3>b, <3>c, <3>d, ResumeEffect DEF NoStageSkipped
    <3>3. CASE ev.type = "retryable_failure"
      BY <3>0, <3>3, <3>a, <3>b, <3>c, <3>d, FailureEffect
         DEF NoStageSkipped, WaitingState
    <3>4. CASE ev.type \in StageEvent \cup GateEvent /\ ev.type # "gate_partial"
      BY <3>0, <3>4, <3>a, <3>b, <3>c, <3>d, StageEffect, NeededGrows
         DEF NoStageSkipped
    <3>5. CASE ev.type = "gate_partial"
      <4>1. NeededFor("stable_rescan") \subseteq NeededFor("gate_evaluating")
        BY DEF NeededFor
      <4> QED BY <3>0, <3>5, <3>a, <3>b, <3>c, <3>d, <4>1, PartialGateEffect
                 DEF NoStageSkipped
    <3> QED BY <3>1, <3>2, <3>3, <3>4, <3>5, EventKinds
  <2>2. CASE UNCHANGED vars
    BY <2>2 DEF NoStageSkipped, NeededFor, vars
  <2> QED BY <2>1, <2>2, NextAdvances
<1> QED BY <1>1, <1>2, TypeCorrect, ResumesOpenInvariant, PTL DEF Spec

(***************************************************************************)
(* full_closed is reached with nothing unresolved.  Not inductive as it    *)
(* stands: a failure may hit a run that waits for an approval, so one must *)
(* know that a retry then leads back to the pause and not to a stage.      *)
(***************************************************************************)
CleanStage ==
    /\ run.state \in Stage \cup {"full_closed"} =>
           run.blocker = None /\ run.resume = None /\ run.pending = None
    /\ run.state = "retry_wait" /\ run.resume \in Stage => run.pending = None
    /\ run.background = "full" => run.state = "full_closed"

\* CleanStage holds in every state (advance_capture_run).
LEMMA CleanStageInvariant == Spec => []CleanStage
<1>1. Init => CleanStage
  BY DEF Init, CleanStage, NewCaptureLoop
<1>2. TypeOK /\ ResumesOpen /\ CleanStage /\ [Next]_vars => CleanStage'
  <2> SUFFICES ASSUME TypeOK, ResumesOpen, CleanStage, [Next]_vars
               PROVE  CleanStage'
    OBVIOUS
  <2>1. ASSUME NEW ev \in Event, Advance(ev) PROVE CleanStage'
    <3>0. /\ run \in Run /\ Accepts(run, ev)
          /\ run' = AdvanceCaptureLoop(run, ev)
          /\ run.state \in State /\ run.state \notin TerminalState
          /\ run.resume \notin TerminalState
          /\ run.background # "full"
      BY <2>1 DEF Advance, TypeOK, ResumesOpen, Accepts, CleanStage, TerminalState, Run
    <3>a. Stage \cap (WaitingState \cup TerminalState \cup {None}) = {}
      BY DEF Stage, WaitingState, PausedState, TerminalState, None
    <3>1. CASE ev.type \in PauseEvent
      BY <3>0, <3>1, <3>a, PauseEffect
         DEF CleanStage, WaitingState, PausedState
    <3>2. CASE ev.type \in ResolveEvent \cup {"retry_due"}
      <4>1. ev.type = "retry_due" => run.state = "retry_wait"
        BY <3>0 DEF Accepts
      <4> QED BY <3>0, <3>2, <3>a, <4>1, ResumeEffect
                 DEF CleanStage, WaitingState, TerminalState
    <3>3. CASE ev.type = "retryable_failure"
      BY <3>0, <3>3, <3>a, FailureEffect DEF CleanStage, WaitingState, TerminalState
    <3>4. CASE ev.type \in StageEvent \cup GateEvent /\ ev.type # "gate_partial"
      <4>1. run.state \in Stage /\ NextStage(run, ev) \in Stage \cup TerminalState
        BY <3>0, <3>4
           DEF Accepts, NextStage, Transition, Stage, TerminalState
      <4>2. ev.type = "gate_blocked" => NextStage(run, ev) = "blocked_closed"
        BY <3>0, <3>4 DEF Accepts, NextStage, Transition
      <4> QED BY <3>0, <3>4, <3>a, <4>1, <4>2, StageEffect
                 DEF CleanStage, TerminalState, WaitingState
    <3>5. CASE ev.type = "gate_partial"
      <4>1. run.state \in Stage
        BY <3>0, <3>5, PartialGateEffect DEF Stage
      <4> QED BY <3>0, <3>5, <3>a, <4>1, PartialGateEffect
                 DEF CleanStage, TerminalState, WaitingState
    <3> QED BY <3>1, <3>2, <3>3, <3>4, <3>5, EventKinds
  <2>2. CASE UNCHANGED vars
    BY <2>2 DEF CleanStage, vars
  <2> QED BY <2>1, <2>2, NextAdvances
<1> QED BY <1>1, <1>2, TypeCorrect, ResumesOpenInvariant, PTL DEF Spec

\* A run whose background lane shows "full" is closed with no blocker, no
\* approval that was left unanswered and nothing to resume.
THEOREM FullRunsAreUnblocked == Spec => []FullIsUnblocked
<1>1. CleanStage => FullIsUnblocked
  BY DEF CleanStage, FullIsUnblocked
<1> QED BY <1>1, CleanStageInvariant, PTL
==============================================================================
