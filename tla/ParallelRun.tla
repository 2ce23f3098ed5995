----------------------------- MODULE ParallelRun ------------------------------
(***************************************************************************)
(* What the closeout of a parallel capture run promises, without files:    *)
(* producers drain for good, the run is declared quiet once all of them    *)
(* did, it is closed once, and what the run's metadata shows is that.      *)
(***************************************************************************)
CONSTANTS Producer

VARIABLES
    drained,  \* producers that will write no more
    phase,    \* "running", "quiesced", "blocked_closed" or "full_closed"
    whole,    \* when the run was declared quiet, every item was captured with text
    shown     \* what run-metadata.json says: "open", or how the run was closed

vars == <<drained, phase, whole, shown>>

Closed == {"blocked_closed", "full_closed"}

Init == drained = {} /\ phase = "running" /\ whole = FALSE /\ shown = "open"

Drain(p) ==
    /\ p \notin drained
    /\ drained' = drained \cup {p}
    /\ UNCHANGED <<phase, whole, shown>>

Quiesce ==
    /\ phase = "running" /\ drained = Producer
    /\ phase' = "quiesced"
    /\ whole' \in BOOLEAN
    /\ UNCHANGED <<drained, shown>>

Close(verdict) ==
    /\ phase = "quiesced"
    /\ verdict = "full_closed" => whole
    /\ phase' = verdict
    /\ UNCHANGED <<drained, whole, shown>>

Show ==
    /\ phase \in Closed
    /\ shown' = phase
    /\ UNCHANGED <<drained, phase, whole>>

Next ==
    \/ \E p \in Producer : Drain(p)
    \/ Quiesce
    \/ \E verdict \in Closed : Close(verdict)
    \/ Show

Spec == Init /\ [][Next]_vars
==============================================================================
