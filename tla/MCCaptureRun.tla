---------------------------- MODULE MCCaptureRun ----------------------------
(* Instance of CaptureRun for TLC: one live and one offline route, every    *)
(* kind of event, two approval actions.                                     *)
EXTENDS CaptureRun

MCRoutes == {"chrome_extension", "rest_backfill"}

\* Events with the fields that are read for their type, in every combination.
MCOffered ==
    {Plain(t) : t \in EventType}
    \cup {[Plain("human_approval_required") EXCEPT !.action = a] :
              a \in ApprovalAction}
    \cup {[Plain("human_approval_granted") EXCEPT !.action = a, !.scoped = s] :
              a \in ApprovalAction \cup {None}, s \in BOOLEAN}
    \cup {[Plain(t) EXCEPT !.scoped = s, !.gate = g, !.gateScope = o] :
              t \in {"gate_full", "gate_blocked"}, s \in BOOLEAN,
              g \in {"full", "partial", "blocked"},
              o \in {"own", "other", "unset"}}
==============================================================================
