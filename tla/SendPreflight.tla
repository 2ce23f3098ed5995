---------------------------- MODULE SendPreflight -----------------------------
(***************************************************************************)
(* The gate before a human sends (core.build_discord_send_pdca_preflight): *)
(* it names what is missing and one thing to do next; the operator does    *)
(* that and asks again, while routes break.                                *)
(***************************************************************************)
EXTENDS Integers

CONSTANTS
    MaxBreaks,   \* bound: routes that break
    Nothing

VARIABLES
    target,      \* target verified
    draft,       \* draft verified
    attachment,  \* "none", or how far it is: "required", "chosen", "shown"
    browser,     \* browser_route_status
    webhook,     \* webhook_route_status
    answer,      \* the gate's last answer
    breaks

vars == <<target, draft, attachment, browser, webhook, answer, breaks>>

Browsers == {"ready", "dom_timeout", "filechooser_timeout", "clipboard_unavailable",
             "manual_only", "unknown"}
Webhooks == {"not_used", "ready", "missing", "wrong_target", "unknown"}

\* A preview is seen of a file that was verified; whether the gate would notice
\* another one, its advice does not say.
Init ==
    /\ target \in BOOLEAN /\ draft \in BOOLEAN
    /\ attachment \in {"none", "required", "chosen", "shown"}
    /\ browser \in Browsers /\ webhook \in Webhooks
    /\ answer = Nothing /\ breaks = 0

Blockers ==
    {b \in {"target", "draft", "file", "preview"} :
        \/ b = "target" /\ ~target
        \/ b = "draft" /\ ~draft
        \/ b = "file" /\ attachment = "required"
        \/ b = "preview" /\ attachment \in {"required", "chosen"}}

RouteFailures ==
    (IF browser \in {"ready", "manual_only"} THEN {} ELSE {"browser"})
        \cup (IF webhook \in {"missing", "wrong_target", "unknown"} THEN {"webhook"} ELSE {})

\* Mutant of Advice: an unstable browser is not advised about.
AdviceOnBlockers ==
    CASE "preview" \in Blockers -> "attach"
      [] "target" \in Blockers /\ "preview" \notin Blockers -> "verify_target"
      [] Blockers = {"draft"} -> "verify_draft"
      [] "webhook" \in RouteFailures /\ Blockers = {} -> "fix_route"
      [] OTHER -> "send"

\* The first thing to do, attachments first and routes last.
Advice ==
    CASE "preview" \in Blockers -> "attach"
      [] "target" \in Blockers /\ "preview" \notin Blockers -> "verify_target"
      [] Blockers = {"draft"} -> "verify_draft"
      [] "browser" \in RouteFailures /\ Blockers = {} -> "fix_browser"
      [] RouteFailures = {"webhook"} /\ Blockers = {} -> "fix_route"
      [] OTHER -> "send"

Ask ==
    /\ answer = Nothing
    /\ answer' = [ready |-> Blockers \cup RouteFailures = {}, next |-> Advice]
    /\ UNCHANGED <<target, draft, attachment, browser, webhook, breaks>>

\* The operator does what the gate says, and nothing else.
Act ==
    /\ answer # Nothing /\ ~answer.ready
    /\ answer' = Nothing
    /\ attachment' = IF answer.next = "attach" THEN "shown" ELSE attachment
    /\ target' = (target \/ answer.next = "verify_target")
    /\ draft' = (draft \/ answer.next = "verify_draft")
    /\ browser' = IF answer.next = "fix_browser" THEN "manual_only" ELSE browser
    /\ webhook' = IF answer.next = "fix_route" THEN "not_used" ELSE webhook
    /\ UNCHANGED breaks

\* A page reloads: what was verified has to be verified again, or a route is lost.
Breaks ==
    /\ breaks < MaxBreaks /\ breaks' = breaks + 1
    /\ \/ target' = FALSE /\ UNCHANGED <<attachment, browser, webhook>>
       \/ attachment # "none" /\ attachment' = "required"
          /\ UNCHANGED <<target, browser, webhook>>
       \/ browser' \in Browsers /\ UNCHANGED <<target, attachment, webhook>>
       \/ webhook' \in Webhooks /\ UNCHANGED <<target, attachment, browser>>
    /\ UNCHANGED <<draft, answer>>

\* After an answer that nothing is missing, the gate is asked again.
AskAgain ==
    /\ answer # Nothing /\ answer.ready
    /\ answer' = Nothing
    /\ UNCHANGED <<target, draft, attachment, browser, webhook, breaks>>

Next == Ask \/ Act \/ Breaks \/ AskAgain

Fairness == WF_vars(Ask) /\ WF_vars(Act)
Spec == Init /\ [][Next]_vars /\ Fairness

\* Who does what the gate says, one thing after the other, gets to send: no piece of
\* advice leaves a blocker behind that the gate then has no advice about.
AdviceLeadsToSend == []<>(answer # Nothing /\ answer.ready)
==============================================================================
