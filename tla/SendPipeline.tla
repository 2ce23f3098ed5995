----------------------------- MODULE SendPipeline -----------------------------
(***************************************************************************)
(* From a draft to a message that a human sends, and the reports about it: *)
(* review, staging, the dry run before the browser fills the box, the      *)
(* preflight of automatic sending, closeout and operation status           *)
(* (core.py, the commands of cli.py that save their reports to files).     *)
(*                                                                         *)
(* Each report is a file; a later command is given the files by hand, old  *)
(* ones too.  What commands are told of the world is taken to be true when *)
(* they are told; the world goes on.                                       *)
(***************************************************************************)
EXTENDS Integers, FiniteSets

CONSTANTS
    Draft,      \* texts
    Risky,      \* texts whose tone is risky
    Doubtful,   \* texts that miss a premise or the topic
    Length,     \* length of each text
    Notice,     \* length of the notice before a risky text
    MaxChars,   \* length of one message
    MaxNews,    \* bound: messages of others
    Nothing

SendAssumption ==
    /\ Length \in [Draft -> Nat] /\ Notice \in Nat /\ MaxChars \in Nat
    /\ MaxNews \in Nat

SendNothingAssumption ==
    Nothing \notin {"ready_for_adapter", "blocked", "ready_for_production",
                   "retrospective", "attention"}

VARIABLES
    draft,      \* what is written
    understood, \* a human has confirmed the understanding of what was said
    context,    \* what the gate of the reply's context said
    staging,    \* the last staging packet
    dry_run,    \* the last dry-run report
    box,        \* the packet whose text is in the message box
    sent,       \* what was sent last
    unread,     \* others have written, and nobody has looked
    closeout,   \* the last closeout report
    verdict,    \* what the preflight or operation status just asked for says
    facts,      \* history: what has really happened so far
    news

vars == <<draft, understood, context, staging, dry_run, box, sent, unread, closeout,
          verdict, facts, news>>
reports == <<staging, dry_run, closeout, verdict>>

Init ==
    /\ draft \in Draft
    /\ understood = FALSE /\ context = FALSE
    /\ staging = Nothing /\ dry_run = Nothing /\ box = Nothing /\ sent = Nothing
    /\ unread = FALSE /\ closeout = Nothing /\ verdict = Nothing
    /\ facts = {} /\ news = 0

------------------------------------------------------------------------------
(***************************************************************************)
(* The review of a draft                                                   *)
(***************************************************************************)

\* build_copy_block: one message, or two.
Parts(length) ==
    IF length <= MaxChars THEN "ready"
    ELSE IF length <= 2 * MaxChars THEN "split" ELSE "blocked"

Verdict(text) ==
    CASE text \in Risky -> "risky"
      [] text \in Doubtful \ Risky -> "ask-context"
      [] OTHER -> "go"

Candidate(text) == [text |-> text, notice |-> Verdict(text) = "risky"]

\* review_reply_intent: without context or understanding there is nothing to copy.
Review(text, gate, confirmed) ==
    LET copy == Parts(Length[text] + IF Verdict(text) = "risky" THEN Notice ELSE 0) IN
    IF gate = "blocked"
    THEN [verdict |-> "reply-context-blocked", copy |-> "blocked", option |-> "read-more"]
    ELSE IF ~confirmed
    THEN [verdict |-> "understanding-blocked", copy |-> "blocked", option |-> "read-more"]
    ELSE [verdict |-> Verdict(text), copy |-> copy,
          option |-> CASE Verdict(text) = "risky" -> "wait"
                       [] Verdict(text) = "ask-context" -> "read-more"
                       [] Verdict(text) = "go" /\ copy = "blocked" -> "edit"
                       [] OTHER -> "copy"]

------------------------------------------------------------------------------
(***************************************************************************)
(* The reports                                                             *)
(***************************************************************************)

\* build_discord_send_staging_packet, with what was true when it was built.  Only
\* a reply is asked for the gate of its context.
Stage(mode, url, mention) ==
    LET gate == IF mode = "mention" \/ context THEN "passed" ELSE "blocked"
        review == Review(draft, gate, understood)
        aimed == \/ mode = "reply" /\ url = "message"
                 \/ mode = "mention" /\ url \in {"message", "channel"} /\ mention
        ready == understood /\ aimed /\ review.copy \in {"ready", "split"}
    IN  /\ staging' = IF ready
                      THEN [ready |-> TRUE, mode |-> mode, content |-> Candidate(draft),
                            understood |-> understood, context |-> context]
                      ELSE [ready |-> FALSE]
        /\ facts' = facts \cup IF ready THEN {"cleared"} ELSE {}
        /\ UNCHANGED <<draft, understood, context, dry_run, box, sent, unread,
                       closeout, verdict, news>>

\* verify_chrome_extension_fill_only_dry_run: a ready packet, a live connection, the
\* target as it is now and the text of the packet (all observed), and one place to
\* write to.
Fillable(packet, observed, candidates) ==
    packet # Nothing /\ packet.ready /\ observed /\ candidates = 1

DryRun(observed, candidates) ==
    /\ staging # Nothing
    /\ LET ready == Fillable(staging, observed, candidates) IN
       /\ dry_run' = IF ready THEN [ready |-> TRUE, packet |-> staging] ELSE [ready |-> FALSE]
       /\ facts' = facts \cup IF ready THEN {"fillable"} ELSE {}
    /\ UNCHANGED <<draft, understood, context, staging, box, sent, unread, closeout,
                   verdict, news>>

\* build_discord_auto_send_preflight: packet, dry run, and all that the operator
\* has to provide; production asks for a fixed runbook.
AutoPreflight(provided, environment, runbook) ==
    /\ staging # Nothing /\ dry_run # Nothing
    /\ verdict' = IF /\ staging.ready /\ dry_run.ready /\ provided
                     /\ environment = "test" \/ (environment = "production" /\ runbook)
                  THEN "ready_for_adapter" ELSE "blocked"
    /\ UNCHANGED <<draft, understood, context, staging, dry_run, box, sent, unread,
                   closeout, facts, news>>

\* Mutant of CloseoutNext: a learning handoff that is pending is no reason to wait.
CloseoutNextAtOnce(state, blockers, learning) ==
    IF blockers = {} THEN "done" ELSE "fix_blockers"

\* What the closeout recommends.
CloseoutNext(state, blockers, learning) ==
    CASE blockers = {} /\ state = "human_sent" /\ learning \notin {"completed", "held"} ->
             "complete_learning_handoff"
      [] blockers = {} /\ (state = "not_sent" \/ learning \in {"completed", "held"}) -> "done"
      [] "human_send_not_observed" \in blockers -> "verify_visible_message"
      [] "human_review_not_confirmed" \in blockers
             /\ "human_send_not_observed" \notin blockers -> "human_review_required"
      [] OTHER -> "fix_blockers"

\* What keeps a send from being closed.
CloseoutBlockers(given, state, observed, reviewed, text, looked) ==
    {b \in {"staging_packet_not_ready", "dry_run_not_ready", "human_send_not_observed",
            "human_review_not_confirmed", "observed_text_not_checked", "unread_not_checked",
            "unread_items_remaining", "not_sent_conflicts_with_human_send_observed"} :
        CASE b = "staging_packet_not_ready" -> given /\ (staging = Nothing \/ ~staging.ready)
          [] b = "dry_run_not_ready" -> given /\ (dry_run = Nothing \/ ~dry_run.ready)
          [] b = "human_send_not_observed" -> state = "human_sent" /\ ~observed
          [] b = "human_review_not_confirmed" -> state = "human_sent" /\ ~reviewed
          [] b = "observed_text_not_checked" -> state = "human_sent" /\ text = "not_checked"
          [] b = "unread_not_checked" -> state = "human_sent" /\ ~looked
          [] b = "unread_items_remaining" -> state = "human_sent" /\ looked /\ unread
          [] OTHER -> state = "not_sent" /\ observed}

\* What is seen of the message: the text of the packet, another that a human has
\* reviewed, or nobody has compared.
Seen(compared) ==
    IF sent = Nothing \/ ~compared THEN "not_checked"
    ELSE IF staging # Nothing /\ staging.ready /\ sent = staging.content THEN "matches_copy_block"
    ELSE "human_edited_and_reviewed"

\* build_discord_post_send_closeout_packet: packet and dry run may be left out.
Closeout(given, state, reviewed, compared, looked, learning) ==
    LET observed == state = "human_sent" /\ sent # Nothing
        blockers == CloseoutBlockers(given, state, observed, reviewed, Seen(compared), looked)
    IN  /\ closeout' = [state |-> state,
                        done |-> CloseoutNext(state, blockers, learning) = "done",
                        unread_clear |-> state = "human_sent" /\ looked /\ ~unread]
        /\ facts' = facts \cup
               IF /\ observed /\ reviewed /\ compared /\ looked /\ ~unread
                  /\ learning \in {"completed", "held"}
               THEN {"finished"} ELSE {}
        /\ UNCHANGED <<draft, understood, context, staging, dry_run, box, sent, unread,
                       verdict, news>>

\* send-operation-status: looks only at the reports it is given and at three facts
\* of the operator.  provided: the target is named, a rollback plan was reviewed and
\* there is a runbook.
ReportedDone == closeout # Nothing /\ closeout.done
ReportedSent == ReportedDone /\ closeout.state = "human_sent"

\* A retrospective asks for a closeout only, and for unread replies if it was sent.
PastChecks(provided) == provided /\ ReportedDone /\ (ReportedSent => closeout.unread_clear)

\* Production is ready when every report is, and the closeout is one of a test.
ProductionChecks(environment, provided) ==
    /\ provided /\ staging # Nothing /\ staging.ready
    /\ dry_run # Nothing /\ dry_run.ready
    /\ environment = "test" /\ ReportedSent /\ closeout.unread_clear

OperationStatus(environment, provided, retrospective) ==
    /\ verdict' = IF retrospective
                  THEN IF PastChecks(provided) THEN "retrospective" ELSE "attention"
                  ELSE IF ProductionChecks(environment, provided)
                       THEN "ready_for_production" ELSE "attention"
    /\ UNCHANGED <<draft, understood, context, staging, dry_run, box, sent, unread,
                   closeout, facts, news>>

------------------------------------------------------------------------------
(***************************************************************************)
(* The world: author, runner, human, others                                *)
(***************************************************************************)

EditDraft(text) ==
    /\ text # draft
    /\ draft' = text
    /\ UNCHANGED <<understood, context, reports, box, sent, unread, facts, news>>

\* The operator reads what there is; the gate of the context is asked, and a human
\* confirms the understanding or does not.
ReadThread(confirmed, allowed) ==
    /\ <<understood, context>> # <<confirmed, allowed>>
    /\ understood' = confirmed /\ context' = allowed /\ unread' = FALSE
    /\ UNCHANGED <<draft, reports, box, sent, facts, news>>

OthersWrite ==
    /\ news < MaxNews /\ news' = news + 1
    /\ understood' = FALSE /\ context' = FALSE /\ unread' = TRUE
    /\ UNCHANGED <<draft, reports, box, sent, facts>>

\* The runner fills the box if its dry run permits it, and stops.
Fill ==
    /\ dry_run # Nothing /\ dry_run.ready
    /\ box' = dry_run.packet
    /\ UNCHANGED <<draft, understood, context, reports, sent, unread, facts, news>>

\* A human sends what is in the box, changed or not.
HumanSends(text) ==
    /\ box # Nothing
    /\ sent' = IF text = draft THEN Candidate(text) ELSE box.content
    /\ box' = Nothing
    /\ facts' = facts \cup {"sent"}
    /\ UNCHANGED <<draft, understood, context, reports, unread, news>>

Command ==
    \/ \E mode \in {"reply", "mention"}, url \in {"message", "channel", "other"},
          mention \in BOOLEAN : Stage(mode, url, mention)
    \/ \E observed \in BOOLEAN, candidates \in 0..2 : DryRun(observed, candidates)
    \/ \E provided, runbook \in BOOLEAN, environment \in {"test", "production", "unknown"} :
          AutoPreflight(provided, environment, runbook)
    \/ \E given, reviewed, compared, looked \in BOOLEAN, state \in {"human_sent", "not_sent"},
          learning \in {"", "held"} :
          Closeout(given, state, reviewed, compared, looked, learning)
    \/ \E provided, retrospective \in BOOLEAN, environment \in {"test", "production"} :
          OperationStatus(environment, provided, retrospective)
    \/ \E text \in Draft : EditDraft(text) \/ HumanSends(text)
    \/ \E confirmed, allowed \in BOOLEAN : ReadThread(confirmed, allowed)
    \/ OthersWrite \/ Fill

\* A verdict is printed; no command reads it.
Printed ==
    /\ verdict # Nothing /\ verdict' = Nothing
    /\ UNCHANGED <<draft, understood, context, staging, dry_run, box, sent, unread,
                   closeout, facts, news>>

Next == (verdict = Nothing /\ Command) \/ Printed

Spec == Init /\ [][Next]_vars

------------------------------------------------------------------------------
(***************************************************************************)
(* Properties                                                              *)
(***************************************************************************)

TypeOK ==
    /\ draft \in Draft /\ understood \in BOOLEAN /\ context \in BOOLEAN
    /\ verdict \in {Nothing, "ready_for_adapter", "blocked", "ready_for_production",
                    "retrospective", "attention"}
    /\ facts \subseteq {"cleared", "fillable", "sent", "finished"}
    /\ news \in 0..MaxNews

\* What the runner has put into the box, through whatever files, was staged when a
\* human had confirmed the understanding, and a reply when its context was complete;
\* it fits into two messages, and a risky text carries the notice.
FilledWasCleared ==
    box # Nothing =>
        /\ box.understood /\ (box.mode = "reply" => box.context)
        /\ LET extra == IF box.content.notice THEN Notice ELSE 0 IN
           Length[box.content.text] + extra <= 2 * MaxChars
        /\ box.content.text \in Risky => box.content.notice

\* "Ready for a human to send in production" is said only after a draft was cleared,
\* a dry run passed, and a test message was sent, seen, reviewed, compared, without
\* anything unread, and its lesson handed over.
ReadyRestsOnEveryStage ==
    /\ verdict = "ready_for_production" => facts = {"cleared", "fillable", "sent", "finished"}
    /\ verdict = "ready_for_adapter" => {"cleared", "fillable"} \subseteq facts

\* Whatever old reports the commands are given: what is put before a human to send was
\* cleared when it was staged (build_discord_send_staging_packet), and "ready" is said
\* only after every stage of a test (send-operation-status).
SendsAreCleared == FilledWasCleared /\ ReadyRestsOnEveryStage
==============================================================================
