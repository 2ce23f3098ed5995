------------------------------ MODULE UrlIntake ------------------------------
(***************************************************************************)
(* The commands that decide what is known of one Discord URL (core.py,     *)
(* cli.py, acquisition_gate.py): verify-url-intake, coverage-report,       *)
(* url-intake-fast-path, bridge-intake, cache-first-intake and             *)
(* thread-capture-plan.  Each reads the raw cache, the snapshot ledger and *)
(* a receipt one after the other while other programs append rows, revoke  *)
(* them and replace the receipt, and some write before they read again.    *)
(*                                                                         *)
(* Only rows of the one target are modelled.  A row has the capture it     *)
(* belongs to, the time it was captured, the part of the message history   *)
(* it says it covers, and the type of its event ("none": an unchained row  *)
(* without an id).  The chain of the ledger is SnapshotLedger's.           *)
(***************************************************************************)
EXTENDS Integers, Sequences, FiniteSets, FiniteSetsExt, SequencesExt

CONSTANTS
    Covers,      \* the part of the history each capture has read
    CacheRows,   \* the rows collectors append to the raw cache
    LedgerRows,  \* the rows other writers append to the ledger
    Receipts,    \* the receipts they leave: [capture, valid, start, end]
    Asks,        \* what the commands are called with
    MaxAge,      \* rows at most this old are recent
    MaxTime,     \* bound: time
    MaxChanges,  \* bound: what other programs do
    MaxRows,     \* bound: rows of the ledger when a command begins
    None

Captures == DOMAIN Covers
Kinds == {"verify", "coverage", "fast", "bridge", "book", "plan"}

Row == [capture : Captures \union {None}, at : (0..MaxTime) \union {None},
        start : Nat \union {None}, end : Nat \union {None},
        event : {"observed", "message", "none"}, parsed : BOOLEAN,
        state : {"sound", "invalid", "revoked"}]

Ask == [kind : Kinds, cache : BOOLEAN, text : BOOLEAN, sync : BOOLEAN,
        start : Nat, end : Nat, confirmed : BOOLEAN,
        draft : BOOLEAN, context : BOOLEAN, understood : BOOLEAN, route : BOOLEAN]

\* What a command may end with.
Verdicts ==
    {"ready", "ai_log_stale", "raw_cache_missing", "raw_cache_gate_skipped", "raised",
     "summary_ready", "summary_blocked", "snapshot_metadata_ready", "need_visible_text",
     "passport_ready", "reply_context_blocked", "guide_ready", "understanding_blocked",
     "cache_missing", "book_created", "ready_for_full_capture",
     "blocked_missing_full_thread_route"}

IntakeAssumption ==
    /\ \A c \in Captures : Covers[c].start \in Nat /\ Covers[c].end \in Nat
    /\ CacheRows \union LedgerRows \subseteq Row /\ Asks \subseteq Ask
    /\ \A r \in CacheRows \union LedgerRows : r.capture # None =>
           /\ r.start # None => r.start >= Covers[r.capture].start
           /\ r.end # None => r.end <= Covers[r.capture].end
    /\ \A r \in Receipts : r.valid =>
           /\ r.capture \in Captures
           /\ r.start \in Nat /\ r.start >= Covers[r.capture].start
           /\ r.end \in Nat /\ r.end <= Covers[r.capture].end
    /\ None \notin Captures \union Nat \union Receipts \union Verdicts
    /\ MaxAge \in Nat /\ MaxTime \in Nat
    /\ MaxChanges \in Nat /\ MaxRows \in Nat

VARIABLES
    raw,      \* rows of the raw cache
    ai,       \* rows of the snapshot ledger
    receipt,  \* the receipt file, or None
    book,     \* rows of the book that was written last
    now,
    call,     \* the command: what it was asked, its next steps, what it has read
    changes

vars == <<raw, ai, receipt, book, now, call, changes>>
files == <<raw, ai, receipt, book>>

Idle == [ask |-> None, todo |-> <<>>, begun |-> 0, raw |-> <<>>, ai |-> <<>>,
         receipt |-> None, status |-> None, own |-> 0, latest |-> 0, verdict |-> None]

Init == /\ raw = <<>> /\ ai = <<>> /\ receipt = None /\ book = <<>>
        /\ now = 0 /\ call = Idle /\ changes = 0

-----------------------------------------------------------------------------
(* What other programs do. *)

Change == changes < MaxChanges /\ changes' = changes + 1

AppendRaw(r) == /\ Change /\ raw' = Append(raw, r)
                /\ UNCHANGED <<ai, receipt, book, now, call>>

\* A ledger with an invalid row takes nothing but its revocation.
Appendable == \A i \in DOMAIN ai : ai[i].state # "invalid"
AppendAi(r) == /\ Change /\ Appendable /\ ai' = Append(ai, r)
               /\ UNCHANGED <<raw, receipt, book, now, call>>
Revoke == /\ Change /\ ai # <<>> /\ ai[Len(ai)].state = "invalid"
          /\ ai' = [ai EXCEPT ![Len(ai)].state = "revoked"]
          /\ UNCHANGED <<raw, receipt, book, now, call>>

LeaveReceipt(r) == /\ Change /\ r # receipt /\ receipt' = r
                   /\ UNCHANGED <<raw, ai, book, now, call>>
Tick == /\ now < MaxTime /\ now' = now + 1
        /\ UNCHANGED <<files, call, changes>>

-----------------------------------------------------------------------------
(* What is read off the rows. *)

\* The rows at some places, in their order.
Picked(rows, places) ==
    LET kept[n \in 0..Len(rows)] ==
            IF n = 0 THEN <<>>
            ELSE IF n \in places THEN Append(kept[n - 1], rows[n]) ELSE kept[n - 1]
    IN  kept[Len(rows)]

\* matching_snapshot_records: revoked rows are no content; an invalid row is,
\* until it is revoked.
Matching(rows) == Picked(rows, {i \in DOMAIN rows : rows[i].state # "revoked"})

\* select_latest_snapshot: revoked or not.
Observed(rows) == {i \in DOMAIN rows : rows[i].event \in {"observed", "none"}}
LatestOf(rows) == IF Observed(rows) = {} THEN 0 ELSE Max(Observed(rows))

Values(set) == set \ {None}
AtLeast(set) == IF Values(set) = {} THEN None ELSE Min(Values(set))
AtMost(set) == IF Values(set) = {} THEN None ELSE Max(Values(set))

Freshness(rows, time) ==
    LET newest == AtMost({r.at : r \in ToSet(rows)})
    IN  IF rows = <<>> THEN "missing"
        ELSE IF newest = None THEN "unknown"
        ELSE IF time - newest <= MaxAge THEN "recent" ELSE "stale"

Selected == IF call.ai # <<>> THEN call.ai ELSE call.raw
Status == Freshness(Selected, call.begun)

\* The rows the gate is given: those of the receipt's capture, if there are any.
OfCapture(rows, r) ==
    IF r = None THEN <<>>
    ELSE Picked(rows, {i \in DOMAIN rows : r.capture # None /\ rows[i].capture = r.capture})
GateRows ==
    LET bound == OfCapture(call.ai \o call.raw, call.receipt)
    IN  IF bound = <<>> THEN Selected ELSE bound

-----------------------------------------------------------------------------
(* build_acquisition_completion_gate *)

\* Mutant of BoundRows: what the rows of any capture cover.
AnyRows == ToSet(call.ai \o call.raw)

BoundRows == ToSet(OfCapture(GateRows, call.receipt))

\* A side that no row of the capture names is taken from the receipt.
Acquired ==
    LET from == AtLeast({r.start : r \in BoundRows})
        to   == AtMost({r.end : r \in BoundRows})
        said == IF call.receipt = None THEN [start |-> None, end |-> None]
                ELSE [start |-> call.receipt.start, end |-> call.receipt.end]
    IN  [start |-> IF from = None THEN said.start ELSE from,
         end   |-> IF to = None THEN said.end ELSE to]

RangeCovered == /\ call.ask.start <= call.ask.end
                /\ Acquired.start # None /\ Acquired.start <= call.ask.start
                /\ Acquired.end # None /\ Acquired.end >= call.ask.end

\* _validate_full_capture_receipt: strict, canonical, full, without blockers.
Valid(r) == r # None /\ r.valid

SummaryReady == /\ Valid(call.receipt)
                /\ BoundRows # {} /\ RangeCovered
                /\ Freshness(GateRows, call.begun) = "recent"
                /\ call.ask.confirmed

-----------------------------------------------------------------------------
(* The commands. *)

\* The steps, without the first unless it is asked for.
From(first, steps) == IF first THEN steps ELSE Tail(steps)

Steps(ask) ==
    CASE ask.kind = "verify" -> IF ask.cache THEN <<"raw", "ai", "compare">> ELSE <<"skip">>
      [] ask.kind = "coverage" -> From(ask.cache, <<"raw", "ai", "receipt", "cover">>)
      [] ask.kind = "fast" -> From(ask.cache, <<"raw", "ai", "refresh">>)
      [] ask.kind = "bridge" ->
             From(ask.text, IF ask.cache THEN <<"save", "raw", "ai", "latest", "guide">>
                                         ELSE <<"save", "ai", "latest", "guide">>)
      [] ask.kind = "book" -> <<"raw", "ai", "book">>
      [] ask.kind = "plan" -> IF ask.cache THEN <<"ai", "raw", "plan">> ELSE <<"ai", "plan">>

Begin(ask) == /\ call.todo = <<>> /\ Len(ai) <= MaxRows
              /\ call' = [Idle EXCEPT !.ask = ask, !.todo = Steps(ask), !.begun = now]
              /\ UNCHANGED <<files, now, changes>>

At(step) == call.todo # <<>> /\ Head(call.todo) = step
Went == [call EXCEPT !.todo = Tail(@)]
Finish(verdict) == call' = [call EXCEPT !.todo = <<>>, !.verdict = verdict]

ReadRaw == /\ At("raw") /\ call' = [Went EXCEPT !.raw = Matching(raw)]
           /\ UNCHANGED <<files, now, changes>>
ReadAi == /\ At("ai") /\ call' = [Went EXCEPT !.ai = Matching(ai)]
          /\ UNCHANGED <<files, now, changes>>
LoadReceipt == /\ At("receipt") /\ call' = [Went EXCEPT !.receipt = receipt]
               /\ UNCHANGED <<files, now, changes>>

\* verify-url-intake
Compare == /\ At("compare")
           /\ \/ call.raw # <<>> /\ call.ai # <<>> /\ Finish("ready")
              \/ call.raw # <<>> /\ call.ai = <<>> /\ ~call.ask.sync /\ Finish("ai_log_stale")
              \/ /\ call.raw # <<>> /\ call.ai = <<>> /\ call.ask.sync
                 /\ call' = [call EXCEPT !.todo = <<"import", "ai", "synced">>]
              \/ call.raw = <<>> /\ Finish("raw_cache_missing")
           /\ UNCHANGED <<files, now, changes>>
Skip == /\ At("skip") /\ Finish("raw_cache_gate_skipped")
        /\ UNCHANGED <<files, now, changes>>

\* append_snapshot_like_record of the first row: a row that is there is not
\* appended again, one without an id and a time gets the time, and an invalid
\* row or ledger raises.
Imported(row) == IF row.event = "none" /\ row.at = None THEN [row EXCEPT !.at = now] ELSE row
Import ==
    /\ At("import")
    /\ LET row == Imported(call.raw[1]) IN
       IF row.state # "sound" \/ ~Appendable
       THEN Finish("raised") /\ UNCHANGED ai
       ELSE /\ call' = Went
            /\ ai' = IF row.event # "none" /\ row \in ToSet(ai) THEN ai ELSE Append(ai, row)
    /\ UNCHANGED <<raw, receipt, book, now, changes>>
Synced == /\ At("synced") /\ Finish("ready")
          /\ UNCHANGED <<files, now, changes>>

\* coverage-report --require-summary-ready
Cover == /\ At("cover") /\ Finish(IF SummaryReady THEN "summary_ready" ELSE "summary_blocked")
         /\ UNCHANGED <<files, now, changes>>

\* snapshot_visible_text
OwnRow == [capture |-> None, at |-> now, start |-> None, end |-> None,
           event |-> "observed", parsed |-> TRUE, state |-> "sound"]
Save == /\ At("save")
        /\ IF Appendable
           THEN /\ ai' = Append(ai, OwnRow)
                /\ call' = [Went EXCEPT !.own = Len(ai) + 1]
           ELSE Finish("raised") /\ UNCHANGED ai
        /\ UNCHANGED <<raw, receipt, book, now, changes>>

\* url-intake-fast-path: the text is read when what is known is not recent.
Refresh == /\ At("refresh")
           /\ call' = [call EXCEPT
                  !.status = Status,
                  !.todo = From(call.ask.text /\ Status # "recent",
                                <<"save", "latest", "decide">>)]
           /\ UNCHANGED <<files, now, changes>>
SelectLatest == /\ At("latest") /\ call' = [Went EXCEPT !.latest = LatestOf(ai)]
                /\ UNCHANGED <<files, now, changes>>
Decide == /\ At("decide")
          /\ Finish(IF call.latest # 0 THEN "snapshot_metadata_ready" ELSE "need_visible_text")
          /\ UNCHANGED <<files, now, changes>>

\* bridge-intake: the passport is built of whatever text was found.
Guide == /\ At("guide")
         /\ Finish(CASE call.latest = 0 -> "need_visible_text"
                     [] call.latest # 0 /\ ~call.ask.draft -> "passport_ready"
                     [] call.latest # 0 /\ call.ask.draft /\ ~call.ask.context ->
                            "reply_context_blocked"
                     [] OTHER -> IF call.ask.understood /\ ai[call.latest].parsed
                                 THEN "guide_ready" ELSE "understanding_blocked")
         /\ UNCHANGED <<files, now, changes>>

\* cache-first-intake and thread-capture-plan
WriteBook ==
    LET rows == IF call.raw # <<>> THEN call.raw ELSE call.ai IN
    /\ At("book")
    /\ book' = IF rows = <<>> THEN book ELSE rows
    /\ Finish(IF rows = <<>> THEN "cache_missing" ELSE "book_created")
    /\ UNCHANGED <<raw, ai, receipt, now, changes>>
Plan == /\ At("plan")
        /\ Finish(IF call.ask.route \/ call.raw # <<>>
                  THEN "ready_for_full_capture" ELSE "blocked_missing_full_thread_route")
        /\ UNCHANGED <<files, now, changes>>

Command == \/ \E ask \in Asks : Begin(ask)
           \/ ReadRaw \/ ReadAi \/ LoadReceipt \/ Compare \/ Skip \/ Import \/ Synced
           \/ Cover \/ Save \/ Refresh \/ SelectLatest \/ Decide \/ Guide
           \/ WriteBook \/ Plan
Others == \/ \E r \in CacheRows : AppendRaw(r)
          \/ \E r \in LedgerRows : AppendAi(r)
          \/ \E r \in Receipts : LeaveReceipt(r)
          \/ Revoke \/ Tick
Next == Command \/ Others
Spec == Init /\ [][Next]_vars

-----------------------------------------------------------------------------
TypeOK ==
    /\ \A r \in ToSet(raw) \union ToSet(ai) \union ToSet(book) : r \in Row
    /\ receipt \in Receipts \union {None} /\ now \in 0..MaxTime /\ changes \in 0..MaxChanges
    /\ call.ask \in Asks \union {None} /\ call.own \in 0..Len(ai) /\ call.latest \in 0..Len(ai)
    /\ \A i, j \in DOMAIN ai : ai[i].state = "invalid" /\ ai[j].state = "invalid" => i = j

\* A summary is said to be ready only if the capture whose receipt was read has
\* read all that was asked for, whatever the rows of other captures say, and a row
\* of that capture is in one of the files and was captured recently.
SummaryIsCovered ==
    call.verdict = "summary_ready" =>
        LET c == call.receipt.capture IN
        /\ Covers[c].start <= call.ask.start /\ call.ask.end <= Covers[c].end
        /\ \E r \in ToSet(raw) \union ToSet(ai) :
               r.capture = c /\ r.at # None /\ call.begun - r.at <= MaxAge

\* An intake that is ready has read a row of the ledger, the imported one if it had
\* to, and only the revocation of an invalid row can leave the ledger without one.
ReadyHasRow ==
    call.verdict = "ready" =>
        /\ call.ai # <<>>
        /\ Matching(ai) = <<>> => \A r \in ToSet(call.ai) : r.state = "invalid"

\* A command that saved the text it was given answers from that text or a later one.
OwnTextIsUsed ==
    call.own # 0 /\ call.verdict \in {"snapshot_metadata_ready", "passport_ready", "guide_ready"}
        => call.latest >= call.own
\* And having saved it, it never asks for the text again.
OwnTextIsFound == call.own # 0 => call.verdict # "need_visible_text"

IntakeIsBacked == SummaryIsCovered /\ ReadyHasRow /\ OwnTextIsUsed /\ OwnTextIsFound

-----------------------------------------------------------------------------
(* The inductive invariant. *)

\* A row says no more than its capture has read.
Fits(r) ==
    /\ r \in Row
    /\ r.capture # None =>
           /\ r.start # None => r.start >= Covers[r.capture].start
           /\ r.end # None => r.end <= Covers[r.capture].end
Rows == Seq({r \in Row : Fits(r)})

\* The steps a command may have before it.
Todos ==
    {<<>>, <<"raw", "ai", "compare">>, <<"ai", "compare">>, <<"compare">>, <<"skip">>,
     <<"import", "ai", "synced">>, <<"ai", "synced">>, <<"synced">>,
     <<"raw", "ai", "receipt", "cover">>, <<"ai", "receipt", "cover">>,
     <<"receipt", "cover">>, <<"cover">>,
     <<"raw", "ai", "refresh">>, <<"ai", "refresh">>, <<"refresh">>,
     <<"save", "latest", "decide">>, <<"latest", "decide">>, <<"decide">>,
     <<"save", "raw", "ai", "latest", "guide">>, <<"save", "ai", "latest", "guide">>,
     <<"raw", "ai", "latest", "guide">>, <<"ai", "latest", "guide">>,
     <<"latest", "guide">>, <<"guide">>,
     <<"raw", "ai", "book">>, <<"ai", "book">>, <<"book">>,
     <<"ai", "raw", "plan">>, <<"ai", "plan">>, <<"raw", "plan">>, <<"plan">>}

Calls ==
    [ask : Asks \union {None}, todo : Todos, begun : 0..MaxTime, raw : Rows, ai : Rows,
     receipt : Receipts \union {None},
     status : {None, "missing", "unknown", "recent", "stale"}, own : Nat, latest : Nat,
     verdict : Verdicts \union {None}]

Typed == /\ raw \in Rows /\ ai \in Rows /\ book \in Rows
         /\ receipt \in Receipts \union {None}
         /\ now \in 0..MaxTime /\ changes \in 0..MaxChanges /\ call \in Calls

OneInvalid == \A i, j \in DOMAIN ai : ai[i].state = "invalid" /\ ai[j].state = "invalid" => i = j

\* What was read is in the files, but for the invalid row that has been revoked.
StillThere(r) ==
    \/ r \in ToSet(ai)
    \/ r.state = "invalid" /\ [r EXCEPT !.state = "revoked"] \in ToSet(ai)
Kept == /\ \A r \in ToSet(call.raw) : r \in ToSet(raw)
        /\ \A r \in ToSet(call.ai) : r.state # "revoked" /\ StillThere(r)
        /\ call.own # 0 => call.own \in DOMAIN ai /\ ai[call.own].event = "observed"
        /\ call.latest \in 0..Len(ai)

\* What the steps that are left rest on.
Rests == /\ call.todo # <<>> => call.ask \in Asks /\ call.verdict = None
         /\ call.todo = <<"import", "ai", "synced">> => call.raw # <<>>
         /\ call.todo = <<"ai", "synced">> => \E r \in ToSet(ai) : r.state = "sound"
         /\ call.todo = <<"synced">> => call.ai # <<>>
         /\ call.todo \in {<<"decide">>, <<"guide">>} /\ call.own # 0 => call.latest >= call.own

\* What a verdict rests on.
Backed ==
    /\ call.verdict = "summary_ready" =>
           /\ Covers[call.receipt.capture].start <= call.ask.start
           /\ call.ask.end <= Covers[call.receipt.capture].end
           /\ \E r \in ToSet(call.raw) \union ToSet(call.ai) :
                  /\ r.capture = call.receipt.capture
                  /\ r.at # None /\ call.begun - r.at <= MaxAge
    /\ call.verdict = "ready" => call.ai # <<>>
    /\ OwnTextIsUsed /\ OwnTextIsFound

IntakeInv == Typed /\ OneInvalid /\ Kept /\ Rests /\ Backed
=============================================================================
