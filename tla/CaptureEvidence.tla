--------------------------- MODULE CaptureEvidence ---------------------------
(***************************************************************************)
(* The durable evidence of one capture: the message ledger and the         *)
(* coverage that observed windows are merged into, and the strict receipt  *)
(* that reconciling them yields (merge_persisted_capture_window and        *)
(* merge_capture_windows_cache_first of capture/service.py,                *)
(* _reconcile_persisted_capture of cli.py, the files of capture/store.py). *)
(*                                                                         *)
(* A merge deletes the receipt, replaces the ledger and then the coverage; *)
(* its process may die in between.  All writers hold the capture's lock,   *)
(* so one merge at a time is under way.  Who loads the receipt takes no    *)
(* lock and reads one file after the other.  Attachments are               *)
(* AttachmentInventory's, the checkpoint is DurableCapture's; of the       *)
(* latter only whether it waits for something is kept, and whether it is   *)
(* the one a loaded receipt is bound to.                                   *)
(***************************************************************************)
EXTENDS VirtualScroll

CONSTANTS
    Observation,   \* the windows callers submit
    Batch,         \* the sequences of windows submitted at once
    Watermark,     \* the message the capture must reach
    Nothing,       \* no receipt, no merge under way
    MaxWindows,    \* bound: windows in the coverage
    MaxInvalid,    \* bound: rows without a message id
    MaxFailures    \* bound: merges that die between two writes

\* What callers submit: rows of messages and versions, each at its place among all
\* rows of the window, and between them rows without an id, which are only counted.
Submitted(obs) ==
    /\ obs.rows \in Seq([msg : Message, ver : Version, at : Nat])
    /\ \A i, j \in DOMAIN obs.rows : i < j => obs.rows[i].at < obs.rows[j].at
    /\ \A i \in DOMAIN obs.rows : obs.rows[i].at < i + obs.invalid
    /\ obs.source \in Source /\ obs.pass \in Nat /\ obs.invalid \in Nat
    /\ obs.oldest \in BOOLEAN /\ obs.latest \in BOOLEAN

ASSUME ObservationAssumption ==
    /\ \A obs \in Observation : Submitted(obs)
    /\ Batch \subseteq Seq(Observation)
ASSUME WatermarkAssumption == Watermark \in Message
ASSUME EvidenceBoundsAssumption ==
    MaxWindows \in Nat /\ MaxInvalid \in Nat /\ MaxFailures \in Nat

VARIABLES
    coverage,      \* virtual-scroll coverage file
    events,        \* the events of the message ledger file
    receipt,       \* what the receipt on disk is bound to
    waiting,       \* does the checkpoint wait for something, or is it blocked
    merge,         \* the merge that holds the lock: its new ledger and coverage
    ledgerSaved,   \* has that merge replaced the ledger
    load,          \* a load of the receipt, which takes no lock
    failures       \* history: merges that died

vars == <<coverage, events, receipt, waiting, merge, ledgerSaved, load, failures>>

Init ==
    /\ coverage = NewCoverage /\ events = <<>> /\ receipt = Nothing
    /\ waiting = FALSE /\ merge = Nothing /\ ledgerSaved = FALSE
    /\ load = Nothing /\ failures = 0

------------------------------------------------------------------------------
(***************************************************************************)
(* Merging windows                                                         *)
(***************************************************************************)

\* Mutant of RowEvent: the index starts one too low.
RowEventOffByOne(obs, i) ==
    [win |-> obs.id, index |-> obs.rows[i].at - 1, msg |-> obs.rows[i].msg,
     ver |-> obs.rows[i].ver, source |-> obs.source]

\* The event of the i-th row with an id; the event id is the digest of this.  The
\* index counts the rows without an id too: submitted again with another number of
\* them in front, a row has another event.
RowEvent(obs, i) ==
    [win |-> obs.id, index |-> obs.rows[i].at, msg |-> obs.rows[i].msg,
     ver |-> obs.rows[i].ver, source |-> obs.source]

\* Mutant of AppendWindowEvents: a row that is observed again is appended again.
AppendWindowEventsAgain(log, obs) ==
    log \o [i \in DOMAIN obs.rows |-> RowEvent(obs, i)]

\* The ledger after each row; an event that is in it is not appended again.
AppendWindowEvents(log, obs) ==
    LET after[i \in 0 .. Len(obs.rows)] ==
            IF i = 0 THEN log
            ELSE IF RowEvent(obs, i) \in ToSet(after[i - 1]) THEN after[i - 1]
            ELSE Append(after[i - 1], RowEvent(obs, i))
    IN after[Len(obs.rows)]

\* The windows of a batch that come from some sources, in their order.
From(batch, sources) ==
    LET from[i \in 0 .. Len(batch)] ==
            IF i = 0 THEN <<>>
            ELSE IF batch[i].source \in sources THEN Append(from[i - 1], batch[i])
            ELSE from[i - 1]
    IN from[Len(batch)]

\* The windows of a batch that come from a local cache go first.
CacheFirst(batch) == From(batch, CacheSource) \o From(batch, Source \ CacheSource)

\* The state of both files after each window of a sequence; a window that
\* contradicts an earlier one fails the whole sequence.
Merged(sequence) ==
    LET after[i \in 0 .. Len(sequence)] ==
            IF i = 0 THEN [ok |-> TRUE, coverage |-> coverage, events |-> events]
            ELSE LET before == after[i - 1]  obs == sequence[i]
                 IN [ok |-> before.ok /\ Mergeable(before.coverage, obs),
                     coverage |-> MergeCaptureWindow(before.coverage, obs),
                     events |-> AppendWindowEvents(before.events, obs)]
    IN after[Len(sequence)]

\* Mutant of BeginMerge: the receipt is left where it is.
BeginMergeKeepingReceipt(sequence) ==
    /\ merge = Nothing
    /\ LET result == Merged(sequence)
       IN /\ result.ok
          /\ Len(result.coverage.windows) <= MaxWindows
          /\ result.coverage.invalid <= MaxInvalid
          /\ merge' = [coverage |-> result.coverage, events |-> result.events]
    /\ ledgerSaved' = FALSE
    /\ UNCHANGED <<coverage, events, receipt, waiting, load, failures>>

\* Both new files are computed, and the receipt is deleted before they are saved.
\* A caller with a stale window count is refused, which changes nothing.
BeginMerge(sequence) ==
    /\ merge = Nothing
    /\ LET result == Merged(sequence)
       IN /\ result.ok
          /\ Len(result.coverage.windows) <= MaxWindows
          /\ result.coverage.invalid <= MaxInvalid
          /\ merge' = [coverage |-> result.coverage, events |-> result.events]
    /\ receipt' = Nothing
    /\ ledgerSaved' = FALSE
    /\ UNCHANGED <<coverage, events, waiting, load, failures>>

MergeWindow == \E obs \in Observation : BeginMerge(<<obs>>)

MergeCacheFirst == \E batch \in Batch : BeginMerge(CacheFirst(batch))

\* Mutant of SaveLedger and SaveCoverage: the coverage is saved first.
CoverageBeforeLedger ==
    /\ merge # Nothing /\ ~ledgerSaved
    /\ coverage' = merge.coverage
    /\ ledgerSaved' = TRUE
    /\ UNCHANGED <<events, receipt, waiting, merge, load, failures>>

SaveLedger ==
    /\ merge # Nothing /\ ~ledgerSaved
    /\ events' = merge.events
    /\ ledgerSaved' = TRUE
    /\ UNCHANGED <<coverage, receipt, waiting, merge, load, failures>>

SaveCoverage ==
    /\ merge # Nothing /\ ledgerSaved
    /\ coverage' = merge.coverage
    /\ merge' = Nothing /\ ledgerSaved' = FALSE
    /\ UNCHANGED <<events, receipt, waiting, load, failures>>

\* The process dies, or a write raises, before the coverage is saved.
MergeDies ==
    /\ merge # Nothing /\ failures < MaxFailures
    /\ failures' = failures + 1
    /\ merge' = Nothing /\ ledgerSaved' = FALSE
    /\ UNCHANGED <<coverage, events, receipt, waiting, load>>

------------------------------------------------------------------------------
(***************************************************************************)
(* Reconciling                                                             *)
(***************************************************************************)

LedgerMessages == {events[i].msg : i \in DOMAIN events}

LedgerFirstSeen == FirstSeen([i \in DOMAIN events |-> events[i].msg])

\* What the ledger has of a window.
LedgerRows(win) == {<<e.index, e.msg>> : e \in {f \in ToSet(events) : f.win = win}}

\* The messages of a window by index, then by id: a window that was submitted again
\* with its rows at other places, or interrupted and submitted with other rows, has
\* messages at several indexes and several messages at one.
LedgerWindow(win) ==
    LET Before(r, q) == r[1] < q[1] \/ (r[1] = q[1] /\ r[2] < q[2])
        sorted == CHOOSE s \in SetToSeqs(LedgerRows(win)) :
                      \A i, j \in DOMAIN s : i < j => Before(s[i], s[j])
    IN [i \in DOMAIN sorted |-> sorted[i][2]]

LedgerWindows == {e.win : e \in ToSet(events)}

\* Mutant of LedgerEdges: neighbours in the ledger, also of different windows.
LedgerEdgesAcross == Edges([i \in DOMAIN events |-> events[i].msg])

LedgerEdges == UNION {Edges(LedgerWindow(win)) : win \in LedgerWindows}

LedgerOrder == Ordering(LedgerFirstSeen, LedgerEdges)

\* The gate of a capture without attachments: evaluate_full_capture on the
\* evidence rebuilt from the ledger, the scan passes and the gap count.
FullCaptureConfirmed ==
    /\ SameOrderTwice(coverage.windows)
    /\ GapCount(coverage.windows) = 0
    /\ events # <<>>
    /\ Watermark \in LedgerMessages
    /\ ~OrderConflict(LedgerFirstSeen, LedgerEdges)
    /\ ~waiting

Evidence == [coverage |-> coverage, events |-> events]

\* A receipt that is there already is left as it is; it must be this one.
Reconcile ==
    /\ merge = Nothing
    /\ FullCaptureConfirmed
    /\ receipt \in {Nothing, Evidence}
    /\ receipt' = Evidence
    /\ UNCHANGED <<coverage, events, waiting, merge, ledgerSaved, load, failures>>

\* An event is advanced on the same capture: the receipt is dropped.
AdvanceCheckpoint ==
    /\ merge = Nothing
    /\ waiting' \in BOOLEAN
    /\ receipt' = Nothing
    /\ load' = IF load = Nothing THEN Nothing ELSE [load EXCEPT !.current = FALSE]
    /\ UNCHANGED <<coverage, events, merge, ledgerSaved, failures>>

------------------------------------------------------------------------------
(***************************************************************************)
(* Loading the receipt                                                     *)
(***************************************************************************)

\* load_full_capture_receipt reads the receipt, the checkpoint, the ledger and the
\* coverage in this order, and fails unless each is what the receipt is bound to.
\* stood is a history: ledger and coverage were, together, when the ledger was read.
ReadReceipt ==
    /\ load = Nothing /\ receipt # Nothing
    /\ load' = [bound |-> receipt, read |-> "receipt", current |-> TRUE, stood |-> FALSE]
    /\ UNCHANGED <<coverage, events, receipt, waiting, merge, ledgerSaved, failures>>

ReadCheckpoint ==
    /\ load # Nothing /\ load.read = "receipt"
    /\ load' = IF load.current THEN [load EXCEPT !.read = "checkpoint"] ELSE Nothing
    /\ UNCHANGED <<coverage, events, receipt, waiting, merge, ledgerSaved, failures>>

ReadLedger ==
    /\ load # Nothing /\ load.read = "checkpoint"
    /\ load' = IF events = load.bound.events
               THEN [load EXCEPT !.read = "ledger",
                                 !.stood = Evidence = load.bound]
               ELSE Nothing
    /\ UNCHANGED <<coverage, events, receipt, waiting, merge, ledgerSaved, failures>>

\* The receipt is returned, or refused as stale.
ReadCoverage ==
    /\ load # Nothing /\ load.read = "ledger"
    /\ load' = Nothing
    /\ UNCHANGED <<coverage, events, receipt, waiting, merge, ledgerSaved, failures>>

Next ==
    \/ MergeWindow \/ MergeCacheFirst \/ SaveLedger \/ SaveCoverage \/ MergeDies
    \/ Reconcile \/ AdvanceCheckpoint
    \/ ReadReceipt \/ ReadCheckpoint \/ ReadLedger \/ ReadCoverage

Spec == Init /\ [][Next]_vars

\* The final passes were read off the screen, every window of them.
FinalPassesVisible ==
    \A p \in {FinalPass(coverage.windows), PreviousPass(coverage.windows)} :
        LET pass == OfPass(coverage.windows, p)
        IN \A i \in DOMAIN pass : pass[i].source = "chrome_visible_dom"

\* build_observed_full_closeout on what _reconcile_persisted_capture returns,
\* for a visible route, requested and attested.
ObservedFullVerified ==
    /\ FullCaptureConfirmed
    /\ FinalPassesVisible
    /\ NewInPass(coverage.windows, FinalPass(coverage.windows)) = 0
    /\ EditedCount(coverage) = 0

------------------------------------------------------------------------------
(***************************************************************************)
(* Properties                                                              *)
(***************************************************************************)

Window == [id : {o.id : o \in Observation}, source : Source, ids : Seq(Message),
           pass : Nat, oldest : BOOLEAN, latest : BOOLEAN, new : Nat]

EventRow == [win : {o.id : o \in Observation}, index : Nat, msg : Message,
             ver : Version, source : Source]

Coverage == [windows : Seq(Window), versions : [Message -> SUBSET Version],
             invalid : Nat,
             blockers : SUBSET {"window_overlap_gap", "stable_message_id_missing"}]

Bound == [coverage : Coverage, events : Seq(EventRow)]

Load == [bound : Bound, read : {"receipt", "checkpoint", "ledger"},
         current : BOOLEAN, stood : BOOLEAN]

ASSUME EvidenceNothingAssumption == Nothing \notin Bound \cup Load

\* Types of the two files, the receipt, the merge and the load under way.
TypeOK ==
    /\ coverage \in Coverage /\ events \in Seq(EventRow)
    /\ receipt \in Bound \cup {Nothing}
    /\ merge \in Bound \cup {Nothing}
    /\ load \in Load \cup {Nothing}
    /\ waiting \in BOOLEAN /\ ledgerSaved \in BOOLEAN /\ failures \in Nat

CoverageWindows == {coverage.windows[i].id : i \in DOMAIN coverage.windows}

\* What the coverage counts, the ledger can show: every message, and every
\* version of it, of a window in the coverage is in the ledger, also when merges
\* die half way (save_message_ledger comes before save_coverage).
LedgerCoversCoverage ==
    \A m \in Message : \A v \in coverage.versions[m] :
        \E i \in DOMAIN events : events[i].msg = m /\ events[i].ver = v

\* Repeating a window, after a crash or by mistake, in a batch or alone, never
\* records a row twice, and no window twice (event_id, window_id).
NothingRecordedTwice ==
    /\ IsInjective(events)
    /\ Cardinality(CoverageWindows) = Len(coverage.windows)

\* Each window of the coverage is in the ledger at one place per row: it was not
\* submitted again with its rows moved by rows without an id.
PlacesKept ==
    \A i \in DOMAIN coverage.windows :
        LET w == coverage.windows[i]
        IN Cardinality(LedgerRows(w.id)) = Len(w.ids)

\* The coverage and the ledger order the messages independently of each other.
\* While no merge has died between its two writes they have seen the messages in
\* one order, and, unless rows moved, agree on the order of the windows and on
\* whether windows contradict each other (_ordered_ids, _ordered_message_ids).
OrdersAgree ==
    (merge = Nothing /\ failures = 0) =>
        /\ FirstSeen(IdsOf(coverage.windows)) = LedgerFirstSeen
        /\ PlacesKept =>
               /\ OrderedIds(coverage.windows) = LedgerOrder
               /\ OrderConflict(LedgerFirstSeen, LedgerEdges)
                      <=> OrderConflict(FirstSeen(IdsOf(coverage.windows)),
                                        WindowEdges(coverage.windows))

\* Where a message stands in an order.
Position(t, m) == CHOOSE i \in DOMAIN t : t[i] = m

\* The order is one that every window agrees with, whenever there is such an
\* order at all: some arrangement of the messages keeps the neighbours of each
\* window in order (_ordered_ids finds it without a search).
OrderIsFound ==
    LET ids == Known(coverage)
        edges == WindowEdges(coverage.windows)
        Respects(t) == \A e \in edges : Position(t, e[1]) < Position(t, e[2])
    IN (\E t \in SetToSeqs(ids) : Respects(t)) => Respects(OrderedIds(coverage.windows))

\* Coverage is connected exactly when the windows that show something cannot be
\* divided into two groups without a message in common (_window_components).
ConnectedMeansNoGap ==
    LET windows == coverage.windows
        Shows(G) == UNION {ToSet(windows[i].ids) : i \in G}
    IN CoverageConnected(windows) <=>
           /\ Shown(windows) # {}
           /\ \A G \in (SUBSET Shown(windows)) \ {{}, Shown(windows)} :
                  Shows(G) \cap Shows(Shown(windows) \ G) # {}

\* A receipt on disk is bound to the ledger and the coverage on disk, whatever
\* merge dies where (invalidate_full_capture_receipt before both saves).
ReceiptOnDiskBinds == receipt # Nothing => receipt = Evidence

\* A load that is about to return the receipt, the coverage being as bound.
AboutToReturn ==
    load # Nothing /\ load.read = "ledger" /\ coverage = load.bound.coverage

\* A receipt on disk is bound to the evidence on disk; and a load without the lock
\* returns no mixture: what it returns still stood, ledger and coverage together,
\* after the receipt was read (load_full_capture_receipt).
ReceiptBindsEvidence == ReceiptOnDiskBinds /\ (AboutToReturn => load.stood)

\* Evidence is never taken back: not by a repeated, a contradictory or an
\* interrupted merge (save_message_ledger, save_coverage).
EvidenceOnlyGrows ==
    [][/\ IsPrefix(events, events')
       /\ IsPrefix(coverage.windows, coverage.windows')
       /\ coverage.blockers \ {"window_overlap_gap"} \subseteq coverage'.blockers]_vars

\* What the operations document lists as the conditions of completeness, with a
\* receipt on disk: no message id missing, no gap, nothing new in the last pass.
FullMeansStable == receipt # Nothing => StableAfterRescan(coverage)

\* What build_observed_full_closeout says of edits: any edit blocks it.
ObservedFullMeansUnedited ==
    (merge = Nothing /\ ObservedFullVerified) =>
        \A i, j \in DOMAIN events :
            events[i].msg = events[j].msg => events[i].ver = events[j].ver
==============================================================================
