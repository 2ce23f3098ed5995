---------------------------- MODULE VirtualScroll ----------------------------
(***************************************************************************)
(* capture/virtual_scroll.py and the ordering half of                      *)
(* capture/message_ledger.py: how windows onto a virtualized message list  *)
(* become one order, how gaps are found and when a rescan counts as        *)
(* stable.  Pure functions; CaptureEvidence persists what they compute.    *)
(*                                                                         *)
(* Messages, versions (content hashes) and window ids are abstract.        *)
(* The digest of an order is length-framed, so it is the order itself.     *)
(***************************************************************************)
EXTENDS SequencesExt

CONSTANTS
    Message,     \* stable message ids, ordered like their strings
    Version      \* content hashes

ASSUME MessageAssumption == Message \subseteq Nat

CacheSource == {"saved_cache", "saved_snapshot", "background_cache",
                "discord_desktop_cache"}
Source == CacheSource \cup {"chrome_visible_dom", "rest_backfill"}

NoPass == 0      \* a window outside every scan pass

------------------------------------------------------------------------------
(***************************************************************************)
(* Ordering: _ordered_ids and _ordered_message_ids differ only in where    *)
(* the neighbours come from.                                               *)
(***************************************************************************)

\* The elements of s in the order they were first seen.
FirstSeen(s) ==
    LET seen[i \in 0 .. Len(s)] ==
            IF i = 0 THEN <<>>
            ELSE IF s[i] \in ToSet(seen[i - 1]) THEN seen[i - 1]
            ELSE Append(seen[i - 1], s[i])
    IN seen[Len(s)]

\* The pairs of different neighbours.
Edges(s) ==
    {<<s[i], s[i + 1]>> : i \in {k \in 1 .. Len(s) - 1 : s[k] # s[k + 1]}}

\* Mutant of TakeReady: one predecessor that is placed is enough.
TakeReadyEarly(firstSeen, edges, done) ==
    {m \in ToSet(firstSeen) \ ToSet(done) :
        \/ \A e \in edges : e[2] # m
        \/ \E e \in edges : e[2] = m /\ e[1] \in ToSet(done)}

\* The messages all of whose predecessors are placed.
TakeReady(firstSeen, edges, done) ==
    {m \in ToSet(firstSeen) \ ToSet(done) :
        \A e \in edges : e[2] = m => e[1] \in ToSet(done)}

\* The heap: of the ready messages, the one that was seen first goes next.
Sorted(firstSeen, edges) ==
    LET placed[n \in 0 .. Len(firstSeen)] ==
            IF n = 0 THEN <<>>
            ELSE LET done == placed[n - 1]
                     ready == TakeReady(firstSeen, edges, done)
                 IN IF ready = {} THEN done
                    ELSE Append(done, firstSeen[CHOOSE i \in DOMAIN firstSeen :
                            /\ firstSeen[i] \in ready
                            /\ \A j \in 1 .. i - 1 : firstSeen[j] \notin ready])
    IN placed[Len(firstSeen)]

\* Windows that contradict each other leave messages that are never ready.
OrderConflict(firstSeen, edges) ==
    Len(Sorted(firstSeen, edges)) # Len(firstSeen)

\* Contradictory windows are not trusted: the order of first sight is kept.
Ordering(firstSeen, edges) ==
    IF OrderConflict(firstSeen, edges) THEN firstSeen
    ELSE Sorted(firstSeen, edges)

\* The message ids of windows, one window after the other.
IdsOf(windows) == FlattenSeq([i \in DOMAIN windows |-> windows[i].ids])

WindowEdges(windows) == UNION {Edges(windows[i].ids) : i \in DOMAIN windows}

OrderedIds(windows) == Ordering(FirstSeen(IdsOf(windows)), WindowEdges(windows))

------------------------------------------------------------------------------
(***************************************************************************)
(* Gaps and scan passes                                                    *)
(***************************************************************************)

\* The windows that show something; an empty one connects nothing.
Shown(windows) == {i \in DOMAIN windows : windows[i].ids # <<>>}

\* Mutant of Frontier: only windows that overlap the first one are joined.
FrontierOnce(windows, i) ==
    {j \in Shown(windows) :
        ToSet(windows[i].ids) \cap ToSet(windows[j].ids) # {}}

\* The windows a component started at window i takes in: those that overlap
\* what it has taken in so far, until no other does.
Frontier(windows, i) ==
    LET taken[n \in 0 .. Len(windows)] ==
            IF n = 0 THEN {i}
            ELSE LET ids == UNION {ToSet(windows[j].ids) : j \in taken[n - 1]}
                 IN {j \in Shown(windows) : ToSet(windows[j].ids) \cap ids # {}}
    IN taken[Len(windows)]

WindowComponents(windows) ==
    Cardinality({Frontier(windows, i) : i \in Shown(windows)})

GapCount(windows) == Max({WindowComponents(windows), 1}) - 1

CoverageConnected(windows) == windows # <<>> /\ WindowComponents(windows) = 1

OfPass(windows, p) == SelectSeq(windows, LAMBDA w : w.pass = p)

\* The passes that count: both ends were reached and no gap is inside.
CompletePasses(windows) ==
    {p \in {windows[i].pass : i \in DOMAIN windows} \ {NoPass} :
        LET pass == OfPass(windows, p)
        IN /\ \E i \in DOMAIN pass : pass[i].oldest
           /\ \E i \in DOMAIN pass : pass[i].latest
           /\ WindowComponents(pass) = 1}

\* The two highest complete passes, once there are two.
FinalPass(windows) == Max(CompletePasses(windows))
PreviousPass(windows) ==
    Max(CompletePasses(windows) \ {FinalPass(windows)})

\* The last two complete passes saw the same messages in the same order.
SameOrderTwice(windows) ==
    /\ Cardinality(CompletePasses(windows)) >= 2
    /\ OrderedIds(OfPass(windows, FinalPass(windows)))
           = OrderedIds(OfPass(windows, PreviousPass(windows)))

\* Messages the windows of a pass were the first to show.
NewInPass(windows, p) ==
    LET pass == OfPass(windows, p)
    IN SumFunction([i \in DOMAIN pass |-> pass[i].new])

------------------------------------------------------------------------------
(***************************************************************************)
(* The coverage envelope.  versions maps a message to the content hashes   *)
(* seen of it, {} when the message is unknown.  The gap count, the passes  *)
(* and the edit count are functions of windows and versions; the blockers  *)
(* are not, they are only brought up to date when a window is added.       *)
(***************************************************************************)
NewCoverage == [windows |-> <<>>, versions |-> [m \in Message |-> {}],
                invalid |-> 0, blockers |-> {}]

Known(coverage) == {m \in Message : coverage.versions[m] # {}}

EditedCount(coverage) ==
    Cardinality({m \in Message : Cardinality(coverage.versions[m]) > 1})

RowIds(obs) == [i \in DOMAIN obs.rows |-> obs.rows[i].msg]

WindowOf(coverage, obs) ==
    {i \in DOMAIN coverage.windows : coverage.windows[i].id = obs.id}

\* A window id stands for one observation: the same messages, the same source.
Mergeable(coverage, obs) ==
    \A i \in WindowOf(coverage, obs) :
        /\ coverage.windows[i].ids = RowIds(obs)
        /\ coverage.windows[i].source = obs.source

\* _recompute: the blockers of the updated windows.
Blockers(coverage) ==
    (coverage.blockers \ {"window_overlap_gap"})
    \cup (IF coverage.invalid > 0 THEN {"stable_message_id_missing"} ELSE {})
    \cup (IF GapCount(coverage.windows) > 0 THEN {"window_overlap_gap"} ELSE {})

AddWindow(coverage, obs) ==
    LET seen(m) == {obs.rows[i].ver : i \in {j \in DOMAIN obs.rows :
                                               obs.rows[j].msg = m}}
        added == [coverage EXCEPT
            !.invalid = @ + obs.invalid,
            !.versions = [m \in Message |-> @[m] \cup seen(m)],
            !.windows = Append(@,
                [id |-> obs.id, source |-> obs.source, ids |-> RowIds(obs),
                 pass |-> obs.pass, oldest |-> obs.oldest, latest |-> obs.latest,
                 new |-> Cardinality(ToSet(RowIds(obs)) \ Known(coverage))])]
    IN [added EXCEPT !.blockers = Blockers(added)]

\* Mutant of MergeCaptureWindow: the window moves to the end.
MergeCaptureWindowAgain(coverage, obs) ==
    AddWindow([coverage EXCEPT !.windows = SelectSeq(@, LAMBDA w : w.id # obs.id)], obs)

\* A window that is submitted again adds its invalid rows and nothing else: no
\* version of a message it shows, and no blocker.
MergeCaptureWindow(coverage, obs) ==
    IF WindowOf(coverage, obs) # {}
    THEN [coverage EXCEPT !.invalid = @ + obs.invalid]
    ELSE AddWindow(coverage, obs)

\* capture_stable_after_rescan
StableAfterRescan(coverage) ==
    /\ SameOrderTwice(coverage.windows)
    /\ NewInPass(coverage.windows, FinalPass(coverage.windows)) = 0
    /\ CoverageConnected(coverage.windows)
    /\ coverage.blockers = {}
==============================================================================
