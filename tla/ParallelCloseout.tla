--------------------------- MODULE ParallelCloseout ---------------------------
(***************************************************************************)
(* Closing a run directory that parallel workers and an importer filled    *)
(* (capture/parallel_closeout.py).  Each producer leaves a create-only     *)
(* drain receipt; the event router binds all of them and a digest of the   *)
(* evidence into a create-only stop receipt; a closeout audits the parent, *)
(* judges the evidence, publishes a create-only receipt and projects it    *)
(* into run-metadata.json.                                                 *)
(*                                                                         *)
(* Nothing here is locked.  Router and closeouts read the directory step   *)
(* by step while others write to it, and may die between two steps.  A     *)
(* digest is modelled by what it is a digest of.                           *)
(***************************************************************************)
EXTENDS Integers, FiniteSets

CONSTANTS
    Worker,        \* workers of the run
    Importer,      \* the producer that commits what workers spooled
    Item,          \* items of the canonical shards
    Owner,         \* the worker of each item
    Closer,        \* calls of the closeout, repeated
    Request,       \* the options each is called with: [finalize, parent]
    ParentInit,    \* states of the parent audit to begin with
    ClosersWait,   \* closeouts are called only after the run was stopped
    MaxDeaths,     \* bound: router or closeout dies
    MaxTampering,  \* bound: files changed after the stop
    MaxAudits,     \* bound: the parent's state changes
    Nothing

Producer == Worker \cup {Importer}

CloseoutAssumption ==
    /\ Owner \in [Item -> Worker] /\ Importer \notin Worker
    /\ Request \in [Closer -> [finalize : BOOLEAN, parent : BOOLEAN]]
    /\ ParentInit \subseteq [full : BOOLEAN, absent : BOOLEAN]
    /\ ClosersWait \in BOOLEAN
    /\ MaxDeaths \in Nat /\ MaxTampering \in Nat /\ MaxAudits \in Nat

CloseoutNothingAssumption ==
    Nothing \notin {"ready", "no_text", "changed"}
                       \cup [full : BOOLEAN, absent : BOOLEAN]

VARIABLES
    ready,      \* spool: the ready file of each item, with its text
    receipt,    \* committed: the ready file each import receipt names
    rows,       \* commit-ledger.ndjson: items with a row that matches the receipt
    torn,       \* the ledger has a line that is not JSON
    drained,    \* orchestration/terminal: producers with a drain receipt
    stop,       \* audit/parallel-run-stop-receipt.json
    closeout,   \* audit/parallel-run-closeout.json
    metadata,   \* the status in run-metadata.json
    parent,     \* what an audit of the parent would find
    router,     \* the router's call under way
    closing,    \* the closeout call of each closer
    deaths, tampered, audits  \* bounded counters

vars == <<ready, receipt, rows, torn, drained, stop, closeout, metadata, parent,
          router, closing, deaths, tampered, audits>>
files == <<ready, receipt, rows, torn>>
counters == <<deaths, tampered, audits>>

Init ==
    /\ ready = [i \in Item |-> Nothing] /\ receipt = [i \in Item |-> Nothing]
    /\ rows = {} /\ torn = FALSE
    /\ drained = {}
    /\ stop = Nothing /\ closeout = Nothing /\ metadata = "open"
    /\ parent \in ParentInit
    /\ router = Nothing /\ closing = [c \in Closer |-> Nothing]
    /\ deaths = 0 /\ tampered = 0 /\ audits = 0

\* _evidence_snapshot_sha256: every artifact, and the drain receipts too.
Evidence == [ready |-> ready, receipt |-> receipt, rows |-> rows, torn |-> torn,
             drained |-> drained]

------------------------------------------------------------------------------
(***************************************************************************)
(* Producers (not in this repository): files are written once              *)
(***************************************************************************)

WriteReady(i) ==
    /\ Owner[i] \notin drained /\ ready[i] = Nothing
    /\ \E status \in {"ready", "no_text"} :
           ready' = [ready EXCEPT ![i] = status]
    /\ UNCHANGED <<receipt, rows, torn, drained, stop, closeout, metadata, parent,
                   router, closing, counters>>

WriteReceipt(i) ==
    /\ Importer \notin drained /\ ready[i] # Nothing /\ receipt[i] = Nothing
    /\ receipt' = [receipt EXCEPT ![i] = ready[i]]
    /\ UNCHANGED <<ready, rows, torn, drained, stop, closeout, metadata, parent,
                   router, closing, counters>>

\* A row is appended, or cut off by a crash of the importer.
AppendRow(i) ==
    /\ Importer \notin drained /\ receipt[i] # Nothing /\ i \notin rows /\ ~torn
    /\ \/ rows' = rows \cup {i} /\ torn' = torn
       \/ rows' = rows /\ torn' = TRUE
    /\ UNCHANGED <<ready, receipt, drained, stop, closeout, metadata, parent,
                   router, closing, counters>>

\* Someone rewrites a file of a run that was declared quiet.
Tamper(i) ==
    /\ stop # Nothing /\ tampered < MaxTampering
    /\ ready[i] \notin {Nothing, "changed"}
    /\ ready' = [ready EXCEPT ![i] = "changed"]
    /\ tampered' = tampered + 1
    /\ UNCHANGED <<receipt, rows, torn, drained, stop, closeout, metadata, parent,
                   router, closing, deaths, audits>>

\* persist_parallel_producer_drain_receipt: once per producer.
RecordDrain(p) ==
    /\ p \notin drained
    /\ drained' = drained \cup {p}
    /\ UNCHANGED <<files, stop, closeout, metadata, parent, router, closing,
                   counters>>

------------------------------------------------------------------------------
(***************************************************************************)
(* The router: build_parallel_run_stop_receipt and its publication         *)
(***************************************************************************)

\* The evidence is digested first ...
ReadEvidence ==
    /\ router = Nothing
    /\ router' = [step |-> "confirm", evidence |-> Evidence]
    /\ UNCHANGED <<files, drained, stop, closeout, metadata, parent, closing,
                   counters>>

\* Mutant of ConfirmDrains: the workers have drained.
ConfirmDrainsOfWorkers ==
    /\ router # Nothing /\ router.step = "confirm"
    /\ router' = IF Worker \subseteq drained
                 THEN [router EXCEPT !.step = "publish"] ELSE Nothing
    /\ UNCHANGED <<files, drained, stop, closeout, metadata, parent, closing,
                   counters>>

\* ... then the drain receipts of all producers are looked at; without them the
\* call raises.
ConfirmDrains ==
    /\ router # Nothing /\ router.step = "confirm"
    /\ router' = IF drained = Producer
                 THEN [router EXCEPT !.step = "publish"] ELSE Nothing
    /\ UNCHANGED <<files, drained, stop, closeout, metadata, parent, closing,
                   counters>>

\* The receipt is linked into place; an existing one stays and the call raises.
PublishStop ==
    /\ router # Nothing /\ router.step = "publish"
    /\ stop' = IF stop = Nothing THEN [evidence |-> router.evidence] ELSE stop
    /\ router' = Nothing
    /\ UNCHANGED <<files, drained, closeout, metadata, parent, closing, counters>>

------------------------------------------------------------------------------
(***************************************************************************)
(* The closeout: persist_legacy_parallel_closeout                          *)
(***************************************************************************)

InStep(c, step) == closing[c] # Nothing /\ closing[c].step = step

Goes(c, call) == closing' = [closing EXCEPT ![c] = call]

\* audit_parent answers whether the parent is full, and how many certificates of
\* vanished threads it has just retired: the next audit retires none.
AuditParent(c) ==
    /\ closing[c] = Nothing
    /\ ClosersWait => stop # Nothing
    /\ IF Request[c].parent
       THEN /\ Goes(c, [step |-> "snapshot", audit |-> parent])
            /\ parent' = [parent EXCEPT !.absent = FALSE]
       ELSE Goes(c, [step |-> "snapshot", audit |-> Nothing]) /\ parent' = parent
    /\ UNCHANGED <<files, drained, stop, closeout, metadata, router, counters>>

\* The digest that will be in the receipt.
TakeSnapshot(c) ==
    /\ InStep(c, "snapshot")
    /\ Goes(c, [step |-> "count", audit |-> closing[c].audit,
                evidence |-> Evidence])
    /\ UNCHANGED <<files, drained, stop, closeout, metadata, parent, router,
                   counters>>

\* Items whose ready file, receipt, ledger row and bytes agree.  A rewritten
\* ready file has no status that is terminal.
ReadyItems(e) == {i \in Item : e.ready[i] \in {"ready", "no_text"}}
ReceiptItems(e) == {i \in Item : e.receipt[i] # Nothing}
LedgerItems(e) == ReceiptItems(e) \cap e.rows
ArtifactItems(e) == {i \in ReceiptItems(e) \cap ReadyItems(e) :
                        e.ready[i] = e.receipt[i]}
WithoutText(e) == {i \in Item : e.receipt[i] = "no_text"}

EvidenceBlockers(e) ==
    {b \in {"ready", "receipts", "ledger", "artifacts", "without_text"} :
        \/ b = "ready" /\ ReadyItems(e) # Item
        \/ b = "receipts" /\ ReceiptItems(e) # Item
        \/ b = "ledger" /\ (e.torn \/ LedgerItems(e) # Item)
        \/ b = "artifacts" /\ ArtifactItems(e) # Item
        \/ b = "without_text" /\ WithoutText(e) # {}}

Counts(e) == [ready |-> Cardinality(ReadyItems(e)),
              receipts |-> Cardinality(ReceiptItems(e)),
              ledger |-> Cardinality(LedgerItems(e)),
              artifacts |-> Cardinality(ArtifactItems(e)),
              without_text |-> Cardinality(WithoutText(e))]

ParentIsFull(audit) == audit # Nothing /\ audit.full

\* The files are read again and judged; the audit is bound only if it is full.
CountEvidence(c) ==
    /\ InStep(c, "count")
    /\ LET full == ParentIsFull(closing[c].audit) IN
       Goes(c, [step |-> "quiescence",
                result |-> [evidence |-> closing[c].evidence,
                            parent |-> IF full THEN closing[c].audit ELSE Nothing,
                            counts |-> Counts(Evidence),
                            blockers |-> EvidenceBlockers(Evidence) \cup
                                (IF full THEN {} ELSE {"parent"})]])
    /\ UNCHANGED <<files, drained, stop, closeout, metadata, parent, router,
                   counters>>

\* _run_quiescence_blocker: the stop receipt names the evidence as it is now.
Quiet == stop # Nothing /\ stop.evidence = Evidence

\* Full without blockers; with finalize, blocked_closed with them.  Anything else
\* is not terminal and the call raises.
CheckQuiescence(c) ==
    /\ InStep(c, "quiescence")
    /\ LET result == closing[c].result
           open == result.blockers # {}
       IN  IF Quiet /\ (open => Request[c].finalize)
           THEN Goes(c, [step |-> "publish", result |-> result,
                         state |-> IF open THEN "blocked_closed" ELSE "full_closed"])
           ELSE Goes(c, Nothing)
    /\ UNCHANGED <<files, drained, stop, closeout, metadata, parent, router,
                   counters>>

\* Mutant of SameReceipt: the time of recording is compared, too.
SameReceiptAndTime(state, result) == FALSE

\* What an existing receipt is compared by.
SameReceipt(state, result) ==
    closeout = [state |-> state, result |-> result]

\* The receipt is linked into place; the same receipt may be there already, and
\* another one is a conflict that raises.
PublishCloseout(c) ==
    /\ InStep(c, "publish")
    /\ IF closeout = Nothing
       THEN /\ closeout' = [state |-> closing[c].state, result |-> closing[c].result]
            /\ Goes(c, [step |-> "project"])
       ELSE /\ closeout' = closeout
            /\ Goes(c, IF SameReceipt(closing[c].state, closing[c].result)
                       THEN [step |-> "project"] ELSE Nothing)
    /\ UNCHANGED <<files, drained, stop, metadata, parent, router, counters>>

\* run-metadata.json is replaced by one that shows the receipt.
ProjectMetadata(c) ==
    /\ InStep(c, "project")
    /\ metadata' = closeout.state
    /\ Goes(c, Nothing)
    /\ UNCHANGED <<files, drained, stop, closeout, parent, router, counters>>

------------------------------------------------------------------------------
RouterDies ==
    /\ deaths < MaxDeaths /\ router # Nothing
    /\ router' = Nothing /\ deaths' = deaths + 1
    /\ UNCHANGED <<files, drained, stop, closeout, metadata, parent, closing,
                   tampered, audits>>

CloserDies(c) ==
    /\ deaths < MaxDeaths /\ closing[c] # Nothing
    /\ Goes(c, Nothing) /\ deaths' = deaths + 1
    /\ UNCHANGED <<files, drained, stop, closeout, metadata, parent, router,
                   tampered, audits>>

\* Scans and certificates are recorded in the completeness store.
ParentChanges ==
    /\ audits < MaxAudits
    /\ parent' \in [full : BOOLEAN, absent : BOOLEAN]
    /\ audits' = audits + 1
    /\ UNCHANGED <<files, drained, stop, closeout, metadata, router, closing,
                   deaths, tampered>>

Close(c) ==
    \/ AuditParent(c) \/ TakeSnapshot(c) \/ CountEvidence(c)
    \/ CheckQuiescence(c) \/ PublishCloseout(c) \/ ProjectMetadata(c)

Next ==
    \/ \E i \in Item : \/ WriteReady(i) \/ WriteReceipt(i) \/ AppendRow(i)
                       \/ Tamper(i)
    \/ \E p \in Producer : RecordDrain(p)
    \/ ReadEvidence \/ ConfirmDrains \/ PublishStop \/ RouterDies
    \/ \E c \in Closer : Close(c) \/ CloserDies(c)
    \/ ParentChanges

Spec == Init /\ [][Next]_vars

\* Operators repeat a closeout that failed or died.
Fairness == \A c \in Closer : WF_vars(Close(c))

FairSpec == Spec /\ Fairness

------------------------------------------------------------------------------
(***************************************************************************)
(* Properties                                                              *)
(***************************************************************************)

Spooled == {"ready", "no_text", "changed", Nothing}
EvidenceType == [ready : [Item -> Spooled], receipt : [Item -> Spooled],
                 rows : SUBSET Item, torn : BOOLEAN, drained : SUBSET Producer]
Audit == [full : BOOLEAN, absent : BOOLEAN]
Blocker == {"ready", "receipts", "ledger", "artifacts", "without_text", "parent"}
Count == 0..Cardinality(Item)
Result == [evidence : EvidenceType, parent : Audit \cup {Nothing},
           counts : [ready : Count, receipts : Count, ledger : Count,
                     artifacts : Count, without_text : Count],
           blockers : SUBSET Blocker]
ClosedState == {"blocked_closed", "full_closed"}
Call == [step : {"snapshot"}, audit : Audit \cup {Nothing}]
        \cup [step : {"count"}, audit : Audit \cup {Nothing},
              evidence : EvidenceType]
        \cup [step : {"quiescence"}, result : Result]
        \cup [step : {"publish"}, result : Result, state : ClosedState]
        \cup [step : {"project"}]

RouterCall == [step : {"confirm", "publish"}, evidence : EvidenceType]
StopReceipt == [evidence : EvidenceType]
CloseoutReceipt == [state : ClosedState, result : Result]

CloseoutRecordsAssumption ==
    Nothing \notin Call \cup RouterCall \cup StopReceipt \cup CloseoutReceipt

\* Types of the files and of the calls under way.
TypeOK ==
    /\ Evidence \in EvidenceType
    /\ stop \in StopReceipt \cup {Nothing}
    /\ closeout \in CloseoutReceipt \cup {Nothing}
    /\ metadata \in ClosedState \cup {"open"}
    /\ parent \in Audit
    /\ router \in RouterCall \cup {Nothing}
    /\ closing \in [Closer -> Call \cup {Nothing}]
    /\ deaths \in 0..MaxDeaths /\ tampered \in 0..MaxTampering
    /\ audits \in 0..MaxAudits

\* What "full" means for the items of a run.
Whole(e) ==
    /\ ~e.torn /\ e.rows = Item
    /\ \A i \in Item : e.ready[i] = "ready" /\ e.receipt[i] = "ready"

\* The run directory implements ParallelRun: it is declared quiet once and only
\* after every producer drained, closed once, full_closed only if the evidence the
\* stop receipt binds has every item with its text, and shown as it was closed
\* (docs/capture-loop-operations.md:19-30).
Run == INSTANCE ParallelRun WITH
    phase <- IF closeout # Nothing THEN closeout.state
             ELSE IF stop # Nothing THEN "quiesced" ELSE "running",
    whole <- stop # Nothing /\ Whole(stop.evidence),
    shown <- metadata
ImplementsRun == Run!Spec

\* A run is closed only under the parent's verdict of the time: a full closeout
\* names an audit that was full, and a blocked one says what was missing.
VerdictHasGrounds ==
    closeout # Nothing =>
        LET result == closeout.result IN
        IF closeout.state = "full_closed"
        THEN result.blockers = {} /\ result.parent # Nothing /\ result.parent.full
        ELSE /\ \/ "parent" \in result.blockers
                \/ ~Whole(result.evidence) \/ ~Whole(stop.evidence)
             /\ "parent" \notin result.blockers => result.parent # Nothing

\* Once a file of a quiet run was rewritten, no call that still has to look closes
\* it, as blocked no more than as full (docs/capture-loop-operations.md:22).
LooksBeforeClosing ==
    \A c \in Closer :
        InStep(c, "quiescence") /\ InStep(c, "publish")' => tampered = 0

\* The metadata show the receipt.
Shown == closeout # Nothing /\ metadata = closeout.state

\* An audit of the parent would now be bound differently than the receipt's: its own
\* audit retired certificates, or the parent changed.  A repeated closeout is then
\* another receipt, and a conflict.
OtherAudit ==
    /\ closeout # Nothing
    /\ closeout.result.parent # (IF parent.full THEN parent ELSE Nothing)

\* A repeated closeout repairs the metadata that a crash left behind, unless the
\* receipt binds another audit than one would give now
\* (docs/capture-loop-operations.md:29-30: "再生成可能なprojection").
MetadataFollowsReceipt == closeout # Nothing ~> Shown \/ OtherAudit
==============================================================================
