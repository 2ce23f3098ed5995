------------------------------ MODULE MCParents ------------------------------
(***************************************************************************)
(* Instances of ParentCompleteness and ParallelCloseout for TLC, in one    *)
(* run: part says which of them the behaviour is one of.  The variables of *)
(* the run directory stay Nothing in a store, those of the store as they   *)
(* begin in a run directory.                                               *)
(***************************************************************************)
EXTENDS ParentCompleteness, TLC

CONSTANTS t1, t2, c1, c2, p1, p2,           \* threads, captures, processes
          w1, importer, i1, i2, k1, k2      \* a run directory and its closers

VARIABLES
    part,
    ready, receipt, rows, torn, drained, stop, closeout, metadata, parent,
    router, closing, deaths, tampered, audits

runVars == <<ready, receipt, rows, torn, drained, stop, closeout, metadata, parent,
             router, closing, deaths, tampered, audits>>
allVars == <<part, vars, runVars>>

NoRun ==
    /\ ready = Nothing /\ receipt = Nothing /\ rows = Nothing /\ torn = Nothing
    /\ drained = Nothing /\ stop = Nothing /\ closeout = Nothing
    /\ metadata = Nothing /\ parent = Nothing /\ router = Nothing
    /\ closing = Nothing /\ deaths = Nothing /\ tampered = Nothing
    /\ audits = Nothing

------------------------------------------------------------------------------
(***************************************************************************)
(* The completeness store                                                  *)
(***************************************************************************)

Listing(kind, receipts, time) ==
    [kind |-> kind, receipts |-> receipts, observed_at |-> time]

R(threads, terminal, authorized) ==
    [threads |-> threads, terminal_reached |-> terminal, authorized |-> authorized]

Forum(active, archived, terminal, time) ==
    Listing("forum", "active_filtered" :> R(active, TRUE, FALSE)
                     @@ "archived_public" :> R(archived, terminal, FALSE), time)

Text(active, private, authorized, time) ==
    Listing("text", "active_filtered" :> R(active, TRUE, FALSE)
                    @@ "archived_public" :> R({}, TRUE, FALSE)
                    @@ "archived_private" :> R(private, TRUE, authorized), time)

\* One thread, the same thread archived, two; a listing that was cut short, one
\* without a scope, a text channel, and a scan of the old kind.
Scans ==
    {Forum({t1}, {}, TRUE, 1), Forum({t1}, {}, TRUE, 2), Forum({}, {t1}, TRUE, 1),
     Forum({t1}, {t2}, TRUE, 1), Forum({t1}, {t2}, FALSE, 1),
     Listing("forum", "active_filtered" :> R({t1}, TRUE, FALSE), 1),
     Text({t1}, {}, TRUE, 1), Text({t1}, {}, FALSE, 1),
     [kind |-> "legacy", threads |-> {t1}, observed_at |-> 1]}

\* Listings without t2 and with it.
Alone == Forum({t1}, {}, TRUE, 1)
Both == Forum({t1}, {t2}, TRUE, 1)

\* Scans of all kinds, and rows that get lost, while p2 only records scans (the
\* constants of Parents.cfg).  Two processes that overtake each other, with a third
\* scan that may differ from the first two, or with captures that replace each other.
ScanRace == INSTANCE ParentCompleteness WITH
    OfferedScan <- {Alone, Both}, Capture <- {c1}, MaxScans <- 3, MaxDamage <- 0
CaptureRace == INSTANCE ParentCompleteness WITH
    OfferedScan <- {Alone}, MaxScans <- 2, MaxDamage <- 0

------------------------------------------------------------------------------
(***************************************************************************)
(* The run directory                                                       *)
(***************************************************************************)

\* Everyone audits the parent; with finalize, a blocked end is accepted.
Requests(closers, finalize) ==
    [k \in closers |-> [finalize |-> finalize, parent |-> TRUE]]

Parent(full, absent) == [full |-> full, absent |-> absent]

\* One closeout races producers, router, tampering and the parent.
Race == INSTANCE ParallelCloseout WITH
    Worker <- {w1}, Importer <- importer, Item <- {i1}, Owner <- i1 :> w1,
    Closer <- {k1}, Request <- Requests({k1}, TRUE),
    ParentInit <- {Parent(TRUE, FALSE), Parent(FALSE, FALSE)}, ClosersWait <- FALSE,
    MaxDeaths <- 1, MaxTampering <- 1, MaxAudits <- 1

\* Two items, one of which may have no text.
Pair == INSTANCE ParallelCloseout WITH
    Worker <- {w1}, Importer <- importer, Item <- {i1, i2},
    Owner <- i1 :> w1 @@ i2 :> w1,
    Closer <- {k1}, Request <- Requests({k1}, FALSE),
    ParentInit <- {Parent(TRUE, FALSE)}, ClosersWait <- TRUE,
    MaxDeaths <- 0, MaxTampering <- 0, MaxAudits <- 0

\* Two closeouts of a quiet run, which may die.  A first audit may retire
\* certificates, and the next one then has none to retire.
Repair == INSTANCE ParallelCloseout WITH
    Worker <- {w1}, Importer <- importer, Item <- {i1}, Owner <- i1 :> w1,
    Closer <- {k1, k2}, Request <- Requests({k1, k2}, TRUE),
    ParentInit <- {Parent(TRUE, FALSE), Parent(TRUE, TRUE)}, ClosersWait <- TRUE,
    MaxDeaths <- 1, MaxTampering <- 0, MaxAudits <- 0

ASSUME ParentsAssumption ==
    /\ OfferedScanAssumption /\ ScanRace!OfferedScanAssumption
    /\ CaptureRace!OfferedScanAssumption
    /\ ScanBoundsAssumption /\ ScanNothingAssumption
    /\ ScanRace!ScanBoundsAssumption
    /\ Race!CloseoutAssumption /\ Race!CloseoutNothingAssumption
    /\ Race!CloseoutRecordsAssumption
    /\ Pair!CloseoutAssumption /\ Repair!CloseoutAssumption

------------------------------------------------------------------------------
\* Init is that of the store: without one, its tables are empty.
AnyInit ==
    /\ Init
    /\ \/ part \in {"store", "scan race", "capture race"} /\ NoRun
       \/ part = "race" /\ Race!Init
       \/ part = "pair" /\ Pair!Init
       \/ part = "repair" /\ Repair!Init

AnyNext ==
    \/ part = "store" /\ Next /\ op'[p2] = Nothing /\ UNCHANGED <<part, runVars>>
    \/ part = "scan race" /\ ScanRace!Next /\ UNCHANGED <<part, runVars>>
    \/ part = "capture race" /\ CaptureRace!Next /\ UNCHANGED <<part, runVars>>
    \/ part = "race" /\ Race!Next /\ UNCHANGED <<part, vars>>
    \/ part = "pair" /\ Pair!Next /\ UNCHANGED <<part, vars>>
    \/ part = "repair" /\ Repair!Next /\ UNCHANGED <<part, vars>>

\* Operators repeat a closeout that failed or died.
Repeats(k) ==
    part = "repair" /\ Repair!Close(k) /\ UNCHANGED <<part, vars>>

Repeated == \A k \in {k1, k2} : WF_allVars(Repeats(k))

AnySpec == AnyInit /\ [][AnyNext]_allVars /\ Repeated

\* One part by itself: three scans, or the repeated closeouts.
ScanRaceSpec == AnyInit /\ part = "scan race" /\ [][AnyNext]_allVars
RepairSpec == AnyInit /\ part = "repair" /\ [][AnyNext]_allVars /\ Repeated

------------------------------------------------------------------------------
(***************************************************************************)
(* Properties.  Those of the store are ParentCompleteness's own.           *)
(***************************************************************************)

\* The run directory implements ParallelRun: drained, declared quiet, closed once,
\* as full only with every item's text, and shown as it was closed.  A closed run
\* names the audit and the evidence it was judged by, and once a file of a quiet run
\* was rewritten no call that still has to look closes it
\* (parallel_closeout.persist_legacy_parallel_closeout).
ImplementsRun ==
    /\ part = "race" => Race!Run!Init
    /\ part = "pair" => Pair!Run!Init
    /\ [][/\ part = "race" => Race!Run!Next \/ UNCHANGED Race!Run!vars
          /\ part = "pair" => Pair!Run!Next \/ UNCHANGED Pair!Run!vars
          /\ part = "race" => Race!LooksBeforeClosing]_allVars
    /\ [](/\ part = "race" => Race!TypeOK /\ Race!VerdictHasGrounds
          /\ part = "pair" => Pair!TypeOK /\ Pair!VerdictHasGrounds
          /\ part = "repair" => Repair!TypeOK /\ Repair!VerdictHasGrounds)

\* A repeated closeout repairs the metadata that a crash left behind, unless the
\* receipt binds another audit of the parent than one would give now: metadata are a
\* projection of the receipt (docs/capture-loop-operations.md:29-30).
MetadataFollowsReceipt ==
    part = "repair" /\ closeout # Nothing ~> Repair!Shown \/ Repair!OtherAudit

\* What is promised of it: the projection can be made again, whatever happened.
MetadataIsProjection ==
    part = "repair" /\ closeout # Nothing ~> Repair!Shown
==============================================================================
