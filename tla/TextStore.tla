------------------------------- MODULE TextStore -------------------------------
(***************************************************************************)
(* What keeps observed text and answers from it: snapshot ledgers, the     *)
(* registry of targets, the import of foreign ledgers, the knowledge       *)
(* projection, the small local stores and the intake of one URL.  part     *)
(* says which of them a behaviour is one of; the variables of the others   *)
(* stay Nothing.  Of ledgers and of imports there are several, with other  *)
(* processes, calls and bounds.                                            *)
(***************************************************************************)
EXTENDS Integers, Sequences, FiniteSets, SequencesExt

CONSTANTS
    Proc,       \* processes that register, project or change local stores
    Key,
    Ledgers,    \* the constants of each snapshot ledger, by its name
    Importings, \* the constants of each import, by its name
    Url, KeyOf, Label, AliasName, CallerFacts, Artifact,
    MaxEntries, MaxRuns, MaxDeaths,                     \* of the registry
    Topic, Ledger, Registry, MaxEdits, MaxFailures,     \* of the projection
    Value, Texts, Site, MaxCalls, Torn,                 \* of the local stores
    Covers, CacheRows, LedgerRows, Receipts, Asks,
    MaxAge, MaxTime, MaxChanges, MaxRows,               \* of the intake
    Nothing

VARIABLES
    part,
    ledger, tail, registered, answered, reading, shown,
    result, runs,
    edited, rows, import_lock, ledger_lock, stages, answer, swapped, writing,
    saved,
    records, pages, notes, run, touched, edits, failures,
    kind, log, manifests, clip, lastText, calls, raced, cut,
    ai, book, now, changes,
    lock, call, crashes, registry, registry_tail, told, file, receipt, raw

ledgerVars == <<ledger, tail, registered, answered, reading, shown>>
registryVars == <<result, runs>>
importVars == <<edited, rows, import_lock, ledger_lock, stages, answer,
                 swapped, writing, saved>>
projectionVars == <<records, pages, notes, run, touched, edits, failures>>
localVars == <<kind, log, manifests, clip, lastText, calls, raced, cut>>
intakeVars == <<ai, book, now, changes>>
vars == <<part, ledgerVars, registryVars, importVars, projectionVars,
          localVars, intakeVars, lock, call, crashes, registry, registry_tail,
          told, file, receipt, raw>>

NoLedger ==
    /\ ledger = Nothing /\ tail = Nothing /\ registered = Nothing
    /\ answered = Nothing /\ reading = Nothing /\ shown = Nothing
NoRegistry ==
    /\ result = Nothing /\ runs = Nothing
NoImport ==
    /\ edited = Nothing /\ rows = Nothing /\ import_lock = Nothing
    /\ ledger_lock = Nothing /\ stages = Nothing /\ answer = Nothing
    /\ swapped = Nothing /\ writing = Nothing /\ saved = Nothing
NoProjection ==
    /\ records = Nothing /\ pages = Nothing /\ notes = Nothing
    /\ run = Nothing /\ touched = Nothing /\ edits = Nothing
    /\ failures = Nothing
NoLocal ==
    /\ kind = Nothing /\ log = Nothing /\ manifests = Nothing
    /\ clip = Nothing /\ lastText = Nothing /\ calls = Nothing
    /\ raced = Nothing /\ cut = Nothing
NoIntake ==
    /\ ai = Nothing /\ book = Nothing /\ now = Nothing /\ changes = Nothing

------------------------------------------------------------------------------
Snapshots(k) == INSTANCE SnapshotLedger WITH
    Proc <- Ledgers[k].proc, Reader <- Ledgers[k].reader,
    Stream <- Ledgers[k].stream, Alias <- Ledgers[k].alias,
    Key <- Ledgers[k].key, Content <- Ledgers[k].content, Job <- Ledgers[k].job,
    FirstLedger <- Ledgers[k].first, MaxRows <- Ledgers[k].max_rows,
    MaxCrashes <- Ledgers[k].max_crashes

Registrar == INSTANCE TargetRegistry

Import(k) == INSTANCE ExternalImport WITH
    Importer <- Importings[k].importer, Source <- Importings[k].source,
    Writer <- Importings[k].writer, MaxChanges <- Importings[k].max_changes,
    MaxCrashes <- Importings[k].max_crashes

Projection == INSTANCE KnowledgeProjection WITH Runner <- Proc

Local == INSTANCE LocalStores WITH
    Procs <- Proc, Keys <- Key, Values <- Value, Captures <- Site, None <- Nothing

Intake == INSTANCE UrlIntake WITH None <- Nothing

Singles == {"registry", "projection", "local", "intake"}

ASSUME TextStoreAssumption ==
    /\ (DOMAIN Ledgers) \cap (DOMAIN Importings) = {}
    /\ (DOMAIN Ledgers \cup DOMAIN Importings) \cap Singles = {}
    /\ \A k \in DOMAIN Ledgers : Snapshots(k)!LedgerAssumption
    /\ Registrar!RegistryAssumption /\ Registrar!CallerAssumption
    /\ Registrar!ArtifactAssumption
    /\ \A k \in DOMAIN Importings : Import(k)!ImportAssumption
    /\ Projection!ProjectionAssumption
    /\ Local!LocalAssumption /\ Intake!IntakeAssumption

------------------------------------------------------------------------------
Init ==
    \/ /\ \E k \in DOMAIN Ledgers : part = k /\ Snapshots(k)!Init
       /\ NoRegistry /\ NoImport /\ NoProjection /\ NoLocal /\ NoIntake
       /\ registry = Nothing /\ told = Nothing /\ file = Nothing
       /\ receipt = Nothing /\ raw = Nothing
    \/ /\ part = "registry" /\ Registrar!Init
       /\ NoLedger /\ NoImport /\ NoProjection /\ NoLocal /\ NoIntake
       /\ lock = Nothing /\ file = Nothing
       /\ receipt = Nothing /\ raw = Nothing
    \/ /\ \E k \in DOMAIN Importings : part = k /\ Import(k)!Init
       /\ NoLedger /\ NoRegistry /\ NoProjection /\ NoLocal /\ NoIntake
       /\ lock = Nothing /\ registry = Nothing /\ registry_tail = Nothing
       /\ told = Nothing /\ receipt = Nothing /\ raw = Nothing
    \/ /\ part = "projection" /\ Projection!Init
       /\ NoLedger /\ NoRegistry /\ NoImport /\ NoLocal /\ NoIntake
       /\ call = Nothing /\ crashes = Nothing /\ registry_tail = Nothing
       /\ told = Nothing /\ file = Nothing /\ raw = Nothing
    \/ /\ part = "local" /\ Local!Init
       /\ NoLedger /\ NoRegistry /\ NoImport /\ NoProjection /\ NoIntake
       /\ lock = Nothing /\ crashes = Nothing /\ registry = Nothing
       /\ registry_tail = Nothing /\ receipt = Nothing
    \/ /\ part = "intake" /\ Intake!Init
       /\ NoLedger /\ NoRegistry /\ NoImport /\ NoProjection /\ NoLocal
       /\ lock = Nothing /\ crashes = Nothing /\ registry = Nothing
       /\ registry_tail = Nothing /\ told = Nothing /\ file = Nothing

BesideLedger == <<part, registryVars, importVars, projectionVars, localVars,
                  intakeVars, registry, told, file, receipt, raw>>
BesideRegistry == <<part, ledgerVars, importVars, projectionVars, localVars,
                    intakeVars, lock, file, receipt, raw>>
BesideImport == <<part, ledgerVars, registryVars, projectionVars, localVars,
                  intakeVars, lock, registry, registry_tail, told, receipt, raw>>
BesideProjection == <<part, ledgerVars, registryVars, importVars, localVars,
                      intakeVars, call, crashes, registry_tail, told, file, raw>>
BesideLocal == <<part, ledgerVars, registryVars, importVars, projectionVars,
                 intakeVars, lock, crashes, registry, registry_tail, receipt>>
BesideIntake == <<part, ledgerVars, registryVars, importVars, projectionVars,
                  localVars, lock, crashes, registry, registry_tail, told, file>>

Next ==
    \/ \E k \in DOMAIN Ledgers :
           part = k /\ Snapshots(k)!Next /\ UNCHANGED BesideLedger
    \/ part = "registry" /\ Registrar!Next /\ UNCHANGED BesideRegistry
    \/ \E k \in DOMAIN Importings :
           part = k /\ Import(k)!Next /\ UNCHANGED BesideImport
    \/ part = "projection" /\ Projection!Next /\ UNCHANGED BesideProjection
    \/ part = "local" /\ Local!Next /\ UNCHANGED BesideLocal
    \/ part = "intake" /\ Intake!Next /\ UNCHANGED BesideIntake

Spec == Init /\ [][Next]_vars

------------------------------------------------------------------------------
\* The types of the files and of the calls under way; each lock has one holder.
TypeOK ==
    /\ \A k \in DOMAIN Ledgers : part = k => Snapshots(k)!TypeOK
    /\ part = "registry" => Registrar!TypeOK
    /\ \A k \in DOMAIN Importings : part = k => Import(k)!TypeOK
    /\ part = "projection" => Projection!TypeOK
    /\ part = "local" => Local!TypeOK
    /\ part = "intake" => Intake!TypeOK

\* What a call has answered is so, whoever raced, failed or died: a row reported as
\* saved stays content, the target of ingested messages is registered, what was
\* told of a target can be read back, all that unless a death has cut a line, or has
\* left one without its newline to which the next append is glued; an import that
\* answers "imported" is in the ledger and one that answers "none" has changed nothing,
\* and an entry that was saved is lost only where calls overlapped (core.py, ingest.py,
\* target_registry.py, external_snapshot_import.py, local_config.py).
AnsweredIsOnDisk ==
    /\ \A k \in DOMAIN Ledgers : part = k =>
           Snapshots(k)!AnsweredStaysContent /\ Snapshots(k)!IngestedIsRegistered
    /\ part = "registry" => Registrar!ToldIsRecorded
    /\ \A k \in DOMAIN Importings : part = k =>
           Import(k)!AnsweredIsThere /\ Import(k)!ZeroMeansNothing
    /\ part = "local" => Local!AnsweredIsKept

\* Nothing is taken over, imported or registered a second time except where two
\* calls race for the registry, and a message counts as a duplicate only if its
\* last version had the same text (ingest._build_message_events,
\* core._import_chained_snapshot, target_registry.register_target).
NothingTwice ==
    /\ \A k \in DOMAIN Ledgers : part = k =>
           Snapshots(k)!TakenOverOnce /\ Snapshots(k)!DuplicateMeansUnedited
    /\ part = "registry" => Registrar!RedundantOnlyByRace
    /\ \A k \in DOMAIN Importings : part = k => Import(k)!ImportedOnce

\* The ledger's complete lines are a valid chain up to an invalid row that stops
\* every writer, no reader is shown an invalid row, and an import pinned to what its
\* dry run judged goes right after that or is refused.
ChainIsKept ==
    /\ [](\A k \in DOMAIN Ledgers : part = k =>
              Snapshots(k)!ChainStaysValid /\ Snapshots(k)!NoReaderSeesInvalid)
    /\ [][\A k \in DOMAIN Importings : part = k => Import(k)!PinnedFollowsDryRun]_vars

\* A command that calls a summary ready has the receipt, the rows and the range of
\* one capture that read all that was asked for; one that calls the intake ready has
\* read a row of the ledger; and one that saved a text answers from it or a later one
\* (acquisition_gate.build_acquisition_completion_gate, core.build_url_intake_gate,
\* core.build_bridge_intake).
IntakeIsBacked == part = "intake" => Intake!IntakeIsBacked

\* Whatever fails or dies in between: after a run that ended well each spoken line of a
\* current record is on the page of its person and of its topics or in the review queue,
\* the top page links every page, the relations of topics are mutual, and no note a
\* person edited is ever lost (knowledge_projection.export_knowledge_projection).
ProjectionIsWhole ==
    /\ [](part = "projection" => /\ Projection!EverythingIsFiled
                                 /\ Projection!TopLinksEveryPage
                                 /\ Projection!RelationsAreMutual)
    /\ [][part = "projection" => Projection!EditedNotesStay]_vars
==============================================================================
