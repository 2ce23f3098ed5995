---------------------------- MODULE ExternalImport ----------------------------
(***************************************************************************)
(* Taking an observation from a foreign file over into the ledger of its   *)
(* thread (external_snapshot_import.py): the source and the ledger are     *)
(* read and compared several times, the new ledger is built in a stage     *)
(* next to the old one, and renamed over it.                               *)
(*                                                                         *)
(* Importers exclude each other by a lock of their own; writers of the     *)
(* ledger (core.py) use another one, so both are here.  A writer that has  *)
(* the replaced file open writes to a file that is in no directory.        *)
(***************************************************************************)
EXTENDS Integers, Sequences, FiniteSets

CONSTANTS
    Importer,
    Source,       \* foreign files, one observation each
    Writer,       \* writers of the ledger, one observation each
    MaxChanges,   \* bound: foreign files that are edited
    MaxCrashes,   \* bound: calls that die
    Nothing

\* Rows of the ledger, and a call under way: with expected, the ledger it is pinned
\* to, and before, the one it has judged.
Row == [origin : Source \cup Writer, seq : Nat]

Rows == Seq(Row)

Work == [step : {"inspect", "lock", "compare", "stage", "swap", "read_back"},
         source : Source, apply : BOOLEAN, expected : Rows \cup {Nothing}, before : Rows]

ImportAssumption ==
    /\ MaxChanges \in Nat /\ MaxCrashes \in Nat
    /\ Source \cap Writer = {}
    /\ Nothing \notin Importer \cup Source \cup Writer \cup Work \cup Rows

VARIABLES
    edited,      \* foreign files that are no longer what the operator hashed
    file,        \* which file the ledger's name refers to, counted
    rows,        \* its rows: where from, and the sequence number
    import_lock, \* canonical-text-snapshots
    ledger_lock, \* canonical-text-snapshots-<hash of the name>
    stages,      \* importers whose stage is on disk
    call,        \* each importer's call under way
    answer,      \* what its last call has returned
    swapped,     \* history: its last call has renamed a stage
    writing,     \* each writer's append under way
    saved,       \* history: writers that were told their row is saved
    crashes

vars == <<edited, file, rows, import_lock, ledger_lock, stages, call, answer,
          swapped, writing, saved, crashes>>
store == <<file, rows>>
writers == <<ledger_lock, writing, saved>>

NoAnswer == [status |-> "none", commit |-> "none", source |-> Nothing, seen |-> <<>>]

Init ==
    /\ edited = {}
    /\ file = 0 /\ rows = <<>>
    /\ import_lock = Nothing /\ ledger_lock = Nothing
    /\ stages = {}
    /\ call = [i \in Importer |-> Nothing] /\ answer = [i \in Importer |-> NoAnswer]
    /\ swapped = [i \in Importer |-> FALSE]
    /\ writing = [w \in Writer |-> Nothing] /\ saved = {}
    /\ crashes = 0

------------------------------------------------------------------------------
\* _validate_text_snapshot_chain, for the one stream the ledger has here.
ChainIsValid(r) == \A k \in DOMAIN r : r[k].seq = k

RowOf(origin, r) == [origin |-> origin, seq |-> Len(r) + 1]

\* inspect: the import id is among the rows.
Present(source, r) == \E k \in DOMAIN r : r[k].origin = source

InStep(i, step) == call[i] # Nothing /\ call[i].step = step

Goes(i, step) == call' = [call EXCEPT ![i].step = step]

\* What a call returns; seen is the ledger whose hash a dry run reports.
Returns(i, status, commit) ==
    /\ call' = [call EXCEPT ![i] = Nothing]
    /\ answer' = [answer EXCEPT ![i] =
                     [status |-> status, commit |-> commit,
                      source |-> call[i].source, seen |-> <<>>]]

\* import_external_snapshot is called: as a dry run, or to apply, then perhaps with
\* the hash of the ledger that this importer's dry run has reported.
StartImport(i, source, apply, pinned) ==
    /\ call[i] = Nothing
    /\ pinned => apply /\ answer[i].status = "ready" /\ answer[i].source = source
    /\ call' = [call EXCEPT ![i] =
                   [step |-> "inspect", source |-> source, apply |-> apply,
                    expected |-> IF pinned THEN answer[i].seen ELSE Nothing,
                    before |-> <<>>]]
    /\ swapped' = [swapped EXCEPT ![i] = FALSE]
    /\ UNCHANGED <<edited, store, import_lock, stages, answer, writers, crashes>>

\* Source and ledger are read and judged.
Inspect(i) ==
    /\ InStep(i, "inspect")
    /\ LET c == [call[i] EXCEPT !.before = rows] IN
       IF \/ c.source \in edited
          \/ c.expected # Nothing /\ rows # c.expected
          \/ ~ChainIsValid(rows)
          \/ Present(c.source, rows)
          \/ ~c.apply
       THEN /\ call' = [call EXCEPT ![i] = Nothing]
            /\ LET status == IF \/ c.source \in edited \/ ~ChainIsValid(rows)
                                \/ c.expected # Nothing /\ rows # c.expected
                             THEN "blocked"
                             ELSE IF Present(c.source, rows)
                             THEN "already_present" ELSE "ready"
               IN  answer' = [answer EXCEPT ![i] =
                       [status |-> status, commit |-> "none", source |-> c.source,
                        seen |-> IF status = "ready" THEN rows ELSE <<>>]]
       ELSE /\ call' = [call EXCEPT ![i] = [c EXCEPT !.step = "lock"]]
            /\ UNCHANGED answer
    /\ UNCHANGED <<edited, store, import_lock, stages, swapped, writers, crashes>>

\* Mutant of TakeLock: the lock is not exclusive.
TakeLockShared(i) ==
    /\ InStep(i, "lock")
    /\ import_lock' = i
    /\ Goes(i, "compare")
    /\ UNCHANGED <<edited, store, stages, answer, swapped, writers, crashes>>

\* The lock is not waited for.
TakeLock(i) ==
    /\ InStep(i, "lock")
    /\ IF import_lock = Nothing
       THEN import_lock' = i /\ Goes(i, "compare") /\ UNCHANGED answer
       ELSE Returns(i, "blocked", "none") /\ UNCHANGED import_lock
    /\ UNCHANGED <<edited, store, stages, swapped, writers, crashes>>

\* Source and ledger are byte for byte what was judged.
Unchanged(i) == rows = call[i].before /\ call[i].source \notin edited

GiveUp(i, commit) ==
    /\ Returns(i, "blocked", commit)
    /\ import_lock' = Nothing
    /\ stages' = stages \ {i}

\* Under the lock both are compared; then the stage is made.
Compare(i) ==
    /\ InStep(i, "compare")
    /\ IF Unchanged(i)
       THEN stages' = stages \cup {i} /\ Goes(i, "stage")
            /\ UNCHANGED <<import_lock, answer>>
       ELSE GiveUp(i, "none")
    /\ UNCHANGED <<edited, store, swapped, writers, crashes>>

\* The event is appended to the copy in the stage and read back; both are compared
\* again before the rename.
CheckStage(i) ==
    /\ InStep(i, "stage")
    /\ IF Unchanged(i)
       THEN Goes(i, "swap") /\ UNCHANGED <<import_lock, stages, answer>>
       ELSE GiveUp(i, "none")
    /\ UNCHANGED <<edited, store, swapped, writers, crashes>>

Staged(i) == Append(call[i].before, RowOf(call[i].source, call[i].before))

Swap(i) ==
    /\ InStep(i, "swap")
    /\ file' = file + 1 /\ rows' = Staged(i)
    /\ swapped' = [swapped EXCEPT ![i] = TRUE]
    /\ Goes(i, "read_back")
    /\ UNCHANGED <<edited, import_lock, stages, answer, writers, crashes>>

\* The rename, or making the stage, fails.
SwapFails(i) ==
    /\ InStep(i, "swap") /\ crashes < MaxCrashes
    /\ crashes' = crashes + 1
    /\ GiveUp(i, "none")
    /\ UNCHANGED <<edited, store, swapped, writers>>

\* What the name refers to now is compared with the stage; a difference, or an
\* error of the disk, leaves the import applied and unverified.
ReadBack(i) ==
    /\ InStep(i, "read_back")
    /\ IF rows = Staged(i)
       THEN \/ Returns(i, "absorbed", "applied_verified") /\ UNCHANGED crashes
            \/ /\ crashes < MaxCrashes
               /\ crashes' = crashes + 1
               /\ Returns(i, "blocked", "applied_unverified")
       ELSE Returns(i, "blocked", "applied_unverified") /\ UNCHANGED crashes
    /\ import_lock' = Nothing
    /\ stages' = stages \ {i}
    /\ UNCHANGED <<edited, store, swapped, writers>>

\* The process dies: its stage stays, its lock does not.
ImporterDies(i) ==
    /\ call[i] # Nothing /\ crashes < MaxCrashes
    /\ crashes' = crashes + 1
    /\ call' = [call EXCEPT ![i] = Nothing]
    /\ answer' = [answer EXCEPT ![i] = NoAnswer]
    /\ import_lock' = IF import_lock = i THEN Nothing ELSE import_lock
    /\ UNCHANGED <<edited, store, stages, swapped, writers>>

\* The operator edits a foreign file.
EditSource(source) ==
    /\ Cardinality(edited) < MaxChanges
    /\ edited' = edited \cup {source}
    /\ UNCHANGED <<store, import_lock, stages, call, answer, swapped, writers, crashes>>

------------------------------------------------------------------------------
(***************************************************************************)
(* A writer of the ledger: _append_text_snapshots_transaction              *)
(***************************************************************************)

\* Under its lock it reads the ledger and builds its row ...
WriterLoads(w) ==
    /\ writing[w] = Nothing /\ w \notin saved
    /\ ledger_lock = Nothing /\ ChainIsValid(rows)
    /\ ledger_lock' = w
    /\ writing' = [writing EXCEPT ![w] = [step |-> "open", loaded |-> rows, file |-> 0]]
    /\ UNCHANGED <<edited, store, import_lock, stages, call, answer, swapped, saved,
                   crashes>>

\* ... opens the file the name refers to by now ...
WriterOpens(w) ==
    /\ writing[w] # Nothing /\ writing[w].step = "open"
    /\ writing' = [writing EXCEPT ![w].step = "write", ![w].file = file]
    /\ UNCHANGED <<edited, store, import_lock, ledger_lock, stages, call, answer,
                   swapped, saved, crashes>>

WriterRaises(w) ==
    /\ writing' = [writing EXCEPT ![w] = Nothing]
    /\ ledger_lock' = Nothing

\* ... appends if the name still refers to it (_append_store_relative_chunks) ...
WriterAppends(w) ==
    /\ writing[w] # Nothing /\ writing[w].step = "write"
    /\ IF writing[w].file = file
       THEN /\ rows' = Append(rows, RowOf(w, writing[w].loaded))
            /\ writing' = [writing EXCEPT ![w].step = "read_back"]
            /\ UNCHANGED ledger_lock
       ELSE UNCHANGED rows /\ WriterRaises(w)
    /\ UNCHANGED <<edited, file, import_lock, stages, call, answer, swapped, saved,
                   crashes>>

\* ... and says so if it reads back what it expects.
WriterReadsBack(w) ==
    /\ writing[w] # Nothing /\ writing[w].step = "read_back"
    /\ saved' = IF /\ writing[w].file = file
                   /\ rows = Append(writing[w].loaded, RowOf(w, writing[w].loaded))
                THEN saved \cup {w} ELSE saved
    /\ WriterRaises(w)
    /\ UNCHANGED <<edited, store, import_lock, stages, call, answer, swapped, crashes>>

Next ==
    \/ \E i \in Importer :
          \/ \E source \in Source, apply, pinned \in BOOLEAN :
                 StartImport(i, source, apply, pinned)
          \/ Inspect(i) \/ TakeLock(i) \/ Compare(i) \/ CheckStage(i)
          \/ Swap(i) \/ SwapFails(i) \/ ReadBack(i) \/ ImporterDies(i)
    \/ \E source \in Source : EditSource(source)
    \/ \E w \in Writer : \/ WriterLoads(w) \/ WriterOpens(w)
                         \/ WriterAppends(w) \/ WriterReadsBack(w)

Spec == Init /\ [][Next]_vars

------------------------------------------------------------------------------
(***************************************************************************)
(* Properties                                                              *)
(***************************************************************************)

Origins == {rows[k].origin : k \in DOMAIN rows}

\* Types; a stage is on disk while its call is between lock and answer, or died.
TypeOK ==
    /\ edited \subseteq Source /\ file \in Nat /\ rows \in Rows
    /\ import_lock \in Importer \cup {Nothing}
    /\ ledger_lock \in Writer \cup {Nothing}
    /\ \A i \in Importer :
           /\ InStep(i, "stage") \/ InStep(i, "swap") \/ InStep(i, "read_back")
                  => i \in stages /\ import_lock = i
           /\ answer[i].status \in {"none", "blocked", "ready", "already_present",
                                    "absorbed"}
    /\ crashes \in 0..MaxCrashes

\* A foreign observation is in the ledger once, whoever imports it again, and
\* whether or not the first call survived to say so
\* (docs/external-snapshot-import.md: "同じ入力の再実行は追加0件").
ImportedOnce ==
    \A k1, k2 \in DOMAIN rows :
        rows[k1].origin = rows[k2].origin /\ rows[k1].origin \in Source => k1 = k2

\* What was answered absorbed or already_present is in the ledger from then on: the
\* operator may put the foreign file away (docs/external-snapshot-import.md).
AnsweredIsThere ==
    \A i \in Importer :
        answer[i].status \in {"absorbed", "already_present"} =>
            answer[i].source \in Origins

\* A call that reports nothing committed has not renamed anything, however late it
\* failed ("swap後の障害は applied_unverified と追記1件を返し").
ZeroMeansNothing ==
    \A i \in Importer :
        answer[i].status # "none" /\ call[i] = Nothing =>
            (answer[i].commit = "none" <=> ~swapped[i])

\* An import that is pinned to the ledger its dry run has judged puts its row right
\* after that ledger, or is refused.
PinnedFollowsDryRun ==
    \A i \in Importer :
        InStep(i, "swap") /\ swapped'[i] /\ call[i].expected # Nothing =>
            /\ call[i].before = call[i].expected
            /\ SubSeq(rows', 1, Len(call[i].expected)) = call[i].expected

------------------------------------------------------------------------------
(***************************************************************************)
(* The inductive invariant                                                 *)
(***************************************************************************)

Answers == [status : {"none", "blocked", "ready", "already_present", "absorbed"},
            commit : {"none", "applied_verified", "applied_unverified"},
            source : Source \cup {Nothing}, seen : Rows]

Appends == [step : {"open", "write", "read_back"}, loaded : Rows, file : Nat]

Typed ==
    /\ edited \subseteq Source /\ file \in Nat /\ rows \in Rows
    /\ import_lock \in Importer \cup {Nothing}
    /\ ledger_lock \in Writer \cup {Nothing}
    /\ call \in [Importer -> {Nothing} \cup Work]
    /\ answer \in [Importer -> Answers]
    /\ swapped \in [Importer -> BOOLEAN]
    /\ writing \in [Writer -> {Nothing} \cup Appends]
    /\ crashes \in 0..MaxCrashes

Once(r) ==
    \A k1, k2 \in DOMAIN r : r[k1].origin = r[k2].origin /\ r[k1].origin \in Source => k1 = k2

\* The foreign observations of one ledger are in another.
Foreign(r) == {r[k].origin : k \in DOMAIN r} \cap Source

Holds(i) ==
    InStep(i, "compare") \/ InStep(i, "stage") \/ InStep(i, "swap") \/ InStep(i, "read_back")

\* What an importer knows of the ledger it read, of its lock and of its stage.
Knows(i) ==
    /\ Holds(i) => import_lock = i
    /\ InStep(i, "stage") \/ InStep(i, "swap") \/ InStep(i, "read_back") => i \in stages
    /\ call[i] # Nothing => (swapped[i] <=> call[i].step = "read_back")
    /\ call[i] # Nothing /\ call[i].step # "inspect" =>
           /\ Once(call[i].before) /\ call[i].source \notin Foreign(call[i].before)
           /\ call[i].expected # Nothing => call[i].before = call[i].expected
    /\ InStep(i, "swap") => Foreign(rows) \subseteq Foreign(call[i].before)

ImportInv ==
    /\ Typed /\ ImportedOnce /\ AnsweredIsThere /\ ZeroMeansNothing
    /\ \A i \in Importer : Knows(i)
==============================================================================
