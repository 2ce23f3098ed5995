---------------------------- MODULE TargetRegistry ----------------------------
(***************************************************************************)
(* The append-only registry of targets (target_registry.py): what is known *)
(* of a target is folded from its entries, and a call that brings nothing  *)
(* new is skipped.  The registry is read and then appended to without a    *)
(* lock, and without a look at how the file ends: after a death in an      *)
(* append the next entry may be glued to what is there, and a file with    *)
(* such a line is read by nobody.  A backfill                              *)
(* (scripts/backfill_target_registry.py) collects candidates from stored   *)
(* artifacts and registers them, or, as a dry run, counts those it would.  *)
(*                                                                         *)
(* A value that may be missing is Nothing; an URL may come with spaces     *)
(* around it.  The key of a target is the hash of its URL.                 *)
(***************************************************************************)
EXTENDS Integers, Sequences, FiniteSets

CONSTANTS
    Proc,         \* processes that register targets
    Key,          \* target keys
    Url,          \* URLs, as KeyOf hashes them
    KeyOf,
    Label,
    AliasName,
    CallerFacts,  \* what callers may know
    Artifact,     \* what a backfill may find in the store
    MaxEntries,   \* bound: entries
    MaxRuns,      \* bound: backfills
    MaxDeaths,    \* bound: processes that die
    Nothing

GivenUrl == [url : Url, padded : BOOLEAN]

RegistryAssumption ==
    /\ KeyOf \in [Url -> Key]
    /\ IsFiniteSet(Proc) /\ MaxEntries \in Nat /\ MaxRuns \in Nat /\ MaxDeaths \in Nat
    /\ Nothing \notin Key \cup Url \cup Label \cup GivenUrl

\* What a caller knows of a target.
Facts == [key : Key, url : GivenUrl \cup {Nothing}, label : Label \cup {Nothing},
          aliases : SUBSET AliasName]

CallerAssumption == CallerFacts \subseteq Facts

\* Artifacts: rows of the snapshot ledger, manifests of captures, and other documents
\* in which a URL or a key is looked for.
Found ==
    [kind : {"snapshot"}, key : Key \cup {Nothing}, url : Url \cup {Nothing},
     title : Label \cup {Nothing}]
    \cup [kind : {"manifest"}, hash : Key, url : Url \cup {Nothing},
          title : Label \cup {Nothing}]
    \cup [kind : {"other"}, known : BOOLEAN, url : Url \cup {Nothing},
          key : Key \cup {Nothing}]

ArtifactAssumption == Artifact \subseteq Found

VARIABLES
    registry,  \* the entries of targets.ndjson, up to a line that cannot be read
    registry_tail,  \* how it ends: "ended"; "open", the last entry has no newline;
                    \* "cut", there is a line that cannot be read
    call,      \* what each process registers: calls that are left, and its step
    result,    \* what its last calls came to: registered and skipped
    told,      \* history: facts whose caller was answered
    runs, crashes

vars == <<registry, registry_tail, call, result, told, runs, crashes>>
file == <<registry, registry_tail>>

NoResult == [registered |-> 0, would_register |-> 0, applied |-> FALSE]

Init ==
    /\ registry = <<>> /\ registry_tail = "ended"
    /\ call = [p \in Proc |-> Nothing]
    /\ result = [p \in Proc |-> NoResult]
    /\ told = {} /\ runs = 0 /\ crashes = 0

------------------------------------------------------------------------------
(***************************************************************************)
(* What is known of a target                                               *)
(***************************************************************************)

EntriesOf(entries, key) == {k \in DOMAIN entries : entries[k].key = key}

LastOf(set) == CHOOSE k \in set : \A j \in set : j <= k

ButLast(entries) == SubSeq(entries, 1, Len(entries) - 1)

\* The last value that is there.
LastKnown(entries, mine, field) ==
    LET known == {k \in mine : entries[k][field] # Nothing} IN
    IF known = {} THEN Nothing ELSE entries[LastOf(known)][field]

\* resolve_target: aliases add up, everything else is the latest; Nothing if the
\* target is unknown.
Resolve(entries, key) ==
    LET mine == EntriesOf(entries, key) IN
    IF mine = {} THEN Nothing
    ELSE [url |-> LastKnown(entries, mine, "url"),
          label |-> LastKnown(entries, mine, "label"),
          aliases |-> UNION {entries[k].aliases : k \in mine}]

\* An URL is stripped before it is compared, and stored as it was given.
Stripped(url) == IF url = Nothing THEN Nothing ELSE [url EXCEPT !.padded = FALSE]

BringsNews(existing, facts) ==
    \/ existing = Nothing
    \/ facts.url # Nothing /\ Stripped(facts.url) # existing.url
    \/ facts.label # Nothing /\ facts.label # existing.label
    \/ ~(facts.aliases \subseteq existing.aliases)

------------------------------------------------------------------------------
(***************************************************************************)
(* What a backfill makes of an artifact                                    *)
(***************************************************************************)

Candidate(key, url, label) ==
    [key |-> key, url |-> url, label |-> label, aliases |-> {}]

Given(url) == [url |-> url, padded |-> FALSE]

\* collect_from_text_snapshots: a row with neither URL nor title says nothing.
FromSnapshotRow(row) ==
    IF row.key = Nothing \/ (row.url = Nothing /\ row.title = Nothing) THEN <<>>
    ELSE <<Candidate(row.key, IF row.url = Nothing THEN Nothing ELSE Given(row.url),
                     row.title)>>

\* collect_from_json_artifacts: a manifest with its URL, or with the hash of it.
FromManifest(manifest) ==
    IF manifest.url # Nothing
    THEN <<Candidate(KeyOf[manifest.url], Given(manifest.url), manifest.title)>>
    ELSE <<Candidate(manifest.hash, Nothing, manifest.title)>>

\* Any other known artifact: the first URL, or else a bare key, found in it;
\* artifacts of unknown schema are not searched.
FromArtifact(artifact) ==
    IF ~artifact.known THEN <<>>
    ELSE IF artifact.url # Nothing
    THEN <<Candidate(KeyOf[artifact.url], Given(artifact.url), Nothing)>>
    ELSE IF artifact.key # Nothing THEN <<Candidate(artifact.key, Nothing, Nothing)>>
    ELSE <<>>

CandidatesOf(artifact) ==
    CASE artifact.kind = "snapshot" -> FromSnapshotRow(artifact)
      [] artifact.kind = "manifest" -> FromManifest(artifact)
      [] artifact.kind = "other"    -> FromArtifact(artifact)

\* What a dry run counts: like BringsNews, for candidates have no aliases, except
\* that an URL that is missing counts as another one.
WouldRegister(entries, candidate) ==
    LET existing == Resolve(entries, candidate.key) IN
    \/ existing = Nothing
    \/ candidate.url # existing.url
    \/ candidate.label # Nothing /\ candidate.label # existing.label

------------------------------------------------------------------------------
(***************************************************************************)
(* Calls                                                                   *)
(***************************************************************************)

Goes(p, state) == call' = [call EXCEPT ![p] = state]

\* A caller registers what it knows (ingest.py).
StartRegister(p, facts) ==
    /\ call[p] = Nothing
    /\ Len(registry) < MaxEntries
    /\ Goes(p, [step |-> "resolve", todo |-> <<facts>>, registered |-> 0,
                would |-> 0, backfill |-> FALSE])
    /\ UNCHANGED <<file, result, told, runs, crashes>>

\* build_report: the store is scanned and counted against the registry as it is;
\* with --apply the candidates are registered then.  A registry that cannot be read
\* raises.
StartBackfill(p, first, second, apply) ==
    LET candidates == CandidatesOf(first) \o CandidatesOf(second)
        would      == Cardinality({k \in DOMAIN candidates :
                                      WouldRegister(registry, candidates[k])})
    IN  /\ call[p] = Nothing
        /\ runs < MaxRuns /\ Len(registry) + Len(candidates) <= MaxEntries
        /\ candidates = <<>> \/ registry_tail # "cut"
        /\ runs' = runs + 1
        /\ IF apply /\ candidates # <<>>
           THEN /\ Goes(p, [step |-> "resolve", todo |-> candidates,
                            registered |-> 0, would |-> would, backfill |-> TRUE])
                /\ UNCHANGED result
           ELSE /\ result' = [result EXCEPT ![p] =
                       [registered |-> 0, would_register |-> would,
                        applied |-> FALSE]]
                /\ UNCHANGED call
        /\ UNCHANGED <<file, told, crashes>>

\* The first of its calls is over.
Answers(p, registered) ==
    LET c     == call[p]
        count == c.registered + registered
    IN  /\ told' = told \cup {Head(c.todo)}
        /\ IF Len(c.todo) = 1
           THEN /\ Goes(p, Nothing)
                /\ result' = IF c.backfill
                             THEN [result EXCEPT ![p] =
                                      [registered |-> count, applied |-> TRUE,
                                       would_register |-> c.would]]
                             ELSE result
           ELSE /\ Goes(p, [c EXCEPT !.step = "resolve", !.todo = Tail(c.todo),
                                     !.registered = count])
                /\ UNCHANGED result

\* Mutant of ReadRegistry: what is registered is not looked up.
ReadRegistryBlind(p) ==
    /\ call[p] # Nothing /\ call[p].step = "resolve"
    /\ Goes(p, [call[p] EXCEPT !.step = "append"])
    /\ UNCHANGED <<file, result, told, runs, crashes>>

\* register_target reads the registry, an entry without its newline too; one that
\* cannot be read raises ...
ReadRegistry(p) ==
    /\ call[p] # Nothing /\ call[p].step = "resolve"
    /\ LET facts == Head(call[p].todo) IN
       IF registry_tail = "cut" THEN Goes(p, Nothing) /\ UNCHANGED <<result, told>>
       ELSE IF BringsNews(Resolve(registry, facts.key), facts)
       THEN Goes(p, [call[p] EXCEPT !.step = "append"]) /\ UNCHANGED <<result, told>>
       ELSE Answers(p, 0)
    /\ UNCHANGED <<file, runs, crashes>>

\* What is written after an entry without a newline spoils it, and itself.
Spoils == /\ registry' = IF registry_tail = "open" THEN ButLast(registry) ELSE registry
          /\ registry_tail' = "cut"

\* ... and appends what it was given, and nobody looks whether it can be read.
AppendEntry(p) ==
    /\ call[p] # Nothing /\ call[p].step = "append"
    /\ IF registry_tail = "ended"
       THEN registry' = Append(registry, Head(call[p].todo)) /\ UNCHANGED registry_tail
       ELSE Spoils
    /\ Answers(p, 1)
    /\ UNCHANGED <<runs, crashes>>

\* A process dies, in an append before, after or within the entry it writes; the
\* newline may be all that is missing.
ProcessDies(p) ==
    /\ call[p] # Nothing /\ crashes < MaxDeaths
    /\ crashes' = crashes + 1 /\ Goes(p, Nothing)
    /\ \/ UNCHANGED file
       \/ call[p].step = "append" /\ Spoils
       \/ /\ call[p].step = "append" /\ registry_tail = "ended"
          /\ registry' = Append(registry, Head(call[p].todo))
          /\ registry_tail' \in {"ended", "open"}
    /\ UNCHANGED <<result, told, runs>>

Next ==
    \E p \in Proc :
        \/ \E facts \in CallerFacts : StartRegister(p, facts)
        \/ \E a, b \in Artifact, apply \in BOOLEAN : StartBackfill(p, a, b, apply)
        \/ ReadRegistry(p) \/ AppendEntry(p) \/ ProcessDies(p)

Spec == Init /\ [][Next]_vars

------------------------------------------------------------------------------
(***************************************************************************)
(* Properties                                                              *)
(***************************************************************************)

\* Types of the registry and the calls.
TypeOK ==
    /\ registry \in Seq(Facts) /\ registry_tail \in {"ended", "open", "cut"}
    /\ told \subseteq Facts /\ runs \in 0..MaxRuns /\ crashes \in 0..MaxDeaths
    /\ \A p \in Proc : call[p] # Nothing =>
           /\ call[p].step \in {"resolve", "append"}
           /\ call[p].todo \in Seq(Facts) /\ call[p].todo # <<>>

\* Whoever was told that a target is registered, or is already, finds all it knows
\* in the registry, as long as it can be read at all: of two calls that race, of a call
\* that was skipped, and of one whose entry lacks only its newline, no URL, label or
\* alias is lost (register_target: "既存事実は上書きせず追記する").
ToldIsRecorded ==
    registry_tail # "cut" => \A facts \in told :
        LET mine == {registry[k] : k \in EntriesOf(registry, facts.key)} IN
        /\ mine # {}
        /\ facts.url # Nothing =>
               \E e \in mine : e.url # Nothing /\ e.url.url = facts.url.url
        /\ facts.label # Nothing => \E e \in mine : e.label = facts.label
        /\ facts.aliases \subseteq UNION {e.aliases : e \in mine}

\* Entries that bring nothing new come from races only: of every run of entries of
\* one target, all but as many as there are other processes bring something.
Redundant(k) ==
    ~BringsNews(Resolve(SubSeq(registry, 1, k - 1), registry[k].key), registry[k])

RedundantOnlyByRace ==
    \A k \in DOMAIN registry :
        k >= Cardinality(Proc) =>
            \E j \in (k - Cardinality(Proc) + 1)..k : ~Redundant(j)

------------------------------------------------------------------------------
(***************************************************************************)
(* The inductive invariant                                                 *)
(***************************************************************************)

Work == [step : {"resolve", "append"}, todo : Seq(Facts) \ {<<>>}, registered : Nat,
         would : Nat, backfill : BOOLEAN]

\* Calls that are about to append what is known by now.
Overtaken ==
    {p \in Proc :
        /\ call[p] # Nothing /\ call[p].step = "append"
        /\ LET facts == Head(call[p].todo)
           IN  ~BringsNews(Resolve(registry, facts.key), facts)}

\* Since the last entry that brought something, each redundant one was the end of a
\* call that had been overtaken; those that are left and these are fewer than processes.
\* No entry is added to a registry that cannot be read.
RacesAreCounted ==
    registry # <<>> /\ registry_tail # "cut" =>
        \E m \in DOMAIN registry :
            /\ ~Redundant(m)
            /\ Len(registry) - m + Cardinality(Overtaken) < Cardinality(Proc)

RegistryInv ==
    /\ TypeOK /\ call \in [Proc -> {Nothing} \cup Work]
    /\ ToldIsRecorded /\ RedundantOnlyByRace /\ RacesAreCounted
==============================================================================
