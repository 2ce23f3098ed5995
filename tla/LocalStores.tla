---------------------------- MODULE LocalStores -----------------------------
(***************************************************************************)
(* The small private files beside the capture store, which processes       *)
(* change without a lock; `kind` says which of them is looked at:          *)
(*  "library"  the context library and the review registry of core.py: a   *)
(*             JSON list read, changed and written in place (truncated     *)
(*             first, then written);                                       *)
(*  "config"   local_config.py: read, changed and replaced by a rename;    *)
(*  "events"   the event log of core.py: the log is read for each event    *)
(*             and the event appended if it is not there; a clipboard      *)
(*             watcher imports whenever what it reads has changed;         *)
(*  "captures" site_adapter_store.py: a raw file and then a manifest, both *)
(*             named by the capture's digest and replaced by a rename.     *)
(* Torn is a file that does not parse.  Ghosts: told is what was answered, *)
(* raced is TRUE once a process wrote what another process's write had     *)
(* made stale, cut once a process died inside a write.                     *)
(***************************************************************************)
EXTENDS Integers, Sequences, FiniteSets, SequencesExt

CONSTANTS Procs, Keys, Values,
          Texts,        \* what the clipboard can hold: sequences of event ids
          Captures,     \* capture ids
          MaxCalls,     \* calls (polls, for a watcher) in a behaviour: a bound
          None, Torn

\* A file that does not parse is neither an entry list nor a log.
LocalAssumption ==
    /\ MaxCalls \in Nat
    /\ Torn \notin [Keys -> Values \union {None}]
    /\ Texts \subseteq Seq(UNION {ToSet(t) : t \in Texts})
    /\ Torn \notin Seq(UNION {ToSet(t) : t \in Texts})

VARIABLES kind,
          file,         \* the library or the configuration: [Keys -> Values \cup {None}], or Torn
          log,          \* the event log: ids, or Torn
          raw, manifests, \* the capture files that hold what they should
          clip,         \* what is in the clipboard
          call,         \* process -> the call it is making
          lastText,     \* watcher -> last_text
          calls, told, raced, cut

vars == <<kind, file, log, raw, manifests, clip, call, lastText, calls, told, raced, cut>>
data == <<file, log, raw, manifests>>

Kinds == {"library", "config", "events", "captures"}
Idle == [phase |-> "idle", what |-> None, seen |-> None, left |-> <<>>, stale |-> FALSE]

Init == /\ kind \in Kinds
        /\ file = [k \in Keys |-> None] /\ log = <<>> /\ raw = {} /\ manifests = {}
        /\ clip \in Texts
        /\ call = [p \in Procs |-> Idle]
        /\ lastText = [p \in Procs |-> <<>>]
        /\ calls = 0
        /\ told = IF kind \in {"library", "config"} THEN file ELSE {}
        /\ raced = FALSE /\ cut = FALSE

Begin(p, next) == /\ call[p].phase = "idle" /\ calls < MaxCalls
                  /\ calls' = calls + 1
                  /\ call' = [call EXCEPT ![p] = next]
At(p, k, phase) == kind = k /\ call[p].phase = phase

\* A write by p makes stale what the others have read.
AfterWrite(p, next) ==
    call' = [q \in Procs |-> IF q = p THEN next
                             ELSE IF call[q].phase # "idle" THEN [call[q] EXCEPT !.stale = TRUE]
                             ELSE call[q]]
Races(p) == raced' = (raced \/ call[p].stale)

-----------------------------------------------------------------------------
\* upsert_context_document, upsert_review_state, build_configure_local_cache:
\* the whole file is read; one that does not parse fails the call.
Load(p, k, v) ==
    /\ kind \in {"library", "config"}
    /\ IF file = Torn \/ (kind = "config" /\ file[k] = v)
         THEN Begin(p, Idle)
         ELSE Begin(p, [Idle EXCEPT !.phase = "save", !.what = <<k, v>>, !.seen = file])
    /\ UNCHANGED <<kind, data, clip, lastText, told, raced, cut>>

\* The entry of the same key is replaced, or one is added.
Updated(c) == [c.seen EXCEPT ![c.what[1]] = c.what[2]]

\* save_context_library, save_review_registry: open for writing, ...
Truncate(p) == /\ At(p, "library", "save")
               /\ file' = Torn
               /\ AfterWrite(p, [call[p] EXCEPT !.phase = "write"])
               /\ Races(p)
               /\ UNCHANGED <<kind, log, raw, manifests, clip, lastText, calls, told, cut>>
\* ... and write.  Over what another process wrote since, the longer of the two
\* texts leaves its end behind.
WriteList(p) ==
    /\ At(p, "library", "write")
    /\ file' \in {Updated(call[p])} \union (IF file = Torn THEN {} ELSE {Torn})
    /\ told' = [told EXCEPT ![call[p].what[1]] = call[p].what[2]]
    /\ AfterWrite(p, Idle)
    /\ Races(p)
    /\ UNCHANGED <<kind, log, raw, manifests, clip, lastText, calls, cut>>
ReplaceConfig(p) ==
    /\ At(p, "config", "save")
    /\ file' = Updated(call[p])
    /\ told' = [told EXCEPT ![call[p].what[1]] = call[p].what[2]]
    /\ AfterWrite(p, Idle)
    /\ Races(p)
    /\ UNCHANGED <<kind, log, raw, manifests, clip, lastText, calls, cut>>

-----------------------------------------------------------------------------
\* _cmd_watch_clipboard: each poll reads the clipboard and imports what changed;
\* the events of the text are appended one by one.
Copy(text) == /\ kind = "events" /\ clip' = text /\ text # clip
              /\ UNCHANGED <<kind, data, call, lastText, calls, told, raced, cut>>
Poll(p) == /\ kind = "events" /\ clip # lastText[p]
           /\ lastText' = [lastText EXCEPT ![p] = clip]
           /\ Begin(p, [Idle EXCEPT !.phase = "events", !.left = clip, !.what = ToSet(clip)])
           /\ UNCHANGED <<kind, data, clip, told, raced, cut>>

\* append_event: the ids that are in the log; a torn log fails the call.
ReadLog(p) ==
    /\ At(p, "events", "events") /\ call[p].left # <<>>
    /\ call' = [call EXCEPT ![p] = IF log = Torn THEN Idle
                                   ELSE [@ EXCEPT !.phase = "append", !.seen = ToSet(log), !.stale = FALSE]]
    /\ lastText' = [lastText EXCEPT ![p] = IF log = Torn THEN <<>> ELSE @]
    /\ UNCHANGED <<kind, data, clip, calls, told, raced, cut>>

Known(c) == Head(c.left) \in c.seen
Append1(p) ==
    /\ At(p, "events", "append")
    /\ LET rest == [call[p] EXCEPT !.phase = "events", !.left = Tail(@)]
       IN  IF Known(call[p])
             THEN /\ call' = [call EXCEPT ![p] = rest] /\ UNCHANGED <<log, raced>>
             ELSE /\ log' = IF log = Torn THEN Torn ELSE Append(log, Head(call[p].left))
                  /\ AfterWrite(p, rest) /\ Races(p)
    /\ UNCHANGED <<kind, file, raw, manifests, clip, lastText, calls, told, cut>>
AnswerImport(p) ==
    /\ At(p, "events", "events") /\ call[p].left = <<>>
    /\ told' = told \union call[p].what
    /\ call' = [call EXCEPT ![p] = Idle]
    /\ UNCHANGED <<kind, data, clip, lastText, calls, raced, cut>>

-----------------------------------------------------------------------------
\* store_capture: each file is written unless it already holds what it should;
\* an error in a write answers "blocked, recoverable".
StoreCapture(p, c) ==
    /\ kind = "captures"
    /\ Begin(p, [Idle EXCEPT !.phase = "raw", !.what = c])
    /\ UNCHANGED <<kind, data, clip, lastText, told, raced, cut>>
WriteRaw(p) ==
    /\ At(p, "captures", "raw")
    /\ \/ /\ raw' = raw \union {call[p].what}
          /\ call' = [call EXCEPT ![p].phase = "manifest"]
       \/ /\ call[p].what \notin raw /\ call' = [call EXCEPT ![p] = Idle] /\ UNCHANGED raw
    /\ UNCHANGED <<kind, file, log, manifests, clip, lastText, calls, told, raced, cut>>
WriteManifest(p) ==
    /\ At(p, "captures", "manifest")
    /\ call' = [call EXCEPT ![p] = Idle]
    /\ \/ /\ manifests' = manifests \union {call[p].what}
          /\ told' = told \union {call[p].what}
       \/ call[p].what \notin manifests /\ UNCHANGED <<manifests, told>>
    /\ UNCHANGED <<kind, file, log, raw, clip, lastText, calls, raced, cut>>

-----------------------------------------------------------------------------
\* A process dies; inside a write it may leave a part of it.
Die(p) == /\ call[p].phase # "idle"
          /\ call' = [call EXCEPT ![p] = Idle]
          /\ lastText' = [lastText EXCEPT ![p] = <<>>]
          /\ cut' = (cut \/ call[p].phase \in {"write", "append"})
          /\ \/ UNCHANGED log
             \/ call[p].phase = "append" /\ log' = Torn
          /\ UNCHANGED <<kind, file, raw, manifests, clip, calls, told, raced>>

Next == \/ \E text \in Texts : Copy(text)
        \/ \E p \in Procs :
             \/ \E k \in Keys, v \in Values : Load(p, k, v)
             \/ Truncate(p) \/ WriteList(p) \/ ReplaceConfig(p)
             \/ Poll(p) \/ ReadLog(p) \/ Append1(p) \/ AnswerImport(p)
             \/ \E c \in Captures : StoreCapture(p, c)
             \/ WriteRaw(p) \/ WriteManifest(p)
             \/ Die(p)

Spec == Init /\ [][Next]_vars

-----------------------------------------------------------------------------
TypeOK ==
    /\ file = Torn \/ file \in [Keys -> Values \union {None}]
    /\ log = Torn \/ log \in Seq(UNION {ToSet(t) : t \in Texts})
    /\ raw \subseteq Captures /\ manifests \subseteq Captures
    /\ \A p \in Procs : call[p].phase \in {"idle", "save", "write", "events", "append", "raw", "manifest"}
    /\ calls \in 0..MaxCalls /\ raced \in BOOLEAN /\ cut \in BOOLEAN

\* An entry that was answered as saved is lost, and a file stops parsing, only
\* where two calls overlapped or one died inside its write; the configuration,
\* replaced by a rename, parses always.
LostOnlyByOverlap ==
    /\ kind \in {"library", "config"} /\ ~raced /\ ~cut =>
          \/ file = told
          \/ kind = "library" /\ \E p \in Procs : call[p].phase = "write"
    /\ kind = "config" => file # Torn

\* The log has every event of an answered import, and an event twice only where
\* an append came between another one's look at the log and its append.
ImportedEventsStay ==
    kind = "events" /\ log # Torn =>
       /\ told \subseteq ToSet(log)
       /\ ~raced => IsInjective(log)
TornOnlyByDeath == kind = "events" /\ log = Torn => cut

\* Whatever process died or failed, a manifest has its raw capture, and an
\* answered capture both.
ManifestHasCapture == manifests \subseteq raw /\ (kind = "captures" => told \subseteq manifests)

AnsweredIsKept == LostOnlyByOverlap /\ ImportedEventsStay /\ TornOnlyByDeath /\ ManifestHasCapture

-----------------------------------------------------------------------------
(***************************************************************************)
(* The inductive invariant                                                 *)
(***************************************************************************)
Files == [Keys -> Values \union {None}]
Ids == UNION {ToSet(t) : t \in Texts}

Saves == [phase : {"save", "write"}, what : Keys \X Values, seen : Files,
          left : {<<>>}, stale : BOOLEAN]
Imports == [phase : {"events", "append"}, what : SUBSET Ids,
            seen : {None} \union SUBSET Ids, left : Seq(Ids), stale : BOOLEAN]
Stores == [phase : {"raw", "manifest"}, what : Captures, seen : {None},
           left : {<<>>}, stale : BOOLEAN]
Calls == {Idle} \union IF kind \in {"library", "config"} THEN Saves
                       ELSE IF kind = "events" THEN Imports ELSE Stores

Typed ==
    /\ kind \in Kinds
    /\ file \in Files \union {Torn} /\ log \in Seq(Ids) \union {Torn}
    /\ raw \subseteq Captures /\ manifests \subseteq Captures /\ clip \in Texts
    /\ call \in [Procs -> Calls]
    /\ \A p \in Procs : call[p].phase = "append" => call[p].left # <<>>
    /\ told \in (IF kind \in {"library", "config"} THEN Files
                 ELSE SUBSET (IF kind = "events" THEN Ids ELSE Captures))
    /\ calls \in 0..MaxCalls /\ raced \in BOOLEAN /\ cut \in BOOLEAN

\* Where nobody has raced or died in a write: who is not stale has read what was
\* told, and whoever writes is alone with it.
Undisturbed ==
    kind \in {"library", "config"} /\ ~raced /\ ~cut =>
        /\ \A p \in Procs : call[p].phase \in {"save", "write"} /\ ~call[p].stale =>
               call[p].seen = told
        /\ \A p \in Procs : call[p].phase = "write" =>
               /\ file = Torn /\ ~call[p].stale
               /\ \A q \in Procs \ {p} : call[q].phase = "idle" \/ call[q].stale
        /\ file = told \/ \E p \in Procs : call[p].phase = "write"

\* What an import has still to append, and what it saw of the log.
Appending ==
    kind = "events" /\ log # Torn =>
        \A p \in Procs :
            /\ call[p].phase \in {"events", "append"} =>
                   call[p].what \subseteq ToSet(log) \union ToSet(call[p].left)
            /\ call[p].phase = "append" =>
                   /\ call[p].seen \subseteq ToSet(log)
                   /\ ~call[p].stale => call[p].seen = ToSet(log)

RawIsFirst == \A p \in Procs : call[p].phase = "manifest" => call[p].what \in raw

LocalInv ==
    /\ Typed /\ Undisturbed /\ Appending /\ RawIsFirst
    /\ kind = "config" => file # Torn /\ \A p \in Procs : call[p].phase # "write"
    /\ ImportedEventsStay /\ TornOnlyByDeath /\ ManifestHasCapture
=============================================================================
