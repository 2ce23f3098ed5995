-------------------------- MODULE KnowledgeProjection -------------------------
(***************************************************************************)
(* The vault of pages that is projected from the snapshot ledger           *)
(* (knowledge_projection.py, knowledge_projection_ops.py): who wrote what, *)
(* about which topics, with the aliases and assignments people reviewed.   *)
(* Pages are replaced one by one under a lock that is not waited for;      *)
(* notes next to them belong to people.  A run may fail or die anywhere.   *)
(*                                                                         *)
(* A page is modelled by the set of things it shows; a record by whose it  *)
(* is, its place in its stream and the events parsed from its text.        *)
(***************************************************************************)
EXTENDS Integers, Sequences, FiniteSets, SequencesExt

CONSTANTS
    Runner,       \* processes that project
    Topic,        \* reviewed topics
    Ledger,       \* records that get appended, in this order
    Registry,     \* registries the operator may keep
    MaxEdits,     \* bound: notes people write, registries they change
    MaxFailures,  \* bound: runs that raise or die
    Nothing

VARIABLES
    records,   \* how many records the ledger has
    registry,  \* persons, topics, relations and assignments under review
    pages,     \* the generated pages, by what they are of
    notes,     \* the notes next to them: "template", "own" or "edited"
    lock,      \* the runner in its run
    run,       \* what each runner is doing
    receipt,   \* the last receipt on disk
    touched,   \* history: pages were written since that receipt
    edits, failures

vars == <<records, registry, pages, notes, lock, run, receipt, touched, edits,
          failures>>

NoPages == [n \in {} |-> {}]

Init ==
    /\ records = 0 /\ registry \in Registry
    /\ pages = NoPages /\ notes = NoPages
    /\ lock = Nothing /\ run = [r \in Runner |-> Nothing]
    /\ receipt = [ok |-> FALSE] /\ touched = FALSE
    /\ edits = 0 /\ failures = 0

------------------------------------------------------------------------------
(***************************************************************************)
(* What is projected                                                       *)
(***************************************************************************)

\* A name alone on a line above a time, a name with a time and a name before a
\* colon begin what that person says.
Heading(text, i) ==
    \/ text[i].kind \in {"named", "colon"}
    \/ (text[i].kind = "plain" /\ i < Len(text) /\ text[i + 1].kind = "time")

Flush(state) ==
    IF state.author = Nothing \/ state.said = {} THEN [state EXCEPT !.said = {}]
    ELSE [state EXCEPT !.said = {},
                       !.events = Append(@, [author |-> state.author,
                                             lines  |-> state.said])]

\* One round of the loop of _parse_knowledge_events; the time under a name is
\* passed over by itself.
ReadLine(text, state, i) ==
    LET line == text[i] IN
    IF line.kind = "time" THEN state
    ELSE IF Heading(text, i) /\ line.person
    THEN [Flush(state) EXCEPT !.author = line.name,
                              !.said = IF line.kind = "colon" THEN {i} ELSE {}]
    ELSE IF (line.kind # "colon" /\ Heading(text, i)) \/ state.author = Nothing
    THEN state
    ELSE [state EXCEPT !.said = @ \cup {i}]

ParseText(text) ==
    LET read[n \in 0..Len(text)] ==
            IF n = 0 THEN [author |-> Nothing, said |-> {}, events |-> <<>>]
            ELSE ReadLine(text, read[n - 1], n)
    IN  Flush(read[Len(text)]).events

\* The events of a record: a message is one, a snapshot is parsed.
EventsIn(k) ==
    LET record == Ledger[k]
        parsed == IF record.kind = "message"
                  THEN <<[author |-> record.author, lines |-> DOMAIN record.text]>>
                  ELSE ParseText(record.text)
    IN  [i \in DOMAIN parsed |->
            [author |-> parsed[i].author, lines |-> parsed[i].lines,
             tags |-> UNION {record.text[l].tags : l \in parsed[i].lines}]]

\* A message is identified in its stream; of other records the stream is all.
StreamKey(record) ==
    IF record.kind = "message" THEN <<record.target, record.message>>
    ELSE <<record.target>>

\* Mutant of Latest: the first record of a key stays.
LatestFirst(n) ==
    {k \in 1..n : \A j \in 1..n :
         StreamKey(Ledger[j]) = StreamKey(Ledger[k]) => Ledger[k].seq <= Ledger[j].seq}

\* _projection_records, _latest_by_target: the highest sequence of each key, of
\* equals the last.
Latest(n) ==
    {k \in 1..n : \A j \in 1..n :
         StreamKey(Ledger[j]) = StreamKey(Ledger[k]) =>
             \/ Ledger[j].seq < Ledger[k].seq
             \/ (Ledger[j].seq = Ledger[k].seq /\ j <= k)}

\* What was reviewed of a name: pairs of a name and what it stands for.
Reviewed(pairs, name, otherwise) ==
    IF \E pair \in pairs : pair[1] = name
    THEN (CHOOSE pair \in pairs : pair[1] = name)[2] ELSE otherwise

OneMeaning(pairs) == \A p, q \in pairs : p[1] = q[1] => p = q

\* A person who is not in the registry is known by stream and name.
PersonOf(reg, target, author) ==
    Reviewed(reg.people, <<target, author>>, <<target, author>>)

\* The topics tagged in the text, by their reviewed names, and those assigned.
TopicsOf(reg, k, i) ==
    {Reviewed(reg.aliases, tag, tag) : tag \in EventsIn(k)[i].tags}
        \cup IF <<k, i>> \in DOMAIN reg.assigned THEN reg.assigned[<<k, i>>] ELSE {}

EventsOf(n) == UNION {{<<k, i>> : i \in 1..Len(EventsIn(k))} : k \in Latest(n)}

Author(reg, e) == PersonOf(reg, Ledger[e[1]].target, EventsIn(e[1])[e[2]].author)

Candidate(e) == <<Ledger[e[1]].target, EventsIn(e[1])[e[2]].author>>

Narrower(reg, t) == {u \in Topic : t \in reg.broader[u]}

Related(reg, t) == reg.related[t] \cup {u \in Topic : t \in reg.related[u]}

PersonPage(reg, n, p) == {e \in EventsOf(n) : Author(reg, e) = p}

TopicPage(reg, n, t) ==
    [events   |-> {e \in EventsOf(n) : t \in TopicsOf(reg, e[1], e[2])},
     broader  |-> IF t \in Topic THEN reg.broader[t] ELSE {},
     narrower |-> IF t \in Topic THEN Narrower(reg, t) ELSE {},
     related  |-> IF t \in Topic THEN Related(reg, t) ELSE {}]

\* _render_review_queue: what has no topic, and whom nobody has reviewed.
Queue(reg, n) ==
    [events |-> {e \in EventsOf(n) : TopicsOf(reg, e[1], e[2]) = {}},
     people |-> {Candidate(e) : e \in EventsOf(n)} \ {pair[1] : pair \in reg.people}]

People(reg, n) == {Author(reg, e) : e \in EventsOf(n)}
Topics(reg, n) == Topic \cup UNION {TopicsOf(reg, e[1], e[2]) : e \in EventsOf(n)}

\* _load_topic_registry: relations name other topics, no topic is above itself, and
\* what is assigned are topics.
Above(reg, t) ==
    LET up[k \in 0..Cardinality(Topic)] ==
            IF k = 0 THEN reg.broader[t]
            ELSE up[k - 1] \cup UNION {reg.broader[u] : u \in up[k - 1]}
    IN  up[Cardinality(Topic)]

ValidTopics(reg) ==
    /\ OneMeaning(reg.aliases)
    /\ \A t \in Topic : /\ reg.broader[t] \cup reg.related[t] \subseteq Topic
                        /\ t \notin reg.related[t]
    /\ \A t \in Topic : t \notin Above(reg, t)
    /\ \A e \in DOMAIN reg.assigned : reg.assigned[e] \in SUBSET Topic \ {{}}

\* _load_person_registry: a name stands for one person.
ValidPeople(reg) == OneMeaning(reg.people)

\* The pages of a run, in the order they are written.
Names(reg, n) ==
    SetToSeq({<<"person", p>> : p \in People(reg, n)})
        \o SetToSeq({<<"topic", t>> : t \in Topics(reg, n)})

\* _render_generated_top: links to every page.
TopPage(reg, n) == [people |-> People(reg, n), topics |-> Topics(reg, n)]

Page(reg, n, name) ==
    CASE name[1] = "person" -> PersonPage(reg, n, name[2])
      [] name[1] = "topic"  -> TopicPage(reg, n, name[2])
      [] name[1] = "top"    -> TopPage(reg, n)
      [] name[1] = "queue"  -> Queue(reg, n)

Listings == {<<"top">>, <<"queue">>}
ValidRegistries == {reg \in Registry : ValidPeople(reg) /\ ValidTopics(reg)}
Paged == UNION {ToSet(Names(reg, n)) : reg \in ValidRegistries, n \in 1..Len(Ledger)}

\* What a runner may be doing.
Work ==
    [step : {"missing", "failed"}]
    \cup [step : {"page", "note", "stale", "top", "queue", "receipt"},
          reg : ValidRegistries, n : 1..Len(Ledger), todo : Seq(Paged)]

\* How texts are written down: a line of a person has a name, and a line with a colon
\* right above a time, which the code reads as a name, is "plain".
Legible(text) ==
    /\ text \in Seq(ToSet(text))
    /\ \A i \in DOMAIN text :
           /\ text[i].kind \in {"plain", "time", "named", "colon"}
           /\ text[i].kind = "colon" /\ i < Len(text) => text[i + 1].kind # "time"
           /\ text[i].person \in BOOLEAN /\ (text[i].person => text[i].name # Nothing)
           /\ IsFiniteSet(text[i].tags)

\* The label of a topic is always one of its aliases.
ProjectionAssumption ==
    /\ IsFiniteSet(Topic) /\ MaxEdits \in Nat /\ MaxFailures \in Nat
    /\ Ledger \in Seq(ToSet(Ledger))
    /\ \A k \in DOMAIN Ledger :
           /\ Ledger[k].kind \in {"message", "snapshot"} /\ Ledger[k].seq \in Nat
           /\ Legible(Ledger[k].text)
    /\ \A reg \in Registry, t \in Topic : <<t, t>> \in reg.aliases
    /\ Nothing \notin Runner \cup Work

------------------------------------------------------------------------------
(***************************************************************************)
(* A run: run_projection                                                   *)
(***************************************************************************)

InStep(r, step) == run[r] # Nothing /\ run[r].step = step

\* What a run finds: no ledger yet, registries that are not valid, or its work.
Begun ==
    IF records = 0 THEN [step |-> "missing"]
    ELSE IF ~(ValidPeople(registry) /\ ValidTopics(registry)) THEN [step |-> "failed"]
    ELSE [step |-> IF Names(registry, records) = <<>> THEN "stale" ELSE "page",
          reg |-> registry, n |-> records, todo |-> Names(registry, records)]

\* The lock is taken, ledger and registries are read.  A lock that is held ends the
\* run without a receipt.
StartRun(r) ==
    /\ run[r] = Nothing /\ lock = Nothing
    /\ run' = [run EXCEPT ![r] = Begun]
    /\ lock' = IF Begun.step = "failed" THEN lock ELSE r
    /\ UNCHANGED <<records, registry, pages, notes, receipt, touched, edits, failures>>

\* There is no ledger: the receipt says so.
ReportMissing(r) ==
    /\ InStep(r, "missing")
    /\ receipt' = [ok |-> FALSE] /\ touched' = FALSE
    /\ lock' = Nothing
    /\ run' = [run EXCEPT ![r] = Nothing]
    /\ UNCHANGED <<records, registry, pages, notes, edits, failures>>

Put(file, name, content) ==
    [n \in DOMAIN file \cup {name} |-> IF n = name THEN content ELSE file[n]]

\* On to the next page, and after the last one to those of nobody.
Onward(r) == [run EXCEPT ![r].todo = Tail(@),
                         ![r].step = IF Len(run[r].todo) = 1 THEN "stale" ELSE "page"]

\* _write_if_changed replaces a page whole; a page as it should be is left alone.
WritePage(r) ==
    /\ InStep(r, "page")
    /\ LET name == Head(run[r].todo)
           page == Page(run[r].reg, run[r].n, name) IN
       /\ pages' = Put(pages, name, page)
       /\ touched' = (touched \/ pages' # pages)
       /\ run' = IF name \in DOMAIN notes THEN Onward(r)
                 ELSE [run EXCEPT ![r].step = "note"]
    /\ UNCHANGED <<records, registry, notes, lock, receipt, edits, failures>>

\* _ensure_human_note: there was no note a moment ago.
WriteNote(r) ==
    /\ InStep(r, "note")
    /\ notes' = Put(notes, Head(run[r].todo), "template")
    /\ run' = Onward(r)
    /\ UNCHANGED <<records, registry, pages, lock, receipt, touched, edits, failures>>

Active(r) == ToSet(Names(run[r].reg, run[r].n)) \cup Listings

\* _remove_stale_generated: pages of nobody are unlinked one by one; notes stay.
RemoveStale(r) ==
    /\ InStep(r, "stale")
    /\ LET stale == DOMAIN pages \ Active(r) IN
       IF stale = {}
       THEN run' = [run EXCEPT ![r].step = "top"] /\ UNCHANGED <<pages, touched>>
       ELSE \E gone \in stale :
                /\ pages' = [n \in DOMAIN pages \ {gone} |-> pages[n]]
                /\ touched' = TRUE /\ UNCHANGED run
    /\ UNCHANGED <<records, registry, notes, lock, receipt, edits, failures>>

\* Top page and review queue are written last, one after the other.
WriteListing(r) ==
    /\ InStep(r, "top") \/ InStep(r, "queue")
    /\ LET name == <<run[r].step>> IN
       pages' = Put(pages, name, Page(run[r].reg, run[r].n, name))
    /\ touched' = (touched \/ pages' # pages)
    /\ run' = [run EXCEPT ![r].step = IF @ = "top" THEN "queue" ELSE "receipt"]
    /\ UNCHANGED <<records, registry, notes, lock, receipt, edits, failures>>

WriteReceipt(r) ==
    /\ InStep(r, "receipt")
    /\ receipt' = [ok |-> TRUE, reg |-> run[r].reg, n |-> run[r].n]
    /\ touched' = FALSE
    /\ lock' = Nothing
    /\ run' = [run EXCEPT ![r] = Nothing]
    /\ UNCHANGED <<records, registry, pages, notes, edits, failures>>

\* Something raises: the lock is released before the receipt says so.
RunFails(r) ==
    /\ lock = r /\ failures < MaxFailures
    /\ failures' = failures + 1
    /\ lock' = Nothing
    /\ run' = [run EXCEPT ![r] = [step |-> "failed"]]
    /\ UNCHANGED <<records, registry, pages, notes, receipt, touched, edits>>

WriteFailure(r) ==
    /\ InStep(r, "failed")
    /\ receipt' = [ok |-> FALSE] /\ touched' = FALSE
    /\ run' = [run EXCEPT ![r] = Nothing]
    /\ UNCHANGED <<records, registry, pages, notes, lock, edits, failures>>

\* The process dies, with the lock and without a receipt.
RunDies(r) ==
    /\ run[r] # Nothing /\ failures < MaxFailures
    /\ failures' = failures + 1
    /\ lock' = IF lock = r THEN Nothing ELSE lock
    /\ run' = [run EXCEPT ![r] = Nothing]
    /\ UNCHANGED <<records, registry, pages, notes, receipt, touched, edits>>

------------------------------------------------------------------------------
(***************************************************************************)
(* Writers of the ledger, and people                                       *)
(***************************************************************************)

AppendRecord ==
    /\ records < Len(Ledger)
    /\ records' = records + 1
    /\ UNCHANGED <<registry, pages, notes, lock, run, receipt, touched, edits, failures>>

\* People change the registry, edit a note, or begin one of their own.
EditRegistry ==
    /\ edits < MaxEdits /\ edits' = edits + 1
    /\ registry' \in Registry \ {registry}
    /\ UNCHANGED <<records, pages, notes, lock, run, receipt, touched, failures>>

EditNote(name) ==
    /\ edits < MaxEdits
    /\ \A n \in DOMAIN notes \cap {name} : notes[n] = "template"
    /\ edits' = edits + 1
    /\ notes' = Put(notes, name, IF name \in DOMAIN notes THEN "edited" ELSE "own")
    /\ UNCHANGED <<records, registry, pages, lock, run, receipt, touched, failures>>

Project(r) ==
    \/ StartRun(r) \/ WritePage(r) \/ WriteNote(r) \/ RemoveStale(r)
    \/ WriteListing(r) \/ WriteReceipt(r) \/ ReportMissing(r) \/ WriteFailure(r)

Next ==
    \/ \E r \in Runner : Project(r)
    \/ \E r \in Runner : RunFails(r) \/ RunDies(r)
    \/ AppendRecord \/ EditRegistry
    \/ \E name \in DOMAIN pages \ Listings : EditNote(name)

Spec == Init /\ [][Next]_vars

------------------------------------------------------------------------------
(***************************************************************************)
(* Properties                                                              *)
(***************************************************************************)

TypeOK ==
    /\ records \in 0..Len(Ledger) /\ registry \in Registry
    /\ \A name \in DOMAIN notes : name[1] \in {"person", "topic"}
    /\ \A name \in DOMAIN notes : notes[name] \in {"template", "own", "edited"}
    /\ lock \in Runner \cup {Nothing}
    /\ \A r \in Runner : lock = r <=> run[r] # Nothing /\ run[r].step # "failed"
    /\ edits \in 0..MaxEdits /\ failures \in 0..MaxFailures

\* A record that another of its message, or of its stream, supersedes: one with a
\* higher sequence number, or a later one with the same.
Superseded(k, n) ==
    \E j \in 1..n : /\ Ledger[j].kind = Ledger[k].kind
                    /\ Ledger[j].target = Ledger[k].target
                    /\ Ledger[k].kind = "message" =>
                           Ledger[j].message = Ledger[k].message
                    /\ \/ Ledger[j].seq > Ledger[k].seq
                       \/ Ledger[j].seq = Ledger[k].seq /\ j > k

Current(n) == {k \in 1..n : ~Superseded(k, n)}

\* The lines in which somebody speaks, and who does: the name nearest above.
Spoken(text) ==
    {i \in DOMAIN text :
        /\ text[i].kind = "colon" \/ (text[i].kind = "plain" /\ ~Heading(text, i))
        /\ \E j \in 1..i : Heading(text, j) /\ text[j].person}

Speaker(text, i) ==
    LET above == {j \in 1..i : Heading(text, j) /\ text[j].person}
    IN  text[CHOOSE j \in above : \A h \in above : h <= j].name

PagesOf(kind) == {name \in DOMAIN pages : name[1] = kind}
Settled == receipt.ok /\ ~touched

Shows(events, k, l) == \E i \in DOMAIN EventsIn(k) :
                           <<k, i>> \in events /\ l \in EventsIn(k)[i].lines

\* After a run that says ok, and before another one changes a page: each line that
\* somebody speaks in a current record is on the page of that one person and of no
\* other; it is on the page of each topic tagged in it, or the event it is part of
\* waits in the review queue; and no page shows what is superseded.
EverythingIsFiled ==
    Settled =>
        /\ \A k \in Current(receipt.n) :
              Ledger[k].kind = "snapshot" =>
                  \A l \in Spoken(Ledger[k].text) :
                      LET text == Ledger[k].text
                          person == PersonOf(receipt.reg, Ledger[k].target,
                                             Speaker(text, l)) IN
                      /\ <<"person", person>> \in PagesOf("person")
                      /\ \A name \in PagesOf("person") :
                            Shows(pages[name], k, l) <=> name[2] = person
                      /\ \A tag \in text[l].tags \cap Topic :
                            Shows(pages[<<"topic", tag>>].events, k, l)
                      /\ \/ Shows(pages[<<"queue">>].events, k, l)
                         \/ \E name \in PagesOf("topic") :
                                Shows(pages[name].events, k, l)
        /\ \A name \in PagesOf("person") :
              pages[name] # {} /\ \A e \in pages[name] : e[1] \in Current(receipt.n)
        /\ \A name \in PagesOf("topic") :
              /\ \A e \in pages[name].events : e[1] \in Current(receipt.n)
              /\ pages[name].events = {} => name[2] \in Topic

\* Then, too, the top page links exactly the pages there are.
TopLinksEveryPage ==
    Settled =>
        /\ {name[2] : name \in PagesOf("person")} = pages[<<"top">>].people
        /\ {name[2] : name \in PagesOf("topic")} = pages[<<"top">>].topics

\* The pages of two topics agree on how the two are related.
RelationsAreMutual ==
    Settled =>
        \A n1, n2 \in PagesOf("topic") :
            /\ n2[2] \in pages[n1].related <=> n1[2] \in pages[n2].related
            /\ n2[2] \in pages[n1].narrower <=> n1[2] \in pages[n2].broader

\* What a person changed in a note stays, whatever is projected, renamed or removed.
EditedNotesStay ==
    \A name \in DOMAIN notes : notes[name] = "edited" =>
        name \in DOMAIN notes' /\ notes'[name] = "edited"

------------------------------------------------------------------------------
(***************************************************************************)
(* The inductive invariant                                                 *)
(***************************************************************************)

Typed ==
    /\ run \in [Runner -> {Nothing} \cup Work]
    /\ touched \in BOOLEAN /\ receipt.ok \in BOOLEAN
    /\ pages = [name \in DOMAIN pages |-> pages[name]]
    /\ notes = [name \in DOMAIN notes |-> notes[name]]
    /\ DOMAIN pages \subseteq Paged \cup Listings /\ DOMAIN notes \subseteq Paged

\* Pages are as they should be.
Right(reg, n, names) ==
    \A name \in names : name \in DOMAIN pages /\ pages[name] = Page(reg, n, name)

\* What a run has written so far.
RunIsTrue(r) ==
    LET reg == run[r].reg
        n   == run[r].n
    IN  /\ Right(reg, n, ToSet(Names(reg, n)) \ ToSet(run[r].todo))
        /\ ToSet(run[r].todo) \subseteq ToSet(Names(reg, n))
        /\ run[r].step \in {"page", "note"} <=> run[r].todo # <<>>
        /\ run[r].step = "note" =>
               LET name == Head(run[r].todo)
               IN  Right(reg, n, {name}) /\ (name \in DOMAIN notes => notes[name] = "own")
        /\ run[r].step \in {"top", "queue", "receipt"} => DOMAIN pages \subseteq Active(r)
        /\ run[r].step \in {"queue", "receipt"} => Right(reg, n, {<<"top">>})
        /\ run[r].step = "receipt" => Right(reg, n, {<<"queue">>})

\* As long as nothing was written after it, the receipt says what the pages are.
ReceiptIsTrue ==
    Settled =>
        LET all == ToSet(Names(receipt.reg, receipt.n)) \cup Listings
        IN  /\ receipt.reg \in ValidRegistries /\ receipt.n \in 1..Len(Ledger)
            /\ DOMAIN pages = all /\ Right(receipt.reg, receipt.n, all)

ProjectionInv ==
    /\ TypeOK /\ Typed /\ ReceiptIsTrue
    /\ \A r \in Runner : lock = r /\ run[r].step # "missing" => RunIsTrue(r)
==============================================================================
