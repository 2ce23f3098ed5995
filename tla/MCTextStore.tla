----------------------------- MODULE MCTextStore -----------------------------
(***************************************************************************)
(* Values for TLC of the constants of TextStore that a configuration       *)
(* cannot write down.                                                      *)
(***************************************************************************)
EXTENDS TextStore, TLC

CONSTANTS
    p1, p2, r1,              \* processes, a reader
    s1, s2, k1, k2, a, b,    \* streams or files, keys, contents or authors
    u1, u2, l1, l2, a1,      \* URLs, labels, an alias
    t1, t2, x, c1, who,      \* topics, a name that is not one, a channel, a person
    v1, v2                   \* values

------------------------------------------------------------------------------
(***************************************************************************)
(* The snapshot ledger                                                     *)
(***************************************************************************)

I(key, stream, content) == [key |-> key, stream |-> stream, content |-> content]
J(kind_of, items) == [kind |-> kind_of, items |-> items]

\* Two writers that race for one old ledger and one target.
RacingJobs ==
    {J("message", <<I(k1, s1, a), I(k1, s1, b)>>),
     J("legacy", <<I(k1, s1, a), I(k2, s2, a)>>), J("imported", <<I(k1, s1, a)>>)}

\* A batch whose first row a reader may see alone, and rows to revoke.
ReaderJobs ==
    {J("observed", <<I(Nothing, s1, a)>>), J("message", <<I(k1, s1, a), I(k1, s1, b)>>)}

\* An edit within a batch and across calls, an old ledger taken over for two
\* targets, with the same and with other content, an import, a raw row.
Jobs ==
    {J("observed", <<I(Nothing, s1, a)>>), J("observed", <<I(Nothing, s2, b)>>),
     J("message", <<I(k1, s1, a), I(k1, s1, b)>>), J("message", <<I(k1, s1, b)>>),
     J("legacy", <<I(k1, s1, a), I(k2, s2, a)>>), J("legacy", <<I(k1, s1, b)>>),
     J("imported", <<I(k1, s1, a)>>), J("raw", <<I(k1, s2, b)>>)}

\* A ledger with an unchained row, and a chained row that was written twice.
RepeatedRow ==
    LET first == [id |-> [kind |-> "raw", stream |-> s2, key |-> k2, seq |-> 0],
                  stream |-> s2, seq |-> 0, prev |-> Nothing, content |-> a,
                  before |-> Nothing, duplicate |-> FALSE, hashed |-> TRUE]
        next  == [id |-> [kind |-> "observed", stream |-> s2, key |-> Nothing, seq |-> 2],
                  stream |-> s2, seq |-> 2, prev |-> first.id, content |-> a,
                  before |-> a, duplicate |-> TRUE, hashed |-> TRUE]
    IN  <<first, next, next>>

\* Several writers, a reader beside a writer, and every kind of call on a ledger that
\* is not empty.
Book(proc, reader, job, first, max_rows) ==
    [proc |-> proc, reader |-> reader, stream |-> {s1, s2}, alias |-> s2, key |-> {k1, k2},
     content |-> {a, b}, job |-> job, first |-> first, max_rows |-> max_rows, max_crashes |-> 1]

LedgersHere ==
    "ledger" :> Book({p1, p2}, {}, RacingJobs, <<>>, 3)
    @@ "ledger reader" :> Book({p1}, {r1}, ReaderJobs, <<>>, 4)
    @@ "ledger jobs" :> Book({p1}, {}, Jobs, RepeatedRow, 6)

------------------------------------------------------------------------------
(***************************************************************************)
(* The registry of targets                                                 *)
(***************************************************************************)

\* A row with URL and title, with one of them, with neither, without a key; a
\* manifest with its URL and without; an artifact with a URL, with a key only,
\* and an unknown one.
ArtifactsHere ==
    {[kind |-> "snapshot", key |-> k1, url |-> u1, title |-> l1],
     [kind |-> "snapshot", key |-> k1, url |-> Nothing, title |-> Nothing],
     [kind |-> "snapshot", key |-> k2, url |-> Nothing, title |-> l1],
     [kind |-> "snapshot", key |-> Nothing, url |-> u1, title |-> l1],
     [kind |-> "manifest", hash |-> k1, url |-> u1, title |-> Nothing],
     [kind |-> "manifest", hash |-> k1, url |-> Nothing, title |-> Nothing],
     [kind |-> "other", known |-> TRUE, url |-> u1, key |-> Nothing],
     [kind |-> "other", known |-> TRUE, url |-> Nothing, key |-> k1],
     [kind |-> "other", known |-> FALSE, url |-> u1, key |-> k1]}

Given(url) == [url |-> url, padded |-> FALSE]
Fact(key, url, label, aliases) ==
    [key |-> key, url |-> url, label |-> label, aliases |-> aliases]

KnownFacts ==
    {Fact(k1, Given(u1), l1, {}), Fact(k1, Nothing, l2, {a1}),
     Fact(k1, Given(u2), Nothing, {}), Fact(k2, Nothing, l1, {})}

KeysOf == u1 :> k1 @@ u2 :> k2

------------------------------------------------------------------------------
(***************************************************************************)
(* The import of other ledgers                                             *)
(***************************************************************************)

\* Two importers, and one beside a writer.
Importers(importer, source, writer, max_changes) ==
    [importer |-> importer, source |-> source, writer |-> writer,
     max_changes |-> max_changes, max_crashes |-> 1]

ImportingsHere ==
    "imports" :> Importers({p1, p2}, {s1, s2}, {}, 1)
    @@ "import and writer" :> Importers({p1}, {s1}, {r1}, 0)

------------------------------------------------------------------------------
(***************************************************************************)
(* The knowledge projection                                                *)
(***************************************************************************)

Line(kind_of, name, person, tags) ==
    [kind |-> kind_of, name |-> name, person |-> person, tags |-> tags]
Time == Line("time", Nothing, FALSE, {})
Says(tags) == Line("plain", Nothing, FALSE, tags)

\* A message and its later version, and between them a snapshot of a conversation.
ThreeRecords ==
    <<[kind |-> "message", target |-> c1, message |-> 1, seq |-> 1, author |-> a,
       text |-> <<Says({x})>>],
      [kind |-> "snapshot", target |-> c1, seq |-> 2,
       text |-> <<Says({t1}), Line("plain", a, TRUE, {}), Time, Says({t1}),
                  Line("colon", b, TRUE, {}), Line("plain", x, FALSE, {}), Time,
                  Line("colon", x, FALSE, {t2})>>],
      [kind |-> "message", target |-> c1, message |-> 1, seq |-> 3, author |-> b,
       text |-> <<Says({t1})>>]>>

Reviewed(people, aliases, broader, related, assigned) ==
    [people |-> people, aliases |-> aliases, broader |-> broader, related |-> related,
     assigned |-> assigned]
NoRelation == t1 :> {} @@ t2 :> {}

\* Relations named from one side, people and an ambiguous alias, a cycle.
RegistriesHere ==
    {Reviewed({}, {<<t1, t1>>, <<t2, t2>>}, t1 :> {t2} @@ t2 :> {}, t1 :> {} @@ t2 :> {t1},
              <<2, 1>> :> {t2}),
     Reviewed({<<<<c1, b>>, who>>, <<<<c1, a>>, who>>}, {<<t1, t1>>, <<t2, t2>>, <<x, t1>>},
              NoRelation, NoRelation, <<2, 2>> :> {t2}),
     Reviewed({}, {<<t1, t1>>, <<t2, t2>>, <<x, t1>>, <<x, t2>>},
              t1 :> {t2} @@ t2 :> {t1}, NoRelation, [z \in {} |-> z])}

------------------------------------------------------------------------------
(***************************************************************************)
(* Local stores, and the intake of a URL                                   *)
(***************************************************************************)

Read(start, end) == [start |-> start, end |-> end]

R(capture, at, span, event, parsed, state) ==
    [capture |-> capture, at |-> at, start |-> span.start, end |-> span.end,
     event |-> event, parsed |-> parsed, state |-> state]

\* A row that names half of what its capture covers; one of another capture; an
\* unchained row without a time; an invalid row.
HalfRow == R(k1, 0, Read(1, Nothing), "message", TRUE, "sound")
OtherRow == R(k2, 1, Read(2, 3), "message", TRUE, "sound")
LooseRow == R(Nothing, Nothing, Read(Nothing, Nothing), "none", FALSE, "sound")
InvalidRow == R(Nothing, 1, Read(Nothing, Nothing), "observed", TRUE, "invalid")

Receipt(capture, valid, span) ==
    [capture |-> capture, valid |-> valid, start |-> span.start, end |-> span.end]

Asked(command, cache, text, sync, span) ==
    [kind |-> command, cache |-> cache, text |-> text, sync |-> sync,
     start |-> span.start, end |-> span.end, confirmed |-> command = "coverage",
     draft |-> FALSE, context |-> FALSE, understood |-> FALSE, route |-> FALSE]

Clips == {<<a, b>>, <<b, a, b>>}

\* Every command; summaries of what one capture covers and of what two cover.
AsksHere ==
    {Asked("verify", TRUE, FALSE, sync, Read(1, 1)) : sync \in BOOLEAN}
    \cup {Asked("verify", FALSE, FALSE, FALSE, Read(1, 1)),
          Asked("coverage", TRUE, FALSE, FALSE, Read(1, 2)),
          Asked("coverage", TRUE, FALSE, FALSE, Read(1, 3)),
          Asked("fast", TRUE, TRUE, FALSE, Read(1, 1)),
          Asked("book", TRUE, FALSE, FALSE, Read(1, 1)),
          Asked("plan", TRUE, FALSE, FALSE, Read(1, 1)),
          Asked("bridge", FALSE, FALSE, FALSE, Read(1, 1)),
          [Asked("bridge", FALSE, TRUE, FALSE, Read(1, 1)) EXCEPT
               !.draft = TRUE, !.context = TRUE, !.understood = TRUE],
          [Asked("bridge", FALSE, FALSE, FALSE, Read(1, 1)) EXCEPT
               !.draft = TRUE, !.understood = TRUE]}

CapturesHere == k1 :> Read(1, 2) @@ k2 :> Read(2, 3)
CacheHere == {HalfRow, LooseRow}
LedgerHere == {OtherRow, InvalidRow}
ReceiptsHere ==
    {Receipt(k1, TRUE, Read(1, 2)), Receipt(k2, FALSE, Read(Nothing, Nothing))}

\* The processes are interchangeable in every part: an instance with one of them has
\* no state in which the other occurs.
Processes == Permutations({p1, p2})
==============================================================================
