---------------------------- MODULE SnapshotLedger ----------------------------
(***************************************************************************)
(* text-snapshots.ndjson (core.py) and what feeds it: observations of      *)
(* visible text, ingested messages, re-chained observations of an older    *)
(* ledger (ingest.py), rows imported from another ledger, unchained rows,  *)
(* and the revocation of an invalid row that another program appended.     *)
(*                                                                         *)
(* Rows of one stream are chained by sequence number and by the hash of    *)
(* the row before.  A row's hash is modelled by its event id, which no two *)
(* rows of a valid ledger share.  Writers hold a lock that nobody waits    *)
(* for; readers take none.  Nobody looks how a file ends: a row without    *)
(* its newline is read like any other, and what is appended next is glued  *)
(* to it, after which the file can be read by nobody.                      *)
(***************************************************************************)
EXTENDS Integers, Sequences, FiniteSets

CONSTANTS
    Proc,          \* writers
    Reader,        \* readers, which take no lock
    Stream,        \* targets
    Alias,         \* the stream of another URL of the same thread
    Key,           \* message ids, and event ids of other ledgers
    Content,       \* texts
    Job,           \* what writers may be called with
    FirstLedger,   \* a ledger to begin with
    MaxRows,       \* bound: rows
    MaxCrashes,    \* bound: writers that die
    Nothing

Item == [key : Key \cup {Nothing}, stream : Stream, content : Content]
JobKind == {"observed", "message", "legacy", "imported", "raw"}

\* Rows that carry the hash of the row before; "raw" rows are not chained.
Chained == {"observed", "message", "legacy", "imported", "revocation", "invalid"}
Kind == Chained \cup {"raw"}

\* A revocation is named by the invalid row it revokes.
InvalidId == [kind : {"invalid"}, stream : {Alias}, key : {Nothing}, seq : Nat]
RowId == [kind : Kind, stream : Stream, key : Key \cup {Nothing} \cup InvalidId, seq : Nat]
Row == [id : RowId, stream : Stream, seq : Nat, prev : RowId \cup {Nothing},
        content : Content, before : Content \cup {Nothing}, duplicate : BOOLEAN,
        hashed : BOOLEAN]

\* What a writer is doing: before it has the lock, and with it.
Calls ==
    [step : {"resolve", "begin"}, job : Job, todo : SUBSET Stream]
    \cup [step : {"register"}, job : Job, todo : SUBSET Stream, target : Stream]
    \cup [step : {"append", "answer"}, rows : Seq(Row), ids : SUBSET RowId]

VARIABLES
    ledger,      \* the rows, up to a line that cannot be read
    tail,        \* how the file ends: "ended"; "open", the last row has no newline;
                 \* "cut", there is a line that cannot be read
    lock,        \* the writer in its transaction
    call,        \* what each writer is doing
    registered,     \* the targets that targets.ndjson has entries of,
    registry_tail,  \* and how that file ends
    answered,    \* history: ids of rows that a call has reported as saved
    reading,     \* rows a reader has read and not checked
    shown,       \* rows each reader has returned last
    crashes

vars == <<ledger, tail, lock, call, registered, registry_tail, answered, reading, shown,
          crashes>>
file == <<ledger, tail>>
targets == <<registered, registry_tail>>

Init ==
    /\ ledger = FirstLedger /\ tail = "ended"
    /\ lock = Nothing /\ call = [p \in Proc |-> Nothing]
    /\ registered = <<>> /\ registry_tail = "ended"
    /\ answered = {}
    /\ reading = [r \in Reader |-> Nothing] /\ shown = [r \in Reader |-> {}]
    /\ crashes = 0

------------------------------------------------------------------------------
(***************************************************************************)
(* The chain                                                               *)
(***************************************************************************)

IsChained(row) == row.id.kind \in Chained

\* The row before a revocation is revoked by it.
IsRevoked(rows, i) == i + 1 \in DOMAIN rows /\ rows[i + 1].id.kind = "revocation"

\* The rows without the last one.
ButLast(rows) == SubSeq(rows, 1, Len(rows) - 1)

\* _logical_text_snapshot_rows: an exact replay of a chained row does not count.
IsReplay(rows, i) ==
    IsChained(rows[i]) /\ \E j \in 1..(i - 1) : rows[j].id = rows[i].id

\* The rows that make up the head of their stream.
Counted(rows, s) ==
    {i \in DOMAIN rows : /\ rows[i].stream = s
                         /\ ~IsRevoked(rows, i) /\ ~IsReplay(rows, i)}

Before(set, i) == {j \in set : j < i}

\* _snapshot_stream_history: revoked rows are part of it.
History(rows, s) == {i \in DOMAIN rows : rows[i].stream = s /\ ~IsReplay(rows, i)}

LastOf(set) == CHOOSE i \in set : \A j \in set : j <= i

\* The hash a next row has to name.
HeadHash(rows, set) == IF set = {} THEN Nothing ELSE rows[LastOf(set)].id

\* _valid_revocation_pair: the revoked row is one whose hash is wrong, of another
\* URL of the thread, that claims to follow the row before it.
ValidPair(previous, invalid, revocation) ==
    /\ previous.id.kind \in {"observed", "legacy", "imported"}
    /\ previous.stream # invalid.stream /\ invalid.stream = Alias
    /\ invalid.id.kind = "invalid" /\ ~invalid.hashed
    /\ invalid.seq = previous.seq + 1 /\ invalid.prev = previous.id
    /\ revocation.stream = previous.stream
    /\ revocation.seq = previous.seq + 1 /\ revocation.prev = previous.id
    /\ revocation.id.key = invalid.id

\* _validate_text_snapshot_chain.
ValidChain(rows) ==
    /\ \A i, j \in DOMAIN rows : rows[i].id = rows[j].id => rows[i] = rows[j]
    /\ \A i \in DOMAIN rows :
           /\ rows[i].id.kind = "revocation" =>
                  i > 2 /\ ValidPair(rows[i - 2], rows[i - 1], rows[i])
           /\ (IsChained(rows[i]) /\ ~IsRevoked(rows, i) /\ ~IsReplay(rows, i)) =>
                  LET earlier == Before(Counted(rows, rows[i].stream), i) IN
                  /\ rows[i].hashed
                  /\ rows[i].seq = Cardinality(earlier) + 1
                  /\ rows[i].prev = HeadHash(rows, earlier)

\* A ledger to begin with is a valid one of rows that were observed or put in.
LedgerAssumption ==
    /\ Alias \in Stream /\ MaxRows \in Nat /\ MaxCrashes \in Nat
    /\ Nothing \notin Stream \cup Key \cup Content \cup Proc \cup Calls \cup Seq(Row)
    /\ Job \subseteq [kind : JobKind, items : Seq(Item) \ {<<>>}]
    /\ FirstLedger \in Seq(Row) /\ ValidChain(FirstLedger)
    /\ \A i \in DOMAIN FirstLedger :
           LET row == FirstLedger[i] IN
           /\ row.id.kind \in {"observed", "raw"} /\ row.id.stream = row.stream
           /\ row.id.kind = "observed" => row.id.seq = row.seq

\* load_content_snapshot_records: revocations and what they revoke are no content.
ContentRows(rows) ==
    {rows[i] : i \in {k \in DOMAIN rows : /\ ~IsRevoked(rows, k)
                                          /\ rows[k].id.kind # "revocation"}}

------------------------------------------------------------------------------
(***************************************************************************)
(* Building rows from what a call was given                                *)
(***************************************************************************)

\* Message and observation ids depend on the sequence, so a repeated call makes new
\* rows; the ids of taken-over rows depend on where they come from.
EventId(kind, item, seq) ==
    [kind |-> kind, stream |-> item.stream, key |-> item.key,
     seq |-> IF kind \in {"observed", "message"} THEN seq ELSE 0]

\* A message repeats the last version of the same message; any other row repeats
\* the row before it in the stream.
IsDuplicate(rows, kind, item) ==
    LET earlier ==
            {i \in History(rows, item.stream) :
                kind = "message" => rows[i].id.kind = "message"
                                    /\ rows[i].id.key = item.key}
    IN  earlier # {} /\ rows[LastOf(earlier)].content = item.content

NewRow(rows, kind, item) ==
    LET counted == Counted(rows, item.stream)
        history == History(rows, item.stream)
        seq     == Cardinality(counted) + 1
    IN  [id |-> EventId(kind, item, seq), stream |-> item.stream,
         seq |-> IF kind = "raw" THEN 0 ELSE seq,
         prev |-> IF kind = "raw" THEN Nothing ELSE HeadHash(rows, counted),
         content |-> item.content,
         before |-> IF history = {} THEN Nothing ELSE rows[LastOf(history)].content,
         duplicate |-> IsDuplicate(rows, kind, item), hashed |-> TRUE]

TakenOver(kind, item) == [kind |-> kind, stream |-> item.stream, key |-> item.key,
                          seq |-> 0]

\* A row that was taken over before, by its origin.
Present(rows, kind, item) ==
    \E i \in DOMAIN rows : rows[i].id = TakenOver(kind, item)

\* An old event id that was taken over with other content, or for another target.
Conflicts(rows, job) ==
    \E k \in DOMAIN job.items, i \in DOMAIN rows :
        LET item == job.items[k] IN
        /\ rows[i].id.kind = job.kind /\ job.kind \in {"legacy", "imported", "raw"}
        /\ rows[i].id.key = item.key
        /\ \/ rows[i].id.stream = item.stream /\ rows[i].content # item.content
           \/ job.kind = "legacy" /\ rows[i].id.stream # item.stream

\* The ledger with the rows of a call: one transaction for a batch.
Extended(rows, job) ==
    LET taken[n \in 0..Len(job.items)] ==
            IF n = 0 THEN rows
            ELSE IF Present(taken[n - 1], job.kind, job.items[n]) THEN taken[n - 1]
            ELSE Append(taken[n - 1],
                        NewRow(taken[n - 1], job.kind, job.items[n]))
    IN  taken[Len(job.items)]

IdsOf(rows) == {rows[i].id : i \in DOMAIN rows}

\* What the rows of a call are called once they are saved.
SavedIds(rows, job, added) ==
    IdsOf(added) \cup {TakenOver(job.kind, job.items[k]) :
                       k \in {n \in DOMAIN job.items :
                                  Present(rows, job.kind, job.items[n])}}

------------------------------------------------------------------------------
(***************************************************************************)
(* Writers                                                                 *)
(***************************************************************************)

Goes(p, state) == call' = [call EXCEPT ![p] = state]

InStep(p, step) == call[p] # Nothing /\ call[p].step = step

Targets(job) == {job.items[k].stream : k \in DOMAIN job.items}

Registers(job) == job.kind \in {"message", "legacy"}

\* ingest_capture, snapshot_visible_text, append_snapshot_like_record: an old
\* ledger is compared with this one before anything is written.
StartCall(p, job) ==
    /\ call[p] = Nothing
    /\ Len(ledger) + Len(job.items) <= MaxRows
    /\ job.kind = "legacy" => tail # "cut" /\ ~Conflicts(ledger, job)
    /\ Goes(p, [step |-> IF Registers(job) THEN "resolve" ELSE "begin", job |-> job,
                todo |-> IF Registers(job) THEN Targets(job) ELSE {}])
    /\ UNCHANGED <<file, lock, targets, answered, reading, shown, crashes>>

Known(s) == \E k \in DOMAIN registered : registered[k] = s

\* register_target reads the registry; one that cannot be read raises ...
ResolveTarget(p) ==
    /\ InStep(p, "resolve")
    /\ \E s \in call[p].todo :
           IF registry_tail = "cut" THEN Goes(p, Nothing)
           ELSE IF Known(s)
           THEN Goes(p, [step |-> IF call[p].todo = {s} THEN "begin" ELSE "resolve",
                         job |-> call[p].job, todo |-> call[p].todo \ {s}])
           ELSE Goes(p, [step |-> "register", job |-> call[p].job,
                         todo |-> call[p].todo \ {s}, target |-> s])
    /\ UNCHANGED <<file, lock, targets, answered, reading, shown, crashes>>

\* What is written after an entry without a newline spoils it, and itself.
SpoilsRegistry ==
    /\ registered' = IF registry_tail = "open" THEN ButLast(registered) ELSE registered
    /\ registry_tail' = "cut"

\* ... and appends to it, without a lock, and nobody looks whether it can be read.
RegisterTarget(p) ==
    /\ InStep(p, "register")
    /\ IF registry_tail = "ended"
       THEN registered' = Append(registered, call[p].target) /\ UNCHANGED registry_tail
       ELSE SpoilsRegistry
    /\ Goes(p, [step |-> IF call[p].todo = {} THEN "begin" ELSE "resolve",
                job |-> call[p].job, todo |-> call[p].todo])
    /\ UNCHANGED <<file, lock, answered, reading, shown, crashes>>

Usable(rows) == tail # "cut" /\ ValidChain(rows)

\* Under the lock the ledger is read and the rows are built on it.  A lock that is
\* taken, a ledger that is damaged and a row bound to other content raise.
BeginTransaction(p) ==
    /\ InStep(p, "begin")
    /\ LET job   == call[p].job
           added == SubSeq(Extended(ledger, job), Len(ledger) + 1,
                           Len(Extended(ledger, job)))
       IN  IF lock # Nothing \/ ~Usable(ledger) \/ Conflicts(ledger, job)
           THEN Goes(p, Nothing) /\ UNCHANGED lock
           ELSE /\ lock' = p
                /\ Goes(p, [step |-> IF added = <<>> THEN "answer" ELSE "append",
                            rows |-> added,
                            ids |-> SavedIds(ledger, job, added)])
    /\ UNCHANGED <<file, targets, answered, reading, shown, crashes>>

\* The predecessor must be the head of its stream.
Revocable(rows) ==
    /\ Len(rows) > 1 /\ rows[Len(rows)].id.kind = "invalid"
    /\ LET previous == rows[Len(rows) - 1]
           counted  == Counted(ButLast(rows), previous.stream)
       IN  /\ ValidChain(ButLast(rows))
           /\ HeadHash(rows, counted) = previous.id
           /\ Cardinality(counted) = previous.seq

RevocationOf(rows) ==
    LET previous == rows[Len(rows) - 1] IN
    [id |-> [kind |-> "revocation", stream |-> previous.stream,
             key |-> rows[Len(rows)].id, seq |-> 0],
     stream |-> previous.stream, seq |-> previous.seq + 1, prev |-> previous.id,
     content |-> previous.content, before |-> previous.content,
     duplicate |-> FALSE, hashed |-> TRUE]

\* revoke_invalid_snapshot_observation: under the lock, when the last row is a
\* revocable one, newline and all; the chain with the revocation must be valid.
BeginRevocation(p) ==
    /\ call[p] = Nothing /\ lock = Nothing /\ tail = "ended"
    /\ Revocable(ledger)
    /\ ValidChain(Append(ledger, RevocationOf(ledger)))
    /\ lock' = p
    /\ Goes(p, [step |-> "append", rows |-> <<RevocationOf(ledger)>>, ids |-> {}])
    /\ UNCHANGED <<file, targets, answered, reading, shown, crashes>>

\* What is written after a row without its newline spoils it, and itself.
Spoils == /\ ledger' = IF tail = "open" THEN ButLast(ledger) ELSE ledger
          /\ tail' = "cut"

\* Mutant of AppendRows: one row of a batch is written.
AppendFirstRow(p) ==
    /\ InStep(p, "append") /\ tail = "ended"
    /\ ledger' = Append(ledger, call[p].rows[1])
    /\ Goes(p, [call[p] EXCEPT !.step = "answer"])
    /\ UNCHANGED <<tail, lock, targets, answered, reading, shown, crashes>>

\* All rows are written and read back, which raises if they were glued to a row.
AppendRows(p) ==
    /\ InStep(p, "append")
    /\ IF tail = "ended"
       THEN /\ ledger' = ledger \o call[p].rows
            /\ Goes(p, [call[p] EXCEPT !.step = "answer"])
            /\ UNCHANGED <<tail, lock>>
       ELSE Spoils /\ Goes(p, Nothing) /\ lock' = Nothing
    /\ UNCHANGED <<targets, answered, reading, shown, crashes>>

\* A write fails, the file is truncated to what it was, and the call raises.
AppendFails(p) ==
    /\ InStep(p, "append")
    /\ Goes(p, Nothing) /\ lock' = Nothing
    /\ UNCHANGED <<file, targets, answered, reading, shown, crashes>>

Answer(p) ==
    /\ InStep(p, "answer")
    /\ answered' = answered \cup call[p].ids
    /\ Goes(p, Nothing) /\ lock' = Nothing
    /\ UNCHANGED <<file, targets, reading, shown, crashes>>

\* A death in an append of rows: some of them are written, of the last one perhaps a
\* part, or all but the newline.
DiesWriting(rows) ==
    IF tail = "ended"
    THEN \E k \in 0..Len(rows) :
             /\ ledger' = ledger \o SubSeq(rows, 1, k)
             /\ \/ tail' = "ended"
                \/ tail' = "open" /\ k > 0
                \/ tail' = "cut" /\ k < Len(rows)
    ELSE Spoils \/ UNCHANGED file

\* The same in an append to the registry.
DiesRegistering(s) ==
    \/ UNCHANGED targets
    \/ SpoilsRegistry
    \/ /\ registry_tail = "ended" /\ registered' = Append(registered, s)
       /\ registry_tail' \in {"ended", "open"}

\* A writer dies; the operating system releases its lock.
WriterDies(p) ==
    /\ crashes < MaxCrashes /\ call[p] # Nothing
    /\ crashes' = crashes + 1
    /\ Goes(p, Nothing)
    /\ lock' = IF lock = p THEN Nothing ELSE lock
    /\ IF InStep(p, "append") THEN DiesWriting(call[p].rows) ELSE UNCHANGED file
    /\ IF InStep(p, "register") THEN DiesRegistering(call[p].target)
       ELSE UNCHANGED targets
    /\ UNCHANGED <<answered, reading, shown>>

\* Another program has appended a row for an alias of the last row's thread, with a
\* hash that is wrong (tests/test_invalid_observation_revocation.py).
WriteInvalid(c) ==
    /\ lock = Nothing /\ tail = "ended" /\ ledger # <<>> /\ Len(ledger) + 1 < MaxRows
    /\ \A i \in DOMAIN ledger : ledger[i].id.kind # "invalid"
    /\ LET last == ledger[Len(ledger)] IN
       /\ last.id.kind \in {"observed", "legacy", "imported"} /\ last.stream # Alias
       /\ ledger' = Append(ledger,
              [id |-> [kind |-> "invalid", stream |-> Alias, key |-> Nothing,
                       seq |-> last.seq + 1],
               stream |-> Alias, seq |-> last.seq + 1, prev |-> last.id,
               content |-> c, before |-> last.content,
               duplicate |-> FALSE, hashed |-> FALSE])
    /\ UNCHANGED <<tail, lock, call, targets, answered, reading, shown, crashes>>

------------------------------------------------------------------------------
(***************************************************************************)
(* A reader without the lock: load_content_snapshot_records                *)
(***************************************************************************)

\* What a reader may find: it may see some rows of an append that is under way, also
\* of one that fails.
Appending == {p \in Proc : InStep(p, "append") /\ tail = "ended"}

Visible ==
    {ledger} \cup UNION {{ledger \o SubSeq(call[p].rows, 1, k) : k \in 1..Len(call[p].rows)} :
                         p \in Appending}

\* A line that cannot be read raises.
ReadRows(r) ==
    /\ reading[r] = Nothing /\ tail # "cut"
    /\ \E rows \in Visible : reading' = [reading EXCEPT ![r] = rows]
    /\ UNCHANGED <<file, lock, call, targets, answered, shown, crashes>>

\* Mutant of CheckReading: only lines are counted.
CheckReadingLines(r) ==
    /\ reading[r] # Nothing
    /\ shown' = [shown EXCEPT ![r] = IF Len(ledger) = Len(reading[r])
                                     THEN ContentRows(reading[r]) ELSE {}]
    /\ reading' = [reading EXCEPT ![r] = Nothing]
    /\ UNCHANGED <<file, lock, call, targets, answered, crashes>>

HasRevocation(rows) == \E i \in DOMAIN rows : rows[i].id.kind = "revocation"

\* The chain is validated; with a revocation the file is read again, and must have
\* as many lines.  Otherwise it raises and returns nothing.
CheckReading(r) ==
    /\ reading[r] # Nothing
    /\ \E now \in Visible :
           shown' = [shown EXCEPT ![r] =
                        IF /\ ValidChain(reading[r])
                           /\ HasRevocation(reading[r]) =>
                                  tail # "cut" /\ Len(now) = Len(reading[r])
                        THEN ContentRows(reading[r]) ELSE {}]
    /\ reading' = [reading EXCEPT ![r] = Nothing]
    /\ UNCHANGED <<file, lock, call, targets, answered, crashes>>

Next ==
    \/ \E p \in Proc :
          \/ \E job \in Job : StartCall(p, job)
          \/ ResolveTarget(p) \/ RegisterTarget(p)
          \/ BeginTransaction(p) \/ BeginRevocation(p)
          \/ AppendRows(p) \/ AppendFails(p) \/ Answer(p) \/ WriterDies(p)
    \/ \E c \in Content : WriteInvalid(c)
    \/ \E r \in Reader : ReadRows(r) \/ CheckReading(r)

Spec == Init /\ [][Next]_vars

------------------------------------------------------------------------------
(***************************************************************************)
(* Properties                                                              *)
(***************************************************************************)

\* Types of the files and of the calls; the lock is held exactly by the writer in
\* a transaction.
TypeOK ==
    /\ ledger \in Seq(Row)
    /\ {tail, registry_tail} \subseteq {"ended", "open", "cut"}
    /\ lock \in Proc \cup {Nothing}
    /\ registered \in Seq(Stream) /\ crashes \in 0..MaxCrashes
    /\ \A p \in Proc : (InStep(p, "append") \/ InStep(p, "answer")) <=> lock = p

\* Whoever writes, races, fails or dies: the rows, up to a line that cannot be read, are
\* a valid chain, but for an invalid row another program put at the end, which stops all
\* writers until it is revoked (_append_text_snapshots_transaction).
ChainStaysValid ==
    \/ ValidChain(ledger)
    \/ ledger[Len(ledger)].id.kind = "invalid" /\ ValidChain(ButLast(ledger))

\* A row of an older or another ledger is taken over once per target, however often
\* and by whomever the call is repeated (_build_legacy_observation_events,
\* _import_chained_snapshot).
TakenOverOnce ==
    \A i, j \in DOMAIN ledger :
        (/\ ledger[i].id.kind = ledger[j].id.kind
         /\ ledger[i].id.kind \in {"legacy", "imported"}
         /\ ledger[i].id.key = ledger[j].id.key
         /\ ledger[i].stream = ledger[j].stream) => i = j

\* A message is marked as a duplicate exactly when its previous version in the
\* stream has the same text: an edit, and an edit that is undone, are changes
\* (_build_message_events).
Versions(rows, i) ==
    {j \in 1..(i - 1) : /\ rows[j].id.kind = "message"
                        /\ rows[j].stream = rows[i].stream
                        /\ rows[j].id.key = rows[i].id.key}

MarkedAsEdited(rows) ==
    \A i \in DOMAIN rows : rows[i].id.kind = "message" =>
        (rows[i].duplicate <=>
            \E j \in Versions(rows, i) : /\ \A k \in Versions(rows, i) : k <= j
                                         /\ rows[j].content = rows[i].content)

DuplicateMeansUnedited == MarkedAsEdited(ledger)

\* What a call has reported as saved is among the content from then on: it is
\* neither lost with a writer that dies nor revoked with somebody else's row.  At most
\* one such row is spoilt, when a death had left it without its newline and the next
\* append was glued to it; nobody can read that ledger any more.
AnsweredStaysContent ==
    LET lost == answered \ {row.id : row \in ContentRows(ledger)} IN
    /\ tail # "cut" => lost = {}
    /\ \A a, b \in lost : a = b

RowsRegistered(rows) ==
    registry_tail # "cut" => \A i \in DOMAIN rows :
        rows[i].id.kind \in {"message", "legacy"} => Known(rows[i].stream)

\* The registry, as long as it can be read, knows every target that messages were
\* ingested for, also after a call that failed or died half way (ingest_capture
\* registers first).
IngestedIsRegistered == RowsRegistered(ledger)

\* No reader is shown an invalid row, revoked or not yet, however its two reads
\* fall among the writers' steps (load_content_snapshot_records).
NoReaderSeesInvalid ==
    \A r \in Reader : \A row \in shown[r] : row.id.kind # "invalid"

------------------------------------------------------------------------------
(***************************************************************************)
(* The inductive invariant                                                 *)
(***************************************************************************)

\* How the id of a row goes with the row.
OwnId(row) ==
    /\ row.id.stream = row.stream
    /\ row.id.kind \in {"observed", "message"} => row.id.seq = row.seq
    /\ row.id.kind \in {"legacy", "imported"} => row.id.seq = 0
    /\ row.id.kind = "invalid" => row.id \in InvalidId /\ ~row.hashed

OneInvalid(rows) ==
    \A i, j \in DOMAIN rows :
        rows[i].id.kind = "invalid" /\ rows[j].id.kind = "invalid" => i = j

ChainHolds(rows) ==
    \/ ValidChain(rows)
    \/ rows # <<>> /\ rows[Len(rows)].id.kind = "invalid" /\ ValidChain(ButLast(rows))

\* What the writers have appended to the first ledger: ids that no other row has.
Written(rows) ==
    /\ rows \in Seq(Row) /\ Len(rows) >= Len(FirstLedger)
    /\ \A i \in DOMAIN rows :
           /\ OwnId(rows[i])
           /\ rows[i].id.kind \in {"observed", "raw"} \/ i > Len(FirstLedger)
    /\ \A i, j \in DOMAIN rows :
           rows[i].id = rows[j].id /\ j > Len(FirstLedger) => i = j
    /\ OneInvalid(rows) /\ ChainHolds(rows) /\ MarkedAsEdited(rows)

SoundIds(rows) ==
    {rows[i].id : i \in {n \in DOMAIN rows :
                         rows[n].id.kind \notin {"invalid", "revocation"}}}

Typed ==
    /\ {tail, registry_tail} \subseteq {"ended", "open", "cut"}
    /\ lock \in Proc \cup {Nothing}
    /\ registered \in Seq(Stream) /\ crashes \in 0..MaxCrashes
    /\ call \in [Proc -> Calls \cup {Nothing}]
    /\ reading \in [Reader -> Seq(Row) \cup {Nothing}]
    /\ shown \in [Reader -> SUBSET Row]

\* The targets that a call has still to register.
Unregistered(c) ==
    IF c.step = "register" THEN c.todo \cup {c.target} ELSE c.todo
RegistersFirst ==
    \A p \in Proc :
        InStep(p, "resolve") \/ InStep(p, "register") \/ InStep(p, "begin") =>
            /\ call[p].step = "begin" => call[p].todo = {}
            /\ Registers(call[p].job) =>
                   \A s \in Targets(call[p].job) \ Unregistered(call[p]) :
                       registry_tail # "cut" => Known(s)

\* Whatever part of an append gets written, the ledger is what it should be.
AppendsSoundly(c) ==
    /\ \A n \in 0..Len(c.rows) : Written(ledger \o SubSeq(c.rows, 1, n))
    /\ RowsRegistered(c.rows)
    /\ c.ids \subseteq SoundIds(ledger \o c.rows)

\* A row without its newline may be taken away again, and of the ids answered at most
\* its own with it.
AnsweredSoundly ==
    /\ tail = "ended" => answered \subseteq SoundIds(ledger)
    /\ tail = "open" => /\ ledger # <<>> /\ Written(ButLast(ledger))
                        /\ answered \subseteq SoundIds(ledger)
    /\ \A a, b \in answered \ SoundIds(ledger) : a = b

LedgerInv ==
    /\ Typed /\ Written(ledger) /\ RowsRegistered(ledger) /\ RegistersFirst
    /\ AnsweredSoundly
    /\ \A p \in Proc : /\ (InStep(p, "append") \/ InStep(p, "answer")) <=> lock = p
                       /\ InStep(p, "append") => AppendsSoundly(call[p])
                       /\ InStep(p, "answer") => call[p].ids \subseteq SoundIds(ledger)
    /\ \A r \in Reader : reading[r] # Nothing => Written(reading[r])
    /\ NoReaderSeesInvalid
==============================================================================
