---------------------------- MODULE TextStoreProofs ----------------------------
(***************************************************************************)
(* Proofs about what keeps observed text: for every set of ledgers,        *)
(* processes, calls and bounds.  Here are the inductive invariants of the  *)
(* snapshot ledger and of the projection, those of the other parts are in  *)
(* TextPartsProofs.  A behaviour is one of one part, and the last theorems *)
(* put the parts together.                                                 *)
(***************************************************************************)
EXTENDS TextPartsProofs

------------------------------------------------------------------------------
(***************************************************************************)
(* The snapshot ledgers: rows and chains                                   *)
(***************************************************************************)

\* What is assumed of the constants of a ledger.
LEMMA LedgerConstants ==
    ASSUME NEW k \in DOMAIN Ledgers
    PROVE  /\ Ledgers[k].alias \in Ledgers[k].stream
           /\ Ledgers[k].max_rows \in Nat /\ Ledgers[k].max_crashes \in Nat
           /\ Nothing \notin Ledgers[k].proc /\ Nothing \notin Snapshots(k)!Calls
           /\ Nothing \notin Seq(Snapshots(k)!Row)
           /\ Ledgers[k].job \subseteq [kind : Snapshots(k)!JobKind, items : Seq(Snapshots(k)!Item) \ {<<>>}]
           /\ Ledgers[k].first \in Seq(Snapshots(k)!Row) /\ Snapshots(k)!ValidChain(Ledgers[k].first)
           /\ \A i \in DOMAIN Ledgers[k].first :
                  /\ Ledgers[k].first[i].id.kind \in {"observed", "raw"}
                  /\ Ledgers[k].first[i].id.stream = Ledgers[k].first[i].stream
                  /\ Ledgers[k].first[i].id.kind = "observed" =>
                         Ledgers[k].first[i].id.seq = Ledgers[k].first[i].seq
BY TextStoreAssumption DEF Snapshots!LedgerAssumption

\* The instance counts as the library does.
LEMMA LedgerCounts ==
    ASSUME NEW k \in DOMAIN Ledgers
    PROVE  \A T : Snapshots(k)!Cardinality(T) = Cardinality(T)
BY DEF Snapshots!Cardinality, Cardinality

\* The last of a set of places, and the first.
LEMMA LedgerLast ==
    ASSUME NEW k \in DOMAIN Ledgers, NEW n \in Nat, NEW T, T \subseteq 1 .. n, T # {}
    PROVE  Snapshots(k)!LastOf(T) \in T /\ \A j \in T : j <= Snapshots(k)!LastOf(T)
BY HasLast DEF Snapshots!LastOf

\* A row that is appended comes after the others, which stay where they are.
LEMMA AppendedPlaces ==
    ASSUME NEW T, NEW rs \in Seq(T), NEW x \in T
    PROVE  /\ Append(rs, x) \in Seq(T) /\ Len(rs) \in Nat /\ DOMAIN rs = 1 .. Len(rs)
           /\ Len(Append(rs, x)) = Len(rs) + 1
           /\ DOMAIN Append(rs, x) = 1 .. (Len(rs) + 1)
           /\ DOMAIN Append(rs, x) = (DOMAIN rs) \cup {Len(rs) + 1}
           /\ Len(rs) + 1 \notin DOMAIN rs
           /\ Append(rs, x)[Len(rs) + 1] = x
           /\ \A i \in DOMAIN rs : Append(rs, x)[i] = rs[i]
OBVIOUS

\* What a row is made of.
LEMMA RowParts ==
    ASSUME NEW k \in DOMAIN Ledgers, NEW row \in Snapshots(k)!Row
    PROVE  /\ row.id \in Snapshots(k)!RowId /\ row.stream \in Ledgers[k].stream /\ row.seq \in Nat
           /\ row.prev \in Snapshots(k)!RowId \cup {Nothing} /\ row.content \in Ledgers[k].content
           /\ row.before \in Ledgers[k].content \cup {Nothing}
           /\ row.duplicate \in BOOLEAN /\ row.hashed \in BOOLEAN
           /\ row.id.kind \in Snapshots(k)!Kind /\ row.id.stream \in Ledgers[k].stream /\ row.id.seq \in Nat
           /\ row.id.key \in Ledgers[k].key \cup {Nothing} \cup Snapshots(k)!InvalidId
BY DEF Snapshots!Row, Snapshots!RowId

\* The rows that count are places of the ledger, and finitely many.
LEMMA CountedPlaces ==
    ASSUME NEW k \in DOMAIN Ledgers, NEW rs \in Seq(Snapshots(k)!Row), NEW s
    PROVE  /\ Snapshots(k)!Counted(rs, s) \subseteq 1 .. Len(rs) /\ Len(rs) \in Nat
           /\ Snapshots(k)!History(rs, s) \subseteq 1 .. Len(rs)
           /\ IsFiniteSet(Snapshots(k)!Counted(rs, s))
           /\ Cardinality(Snapshots(k)!Counted(rs, s)) \in Nat
<1>1. /\ Snapshots(k)!Counted(rs, s) \subseteq 1 .. Len(rs) /\ Len(rs) \in Nat
      /\ Snapshots(k)!History(rs, s) \subseteq 1 .. Len(rs)
  BY DEF Snapshots!Counted, Snapshots!History
<1> QED BY <1>1, PlacesAreFinite

\* Which rows are revoked, replayed and counted does not depend on what comes later,
\* but for a revocation right after them.
LEMMA PlacesStay ==
    ASSUME NEW k \in DOMAIN Ledgers, NEW rs \in Seq(Snapshots(k)!Row), NEW row \in Snapshots(k)!Row,
           row.id.kind # "revocation"
    PROVE  /\ \A i \in DOMAIN rs :
                  /\ Snapshots(k)!IsRevoked(Append(rs, row), i) <=> Snapshots(k)!IsRevoked(rs, i)
                  /\ Snapshots(k)!IsReplay(Append(rs, row), i) <=> Snapshots(k)!IsReplay(rs, i)
           /\ ~Snapshots(k)!IsRevoked(Append(rs, row), Len(rs) + 1)
           /\ \A s : \A i \in DOMAIN rs :
                  Snapshots(k)!Before(Snapshots(k)!Counted(Append(rs, row), s), i)
                      = Snapshots(k)!Before(Snapshots(k)!Counted(rs, s), i)
           /\ \A s : Snapshots(k)!Before(Snapshots(k)!Counted(Append(rs, row), s), Len(rs) + 1)
                         = Snapshots(k)!Counted(rs, s)
<1> DEFINE longer == Append(rs, row)
           n == Len(rs)
<1>1. /\ longer \in Seq(Snapshots(k)!Row) /\ n \in Nat /\ DOMAIN rs = 1 .. n /\ DOMAIN longer = 1 .. (n + 1)
      /\ longer[n + 1] = row /\ \A i \in 1 .. n : longer[i] = rs[i]
  BY AppendedPlaces
<1> HIDE DEF longer, n
<1>2. ASSUME NEW i \in 1 .. n
      PROVE  Snapshots(k)!IsRevoked(longer, i) <=> Snapshots(k)!IsRevoked(rs, i)
  <2>1. CASE i = n
    BY <1>1, <2>1 DEF Snapshots!IsRevoked
  <2>2. CASE i # n
    <3>1. i + 1 \in 1 .. n /\ i + 1 \in 1 .. (n + 1)
      BY <1>1, <2>2
    <3> QED BY <1>1, <3>1 DEF Snapshots!IsRevoked
  <2> QED BY <2>1, <2>2
<1>3. ASSUME NEW i \in 1 .. n
      PROVE  Snapshots(k)!IsReplay(longer, i) <=> Snapshots(k)!IsReplay(rs, i)
  <2>1. \A j \in 1 .. (i - 1) : longer[j] = rs[j]
    BY <1>1
  <2>2. longer[i] = rs[i]
    BY <1>1
  <2> QED BY <2>1, <2>2 DEF Snapshots!IsReplay, Snapshots!IsChained
<1>4. ~Snapshots(k)!IsRevoked(longer, n + 1)
  BY <1>1 DEF Snapshots!IsRevoked
<1>5. ASSUME NEW s, NEW i \in 1 .. (n + 1), NEW j
      PROVE  j \in Snapshots(k)!Before(Snapshots(k)!Counted(longer, s), i)
                 <=> j \in Snapshots(k)!Counted(rs, s) /\ j < i
  <2>1. CASE j \in 1 .. n
    BY <1>1, <1>2, <1>3, <2>1 DEF Snapshots!Before, Snapshots!Counted
  <2>2. CASE j \notin 1 .. n
    <3>1. j \notin Snapshots(k)!Counted(rs, s)
      BY <1>1, <2>2 DEF Snapshots!Counted
    <3>2. j \in Snapshots(k)!Before(Snapshots(k)!Counted(longer, s), i) => j \in 1 .. (n + 1) /\ j < i
      BY <1>1 DEF Snapshots!Before, Snapshots!Counted
    <3> QED BY <1>1, <2>2, <3>1, <3>2
  <2> QED BY <2>1, <2>2
<1>6. ASSUME NEW s, NEW i \in 1 .. n

           PROVE  Snapshots(k)!Before(Snapshots(k)!Counted(longer, s), i) = Snapshots(k)!Before(Snapshots(k)!Counted(rs, s), i)
  <2>1. i \in 1 .. (n + 1)
    BY <1>1
  <2>2. \A j : j \in Snapshots(k)!Before(Snapshots(k)!Counted(rs, s), i)
                   <=> j \in Snapshots(k)!Counted(rs, s) /\ j < i
    BY DEF Snapshots!Before
  <2> QED BY <1>5, <2>1, <2>2
<1>7. ASSUME NEW s

           PROVE  Snapshots(k)!Before(Snapshots(k)!Counted(longer, s), n + 1) = Snapshots(k)!Counted(rs, s)
  <2>1. n + 1 \in 1 .. (n + 1)
    BY <1>1
  <2>2. \A j \in Snapshots(k)!Counted(rs, s) : j < n + 1
    BY <1>1 DEF Snapshots!Counted
  <2>3. \A j : j \in Snapshots(k)!Before(Snapshots(k)!Counted(longer, s), n + 1) <=> j \in Snapshots(k)!Counted(rs, s)
    BY <1>5, <2>1, <2>2
  <2>4. Snapshots(k)!Before(Snapshots(k)!Counted(longer, s), n + 1)
            = {j \in Snapshots(k)!Before(Snapshots(k)!Counted(longer, s), n + 1) : TRUE}
    OBVIOUS
  <2>5. Snapshots(k)!Counted(rs, s) = {j \in Snapshots(k)!Counted(rs, s) : TRUE}
    OBVIOUS
  <2> QED BY <2>3, <2>4, <2>5
<1> QED BY <1>1, <1>2, <1>3, <1>4, <1>6, <1>7 DEF longer, n

\* A sequence without its last element.
LEMMA ButLastIs ==
    ASSUME NEW k \in DOMAIN Ledgers, NEW T, NEW rs \in Seq(T)
    PROVE  /\ Snapshots(k)!ButLast(rs) \in Seq(T)
           /\ rs # <<>> =>
                  /\ Len(rs) \in Nat /\ Len(rs) - 1 \in Nat /\ Len(rs) \in DOMAIN rs
                  /\ DOMAIN rs = 1 .. Len(rs) /\ DOMAIN Snapshots(k)!ButLast(rs) = 1 .. (Len(rs) - 1)
                  /\ \A i \in 1 .. (Len(rs) - 1) : Snapshots(k)!ButLast(rs)[i] = rs[i]
BY DEF Snapshots!ButLast

\* The head of places stays with what comes after them.
LEMMA HeadStays ==
    ASSUME NEW k \in DOMAIN Ledgers, NEW rs \in Seq(Snapshots(k)!Row), NEW row \in Snapshots(k)!Row,
           NEW T, T \subseteq 1 .. Len(rs)
    PROVE  /\ Snapshots(k)!HeadHash(Append(rs, row), T) = Snapshots(k)!HeadHash(rs, T)
           /\ Snapshots(k)!HeadHash(rs, T) \in Snapshots(k)!RowId \cup {Nothing}
           /\ T # {} => Snapshots(k)!LastOf(T) \in DOMAIN rs
<1>1. T # {} => Snapshots(k)!LastOf(T) \in DOMAIN rs
  <2>1. Len(rs) \in Nat /\ DOMAIN rs = 1 .. Len(rs)
    OBVIOUS
  <2> QED BY <2>1, LedgerLast
<1>2. ASSUME T # {}
      PROVE  /\ Append(rs, row)[Snapshots(k)!LastOf(T)] = rs[Snapshots(k)!LastOf(T)]
             /\ rs[Snapshots(k)!LastOf(T)] \in Snapshots(k)!Row
  BY <1>1, <1>2
<1>3. T # {} => rs[Snapshots(k)!LastOf(T)].id \in Snapshots(k)!RowId
  BY <1>2, RowParts
<1> QED BY <1>1, <1>2, <1>3 DEF Snapshots!HeadHash

\* What a valid chain says of one row.
LEMMA ChainSays ==
    ASSUME NEW k \in DOMAIN Ledgers, NEW rs, Snapshots(k)!ValidChain(rs), NEW i \in DOMAIN rs
    PROVE  /\ \A j \in DOMAIN rs : rs[i].id = rs[j].id => rs[i] = rs[j]
           /\ rs[i].id.kind = "revocation" =>
                  i > 2 /\ Snapshots(k)!ValidPair(rs[i - 2], rs[i - 1], rs[i])
           /\ Snapshots(k)!IsChained(rs[i]) /\ ~Snapshots(k)!IsRevoked(rs, i) /\ ~Snapshots(k)!IsReplay(rs, i) =>
                  /\ rs[i].hashed
                  /\ rs[i].seq = Cardinality(
                         Snapshots(k)!Before(Snapshots(k)!Counted(rs, rs[i].stream), i)) + 1
                  /\ rs[i].prev = Snapshots(k)!HeadHash(
                         rs, Snapshots(k)!Before(Snapshots(k)!Counted(rs, rs[i].stream), i))
BY LedgerCounts DEF Snapshots!ValidChain

\* What is revoked in a valid chain is an invalid row.
LEMMA RevokedIsInvalid ==
    ASSUME NEW k \in DOMAIN Ledgers, NEW rs \in Seq(Snapshots(k)!Row), Snapshots(k)!ValidChain(rs),
           NEW i \in DOMAIN rs, Snapshots(k)!IsRevoked(rs, i)
    PROVE  rs[i].id.kind = "invalid"
<1>1. i + 1 \in DOMAIN rs /\ rs[i + 1].id.kind = "revocation" /\ i \in Nat
  BY DEF Snapshots!IsRevoked
<1>2. Snapshots(k)!ValidPair(rs[(i + 1) - 2], rs[(i + 1) - 1], rs[i + 1])
  BY <1>1, ChainSays
<1>3. (i + 1) - 1 = i
  BY <1>1
<1> QED BY <1>2, <1>3 DEF Snapshots!ValidPair

\* A chain stays valid with a row of a new id that follows the head of its stream.
LEMMA ChainGrows ==
    ASSUME NEW k \in DOMAIN Ledgers, NEW rs \in Seq(Snapshots(k)!Row), NEW row \in Snapshots(k)!Row,
           Snapshots(k)!ValidChain(rs), row.id.kind # "revocation",
           \A i \in DOMAIN rs : rs[i].id # row.id,
           Snapshots(k)!IsChained(row) =>
               /\ row.hashed
               /\ row.seq = Cardinality(Snapshots(k)!Counted(rs, row.stream)) + 1
               /\ row.prev = Snapshots(k)!HeadHash(rs, Snapshots(k)!Counted(rs, row.stream))
    PROVE  Snapshots(k)!ValidChain(Append(rs, row))
<1> DEFINE longer == Append(rs, row)
           n == Len(rs)
           Earlier(i) == Snapshots(k)!Before(Snapshots(k)!Counted(longer, longer[i].stream), i)
<1>1. /\ longer \in Seq(Snapshots(k)!Row) /\ n \in Nat /\ DOMAIN rs = 1 .. n
      /\ DOMAIN longer = (DOMAIN rs) \cup {n + 1}
      /\ longer[n + 1] = row /\ \A i \in DOMAIN rs : longer[i] = rs[i]
  BY AppendedPlaces
<1>2. /\ \A i \in DOMAIN rs : /\ Snapshots(k)!IsRevoked(longer, i) <=> Snapshots(k)!IsRevoked(rs, i)
                              /\ Snapshots(k)!IsReplay(longer, i) <=> Snapshots(k)!IsReplay(rs, i)
      /\ \A s : \A i \in DOMAIN rs :
             Snapshots(k)!Before(Snapshots(k)!Counted(longer, s), i) = Snapshots(k)!Before(Snapshots(k)!Counted(rs, s), i)
      /\ \A s : Snapshots(k)!Before(Snapshots(k)!Counted(longer, s), n + 1) = Snapshots(k)!Counted(rs, s)
  BY PlacesStay
<1>3. \A T : T \subseteq 1 .. n => Snapshots(k)!HeadHash(longer, T) = Snapshots(k)!HeadHash(rs, T)
  BY HeadStays
<1> HIDE DEF longer, n
<1>4. \A i, j \in DOMAIN longer : longer[i].id = longer[j].id => longer[i] = longer[j]
  <2>1. \A i, j \in DOMAIN rs : rs[i].id = rs[j].id => rs[i] = rs[j]
    BY ChainSays
  <2> QED BY <1>1, <2>1
<1>5. ASSUME NEW i \in DOMAIN longer, longer[i].id.kind = "revocation"
      PROVE  i > 2 /\ Snapshots(k)!ValidPair(longer[i - 2], longer[i - 1], longer[i])
  <2>1. i \in DOMAIN rs /\ longer[i] = rs[i]
    BY <1>1, <1>5
  <2>2. i > 2 /\ Snapshots(k)!ValidPair(rs[i - 2], rs[i - 1], rs[i])
    BY <1>5, <2>1, ChainSays
  <2>3. i - 2 \in DOMAIN rs /\ i - 1 \in DOMAIN rs
    BY <1>1, <2>1, <2>2
  <2> QED BY <1>1, <2>1, <2>2, <2>3
<1>6. ASSUME NEW i \in DOMAIN longer, Snapshots(k)!IsChained(longer[i]),
             ~Snapshots(k)!IsRevoked(longer, i), ~Snapshots(k)!IsReplay(longer, i)
      PROVE  /\ longer[i].hashed
             /\ longer[i].seq = Cardinality(Earlier(i)) + 1
             /\ longer[i].prev = Snapshots(k)!HeadHash(longer, Earlier(i))
  <2>1. CASE i \in DOMAIN rs
    <3>1. longer[i] = rs[i] /\ Earlier(i) = Snapshots(k)!Before(Snapshots(k)!Counted(rs, rs[i].stream), i)
      BY <1>1, <1>2, <2>1
    <3>2. Earlier(i) \subseteq 1 .. n
      BY <3>1, CountedPlaces DEF Snapshots!Before, n
    <3>3. Snapshots(k)!HeadHash(longer, Earlier(i)) = Snapshots(k)!HeadHash(rs, Earlier(i))
      BY <1>3, <3>2
    <3>4. Snapshots(k)!IsChained(rs[i]) /\ ~Snapshots(k)!IsRevoked(rs, i) /\ ~Snapshots(k)!IsReplay(rs, i)
      BY <1>2, <1>6, <2>1, <3>1
    <3> HIDE DEF Earlier
    <3> QED BY <2>1, <3>1, <3>3, <3>4, ChainSays
  <2>2. CASE i = n + 1
    <3>1. longer[i] = row /\ Earlier(i) = Snapshots(k)!Counted(rs, row.stream)
      BY <1>1, <1>2, <2>2
    <3>2. Earlier(i) \subseteq 1 .. n
      BY <3>1, CountedPlaces DEF n
    <3>3. Snapshots(k)!HeadHash(longer, Earlier(i)) = Snapshots(k)!HeadHash(rs, Earlier(i))
      BY <1>3, <3>2
    <3> HIDE DEF Earlier
    <3> QED BY <1>6, <3>1, <3>3
  <2> QED BY <1>1, <2>1, <2>2
<1>7. Snapshots(k)!ValidChain(longer)
  <2>1. \A i \in DOMAIN longer :
            /\ longer[i].id.kind = "revocation" =>
                   i > 2 /\ Snapshots(k)!ValidPair(longer[i - 2], longer[i - 1], longer[i])
            /\ (Snapshots(k)!IsChained(longer[i]) /\ ~Snapshots(k)!IsRevoked(longer, i)
                /\ ~Snapshots(k)!IsReplay(longer, i)) =>
                   /\ longer[i].hashed
                   /\ longer[i].seq = Snapshots(k)!Cardinality(Earlier(i)) + 1
                   /\ longer[i].prev = Snapshots(k)!HeadHash(longer, Earlier(i))
    <3> HIDE DEF Earlier
    <3> QED BY <1>5, <1>6, LedgerCounts
  <2> QED BY <1>4, <2>1 DEF Snapshots!ValidChain
<1> QED BY <1>7 DEF longer

\* The row that is built for an item.
LEMMA NewRowIs ==
    ASSUME NEW k \in DOMAIN Ledgers, NEW rs \in Seq(Snapshots(k)!Row),
           NEW kind_of \in Snapshots(k)!JobKind, NEW item \in Snapshots(k)!Item
    PROVE  LET row == Snapshots(k)!NewRow(rs, kind_of, item)
               counted == Snapshots(k)!Counted(rs, item.stream)
           IN  /\ row \in Snapshots(k)!Row
               /\ row.id.kind = kind_of /\ row.id.stream = item.stream /\ row.id.key = item.key
               /\ row.id.seq = (IF kind_of \in {"observed", "message"}
                                THEN Cardinality(counted) + 1 ELSE 0)
               /\ row.stream = item.stream /\ row.content = item.content /\ row.hashed
               /\ kind_of # "raw" => /\ row.seq = Cardinality(counted) + 1
                                     /\ row.prev = Snapshots(k)!HeadHash(rs, counted)
               /\ row.duplicate = Snapshots(k)!IsDuplicate(rs, kind_of, item)
<1> DEFINE row == Snapshots(k)!NewRow(rs, kind_of, item)
           counted == Snapshots(k)!Counted(rs, item.stream)
           history == Snapshots(k)!History(rs, item.stream)
           number == Cardinality(counted) + 1
           id == [kind |-> kind_of, stream |-> item.stream, key |-> item.key,
                  seq |-> IF kind_of \in {"observed", "message"} THEN number ELSE 0]
           seq == IF kind_of = "raw" THEN 0 ELSE number
           prev == IF kind_of = "raw" THEN Nothing ELSE Snapshots(k)!HeadHash(rs, counted)
           before == IF history = {} THEN Nothing ELSE rs[Snapshots(k)!LastOf(history)].content
           duplicate == Snapshots(k)!IsDuplicate(rs, kind_of, item)
<1>1. /\ item.key \in Ledgers[k].key \cup {Nothing} /\ item.stream \in Ledgers[k].stream
      /\ item.content \in Ledgers[k].content /\ kind_of \in Snapshots(k)!Kind
  BY DEF Snapshots!Item, Snapshots!JobKind, Snapshots!Kind, Snapshots!Chained
<1>2. counted \subseteq 1 .. Len(rs) /\ Cardinality(counted) \in Nat
      /\ history \subseteq 1 .. Len(rs)
  BY CountedPlaces
<1>3. id \in Snapshots(k)!RowId /\ number \in Nat
  <2> HIDE DEF counted
  <2> QED BY <1>1, <1>2 DEF Snapshots!RowId
<1>4. prev \in Snapshots(k)!RowId \cup {Nothing} /\ seq \in Nat
  <2>1. Snapshots(k)!HeadHash(rs, counted) \in Snapshots(k)!RowId \cup {Nothing}
    <3>1. PICK row0 \in Snapshots(k)!Row : row0.id = id
      <4>1. /\ [id |-> id, stream |-> item.stream, seq |-> 0, prev |-> Nothing,
                content |-> item.content, before |-> Nothing, duplicate |-> TRUE,
                hashed |-> TRUE] \in Snapshots(k)!Row
        <5> HIDE DEF id
        <5> QED BY <1>1, <1>3 DEF Snapshots!Row
      <4> HIDE DEF id
      <4> QED BY <4>1
    <3> HIDE DEF counted
    <3> QED BY <1>2, <3>1, HeadStays
  <2> HIDE DEF counted
  <2> QED BY <1>3, <2>1
<1>5. before \in Ledgers[k].content \cup {Nothing}
  <2>1. CASE history # {}
    <3>1. Snapshots(k)!LastOf(history) \in DOMAIN rs
      <4>1. Len(rs) \in Nat /\ DOMAIN rs = 1 .. Len(rs)
        OBVIOUS
      <4> HIDE DEF history
      <4> QED BY <1>2, <2>1, <4>1, LedgerLast
    <3>2. rs[Snapshots(k)!LastOf(history)] \in Snapshots(k)!Row
      BY <3>1
    <3> HIDE DEF history
    <3> QED BY <2>1, <3>2, RowParts
  <2>2. CASE history = {}
    <3> HIDE DEF history
    <3> QED BY <2>2
  <2> QED BY <2>1, <2>2
<1>6. duplicate \in BOOLEAN
  BY DEF Snapshots!IsDuplicate
<1>7. row = [id |-> id, stream |-> item.stream, seq |-> seq, prev |-> prev,
             content |-> item.content, before |-> before, duplicate |-> duplicate,
             hashed |-> TRUE]
  BY LedgerCounts DEF Snapshots!NewRow, Snapshots!EventId
<1> HIDE DEF row, id, seq, prev, before, duplicate
<1>8. row \in Snapshots(k)!Row
  BY <1>1, <1>3, <1>4, <1>5, <1>6, <1>7 DEF Snapshots!Row
<1>9. /\ row.id = id /\ row.stream = item.stream /\ row.seq = seq /\ row.prev = prev
      /\ row.content = item.content /\ row.hashed
  BY <1>7
<1>10. row.duplicate = duplicate
  BY <1>7, Zenon
<1>11. /\ id.kind = kind_of /\ id.stream = item.stream /\ id.key = item.key
       /\ id.seq = (IF kind_of \in {"observed", "message"} THEN Cardinality(counted) + 1 ELSE 0)
  BY DEF id
<1>12. kind_of # "raw" => seq = Cardinality(counted) + 1 /\ prev = Snapshots(k)!HeadHash(rs, counted)
  BY DEF seq, prev
<1>13. row.duplicate = Snapshots(k)!IsDuplicate(rs, kind_of, item)
  BY <1>10 DEF duplicate
<1>14. /\ row.id.kind = kind_of /\ row.id.stream = item.stream /\ row.id.key = item.key
       /\ row.id.seq = (IF kind_of \in {"observed", "message"}
                        THEN Cardinality(counted) + 1 ELSE 0)
       /\ kind_of # "raw" => /\ row.seq = Cardinality(counted) + 1
                             /\ row.prev = Snapshots(k)!HeadHash(rs, counted)
  BY <1>9, <1>11, <1>12
<1> QED BY <1>8, <1>9, <1>13, <1>14, Zenon DEF row

\* A row whose content was not taken over before has an id of its own.
LEMMA NewRowIsFresh ==
    ASSUME NEW k \in DOMAIN Ledgers, NEW rs, Snapshots(k)!Written(rs), Snapshots(k)!ValidChain(rs),
           NEW kind_of \in Snapshots(k)!JobKind, NEW item \in Snapshots(k)!Item,
           ~Snapshots(k)!Present(rs, kind_of, item)
    PROVE  \A i \in DOMAIN rs : rs[i].id # Snapshots(k)!NewRow(rs, kind_of, item).id
<1> DEFINE id == Snapshots(k)!NewRow(rs, kind_of, item).id
           counted == Snapshots(k)!Counted(rs, item.stream)
<1>0. rs \in Seq(Snapshots(k)!Row) /\ Len(rs) \in Nat /\ DOMAIN rs = 1 .. Len(rs)
  BY DEF Snapshots!Written
<1>1. /\ id.kind = kind_of /\ id.stream = item.stream /\ id.key = item.key
      /\ id.seq = (IF kind_of \in {"observed", "message"} THEN Cardinality(counted) + 1 ELSE 0)
      /\ id \in Snapshots(k)!RowId
  BY <1>0, NewRowIs, RowParts
<1> HIDE DEF id
<1> SUFFICES ASSUME NEW h \in DOMAIN rs, rs[h].id = id PROVE FALSE
  BY DEF id
<1>2. CASE kind_of \notin {"observed", "message"}
  <2>1. id = Snapshots(k)!TakenOver(kind_of, item)
    BY <1>1, <1>2 DEF Snapshots!TakenOver, Snapshots!RowId
  <2> QED BY <2>1 DEF Snapshots!Present
<1>3. CASE kind_of \in {"observed", "message"}
  <2> DEFINE same == {j \in DOMAIN rs : rs[j].id = id}
  <2>1. PICK i \in same : \A j \in same : i <= j
    <3>1. same \subseteq Nat /\ same # {}
      BY <1>0
    <3> HIDE DEF same
    <3> QED BY <3>1, HasFirst
  <2>2. i \in DOMAIN rs /\ rs[i].id = id /\ rs[i] \in Snapshots(k)!Row
    BY <1>0
  <2>3. ~Snapshots(k)!IsReplay(rs, i)
    <3> SUFFICES ASSUME NEW j \in 1 .. (i - 1), rs[j].id = rs[i].id PROVE FALSE
      BY DEF Snapshots!IsReplay
    <3>1. j \in same /\ j < i
      BY <1>0, <2>2
    <3> QED BY <1>0, <2>1, <2>2, <3>1
  <2>4. ~Snapshots(k)!IsRevoked(rs, i)
    BY <1>0, <1>1, <1>3, <2>2, RevokedIsInvalid
  <2>5. Snapshots(k)!IsChained(rs[i])
    BY <1>1, <1>3, <2>2 DEF Snapshots!IsChained, Snapshots!Chained
  <2>6. /\ rs[i].stream = item.stream /\ rs[i].seq = Cardinality(counted) + 1
    BY <1>1, <1>3, <2>2 DEF Snapshots!Written, Snapshots!OwnId
  <2> DEFINE earlier == Snapshots(k)!Before(counted, i)
  <2>7. rs[i].seq = Cardinality(earlier) + 1
    <3> HIDE DEF same
    <3> QED BY <2>2, <2>3, <2>4, <2>5, <2>6, ChainSays
  <2>8. i \in counted /\ earlier \subseteq counted /\ i \notin earlier
    BY <1>0, <2>2, <2>3, <2>4, <2>6 DEF Snapshots!Counted, Snapshots!Before
  <2>9. IsFiniteSet(counted) /\ Cardinality(counted) \in Nat
    BY <1>0, CountedPlaces
  <2> HIDE DEF earlier, counted, same
  <2>10. Cardinality(earlier) < Cardinality(counted) /\ Cardinality(earlier) \in Nat
    <3>1. IsFiniteSet(counted \ {i}) /\ Cardinality(counted \ {i}) = Cardinality(counted) - 1
      BY <2>8, <2>9, FS_RemoveElement
    <3>2. earlier \subseteq counted \ {i}
      BY <2>8
    <3>3. IsFiniteSet(earlier) /\ Cardinality(earlier) <= Cardinality(counted \ {i})
      BY <3>1, <3>2, FS_Subset
    <3> QED BY <2>9, <3>1, <3>3, FS_CardinalityType
  <2> QED BY <2>6, <2>7, <2>9, <2>10
<1> QED BY <1>2, <1>3

\* The earlier versions of a message are the rows of it that its history has.
LEMMA NewRowIsMarked ==
    ASSUME NEW k \in DOMAIN Ledgers, NEW rs, Snapshots(k)!Written(rs),
           NEW item \in Snapshots(k)!Item
    PROVE  LET versions == {j \in DOMAIN rs : /\ rs[j].id.kind = "message"
                                              /\ rs[j].stream = item.stream
                                              /\ rs[j].id.key = item.key}
           IN  Snapshots(k)!IsDuplicate(rs, "message", item) <=>
                   \E j \in versions : /\ \A h \in versions : h <= j
                                       /\ rs[j].content = item.content
<1> DEFINE versions == {j \in DOMAIN rs : /\ rs[j].id.kind = "message"
                                          /\ rs[j].stream = item.stream
                                          /\ rs[j].id.key = item.key}
           earlier == {i \in Snapshots(k)!History(rs, item.stream) :
                          "message" = "message" => /\ rs[i].id.kind = "message"
                                                   /\ rs[i].id.key = item.key}
<1>0. rs \in Seq(Snapshots(k)!Row) /\ Len(rs) \in Nat /\ DOMAIN rs = 1 .. Len(rs)
  BY DEF Snapshots!Written
<1>1. ASSUME NEW i \in DOMAIN rs, rs[i].id.kind = "message" PROVE ~Snapshots(k)!IsReplay(rs, i)
  <2> SUFFICES ASSUME NEW j \in 1 .. (i - 1), rs[j].id = rs[i].id PROVE FALSE
    BY DEF Snapshots!IsReplay
  <2>1. j \in DOMAIN rs /\ j # i
    BY <1>0
  <2>2. i > Len(Ledgers[k].first)
    BY <1>1 DEF Snapshots!Written
  <2> QED BY <2>1, <2>2 DEF Snapshots!Written
<1>2. earlier = versions
  <2>1. \A i : i \in earlier <=> i \in versions
    BY <1>1 DEF Snapshots!History
  <2> HIDE DEF earlier, versions
  <2> QED BY <2>1
<1>3. Snapshots(k)!IsDuplicate(rs, "message", item) <=>
          earlier # {} /\ rs[Snapshots(k)!LastOf(earlier)].content = item.content
  BY DEF Snapshots!IsDuplicate
<1>4. versions \subseteq 1 .. Len(rs)
  BY <1>0
<1> HIDE DEF versions, earlier
<1>5. versions # {} => /\ Snapshots(k)!LastOf(versions) \in versions
                       /\ \A h \in versions : h <= Snapshots(k)!LastOf(versions)
  BY <1>0, <1>4, LedgerLast
<1>6. ASSUME NEW j \in versions, \A h \in versions : h <= j
      PROVE  j = Snapshots(k)!LastOf(versions)
  <2>1. PICK last \in versions : last = Snapshots(k)!LastOf(versions) /\ \A h \in versions : h <= last
    BY <1>5
  <2>2. last <= j /\ j <= last /\ j \in 1 .. Len(rs) /\ last \in 1 .. Len(rs)
    BY <1>4, <1>6, <2>1
  <2>3. j = last
    BY <1>0, <2>2
  <2> QED BY <2>1, <2>3
<1>7. Snapshots(k)!IsDuplicate(rs, "message", item) <=>
          \E j \in versions : (\A h \in versions : h <= j) /\ rs[j].content = item.content
  BY <1>2, <1>3, <1>5, <1>6
<1> QED BY <1>7 DEF versions

\* A row does not change what earlier rows are marked as.
LEMMA MarksGrow ==
    ASSUME NEW k \in DOMAIN Ledgers, NEW rs \in Seq(Snapshots(k)!Row), NEW row \in Snapshots(k)!Row,
           Snapshots(k)!MarkedAsEdited(rs),
           row.id.kind = "message" =>
               LET versions == {j \in DOMAIN rs : /\ rs[j].id.kind = "message"
                                                  /\ rs[j].stream = row.stream
                                                  /\ rs[j].id.key = row.id.key}
               IN  row.duplicate <=> \E j \in versions : /\ \A h \in versions : h <= j
                                                         /\ rs[j].content = row.content
    PROVE  Snapshots(k)!MarkedAsEdited(Append(rs, row))
<1> DEFINE longer == Append(rs, row)
           n == Len(rs)
           Vs == {j \in DOMAIN rs : /\ rs[j].id.kind = "message"
                                    /\ rs[j].stream = row.stream
                                    /\ rs[j].id.key = row.id.key}
<1>1. /\ longer \in Seq(Snapshots(k)!Row) /\ n \in Nat /\ DOMAIN rs = 1 .. n
      /\ DOMAIN longer = (DOMAIN rs) \cup {n + 1}
      /\ longer[n + 1] = row /\ \A i \in DOMAIN rs : longer[i] = rs[i]
  BY AppendedPlaces
<1> HIDE DEF longer, n
<1>2. ASSUME NEW i \in DOMAIN rs
      PROVE  /\ longer[i] = rs[i] /\ Snapshots(k)!Versions(longer, i) = Snapshots(k)!Versions(rs, i)
             /\ Snapshots(k)!Versions(rs, i) \subseteq DOMAIN rs
  <2>1. longer[i] = rs[i] /\ \A j \in 1 .. (i - 1) : longer[j] = rs[j] /\ j \in DOMAIN rs
    BY <1>1
  <2> QED BY <2>1 DEF Snapshots!Versions
<1>3. Snapshots(k)!Versions(longer, n + 1) = Vs
  <2>1. 1 .. ((n + 1) - 1) = DOMAIN rs
    BY <1>1
  <2>2. \A j \in DOMAIN rs : longer[j] = rs[j]
    BY <1>1
  <2>3. Snapshots(k)!Versions(longer, n + 1)
            = {j \in DOMAIN rs : /\ longer[j].id.kind = "message"
                                 /\ longer[j].stream = row.stream
                                 /\ longer[j].id.key = row.id.key}
    BY <1>1, <2>1 DEF Snapshots!Versions
  <2> QED BY <2>2, <2>3
<1>4. Vs \subseteq DOMAIN rs
  OBVIOUS
<1>5. row.id.kind = "message" =>
          (row.duplicate <=> \E j \in Vs : (\A h \in Vs : h <= j) /\ rs[j].content = row.content)
  OBVIOUS
<1> HIDE DEF Vs
<1>6. ASSUME NEW i \in DOMAIN longer, longer[i].id.kind = "message"
      PROVE  longer[i].duplicate <=>
                 \E j \in Snapshots(k)!Versions(longer, i) :
                     /\ \A h \in Snapshots(k)!Versions(longer, i) : h <= j
                     /\ longer[j].content = longer[i].content
  <2>1. CASE i \in DOMAIN rs
    <3>1. rs[i].duplicate <=>
              \E j \in Snapshots(k)!Versions(rs, i) : /\ \A h \in Snapshots(k)!Versions(rs, i) : h <= j
                                              /\ rs[j].content = rs[i].content
      BY <1>2, <1>6, <2>1 DEF Snapshots!MarkedAsEdited
    <3>2. \A j \in Snapshots(k)!Versions(rs, i) : longer[j] = rs[j]
      BY <1>1, <1>2, <2>1
    <3>3. longer[i] = rs[i] /\ Snapshots(k)!Versions(longer, i) = Snapshots(k)!Versions(rs, i)
      BY <1>2, <2>1
    <3> QED BY <3>1, <3>2, <3>3, Zenon
  <2>2. CASE i = n + 1
    <3>1. longer[i] = row /\ Snapshots(k)!Versions(longer, i) = Vs
      BY <1>1, <1>3, <2>2
    <3>2. \A j \in Vs : longer[j] = rs[j]
      BY <1>1, <1>4
    <3>3. row.duplicate <=>
              \E j \in Vs : (\A h \in Vs : h <= j) /\ rs[j].content = row.content
      BY <1>5, <1>6, <3>1
    <3> QED BY <3>1, <3>2, <3>3, Zenon
  <2> QED BY <1>1, <2>1, <2>2
<1> QED BY <1>6 DEF Snapshots!MarkedAsEdited, longer

\* What has been written stays so with a row of a new id, if the chain holds with it.
LEMMA WrittenGrows ==
    ASSUME NEW k \in DOMAIN Ledgers, NEW rs, Snapshots(k)!Written(rs), NEW row \in Snapshots(k)!Row,
           Snapshots(k)!OwnId(row), \A i \in DOMAIN rs : rs[i].id # row.id,
           row.id.kind = "invalid" => \A i \in DOMAIN rs : rs[i].id.kind # "invalid",
           Snapshots(k)!ChainHolds(Append(rs, row)), Snapshots(k)!MarkedAsEdited(Append(rs, row))
    PROVE  Snapshots(k)!Written(Append(rs, row))
<1> DEFINE longer == Append(rs, row)
           n == Len(rs)
           first == Len(Ledgers[k].first)
<1>0. rs \in Seq(Snapshots(k)!Row)
  BY DEF Snapshots!Written
<1>1. /\ longer \in Seq(Snapshots(k)!Row) /\ n \in Nat /\ DOMAIN rs = 1 .. n /\ Len(longer) = n + 1
      /\ DOMAIN longer = (DOMAIN rs) \cup {n + 1} /\ n + 1 \notin DOMAIN rs
      /\ longer[n + 1] = row /\ \A i \in DOMAIN rs : longer[i] = rs[i]
  BY <1>0, AppendedPlaces
<1>2. first \in Nat /\ first <= n
  BY LedgerConstants DEF Snapshots!Written
<1> HIDE DEF longer, n, first
<1>3. ASSUME NEW i \in DOMAIN longer
      PROVE  /\ Snapshots(k)!OwnId(longer[i])
             /\ longer[i].id.kind \in {"observed", "raw"} \/ i > first
  <2>1. CASE i \in DOMAIN rs
    BY <1>1, <2>1 DEF Snapshots!Written, first
  <2>2. CASE i = n + 1
    BY <1>1, <1>2, <2>2
  <2> QED BY <1>1, <2>1, <2>2
<1>4. \A i, j \in DOMAIN longer : longer[i].id = longer[j].id /\ j > first => i = j
  <2>1. \A i, j \in DOMAIN rs : rs[i].id = rs[j].id /\ j > first => i = j
    BY DEF Snapshots!Written, first
  <2> QED BY <1>1, <2>1
<1>5. Snapshots(k)!OneInvalid(longer)
  <2>1. \A i, j \in DOMAIN rs :
            rs[i].id.kind = "invalid" /\ rs[j].id.kind = "invalid" => i = j
    BY DEF Snapshots!Written, Snapshots!OneInvalid
  <2> QED BY <1>1, <2>1 DEF Snapshots!OneInvalid
<1>6. Len(longer) >= first
  BY <1>1, <1>2
<1> QED BY <1>1, <1>3, <1>4, <1>5, <1>6 DEF Snapshots!Written, longer, first

\* A ledger with a valid chain stays one with a row that is built on it.
LEMMA BuiltRowKeeps ==
    ASSUME NEW k \in DOMAIN Ledgers, NEW rs, Snapshots(k)!Written(rs), Snapshots(k)!ValidChain(rs),
           NEW kind_of \in Snapshots(k)!JobKind, NEW item \in Snapshots(k)!Item,
           ~Snapshots(k)!Present(rs, kind_of, item)
    PROVE  /\ Snapshots(k)!Written(Append(rs, Snapshots(k)!NewRow(rs, kind_of, item)))
           /\ Snapshots(k)!ValidChain(Append(rs, Snapshots(k)!NewRow(rs, kind_of, item)))
<1>0. rs \in Seq(Snapshots(k)!Row)
  BY DEF Snapshots!Written
<1>1. PICK row : row = Snapshots(k)!NewRow(rs, kind_of, item)
  OBVIOUS
<1>2. /\ row \in Snapshots(k)!Row /\ row.id.kind = kind_of /\ row.id.stream = item.stream
      /\ row.id.key = item.key
      /\ row.id.seq = (IF kind_of \in {"observed", "message"}
                       THEN Cardinality(Snapshots(k)!Counted(rs, item.stream)) + 1 ELSE 0)
      /\ row.stream = item.stream /\ row.content = item.content /\ row.hashed
      /\ kind_of # "raw" => /\ row.seq = Cardinality(Snapshots(k)!Counted(rs, item.stream)) + 1
                            /\ row.prev = Snapshots(k)!HeadHash(rs, Snapshots(k)!Counted(rs, item.stream))
  BY <1>0, <1>1, NewRowIs
<1>3. row.duplicate = Snapshots(k)!IsDuplicate(rs, kind_of, item)
  <2>1. Snapshots(k)!NewRow(rs, kind_of, item).duplicate = Snapshots(k)!IsDuplicate(rs, kind_of, item)
    BY <1>0, NewRowIs
  <2> QED BY <1>1, <2>1, Zenon
<1>4. \A i \in DOMAIN rs : rs[i].id # row.id
  BY <1>1, NewRowIsFresh
<1>5. kind_of \notin {"invalid", "revocation"}
  BY DEF Snapshots!JobKind
<1>6. Snapshots(k)!ValidChain(Append(rs, row))
  <2>1. Snapshots(k)!IsChained(row) => kind_of # "raw"
    BY <1>2 DEF Snapshots!IsChained, Snapshots!Chained
  <2> QED BY <1>0, <1>2, <1>4, <1>5, <2>1, ChainGrows
<1>7. Snapshots(k)!OwnId(row)
  BY <1>2, <1>5 DEF Snapshots!OwnId
<1>8. Snapshots(k)!MarkedAsEdited(Append(rs, row))
  <2> DEFINE versions == {j \in DOMAIN rs : /\ rs[j].id.kind = "message"
                                            /\ rs[j].stream = item.stream
                                            /\ rs[j].id.key = item.key}
  <2>1. Snapshots(k)!IsDuplicate(rs, "message", item) <=>
            \E j \in versions : (\A h \in versions : h <= j) /\ rs[j].content = item.content
    BY NewRowIsMarked
  <2>2. kind_of = "message" =>
            (row.duplicate <=>
                \E j \in versions : (\A h \in versions : h <= j) /\ rs[j].content = item.content)
    <3> HIDE DEF versions
    <3> QED BY <1>3, <2>1, Zenon
  <2>3. versions = {j \in DOMAIN rs : /\ rs[j].id.kind = "message"
                                      /\ rs[j].stream = row.stream
                                      /\ rs[j].id.key = row.id.key}
    BY <1>2
  <2>4. Snapshots(k)!MarkedAsEdited(rs)
    BY DEF Snapshots!Written
  <2> HIDE DEF versions
  <2> QED BY <1>0, <1>2, <2>2, <2>3, <2>4, MarksGrow
<1>9. Snapshots(k)!ChainHolds(Append(rs, row))
  BY <1>6 DEF Snapshots!ChainHolds
<1>10. Snapshots(k)!Written(Append(rs, row))
  BY <1>2, <1>4, <1>5, <1>7, <1>8, <1>9, WrittenGrows
<1> QED BY <1>1, <1>6, <1>10

\* Without its last row a ledger that was appended to is what it was.
LEMMA LastIsAppended ==
    ASSUME NEW T, NEW rs \in Seq(T), NEW x \in T
    PROVE  SubSeq(Append(rs, x), 1, Len(rs)) = rs
<1> DEFINE longer == Append(rs, x)
           part_of == SubSeq(longer, 1, Len(rs))
<1>1. /\ longer \in Seq(T) /\ Len(rs) \in Nat /\ Len(longer) = Len(rs) + 1
      /\ \A i \in 1 .. Len(rs) : longer[i] = rs[i]
  BY AppendedPlaces
<1>2. part_of \in Seq(T) /\ Len(part_of) = Len(rs) /\ \A i \in 1 .. Len(rs) : part_of[i] = longer[i]
  <2> HIDE DEF longer
  <2> QED BY <1>1
<1> HIDE DEF part_of, longer
<1>3. part_of = rs
  BY <1>1, <1>2
<1> QED BY <1>3 DEF part_of, longer

\* An invalid row may follow a ledger that has none: it is then the last row.
LEMMA InvalidRowKeeps ==
    ASSUME NEW k \in DOMAIN Ledgers, NEW rs, Snapshots(k)!Written(rs), NEW row \in Snapshots(k)!Row,
           Snapshots(k)!OwnId(row), row.id.kind = "invalid",
           \A i \in DOMAIN rs : rs[i].id.kind # "invalid"
    PROVE  Snapshots(k)!Written(Append(rs, row))
<1>1. /\ rs \in Seq(Snapshots(k)!Row) /\ Len(rs) \in Nat /\ DOMAIN rs = 1 .. Len(rs)
  BY DEF Snapshots!Written
<1>2. Snapshots(k)!ValidChain(rs)
  <2>1. rs # <<>> => Len(rs) \in DOMAIN rs
    BY <1>1
  <2> QED BY <2>1 DEF Snapshots!Written, Snapshots!ChainHolds
<1>3. Snapshots(k)!ButLast(Append(rs, row)) = rs
  <2>1. Len(Append(rs, row)) - 1 = Len(rs)
    BY <1>1
  <2> QED BY <1>1, <2>1, LastIsAppended DEF Snapshots!ButLast
<1>4. Snapshots(k)!ChainHolds(Append(rs, row))
  <2>1. Append(rs, row) # <<>> /\ Append(rs, row)[Len(Append(rs, row))] = row
    <3>1. Len(Append(rs, row)) = Len(rs) + 1 /\ Append(rs, row)[Len(rs) + 1] = row
      BY <1>1, AppendedPlaces
    <3>2. Len(Append(rs, row)) # Len(<<>>)
      BY <1>1, <3>1
    <3> QED BY <3>1, <3>2
  <2> QED BY <1>2, <1>3, <2>1 DEF Snapshots!ChainHolds
<1>5. Snapshots(k)!MarkedAsEdited(Append(rs, row))
  BY <1>1, MarksGrow DEF Snapshots!Written
<1> QED BY <1>4, <1>5, WrittenGrows

\* A revocation of the last row is of another id than every row before.
LEMMA RevocationKeeps ==
    ASSUME NEW k \in DOMAIN Ledgers, NEW rs, Snapshots(k)!Written(rs), Snapshots(k)!Revocable(rs),
           Snapshots(k)!ValidChain(Append(rs, Snapshots(k)!RevocationOf(rs)))
    PROVE  /\ Snapshots(k)!Written(Append(rs, Snapshots(k)!RevocationOf(rs)))
           /\ Snapshots(k)!RevocationOf(rs) \in Snapshots(k)!Row
           /\ Snapshots(k)!RevocationOf(rs).id.kind = "revocation"
<1> DEFINE row == Snapshots(k)!RevocationOf(rs)
           n == Len(rs)
           previous == rs[n - 1]
           id == [kind |-> "revocation", stream |-> previous.stream, key |-> rs[n].id, seq |-> 0]
<1>1. /\ rs \in Seq(Snapshots(k)!Row) /\ n \in Nat /\ DOMAIN rs = 1 .. n /\ n > 1
      /\ rs[n].id.kind = "invalid" /\ Snapshots(k)!ValidChain(Snapshots(k)!ButLast(rs))
  BY DEF Snapshots!Written, Snapshots!Revocable
<1>2. n \in DOMAIN rs /\ n - 1 \in DOMAIN rs /\ previous \in Snapshots(k)!Row
  BY <1>1
<1>3. rs[n].id \in Snapshots(k)!InvalidId
  BY <1>1, <1>2 DEF Snapshots!Written, Snapshots!OwnId
<1>4. /\ row = [id |-> id, stream |-> previous.stream, seq |-> previous.seq + 1,
                prev |-> previous.id, content |-> previous.content,
                before |-> previous.content, duplicate |-> FALSE, hashed |-> TRUE]
  BY DEF Snapshots!RevocationOf
<1>5. /\ previous.stream \in Ledgers[k].stream /\ previous.seq \in Nat /\ previous.id \in Snapshots(k)!RowId
      /\ previous.content \in Ledgers[k].content
  BY <1>2, RowParts
<1>6. id \in Snapshots(k)!RowId /\ id.kind = "revocation" /\ id.stream = previous.stream
      /\ id.key = rs[n].id
  BY <1>3, <1>5 DEF Snapshots!RowId, Snapshots!Kind, Snapshots!Chained
<1> HIDE DEF row, n, previous, id
<1>7. /\ row \in Snapshots(k)!Row /\ row.id = id /\ row.stream = previous.stream
  <2>1. previous.seq + 1 \in Nat
    BY <1>5
  <2> QED BY <1>4, <1>5, <1>6, <2>1 DEF Snapshots!Row
<1>8. Snapshots(k)!OwnId(row)
  BY <1>6, <1>7 DEF Snapshots!OwnId
<1>9. ASSUME NEW i \in DOMAIN rs, rs[i].id = row.id PROVE FALSE
  <2> DEFINE b == Snapshots(k)!ButLast(rs)
  <2>1. i \in 1 .. (n - 1)
    BY <1>1, <1>2, <1>6, <1>7, <1>9
  <2>2. b \in Seq(Snapshots(k)!Row) /\ DOMAIN b = 1 .. (n - 1) /\ \A j \in 1 .. (n - 1) : b[j] = rs[j]
    BY <1>1 DEF Snapshots!ButLast, n
  <2> HIDE DEF b
  <2>3. i \in DOMAIN b /\ b[i].id.kind = "revocation" /\ Snapshots(k)!ValidChain(b)
    BY <1>1, <1>6, <1>7, <1>9, <2>1, <2>2 DEF b
  <2>4. i > 2 /\ Snapshots(k)!ValidPair(b[i - 2], b[i - 1], b[i])
    BY <2>3, ChainSays
  <2>5. i - 1 \in 1 .. (n - 1) /\ i - 1 \in DOMAIN rs
    BY <1>1, <2>1, <2>4
  <2>6. rs[i - 1].id.kind = "invalid"
    BY <2>2, <2>4, <2>5 DEF Snapshots!ValidPair
  <2>7. i - 1 = n
    BY <1>1, <1>2, <2>5, <2>6 DEF Snapshots!Written, Snapshots!OneInvalid
  <2> QED BY <1>1, <2>1, <2>7
<1>10. Snapshots(k)!ChainHolds(Append(rs, row))
  BY DEF Snapshots!ChainHolds, row
<1>11. Snapshots(k)!MarkedAsEdited(Append(rs, row))
  BY <1>1, <1>6, <1>7, MarksGrow DEF Snapshots!Written
<1>12. Snapshots(k)!Written(Append(rs, row))
  BY <1>6, <1>7, <1>8, <1>9, <1>10, <1>11, WrittenGrows
<1> QED BY <1>6, <1>7, <1>12 DEF row

\* What a call has made of a ledger that was written: every part of it is one.
Grown(k, rs, job, e) ==
    /\ e \in Seq(Snapshots(k)!Row) /\ Len(e) >= Len(rs) /\ \A i \in DOMAIN rs : e[i] = rs[i]
    /\ Snapshots(k)!ValidChain(e)
    /\ \A m \in Len(rs) .. Len(e) : Snapshots(k)!Written(SubSeq(e, 1, m))
    /\ \A i \in DOMAIN e : i > Len(rs) =>
           e[i].id.kind = job.kind /\ e[i].stream \in Snapshots(k)!Targets(job)

\* The whole of a sequence is its part up to its length.
LEMMA WholeIsPart ==
    ASSUME NEW T, NEW rs \in Seq(T)
    PROVE  SubSeq(rs, 1, Len(rs)) = rs
OBVIOUS

\* A part of a ledger that was appended to is one of what it was.
LEMMA PartOfAppended ==
    ASSUME NEW T, NEW rs \in Seq(T), NEW x \in T, NEW m \in 0 .. Len(rs)
    PROVE  SubSeq(Append(rs, x), 1, m) = SubSeq(rs, 1, m)
<1> DEFINE longer == Append(rs, x)
<1>1. /\ longer \in Seq(T) /\ Len(rs) \in Nat /\ Len(longer) = Len(rs) + 1
      /\ \A i \in 1 .. Len(rs) : longer[i] = rs[i]
  BY AppendedPlaces
<1> HIDE DEF longer
<1>2. /\ SubSeq(longer, 1, m) \in Seq(T) /\ Len(SubSeq(longer, 1, m)) = m
      /\ \A i \in 1 .. m : SubSeq(longer, 1, m)[i] = longer[i]
  BY <1>1
<1>3. /\ SubSeq(rs, 1, m) \in Seq(T) /\ Len(SubSeq(rs, 1, m)) = m
      /\ \A i \in 1 .. m : SubSeq(rs, 1, m)[i] = rs[i]
  OBVIOUS
<1>4. \A i \in 1 .. m : longer[i] = rs[i]
  BY <1>1
<1>5. SubSeq(longer, 1, m) = SubSeq(rs, 1, m)
  BY <1>2, <1>3, <1>4
<1> QED BY <1>5 DEF longer

\* A ledger that grew by an item that was not there grew by one row of it more.
LEMMA GrownStep ==
    ASSUME NEW k \in DOMAIN Ledgers, NEW rs, Snapshots(k)!Written(rs), NEW job \in Ledgers[k].job,
           NEW e, Grown(k, rs, job, e), NEW n \in DOMAIN job.items,
           ~Snapshots(k)!Present(e, job.kind, job.items[n])
    PROVE  Grown(k, rs, job, Append(e, Snapshots(k)!NewRow(e, job.kind, job.items[n])))
<1> DEFINE item == job.items[n]
           row == Snapshots(k)!NewRow(e, job.kind, item)
           longer == Append(e, row)
<1>1. job.kind \in Snapshots(k)!JobKind /\ item \in Snapshots(k)!Item
  BY LedgerConstants
<1>2. /\ e \in Seq(Snapshots(k)!Row) /\ Len(rs) \in Nat /\ Len(e) \in Nat /\ Len(e) >= Len(rs)
      /\ Snapshots(k)!ValidChain(e) /\ DOMAIN rs = 1 .. Len(rs)
  BY DEF Grown, Snapshots!Written
<1>3. Snapshots(k)!Written(e)
  <2>1. Len(e) \in Len(rs) .. Len(e) /\ SubSeq(e, 1, Len(e)) = e
    BY <1>2, WholeIsPart
  <2> QED BY <2>1 DEF Grown
<1>4. row \in Snapshots(k)!Row /\ row.id.kind = job.kind /\ row.stream = item.stream
  BY <1>1, <1>2, NewRowIs
<1>5. Snapshots(k)!Written(longer) /\ Snapshots(k)!ValidChain(longer)
  BY <1>1, <1>2, <1>3, BuiltRowKeeps
<1>6. item.stream \in Snapshots(k)!Targets(job)
  BY DEF Snapshots!Targets
<1> HIDE DEF row, item
<1>7. /\ longer \in Seq(Snapshots(k)!Row) /\ Len(longer) = Len(e) + 1
      /\ DOMAIN longer = (DOMAIN e) \cup {Len(e) + 1} /\ longer[Len(e) + 1] = row
      /\ \A i \in DOMAIN e : longer[i] = e[i]
      /\ DOMAIN e = 1 .. Len(e)
  BY <1>2, <1>4, AppendedPlaces
<1>8. ASSUME NEW m \in Len(rs) .. Len(longer) PROVE Snapshots(k)!Written(SubSeq(longer, 1, m))
  <2>1. CASE m = Len(longer)
    <3>1. SubSeq(longer, 1, Len(longer)) = longer
      BY <1>7, WholeIsPart
    <3> HIDE DEF longer
    <3> QED BY <1>5, <2>1, <3>1
  <2>2. CASE m # Len(longer)
    <3>1. m \in Len(rs) .. Len(e) /\ m \in 0 .. Len(e)
      <4> HIDE DEF longer
      <4> QED BY <1>2, <1>7, <2>2
    <3>2. SubSeq(longer, 1, m) = SubSeq(e, 1, m)
      BY <1>2, <1>4, <3>1, PartOfAppended
    <3> HIDE DEF longer
    <3> QED BY <3>1, <3>2 DEF Grown
  <2> QED BY <2>1, <2>2
<1> HIDE DEF longer
<1>9. \A i \in DOMAIN rs : longer[i] = rs[i]
  <2>1. \A i \in DOMAIN rs : i \in DOMAIN e /\ e[i] = rs[i]
    BY <1>2, <1>7 DEF Grown
  <2> QED BY <1>7, <2>1
<1>10. \A i \in DOMAIN longer : i > Len(rs) =>
           longer[i].id.kind = job.kind /\ longer[i].stream \in Snapshots(k)!Targets(job)
  BY <1>4, <1>6, <1>7 DEF Grown
<1>11. Len(longer) >= Len(rs)
  BY <1>2, <1>7
<1>12. Grown(k, rs, job, longer)
  BY <1>5, <1>7, <1>8, <1>9, <1>10, <1>11 DEF Grown
<1> QED BY <1>12 DEF longer, row, item

\* The rows of a call, built one after the other.
LEMMA ExtendedIsGrown ==
    ASSUME NEW k \in DOMAIN Ledgers, NEW rs, Snapshots(k)!Written(rs), Snapshots(k)!ValidChain(rs),
           NEW job \in Ledgers[k].job
    PROVE  Grown(k, rs, job, Snapshots(k)!Extended(rs, job))
<1> DEFINE n == Len(job.items)
           R == Seq(Snapshots(k)!Row)
           Next1(e, i) == IF Snapshots(k)!Present(e, job.kind, job.items[i]) THEN e
                          ELSE Append(e, Snapshots(k)!NewRow(e, job.kind, job.items[i]))
           step == [i \in 1 .. n |-> [e \in R |-> Next1(e, i)]]
           Solves(f) == f = [i \in 0 .. n |->
                               IF i = 0 THEN rs
                               ELSE IF Snapshots(k)!Present(f[i - 1], job.kind, job.items[i]) THEN f[i - 1]
                               ELSE Append(f[i - 1],
                                           Snapshots(k)!NewRow(f[i - 1], job.kind, job.items[i]))]
           taken == CHOOSE f : Solves(f)
<1>1. /\ job.kind \in Snapshots(k)!JobKind /\ job.items \in Seq(Snapshots(k)!Item) /\ n \in Nat
      /\ DOMAIN job.items = 1 .. n
  BY LedgerConstants
<1>2. rs \in R
  BY DEF Snapshots!Written
<1>3. ASSUME NEW i \in 1 .. n, NEW e \in R PROVE Next1(e, i) \in R
  <2>1. job.items[i] \in Snapshots(k)!Item
    BY <1>1
  <2>2. Snapshots(k)!NewRow(e, job.kind, job.items[i]) \in Snapshots(k)!Row
    BY <1>1, <2>1, NewRowIs
  <2> QED BY <2>2
<1>4. step \in [1 .. n -> [R -> R]]
  <2> HIDE DEF R, Next1, n
  <2> QED BY <1>3
<1>5. ASSUME NEW i \in 1 .. n, NEW e \in R PROVE step[i][e] = Next1(e, i)
  <2> HIDE DEF R, Next1, n
  <2> QED OBVIOUS
<1> HIDE DEF step
<1>6. PICK a : IsRun(a, n, R, rs, step)
  <2> HIDE DEF n, R
  <2> QED BY <1>1, <1>2, <1>4, RunExists
<1>7. Solves(a)
  <2>1. a = [i \in 0 .. n |-> a[i]] /\ a[0] = rs /\ \A i \in 0 .. n : a[i] \in R
    <3> HIDE DEF R, n
    <3> QED BY <1>6 DEF IsRun
  <2>2. ASSUME NEW i \in 0 .. n
        PROVE  a[i] = IF i = 0 THEN rs
                      ELSE IF Snapshots(k)!Present(a[i - 1], job.kind, job.items[i]) THEN a[i - 1]
                      ELSE Append(a[i - 1], Snapshots(k)!NewRow(a[i - 1], job.kind, job.items[i]))
    <3>1. CASE i = 0
      BY <2>1, <3>1
    <3>2. CASE i # 0
      <4>1. i \in 1 .. n /\ i - 1 \in 0 .. n
        BY <1>1, <3>2
      <4>2. a[i] = step[i][a[i - 1]] /\ a[i - 1] \in R
        <5> HIDE DEF R, n
        <5> QED BY <1>6, <2>1, <4>1 DEF IsRun
      <4>3. a[i] = Next1(a[i - 1], i)
        BY <1>5, <4>1, <4>2
      <4> QED BY <3>2, <4>3
    <3> QED BY <3>1, <3>2
  <2> HIDE DEF n
  <2> QED BY <2>1, <2>2
<1>8. Solves(taken)
  <2> HIDE DEF Solves
  <2> QED BY <1>7
<1>9. Snapshots(k)!Extended(rs, job) = taken[n]
  BY DEF Snapshots!Extended
<1> HIDE DEF taken
<1>10. taken = [i \in 0 .. n |-> taken[i]] /\ taken[0] = rs
       /\ \A i \in 1 .. n : taken[i] = Next1(taken[i - 1], i)
  <2> HIDE DEF n
  <2>1. taken = [i \in 0 .. n |-> taken[i]]
    BY <1>8
  <2>2. taken[0] = rs
    BY <1>1, <1>8
  <2>3. ASSUME NEW i \in 1 .. n PROVE taken[i] = Next1(taken[i - 1], i)
    <3>1. i \in 0 .. n /\ i # 0
      BY <1>1
    <3> QED BY <1>8, <3>1
  <2> HIDE DEF Next1, Solves
  <2> QED BY <2>1, <2>2, <2>3
<1> HIDE DEF Next1, Solves
<1> DEFINE G == {i \in 0 .. n : Grown(k, rs, job, taken[i])}
<1>11. 0 \in G
  <2>1. Grown(k, rs, job, rs)
    <3>1. Len(rs) \in Nat /\ DOMAIN rs = 1 .. Len(rs) /\ SubSeq(rs, 1, Len(rs)) = rs
      BY <1>2, WholeIsPart
    <3>2. ASSUME NEW m \in Len(rs) .. Len(rs) PROVE Snapshots(k)!Written(SubSeq(rs, 1, m))
      <4>1. m = Len(rs)
        BY <3>1
      <4> QED BY <3>1, <4>1
    <3>3. \A i \in DOMAIN rs : ~(i > Len(rs))
      BY <3>1
    <3> QED BY <1>2, <3>1, <3>2, <3>3 DEF Grown
  <2> QED BY <1>1, <1>10, <2>1
<1>12. ASSUME NEW i \in G, i < n PROVE i + 1 \in G
  <2>1. i \in 0 .. n /\ i + 1 \in 1 .. n /\ (i + 1) - 1 = i /\ i + 1 \in 0 .. n
        /\ Grown(k, rs, job, taken[i])
    BY <1>1, <1>12
  <2>2. taken[i + 1] = Next1(taken[i], i + 1)
    BY <1>10, <2>1
  <2>3. Grown(k, rs, job, taken[i + 1])
    <3>1. CASE Snapshots(k)!Present(taken[i], job.kind, job.items[i + 1])
      BY <2>1, <2>2, <3>1 DEF Next1
    <3>2. CASE ~Snapshots(k)!Present(taken[i], job.kind, job.items[i + 1])
      <4>1. Grown(k, rs, job, Append(taken[i],
                                     Snapshots(k)!NewRow(taken[i], job.kind, job.items[i + 1])))
        BY <1>1, <2>1, <3>2, GrownStep
      <4> QED BY <2>2, <3>2, <4>1 DEF Next1
    <3> QED BY <3>1, <3>2
  <2> QED BY <2>1, <2>3
<1>13. n \in G
  <2>1. G \subseteq 0 .. n
    OBVIOUS
  <2> HIDE DEF G, n
  <2> QED BY <1>1, <1>11, <1>12, <2>1, ReachesTop
<1> QED BY <1>9, <1>13

\* Where the elements of two joined sequences are.
LEMMA JoinedPlaces ==
    ASSUME NEW T, NEW a \in Seq(T), NEW b \in Seq(T)
    PROVE  /\ a \o b \in Seq(T) /\ Len(a \o b) = Len(a) + Len(b)
           /\ \A i \in 1 .. (Len(a) + Len(b)) :
                  (a \o b)[i] = IF i <= Len(a) THEN a[i] ELSE b[i - Len(a)]
OBVIOUS

\* The rows that a call adds, and every part of them after the ledger.
LEMMA AddedRows ==
    ASSUME NEW k \in DOMAIN Ledgers, NEW rs, Snapshots(k)!Written(rs), Snapshots(k)!ValidChain(rs),
           NEW job \in Ledgers[k].job
    PROVE  LET added == SubSeq(Snapshots(k)!Extended(rs, job), Len(rs) + 1,
                               Len(Snapshots(k)!Extended(rs, job)))
           IN  /\ added \in Seq(Snapshots(k)!Row)
               /\ \A m \in 0 .. Len(added) : Snapshots(k)!Written(rs \o SubSeq(added, 1, m))
               /\ \A i \in DOMAIN added : added[i].id.kind = job.kind
                                          /\ added[i].stream \in Snapshots(k)!Targets(job)
<1> DEFINE e == Snapshots(k)!Extended(rs, job)
           n == Len(rs)
           added == SubSeq(e, n + 1, Len(e))
<1>1. Grown(k, rs, job, e)
  BY ExtendedIsGrown
<1> HIDE DEF e
<1>2. /\ e \in Seq(Snapshots(k)!Row) /\ rs \in Seq(Snapshots(k)!Row) /\ n \in Nat /\ Len(e) \in Nat /\ Len(e) >= n
      /\ DOMAIN rs = 1 .. n /\ DOMAIN e = 1 .. Len(e)
      /\ \A i \in DOMAIN rs : e[i] = rs[i]
  BY <1>1 DEF Grown, Snapshots!Written
<1> HIDE DEF n
<1>3. /\ added \in Seq(Snapshots(k)!Row) /\ Len(added) = Len(e) - n
      /\ DOMAIN added = 1 .. (Len(e) - n)
      /\ \A i \in 1 .. (Len(e) - n) : added[i] = e[n + i]
  <2>1. \A i \in (n + 1) .. Len(e) : e[i] \in Snapshots(k)!Row
    BY <1>2
  <2> QED BY <1>2, <2>1
<1> HIDE DEF added
<1>4. ASSUME NEW m \in 0 .. Len(added) PROVE Snapshots(k)!Written(rs \o SubSeq(added, 1, m))
  <2> DEFINE some == SubSeq(added, 1, m)
             longer == rs \o some
             part_of == SubSeq(e, 1, n + m)
  <2>1. n + m \in n .. Len(e) /\ m \in Nat /\ n + m \in Nat
    BY <1>2, <1>3
  <2>2. /\ some \in Seq(Snapshots(k)!Row) /\ Len(some) = m /\ \A i \in 1 .. m : some[i] = added[i]
    BY <1>3
  <2> HIDE DEF some
  <2>3. /\ longer \in Seq(Snapshots(k)!Row) /\ Len(longer) = n + m
        /\ \A i \in 1 .. (n + m) : longer[i] = IF i <= n THEN rs[i] ELSE some[i - n]
    <3>1. /\ longer \in Seq(Snapshots(k)!Row) /\ Len(longer) = Len(rs) + Len(some)
          /\ \A i \in 1 .. (Len(rs) + Len(some)) :
                 longer[i] = IF i <= Len(rs) THEN rs[i] ELSE some[i - Len(rs)]
      BY <1>2, <2>2, JoinedPlaces
    <3> HIDE DEF longer
    <3> QED BY <2>2, <3>1 DEF n
  <2>4. /\ part_of \in Seq(Snapshots(k)!Row) /\ Len(part_of) = n + m
        /\ \A i \in 1 .. (n + m) : part_of[i] = e[i]
    BY <1>2, <2>1
  <2> HIDE DEF longer, part_of
  <2>5. ASSUME NEW i \in 1 .. (n + m) PROVE longer[i] = part_of[i]
    <3>1. CASE i <= n
      <4>1. i \in DOMAIN rs
        BY <1>2, <2>1, <3>1
      <4> QED BY <1>2, <2>3, <2>4, <3>1, <4>1
    <3>2. CASE ~(i <= n)
      <4>1. i - n \in 1 .. m /\ i - n \in 1 .. (Len(e) - n) /\ n + (i - n) = i
        BY <1>2, <2>1, <3>2
      <4> QED BY <1>3, <2>2, <2>3, <2>4, <3>2, <4>1
    <3> QED BY <3>1, <3>2
  <2>6. longer = part_of
    BY <2>3, <2>4, <2>5
  <2>7. Snapshots(k)!Written(part_of)
    BY <1>1, <2>1 DEF Grown, part_of, n
  <2> QED BY <2>6, <2>7 DEF longer, some
<1>5. ASSUME NEW i \in DOMAIN added
      PROVE  added[i].id.kind = job.kind /\ added[i].stream \in Snapshots(k)!Targets(job)
  <2>1. n + i \in DOMAIN e /\ n + i > n /\ added[i] = e[n + i]
    BY <1>2, <1>3
  <2> QED BY <1>1, <2>1 DEF Grown, n
<1> QED BY <1>3, <1>4, <1>5 DEF added, e, n

------------------------------------------------------------------------------
(***************************************************************************)
(* The snapshot ledgers: calls and steps                                   *)
(***************************************************************************)
\* What a call is, by its step.
LEMMA LedgerCallIs ==
    ASSUME NEW k \in DOMAIN Ledgers, NEW c \in Snapshots(k)!Calls
    PROVE  /\ c # Nothing
           /\ c.step \in {"resolve", "begin", "register", "append", "answer"}
           /\ c.step \in {"resolve", "begin"} =>
                  /\ c.job \in Ledgers[k].job /\ c.todo \in SUBSET Ledgers[k].stream
                  /\ c = [step |-> c.step, job |-> c.job, todo |-> c.todo]
           /\ c.step = "register" =>
                  /\ c.job \in Ledgers[k].job /\ c.todo \in SUBSET Ledgers[k].stream
                  /\ c.target \in Ledgers[k].stream
           /\ c.step \in {"append", "answer"} =>
                  /\ c.rows \in Seq(Snapshots(k)!Row) /\ c.ids \in SUBSET Snapshots(k)!RowId
                  /\ c = [step |-> c.step, rows |-> c.rows, ids |-> c.ids]
<1>1. c # Nothing
  BY LedgerConstants
<1>2. CASE c \in [step : {"resolve", "begin"}, job : Ledgers[k].job, todo : SUBSET Ledgers[k].stream]
  BY <1>1, <1>2
<1>3. CASE c \in [step : {"register"}, job : Ledgers[k].job, todo : SUBSET Ledgers[k].stream,
                  target : Ledgers[k].stream]
  BY <1>1, <1>3
<1>4. CASE c \in [step : {"append", "answer"}, rows : Seq(Snapshots(k)!Row), ids : SUBSET Snapshots(k)!RowId]
  <2> DEFINE R == Seq(Snapshots(k)!Row)
             T == SUBSET Snapshots(k)!RowId
  <2> HIDE DEF R, T
  <2>1. c \in [step : {"append", "answer"}, rows : R, ids : T]
    BY <1>4 DEF R, T
  <2>2. /\ c.step \in {"append", "answer"} /\ c.rows \in R /\ c.ids \in T
        /\ c = [step |-> c.step, rows |-> c.rows, ids |-> c.ids]
    BY <2>1
  <2> QED BY <1>1, <2>2 DEF R, T
<1> QED BY <1>2, <1>3, <1>4 DEF Snapshots!Calls

\* The ids that a ledger has stay with what is appended to it.
LEMMA IdsStay ==
    ASSUME NEW k \in DOMAIN Ledgers, NEW rs \in Seq(Snapshots(k)!Row),
           NEW more \in Seq(Snapshots(k)!Row)
    PROVE  Snapshots(k)!SoundIds(rs) \subseteq Snapshots(k)!SoundIds(rs \o more)
<1> DEFINE longer == rs \o more
<1>1. /\ Len(rs) \in Nat /\ Len(more) \in Nat /\ DOMAIN rs = 1 .. Len(rs)
      /\ longer \in Seq(Snapshots(k)!Row) /\ Len(longer) = Len(rs) + Len(more)
      /\ \A i \in 1 .. (Len(rs) + Len(more)) :
             longer[i] = IF i <= Len(rs) THEN rs[i] ELSE more[i - Len(rs)]
  BY JoinedPlaces
<1> HIDE DEF longer
<1>2. ASSUME NEW i \in DOMAIN rs PROVE i \in DOMAIN longer /\ longer[i] = rs[i]
  BY <1>1
<1>3. Snapshots(k)!SoundIds(rs) \subseteq Snapshots(k)!SoundIds(longer)
  BY <1>2 DEF Snapshots!SoundIds
<1> QED BY <1>3 DEF longer

\* A call in the transaction is the one that has the lock.
LEMMA LedgerHolder ==
    ASSUME NEW k \in DOMAIN Ledgers, Snapshots(k)!LedgerInv, NEW p \in Ledgers[k].proc,
           Snapshots(k)!InStep(p, "append") \/ Snapshots(k)!InStep(p, "answer")
    PROVE  /\ lock = p /\ call[p] \in Snapshots(k)!Calls
           /\ \A q \in Ledgers[k].proc \ {p} : ~Snapshots(k)!InStep(q, "append") /\ ~Snapshots(k)!InStep(q, "answer")
<1>1. lock = p /\ \A q \in Ledgers[k].proc \ {p} : lock # q
  BY DEF Snapshots!LedgerInv
<1>2. call[p] \in Snapshots(k)!Calls
  BY DEF Snapshots!LedgerInv, Snapshots!Typed, Snapshots!InStep
<1> QED BY <1>1, <1>2 DEF Snapshots!LedgerInv

\* How a file may end.
Tails == {"ended", "open", "cut"}

\* A step adds targets to the registry, or spoils it for good, or leaves it alone.
RegistryKeeps(k) ==
    /\ registered' \in Seq(Ledgers[k].stream) /\ registry_tail' \in Tails
    /\ registry_tail' # "cut" =>
           registry_tail # "cut" /\ \A s : Snapshots(k)!Known(s) => Snapshots(k)!Known(s)'

\* A step of one call keeps the invariant, if what it does to the files and what it does
\* next are as they should be.
LEMMA LedgerGoes ==
    ASSUME NEW k \in DOMAIN Ledgers, Snapshots(k)!LedgerInv, NEW p \in Ledgers[k].proc,
           NEW next \in Snapshots(k)!Calls \cup {Nothing}, call' = [call EXCEPT ![p] = next],
           Snapshots(k)!Written(ledger'), ledger' = ledger \/ lock = p,
           Snapshots(k)!RowsRegistered(ledger)', RegistryKeeps(k), Snapshots(k)!AnsweredSoundly',
           lock' \in Ledgers[k].proc \cup {Nothing},
           next # Nothing /\ next.step \in {"append", "answer"} <=> lock' = p,
           \A q \in Ledgers[k].proc \ {p} : lock' = q <=> lock = q,
           next # Nothing /\ next.step \in {"resolve", "register", "begin"} =>
               /\ next.step = "begin" => next.todo = {}
               /\ Snapshots(k)!Registers(next.job) =>
                      \A s \in Snapshots(k)!Targets(next.job) \ Snapshots(k)!Unregistered(next) :
                          registry_tail' # "cut" => Snapshots(k)!Known(s)',
           next # Nothing /\ next.step = "append" =>
               ledger' = ledger /\ Snapshots(k)!AppendsSoundly(next),
           next # Nothing /\ next.step = "answer" => next.ids \subseteq Snapshots(k)!SoundIds(ledger'),
           tail' \in Tails, crashes' \in 0 .. Ledgers[k].max_crashes,
           reading' = reading, shown' = shown
    PROVE  Snapshots(k)!LedgerInv'
<1>1. call \in [Ledgers[k].proc -> Snapshots(k)!Calls \cup {Nothing}]
  BY DEF Snapshots!LedgerInv, Snapshots!Typed
<1>2. /\ call' \in [Ledgers[k].proc -> Snapshots(k)!Calls \cup {Nothing}] /\ call'[p] = next
      /\ \A q \in Ledgers[k].proc \ {p} : call'[q] = call[q]
  BY <1>1
<1>3. Snapshots(k)!Typed'
  BY <1>2 DEF Snapshots!LedgerInv, Snapshots!Typed, RegistryKeeps, Tails
<1>4. \A q \in Ledgers[k].proc \ {p} :
          \A step \in {"resolve", "register", "begin", "append", "answer"} :
              Snapshots(k)!InStep(q, step)' <=> Snapshots(k)!InStep(q, step)
  BY <1>2 DEF Snapshots!InStep
<1>5. \A step : Snapshots(k)!InStep(p, step)' <=> next # Nothing /\ next.step = step
  BY <1>2 DEF Snapshots!InStep
<1>6. Snapshots(k)!RegistersFirst'
  <2> SUFFICES ASSUME NEW q \in Ledgers[k].proc,
                      (Snapshots(k)!InStep(q, "resolve") \/ Snapshots(k)!InStep(q, "register")
                       \/ Snapshots(k)!InStep(q, "begin"))'
               PROVE  /\ call'[q].step = "begin" => call'[q].todo = {}
                      /\ Snapshots(k)!Registers(call'[q].job) =>
                             \A s \in Snapshots(k)!Targets(call'[q].job) \ Snapshots(k)!Unregistered(call'[q]) :
                                 registry_tail' # "cut" => Snapshots(k)!Known(s)'
    BY DEF Snapshots!RegistersFirst
  <2>1. CASE q = p
    BY <1>2, <1>5, <2>1
  <2>2. CASE q # p
    <3>1. call'[q] = call[q]
      BY <1>2, <2>2
    <3>2. /\ call[q].step = "begin" => call[q].todo = {}
          /\ Snapshots(k)!Registers(call[q].job) =>
                 \A s \in Snapshots(k)!Targets(call[q].job) \ Snapshots(k)!Unregistered(call[q]) :
                     registry_tail # "cut" => Snapshots(k)!Known(s)
      BY <1>4, <2>2 DEF Snapshots!LedgerInv, Snapshots!RegistersFirst
    <3> QED BY <3>1, <3>2 DEF RegistryKeeps
  <2> QED BY <2>1, <2>2
<1>7. ASSUME NEW q \in Ledgers[k].proc
      PROVE  /\ (Snapshots(k)!InStep(q, "append") \/ Snapshots(k)!InStep(q, "answer"))' <=> lock' = q
             /\ Snapshots(k)!InStep(q, "append")' => Snapshots(k)!AppendsSoundly(call[q])'
             /\ Snapshots(k)!InStep(q, "answer")' => call'[q].ids \subseteq Snapshots(k)!SoundIds(ledger')
  <2>0. ASSUME NEW rs, Snapshots(k)!RowsRegistered(rs) PROVE Snapshots(k)!RowsRegistered(rs)'
    BY <2>0 DEF Snapshots!RowsRegistered, RegistryKeeps
  <2>1. CASE q = p
    <3>1. (Snapshots(k)!InStep(q, "append") \/ Snapshots(k)!InStep(q, "answer"))' <=> lock' = q
      BY <1>5, <2>1
    <3>2. ASSUME Snapshots(k)!InStep(q, "append")' PROVE Snapshots(k)!AppendsSoundly(call[q])'
      <4>1. next # Nothing /\ next.step = "append" /\ call'[q] = next
        BY <1>2, <1>5, <2>1, <3>2
      <4>2. /\ ledger' = ledger /\ Snapshots(k)!AppendsSoundly(next)
            /\ Snapshots(k)!RowsRegistered(next.rows)'
        BY <2>0, <4>1 DEF Snapshots!AppendsSoundly
      <4> QED BY <4>1, <4>2 DEF Snapshots!AppendsSoundly
    <3>3. Snapshots(k)!InStep(q, "answer")' => call'[q].ids \subseteq Snapshots(k)!SoundIds(ledger')
      BY <1>2, <1>5, <2>1
    <3> QED BY <3>1, <3>2, <3>3
  <2>2. CASE q # p
    <3>1. /\ (Snapshots(k)!InStep(q, "append") \/ Snapshots(k)!InStep(q, "answer")) <=> lock = q
          /\ Snapshots(k)!InStep(q, "append") => Snapshots(k)!AppendsSoundly(call[q])
          /\ Snapshots(k)!InStep(q, "answer") => call[q].ids \subseteq Snapshots(k)!SoundIds(ledger)
      BY DEF Snapshots!LedgerInv
    <3>2. (Snapshots(k)!InStep(q, "append") \/ Snapshots(k)!InStep(q, "answer"))' <=> lock' = q
      BY <1>4, <2>2, <3>1
    <3>3. ASSUME Snapshots(k)!InStep(q, "append")' PROVE Snapshots(k)!AppendsSoundly(call[q])'
      <4>1. Snapshots(k)!InStep(q, "append") /\ lock = q /\ call'[q] = call[q]
        BY <1>2, <1>4, <2>2, <3>1, <3>3
      <4>2. ledger' = ledger /\ Snapshots(k)!AppendsSoundly(call[q])
        BY <2>2, <3>1, <4>1
      <4>3. PICK c : c = call[q] /\ c = call'[q]
        BY <4>1
      <4>4. Snapshots(k)!RowsRegistered(c.rows)'
        BY <2>0, <4>2, <4>3 DEF Snapshots!AppendsSoundly
      <4> QED BY <4>2, <4>3, <4>4 DEF Snapshots!AppendsSoundly
    <3>4. Snapshots(k)!InStep(q, "answer")' => call'[q].ids \subseteq Snapshots(k)!SoundIds(ledger')
      BY <1>2, <1>4, <2>2, <3>1
    <3> QED BY <3>2, <3>3, <3>4
  <2> QED BY <2>1, <2>2
<1>8. \A r \in Ledgers[k].reader : reading'[r] # Nothing => Snapshots(k)!Written(reading'[r])
  BY DEF Snapshots!LedgerInv
<1>9. Snapshots(k)!NoReaderSeesInvalid'
  BY DEF Snapshots!LedgerInv, Snapshots!NoReaderSeesInvalid
<1> QED BY <1>3, <1>6, <1>7, <1>8, <1>9 DEF Snapshots!LedgerInv

\* The first ledger has been written by nobody, and no call is under way.
LEMMA LedgerBegins ==
    ASSUME NEW k \in DOMAIN Ledgers, Snapshots(k)!Init
    PROVE  Snapshots(k)!LedgerInv
<1> DEFINE first == Ledgers[k].first
<1>1. /\ ledger = first /\ tail = "ended" /\ lock = Nothing
      /\ call = [p \in Ledgers[k].proc |-> Nothing] /\ registered = <<>>
      /\ registry_tail = "ended"
      /\ answered = {} /\ reading = [r \in Ledgers[k].reader |-> Nothing]
      /\ shown = [r \in Ledgers[k].reader |-> {}] /\ crashes = 0
  BY DEF Snapshots!Init
<1>2. /\ first \in Seq(Snapshots(k)!Row) /\ Snapshots(k)!ValidChain(first) /\ Len(first) \in Nat
      /\ DOMAIN first = 1 .. Len(first) /\ Ledgers[k].max_crashes \in Nat
      /\ Nothing \notin Ledgers[k].proc /\ Nothing \notin Snapshots(k)!Calls
      /\ \A i \in DOMAIN first :
             /\ first[i].id.kind \in {"observed", "raw"}
             /\ first[i].id.stream = first[i].stream
             /\ first[i].id.kind = "observed" => first[i].id.seq = first[i].seq
  BY LedgerConstants
<1> HIDE DEF first
<1>3. Snapshots(k)!Written(first)
  <2>1. \A i \in DOMAIN first : Snapshots(k)!OwnId(first[i])
    BY <1>2 DEF Snapshots!OwnId
  <2>2. Snapshots(k)!OneInvalid(first) /\ Snapshots(k)!MarkedAsEdited(first) /\ Snapshots(k)!ChainHolds(first)
    BY <1>2 DEF Snapshots!OneInvalid, Snapshots!MarkedAsEdited, Snapshots!ChainHolds
  <2>3. \A i, j \in DOMAIN first :
            first[i].id = first[j].id /\ j > Len(first) => i = j
    BY <1>2
  <2> QED BY <1>2, <2>1, <2>2, <2>3 DEF Snapshots!Written, first
<1>4. Snapshots(k)!Typed
  <2>1. /\ {tail, registry_tail} \subseteq {"ended", "open", "cut"}
        /\ lock \in Ledgers[k].proc \cup {Nothing}
    BY <1>1
  <2>2. registered \in Seq(Ledgers[k].stream) /\ crashes \in 0 .. Ledgers[k].max_crashes
    BY <1>1, <1>2
  <2>3. call \in [Ledgers[k].proc -> Snapshots(k)!Calls \cup {Nothing}]
    BY <1>1
  <2>4. /\ reading \in [Ledgers[k].reader -> Seq(Snapshots(k)!Row) \cup {Nothing}]
        /\ shown \in [Ledgers[k].reader -> SUBSET Snapshots(k)!Row]
    BY <1>1
  <2> QED BY <2>1, <2>2, <2>3, <2>4 DEF Snapshots!Typed
<1>5. Snapshots(k)!RowsRegistered(ledger)
  BY <1>1, <1>2 DEF Snapshots!RowsRegistered
<1>6. \A p \in Ledgers[k].proc : call[p] = Nothing
  BY <1>1
<1>7. Snapshots(k)!RegistersFirst
  BY <1>6 DEF Snapshots!RegistersFirst, Snapshots!InStep
<1>8. Snapshots(k)!NoReaderSeesInvalid
  BY <1>1 DEF Snapshots!NoReaderSeesInvalid
<1>9. \A p \in Ledgers[k].proc : ~Snapshots(k)!InStep(p, "append") /\ ~Snapshots(k)!InStep(p, "answer") /\ lock # p
  BY <1>1, <1>2, <1>6 DEF Snapshots!InStep
<1>10. \A r \in Ledgers[k].reader : reading[r] = Nothing
  BY <1>1
<1>11. Snapshots(k)!AnsweredSoundly
  BY <1>1 DEF Snapshots!AnsweredSoundly
<1> QED BY <1>1, <1>3, <1>4, <1>5, <1>7, <1>8, <1>9, <1>10, <1>11 DEF Snapshots!LedgerInv

\* The step of each action of a writer before it has the lock.
LEMMA LedgerFrame ==
    ASSUME NEW k \in DOMAIN Ledgers, Snapshots(k)!LedgerInv
    PROVE  /\ Snapshots(k)!Written(ledger) /\ Snapshots(k)!RowsRegistered(ledger)
           /\ registered \in Seq(Ledgers[k].stream) /\ registry_tail \in Tails /\ tail \in Tails
           /\ Snapshots(k)!AnsweredSoundly /\ lock \in Ledgers[k].proc \cup {Nothing}
           /\ crashes \in 0 .. Ledgers[k].max_crashes /\ Ledgers[k].max_crashes \in Nat
           /\ call \in [Ledgers[k].proc -> Snapshots(k)!Calls \cup {Nothing}]
           /\ ledger \in Seq(Snapshots(k)!Row) /\ Nothing \notin Ledgers[k].proc
BY LedgerConstants DEF Snapshots!LedgerInv, Snapshots!Typed, Snapshots!Written, Tails

\* A registry that is left alone is kept.
LEMMA RegistryAlone ==
    ASSUME NEW k \in DOMAIN Ledgers, Snapshots(k)!LedgerInv, UNCHANGED <<registered,
           registry_tail>>
    PROVE  RegistryKeeps(k)
<1>1. \A s : Snapshots(k)!Known(s)' <=> Snapshots(k)!Known(s)
  BY DEF Snapshots!Known
<1> QED BY <1>1, LedgerFrame DEF RegistryKeeps

\* What is registered stays so, and with it the rows' targets.
LEMMA RegisteredStays ==
    ASSUME NEW k \in DOMAIN Ledgers, Snapshots(k)!LedgerInv, ledger' = ledger, RegistryKeeps(k)
    PROVE  Snapshots(k)!RowsRegistered(ledger)'
BY DEF Snapshots!LedgerInv, Snapshots!RowsRegistered, RegistryKeeps

\* What was answered stays so while nothing is written, and what is answered of the rows
\* that are there.
LEMMA AnsweredStays ==
    ASSUME NEW k \in DOMAIN Ledgers, Snapshots(k)!LedgerInv, UNCHANGED <<ledger, tail>>,
           answered' \subseteq answered \cup Snapshots(k)!SoundIds(ledger)
    PROVE  Snapshots(k)!AnsweredSoundly'
BY DEF Snapshots!LedgerInv, Snapshots!AnsweredSoundly

\* An entry put into the registry makes its target known; or the registry is spoilt.
LEMMA EntryKeeps ==
    ASSUME NEW k \in DOMAIN Ledgers, Snapshots(k)!LedgerInv, NEW t \in Ledgers[k].stream,
           \/ registered' = Append(registered, t) /\ registry_tail = "ended"
                  /\ registry_tail' \in {"ended", "open"}
           \/ Snapshots(k)!SpoilsRegistry
    PROVE  RegistryKeeps(k) /\ (registry_tail' # "cut" => Snapshots(k)!Known(t)')
<1>1. registered \in Seq(Ledgers[k].stream) /\ Len(registered) \in Nat
  BY LedgerFrame
<1>2. CASE registered' = Append(registered, t) /\ registry_tail = "ended"
           /\ registry_tail' \in {"ended", "open"}
  <2>1. /\ registered' \in Seq(Ledgers[k].stream)
        /\ \A i \in DOMAIN registered : i \in DOMAIN registered' /\ registered'[i] = registered[i]
        /\ Len(registered) + 1 \in DOMAIN registered' /\ registered'[Len(registered) + 1] = t
    BY <1>1, <1>2, AppendedPlaces
  <2> QED BY <1>2, <2>1 DEF RegistryKeeps, Snapshots!Known, Tails
<1>3. CASE Snapshots(k)!SpoilsRegistry
  <2>1. registered' \in Seq(Ledgers[k].stream) /\ registry_tail' = "cut"
    BY <1>1, <1>3, ButLastIs DEF Snapshots!SpoilsRegistry
  <2> QED BY <2>1 DEF RegistryKeeps, Tails
<1> QED BY <1>2, <1>3

\* A call starts: nothing of an earlier call is left in it.
LEMMA StartCallKeeps ==
    ASSUME NEW k \in DOMAIN Ledgers, Snapshots(k)!LedgerInv, NEW p \in Ledgers[k].proc, NEW job \in Ledgers[k].job,
           Snapshots(k)!StartCall(p, job)
    PROVE  Snapshots(k)!LedgerInv'
<1> DEFINE next == [step |-> IF Snapshots(k)!Registers(job) THEN "resolve" ELSE "begin", job |-> job,
                    todo |-> IF Snapshots(k)!Registers(job) THEN Snapshots(k)!Targets(job) ELSE {}]
<1>1. /\ call[p] = Nothing /\ call' = [call EXCEPT ![p] = next]
      /\ UNCHANGED <<ledger, tail, lock, registered, registry_tail, answered, reading, shown, crashes>>
  BY DEF Snapshots!StartCall, Snapshots!Goes, Snapshots!file, Snapshots!targets
<1>2. Snapshots(k)!Targets(job) \subseteq Ledgers[k].stream
  <2>1. job.items \in Seq(Snapshots(k)!Item)
    BY LedgerConstants
  <2>2. \A i \in DOMAIN job.items : job.items[i] \in Snapshots(k)!Item
    BY <2>1
  <2> QED BY <2>2 DEF Snapshots!Targets, Snapshots!Item
<1>3. /\ next \in Snapshots(k)!Calls /\ next.step \in {"resolve", "begin"} /\ next.job = job
      /\ next.step = "begin" => next.todo = {} /\ ~Snapshots(k)!Registers(job)
      /\ next.step = "resolve" => next.todo = Snapshots(k)!Targets(job)
  BY <1>2 DEF Snapshots!Calls
<1>4. next # Nothing
  BY <1>3, LedgerCallIs
<1> HIDE DEF next
<1>5. Snapshots(k)!Registers(job) => Snapshots(k)!Targets(job) \ Snapshots(k)!Unregistered(next) = {}
  BY <1>3 DEF Snapshots!Unregistered
<1>6. lock # p
  BY <1>1, LedgerHolder DEF Snapshots!LedgerInv, Snapshots!InStep
<1> QED BY <1>1, <1>3, <1>4, <1>5, <1>6, LedgerFrame, RegistryAlone, RegisteredStays,
           AnsweredStays, LedgerGoes

\* A call looks up one of its targets in the registry.
LEMMA ResolveTargetKeeps ==
    ASSUME NEW k \in DOMAIN Ledgers, Snapshots(k)!LedgerInv, NEW p \in Ledgers[k].proc,
           Snapshots(k)!ResolveTarget(p)
    PROVE  Snapshots(k)!LedgerInv'
<1> DEFINE c == call[p]
<1>1. /\ c # Nothing /\ c.step = "resolve"
      /\ UNCHANGED <<ledger, tail, lock, registered, registry_tail, answered, reading, shown, crashes>>
  BY DEF Snapshots!ResolveTarget, Snapshots!InStep, Snapshots!file, Snapshots!targets
<1>2. c \in Snapshots(k)!Calls
  BY <1>1, LedgerFrame
<1>3. c.job \in Ledgers[k].job /\ c.todo \in SUBSET Ledgers[k].stream
      /\ c = [step |-> c.step, job |-> c.job, todo |-> c.todo]
  BY <1>1, <1>2, LedgerCallIs
<1>4. Snapshots(k)!Registers(c.job) =>
          \A s \in Snapshots(k)!Targets(c.job) \ c.todo : registry_tail # "cut" => Snapshots(k)!Known(s)
  BY <1>1 DEF Snapshots!LedgerInv, Snapshots!RegistersFirst, Snapshots!InStep,
              Snapshots!Unregistered
<1>5. /\ lock # p /\ RegistryKeeps(k) /\ Snapshots(k)!RowsRegistered(ledger)' /\ Snapshots(k)!AnsweredSoundly'
      /\ \A s : Snapshots(k)!Known(s)' <=> Snapshots(k)!Known(s)
  <2>1. lock # p
    BY <1>1 DEF Snapshots!LedgerInv, Snapshots!InStep
  <2>2. \A s : Snapshots(k)!Known(s)' <=> Snapshots(k)!Known(s)
    BY <1>1 DEF Snapshots!Known
  <2> QED BY <1>1, <2>1, <2>2, RegistryAlone, RegisteredStays, AnsweredStays
<1>6. PICK s \in c.todo :
          IF registry_tail = "cut" THEN Snapshots(k)!Goes(p, Nothing)
          ELSE IF Snapshots(k)!Known(s)
          THEN Snapshots(k)!Goes(p, [step |-> IF call[p].todo = {s} THEN "begin" ELSE "resolve",
                             job |-> call[p].job, todo |-> call[p].todo \ {s}])
          ELSE Snapshots(k)!Goes(p, [step |-> "register", job |-> call[p].job,
                             todo |-> call[p].todo \ {s}, target |-> s])
  BY DEF Snapshots!ResolveTarget
<1>7. CASE registry_tail = "cut"
  <2>1. call' = [call EXCEPT ![p] = Nothing]
    BY <1>6, <1>7 DEF Snapshots!Goes
  <2> HIDE DEF c
  <2> QED BY <1>1, <1>5, <2>1, LedgerFrame, LedgerGoes
<1>8. CASE registry_tail # "cut" /\ Snapshots(k)!Known(s)
  <2> DEFINE next == [step |-> IF c.todo = {s} THEN "begin" ELSE "resolve",
                      job |-> c.job, todo |-> c.todo \ {s}]
  <2>1. call' = [call EXCEPT ![p] = next]
    BY <1>6, <1>8 DEF Snapshots!Goes
  <2>2. /\ next \in Snapshots(k)!Calls /\ next.step \in {"resolve", "begin"} /\ next.job = c.job
        /\ next.step = "begin" => next.todo = {} /\ next.todo = c.todo \ {s}
    BY <1>3 DEF Snapshots!Calls
  <2>3. next.todo = c.todo \ {s}
    OBVIOUS
  <2>4. next # Nothing
    BY <2>2, LedgerCallIs
  <2> HIDE DEF next, c
  <2>5. Snapshots(k)!Registers(next.job) =>
            \A t \in Snapshots(k)!Targets(next.job) \ Snapshots(k)!Unregistered(next) :
                registry_tail' # "cut" => Snapshots(k)!Known(t)'
    BY <1>1, <1>4, <1>5, <1>8, <2>2, <2>3 DEF Snapshots!Unregistered
  <2> QED BY <1>1, <1>5, <2>1, <2>2, <2>4, <2>5, LedgerFrame, LedgerGoes
<1>9. CASE registry_tail # "cut" /\ ~Snapshots(k)!Known(s)
  <2> DEFINE next == [step |-> "register", job |-> c.job, todo |-> c.todo \ {s}, target |-> s]
  <2>1. call' = [call EXCEPT ![p] = next]
    BY <1>6, <1>9 DEF Snapshots!Goes
  <2>2. /\ next \in Snapshots(k)!Calls /\ next.step = "register" /\ next.job = c.job
        /\ next.todo = c.todo \ {s} /\ next.target = s
    BY <1>3 DEF Snapshots!Calls
  <2>3. next # Nothing
    BY <2>2, LedgerCallIs
  <2> HIDE DEF next, c
  <2>4. Snapshots(k)!Registers(next.job) =>
            \A t \in Snapshots(k)!Targets(next.job) \ Snapshots(k)!Unregistered(next) :
                registry_tail' # "cut" => Snapshots(k)!Known(t)'
    BY <1>1, <1>4, <1>5, <2>2 DEF Snapshots!Unregistered
  <2> QED BY <1>1, <1>5, <2>1, <2>2, <2>3, <2>4, LedgerFrame, LedgerGoes
<1> QED BY <1>7, <1>8, <1>9

\* A target that the registry had not is added to it.
LEMMA RegisterTargetKeeps ==
    ASSUME NEW k \in DOMAIN Ledgers, Snapshots(k)!LedgerInv, NEW p \in Ledgers[k].proc,
           Snapshots(k)!RegisterTarget(p)
    PROVE  Snapshots(k)!LedgerInv'
<1> DEFINE c == call[p]
           next == [step |-> IF c.todo = {} THEN "begin" ELSE "resolve",
                    job |-> c.job, todo |-> c.todo]
<1>1. /\ c # Nothing /\ c.step = "register"
      /\ UNCHANGED <<ledger, tail, lock, answered, reading, shown, crashes>>
      /\ \/ registered' = Append(registered, c.target) /\ registry_tail = "ended"
                /\ registry_tail' \in {"ended", "open"}
         \/ Snapshots(k)!SpoilsRegistry
      /\ call' = [call EXCEPT ![p] = next]
  BY DEF Snapshots!RegisterTarget, Snapshots!InStep, Snapshots!Goes, Snapshots!file
<1>2. c \in Snapshots(k)!Calls
  BY <1>1, LedgerFrame
<1>3. c.job \in Ledgers[k].job /\ c.todo \in SUBSET Ledgers[k].stream /\ c.target \in Ledgers[k].stream
  BY <1>1, <1>2, LedgerCallIs
<1>4. Snapshots(k)!Registers(c.job) =>
          \A s \in Snapshots(k)!Targets(c.job) \ (c.todo \cup {c.target}) :
              registry_tail # "cut" => Snapshots(k)!Known(s)
  BY <1>1 DEF Snapshots!LedgerInv, Snapshots!RegistersFirst, Snapshots!InStep,
              Snapshots!Unregistered
<1>5. PICK t \in Ledgers[k].stream : t = c.target
  BY <1>3
<1>6. /\ next \in Snapshots(k)!Calls /\ next.step \in {"resolve", "begin"} /\ next.job = c.job
      /\ next.step = "begin" => next.todo = {}
      /\ next.todo = c.todo
  BY <1>3 DEF Snapshots!Calls
<1>7. next # Nothing
  BY <1>6, LedgerCallIs
<1> HIDE DEF next, c
<1>8. RegistryKeeps(k) /\ (registry_tail' # "cut" => Snapshots(k)!Known(t)')
  BY <1>1, <1>5, EntryKeeps
<1>9. Snapshots(k)!Registers(next.job) =>
          \A s \in Snapshots(k)!Targets(next.job) \ Snapshots(k)!Unregistered(next) :
              registry_tail' # "cut" => Snapshots(k)!Known(s)'
  BY <1>4, <1>5, <1>6, <1>8 DEF Snapshots!Unregistered, RegistryKeeps
<1>10. lock # p
  BY <1>1 DEF Snapshots!LedgerInv, Snapshots!InStep, c
<1> QED BY <1>1, <1>6, <1>7, <1>8, <1>9, <1>10, LedgerFrame, RegisteredStays, AnsweredStays,
           LedgerGoes

\* Under the lock the rows of a call are built on the ledger, each part of which may
\* follow it.
LEMMA BeginTransactionKeeps ==
    ASSUME NEW k \in DOMAIN Ledgers, Snapshots(k)!LedgerInv, NEW p \in Ledgers[k].proc,
           Snapshots(k)!BeginTransaction(p)
    PROVE  Snapshots(k)!LedgerInv'
<1> DEFINE c == call[p]
           job == c.job
           e == Snapshots(k)!Extended(ledger, job)
           added == SubSeq(e, Len(ledger) + 1, Len(e))
           ids == Snapshots(k)!SavedIds(ledger, job, added)
           next == [step |-> IF added = <<>> THEN "answer" ELSE "append",
                    rows |-> added, ids |-> ids]
<1>1. /\ c # Nothing /\ c.step = "begin"
      /\ UNCHANGED <<ledger, tail, registered, registry_tail, answered, reading, shown, crashes>>
      /\ \/ call' = [call EXCEPT ![p] = Nothing] /\ lock' = lock
         \/ /\ lock = Nothing /\ Snapshots(k)!ValidChain(ledger)
            /\ lock' = p /\ call' = [call EXCEPT ![p] = next]
  BY DEF Snapshots!BeginTransaction, Snapshots!InStep, Snapshots!Goes, Snapshots!Usable,
         Snapshots!file, Snapshots!targets
<1>2. c \in Snapshots(k)!Calls
  BY <1>1, LedgerFrame
<1>3. job \in Ledgers[k].job /\ c.todo = {}
  BY <1>1, <1>2, LedgerCallIs DEF Snapshots!LedgerInv, Snapshots!RegistersFirst,
                                  Snapshots!InStep
<1>4. Snapshots(k)!Registers(job) => \A s \in Snapshots(k)!Targets(job) : registry_tail # "cut" => Snapshots(k)!Known(s)
  BY <1>1, <1>3 DEF Snapshots!LedgerInv, Snapshots!RegistersFirst, Snapshots!InStep,
                    Snapshots!Unregistered
<1>5. lock # p
  BY <1>1 DEF Snapshots!LedgerInv, Snapshots!InStep
<1>6. CASE call' = [call EXCEPT ![p] = Nothing] /\ lock' = lock
  <2> HIDE DEF c
  <2> QED BY <1>1, <1>5, <1>6, LedgerFrame, RegistryAlone, RegisteredStays, AnsweredStays,
             LedgerGoes
<1>7. CASE lock = Nothing /\ Snapshots(k)!ValidChain(ledger) /\ lock' = p
           /\ call' = [call EXCEPT ![p] = next]
  <2>1. Snapshots(k)!Written(ledger) /\ ledger \in Seq(Snapshots(k)!Row)
    BY LedgerFrame
  <2>2. /\ added \in Seq(Snapshots(k)!Row)
        /\ \A m \in 0 .. Len(added) : Snapshots(k)!Written(ledger \o SubSeq(added, 1, m))
        /\ \A i \in DOMAIN added : added[i].id.kind = job.kind
                                   /\ added[i].stream \in Snapshots(k)!Targets(job)
    BY <1>3, <1>7, <2>1, AddedRows
  <2>3. job.kind \in Snapshots(k)!JobKind /\ job.items \in Seq(Snapshots(k)!Item)
        /\ \A i \in DOMAIN job.items : job.items[i] \in Snapshots(k)!Item
    BY <1>3, LedgerConstants
  <2> HIDE DEF added, job, c
  <2>4. Snapshots(k)!RowsRegistered(added)
    BY <1>4, <2>2 DEF Snapshots!RowsRegistered, Snapshots!Registers
  <2>5. ids \subseteq Snapshots(k)!SoundIds(ledger \o added)
    <3> DEFINE longer == ledger \o added
    <3>1. /\ longer \in Seq(Snapshots(k)!Row) /\ Len(ledger) \in Nat /\ Len(added) \in Nat
          /\ Len(longer) = Len(ledger) + Len(added)
          /\ \A i \in 1 .. (Len(ledger) + Len(added)) :
                 longer[i] = IF i <= Len(ledger) THEN ledger[i] ELSE added[i - Len(ledger)]
      BY <2>1, <2>2, JoinedPlaces
    <3> HIDE DEF longer
    <3>2. ASSUME NEW i \in DOMAIN ledger, ledger[i].id.kind \notin {"invalid", "revocation"}
          PROVE  ledger[i].id \in Snapshots(k)!SoundIds(longer)
      <4>1. i \in DOMAIN longer /\ longer[i] = ledger[i]
        BY <2>1, <3>1
      <4> QED BY <3>2, <4>1 DEF Snapshots!SoundIds
    <3>3. ASSUME NEW i \in DOMAIN added PROVE added[i].id \in Snapshots(k)!SoundIds(longer)
      <4>1. /\ Len(ledger) + i \in DOMAIN longer /\ longer[Len(ledger) + i] = added[i]
        <5>1. i \in 1 .. Len(added)
          BY <2>2
        <5>2. Len(ledger) + i \in 1 .. (Len(ledger) + Len(added))
              /\ ~(Len(ledger) + i <= Len(ledger)) /\ (Len(ledger) + i) - Len(ledger) = i
          BY <3>1, <5>1
        <5> QED BY <3>1, <5>2
      <4>2. added[i].id.kind \notin {"invalid", "revocation"}
        BY <2>2, <2>3 DEF Snapshots!JobKind
      <4> QED BY <4>1, <4>2 DEF Snapshots!SoundIds
    <3>4. ASSUME NEW n \in DOMAIN job.items, Snapshots(k)!Present(ledger, job.kind,
                 job.items[n])

               PROVE  Snapshots(k)!TakenOver(job.kind, job.items[n]) \in Snapshots(k)!SoundIds(longer)
      <4>1. PICK i \in DOMAIN ledger : ledger[i].id = Snapshots(k)!TakenOver(job.kind, job.items[n])
        BY <3>4 DEF Snapshots!Present
      <4>2. ledger[i].id.kind = job.kind
        BY <4>1 DEF Snapshots!TakenOver
      <4>3. ledger[i].id.kind \notin {"invalid", "revocation"}
        BY <2>3, <4>2 DEF Snapshots!JobKind
      <4> QED BY <3>2, <4>1, <4>3
    <3>5. Snapshots(k)!IdsOf(added) \subseteq Snapshots(k)!SoundIds(longer)
      BY <3>3 DEF Snapshots!IdsOf
    <3> QED BY <3>4, <3>5 DEF Snapshots!SavedIds, longer
  <2>6. ids \subseteq Snapshots(k)!RowId
    <3>1. ledger \o added \in Seq(Snapshots(k)!Row)
      BY <2>1, <2>2
    <3>2. \A i \in DOMAIN (ledger \o added) : (ledger \o added)[i].id \in Snapshots(k)!RowId
      BY <3>1, RowParts
    <3>3. Snapshots(k)!SoundIds(ledger \o added) \subseteq Snapshots(k)!RowId
      <4> DEFINE longer == ledger \o added
      <4> HIDE DEF longer
      <4>1. \A i \in DOMAIN longer : longer[i].id \in Snapshots(k)!RowId
        BY <3>2 DEF longer
      <4>2. Snapshots(k)!SoundIds(longer) \subseteq Snapshots(k)!RowId
        BY <4>1 DEF Snapshots!SoundIds
      <4> QED BY <4>2 DEF longer
    <3> QED BY <2>5, <3>3
  <2> HIDE DEF ids
  <2>7. /\ next \in Snapshots(k)!Calls /\ next.step \in {"append", "answer"}
        /\ next.rows = added /\ next.ids = ids
        /\ next.step = "answer" => added = <<>>
    <3> DEFINE R == Seq(Snapshots(k)!Row)
               T == SUBSET Snapshots(k)!RowId
    <3> HIDE DEF R, T
    <3>1. added \in R /\ ids \in T
      BY <2>2, <2>6 DEF R, T
    <3>2. next \in [step : {"append", "answer"}, rows : R, ids : T]
      BY <3>1
    <3>3. next \in Snapshots(k)!Calls
      BY <3>2 DEF Snapshots!Calls, R, T
    <3> QED BY <3>3
  <2>8. next # Nothing
    BY <2>7, LedgerCallIs
  <2> HIDE DEF next
  <2>9. Snapshots(k)!AppendsSoundly(next)
    BY <2>2, <2>4, <2>5, <2>7 DEF Snapshots!AppendsSoundly
  <2>10. next.step = "answer" => next.ids \subseteq Snapshots(k)!SoundIds(ledger)
    <3>1. added = <<>> => ledger \o added = ledger
      BY <2>1
    <3> QED BY <2>5, <2>7, <3>1
  <2>11. /\ \A q \in Ledgers[k].proc \ {p} : lock' = q <=> lock = q
         /\ lock' \in Ledgers[k].proc \cup {Nothing} /\ lock' = p
    BY <1>7, LedgerFrame
  <2>12. Snapshots(k)!RowsRegistered(ledger)' /\ RegistryKeeps(k) /\ Snapshots(k)!AnsweredSoundly'
    BY <1>1, RegistryAlone, RegisteredStays, AnsweredStays
  <2>13. /\ Snapshots(k)!Written(ledger') /\ ledger' = ledger
         /\ Snapshots(k)!RowsRegistered(ledger)' /\ RegistryKeeps(k) /\ Snapshots(k)!AnsweredSoundly'
         /\ tail' \in Tails /\ crashes' \in 0 .. Ledgers[k].max_crashes
    BY <1>1, <2>12, LedgerFrame
  <2>14. /\ next # Nothing /\ next.step \in {"append", "answer"} <=> lock' = p
         /\ ~(next.step \in {"resolve", "register", "begin"})
    BY <2>7, <2>8, <2>11
  <2>15. next.step = "answer" => next.ids \subseteq Snapshots(k)!SoundIds(ledger')
    BY <2>10, <2>13
  <2> HIDE DEF e
  <2> QED BY <1>1, <1>7, <2>7, <2>9, <2>11, <2>13, <2>14, <2>15, LedgerGoes
<1> QED BY <1>1, <1>6, <1>7

\* The revocation of the last row is all that is appended.
LEMMA BeginRevocationKeeps ==
    ASSUME NEW k \in DOMAIN Ledgers, Snapshots(k)!LedgerInv, NEW p \in Ledgers[k].proc,
           Snapshots(k)!BeginRevocation(p)
    PROVE  Snapshots(k)!LedgerInv'
<1> DEFINE row == Snapshots(k)!RevocationOf(ledger)
           next == [step |-> "append", rows |-> <<row>>, ids |-> {}]
<1>1. /\ call[p] = Nothing /\ lock = Nothing /\ lock' = p
      /\ UNCHANGED <<ledger, tail, registered, registry_tail, answered, reading, shown, crashes>>
      /\ call' = [call EXCEPT ![p] = next]
      /\ Snapshots(k)!Revocable(ledger) /\ Snapshots(k)!ValidChain(Append(ledger, row))
  BY DEF Snapshots!BeginRevocation, Snapshots!Goes, Snapshots!file, Snapshots!targets
<1>2. Snapshots(k)!Written(ledger) /\ ledger \in Seq(Snapshots(k)!Row)
  BY LedgerFrame
<1>3. /\ Snapshots(k)!Written(Append(ledger, row)) /\ row \in Snapshots(k)!Row /\ row.id.kind = "revocation"
  BY <1>1, <1>2, RevocationKeeps
<1> HIDE DEF row
<1>4. <<row>> \in Seq(Snapshots(k)!Row) /\ Len(<<row>>) = 1 /\ <<row>>[1] = row
      /\ DOMAIN <<row>> = 1 .. 1
  BY <1>3
<1>5. ASSUME NEW m \in 0 .. 1 PROVE Snapshots(k)!Written(ledger \o SubSeq(<<row>>, 1, m))
  <2>1. CASE m = 0
    <3>1. SubSeq(<<row>>, 1, 0) = <<>>
      BY <1>4
    <3>2. ledger \o <<>> = ledger
      BY <1>2
    <3> QED BY <1>2, <2>1, <3>1, <3>2
  <2>2. CASE m = 1
    <3>1. SubSeq(<<row>>, 1, 1) = <<row>>
      BY <1>4, WholeIsPart
    <3>2. ledger \o <<row>> = Append(ledger, row)
      BY <1>2, <1>3
    <3> QED BY <1>3, <2>2, <3>1, <3>2
  <2> QED BY <2>1, <2>2
<1>6. Snapshots(k)!RowsRegistered(<<row>>)
  BY <1>3, <1>4 DEF Snapshots!RowsRegistered
<1>7. /\ next \in Snapshots(k)!Calls /\ next.step = "append" /\ next.rows = <<row>> /\ next.ids = {}
  <2> DEFINE R == Seq(Snapshots(k)!Row)
             T == SUBSET Snapshots(k)!RowId
             some == <<row>>
  <2>1. some \in R /\ {} \in T
    BY <1>4
  <2> HIDE DEF R, T, some
  <2>2. next \in [step : {"append", "answer"}, rows : R, ids : T]
    BY <2>1 DEF some
  <2>3. next \in Snapshots(k)!Calls
    BY <2>2 DEF Snapshots!Calls, R, T
  <2> QED BY <2>3
<1>8. next # Nothing
  BY <1>7, LedgerCallIs
<1> HIDE DEF next
<1>9. Snapshots(k)!AppendsSoundly(next)
  BY <1>4, <1>5, <1>6, <1>7 DEF Snapshots!AppendsSoundly
<1>10. /\ \A q \in Ledgers[k].proc \ {p} : lock' = q <=> lock = q
       /\ lock' \in Ledgers[k].proc \cup {Nothing}
  BY <1>1, LedgerFrame
<1>11. Snapshots(k)!RowsRegistered(ledger)' /\ RegistryKeeps(k) /\ Snapshots(k)!AnsweredSoundly'
  BY <1>1, RegistryAlone, RegisteredStays, AnsweredStays
<1>12. /\ Snapshots(k)!Written(ledger') /\ ledger' = ledger
       /\ Snapshots(k)!RowsRegistered(ledger)' /\ RegistryKeeps(k) /\ Snapshots(k)!AnsweredSoundly'
       /\ tail' \in Tails /\ crashes' \in 0 .. Ledgers[k].max_crashes
  BY <1>1, <1>11, LedgerFrame
<1>13. /\ next # Nothing /\ next.step \in {"append", "answer"} <=> lock' = p
       /\ ~(next.step \in {"resolve", "register", "begin"})
  BY <1>1, <1>7, <1>8
<1> QED BY <1>1, <1>7, <1>9, <1>10, <1>12, <1>13, LedgerGoes

\* Rows that are appended are registered if the others are.
LEMMA RegisteredJoin ==
    ASSUME NEW k \in DOMAIN Ledgers, NEW rs \in Seq(Snapshots(k)!Row), NEW more \in Seq(Snapshots(k)!Row),
           Snapshots(k)!RowsRegistered(rs), Snapshots(k)!RowsRegistered(more),
           ledger' = rs \o more, RegistryKeeps(k)
    PROVE  Snapshots(k)!RowsRegistered(ledger)'
<1> DEFINE longer == rs \o more
<1>1. /\ Len(rs) \in Nat /\ Len(more) \in Nat /\ DOMAIN rs = 1 .. Len(rs)
      /\ DOMAIN more = 1 .. Len(more) /\ longer \in Seq(Snapshots(k)!Row)
      /\ Len(longer) = Len(rs) + Len(more)
      /\ \A i \in 1 .. (Len(rs) + Len(more)) :
             longer[i] = IF i <= Len(rs) THEN rs[i] ELSE more[i - Len(rs)]
  BY JoinedPlaces
<1> HIDE DEF longer
<1>2. ASSUME registry_tail # "cut",
             NEW i \in DOMAIN longer, longer[i].id.kind \in {"message", "legacy"}
      PROVE  Snapshots(k)!Known(longer[i].stream)
  <2>1. i \in 1 .. (Len(rs) + Len(more))
    BY <1>1
  <2>2. CASE i <= Len(rs)
    BY <1>1, <1>2, <2>1, <2>2 DEF Snapshots!RowsRegistered
  <2>3. CASE ~(i <= Len(rs))
    <3>1. i - Len(rs) \in DOMAIN more /\ longer[i] = more[i - Len(rs)]
      BY <1>1, <2>1, <2>3
    <3> QED BY <1>2, <3>1 DEF Snapshots!RowsRegistered
  <2> QED BY <2>2, <2>3
<1> QED BY <1>2 DEF Snapshots!RowsRegistered, RegistryKeeps, longer

\* A part of rows is registered if they are.
LEMMA RegisteredPart ==
    ASSUME NEW k \in DOMAIN Ledgers, NEW rs \in Seq(Snapshots(k)!Row), Snapshots(k)!RowsRegistered(rs),
           NEW n \in 0 .. Len(rs)

         PROVE  Snapshots(k)!RowsRegistered(SubSeq(rs, 1, n)) /\ SubSeq(rs, 1, n) \in Seq(Snapshots(k)!Row)
<1>1. /\ SubSeq(rs, 1, n) \in Seq(Snapshots(k)!Row) /\ DOMAIN SubSeq(rs, 1, n) = 1 .. n
      /\ \A i \in 1 .. n : SubSeq(rs, 1, n)[i] = rs[i] /\ i \in DOMAIN rs
  OBVIOUS
<1> QED BY <1>1 DEF Snapshots!RowsRegistered

\* What a call that appends may do to the files.
LEMMA AppendMay ==
    ASSUME NEW k \in DOMAIN Ledgers, Snapshots(k)!LedgerInv, NEW p \in Ledgers[k].proc,
           Snapshots(k)!InStep(p, "append")
    PROVE  /\ call[p] \in Snapshots(k)!Calls /\ lock = p /\ call[p].rows \in Seq(Snapshots(k)!Row)
           /\ Len(call[p].rows) \in Nat
           /\ call[p] = [step |-> "append", rows |-> call[p].rows, ids |-> call[p].ids]
           /\ \A n \in 0 .. Len(call[p].rows) :
                  Snapshots(k)!Written(ledger \o SubSeq(call[p].rows, 1, n))
           /\ ledger \o SubSeq(call[p].rows, 1, Len(call[p].rows)) = ledger \o call[p].rows
           /\ Snapshots(k)!RowsRegistered(call[p].rows)
           /\ call[p].ids \subseteq Snapshots(k)!SoundIds(ledger \o call[p].rows)
<1>1. call[p] \in Snapshots(k)!Calls /\ lock = p /\ call[p].step = "append"
  BY LedgerHolder DEF Snapshots!InStep
<1>2. /\ call[p].rows \in Seq(Snapshots(k)!Row)
      /\ call[p] = [step |-> "append", rows |-> call[p].rows, ids |-> call[p].ids]
  BY <1>1, LedgerCallIs
<1>3. Snapshots(k)!AppendsSoundly(call[p])
  BY DEF Snapshots!LedgerInv
<1>4. SubSeq(call[p].rows, 1, Len(call[p].rows)) = call[p].rows /\ Len(call[p].rows) \in Nat
  BY <1>2, WholeIsPart
<1> QED BY <1>1, <1>2, <1>3, <1>4 DEF Snapshots!AppendsSoundly

\* A ledger that was glued to keeps its rows but for the last one, which may have been
\* answered.
LEMMA SpoiltLedger ==
    ASSUME NEW k \in DOMAIN Ledgers, Snapshots(k)!LedgerInv, Snapshots(k)!Spoils, answered' = answered,
           RegistryKeeps(k), tail # "ended"
    PROVE  /\ Snapshots(k)!Written(ledger') /\ Snapshots(k)!RowsRegistered(ledger)'
           /\ Snapshots(k)!AnsweredSoundly' /\ tail' \in Tails
<1>1. /\ tail' = "cut" /\ Snapshots(k)!RowsRegistered(ledger) /\ Snapshots(k)!Written(ledger)
      /\ ledger \in Seq(Snapshots(k)!Row)
  BY LedgerFrame DEF Snapshots!Spoils
<1>2. CASE tail = "cut"
  <2>1. ledger' = ledger
    BY <1>2 DEF Snapshots!Spoils
  <2>2. Snapshots(k)!AnsweredSoundly'
    BY <1>1, <1>2, <2>1 DEF Snapshots!LedgerInv, Snapshots!AnsweredSoundly
  <2> QED BY <1>1, <2>1, <2>2, RegisteredStays DEF Tails
<1>3. CASE tail = "open"
  <2>1. /\ ledger # <<>> /\ Snapshots(k)!Written(Snapshots(k)!ButLast(ledger))
        /\ answered \subseteq Snapshots(k)!SoundIds(ledger)
    BY <1>3 DEF Snapshots!LedgerInv, Snapshots!AnsweredSoundly
  <2>2. PICK b : b = Snapshots(k)!ButLast(ledger) /\ ledger' = b
    BY <1>3 DEF Snapshots!Spoils
  <2>3. /\ b \in Seq(Snapshots(k)!Row) /\ Len(ledger) \in DOMAIN ledger
        /\ DOMAIN ledger = (DOMAIN b) \cup {Len(ledger)}
        /\ \A i \in DOMAIN b : b[i] = ledger[i]
    <3>1. PICK n \in Nat : n = Len(ledger)
      BY <1>1
    <3>2. /\ b \in Seq(Snapshots(k)!Row) /\ n \in DOMAIN ledger /\ n - 1 \in Nat
          /\ DOMAIN ledger = 1 .. n /\ DOMAIN b = 1 .. (n - 1)
          /\ \A i \in 1 .. (n - 1) : b[i] = ledger[i]
      BY <1>1, <2>1, <2>2, <3>1, ButLastIs
    <3>3. 1 .. n = (1 .. (n - 1)) \cup {n}
      <4>1. \A i : i \in 1 .. n <=> i \in 1 .. (n - 1) \/ i = n
        BY <3>2
      <4> QED BY <4>1, Zenon
    <3> QED BY <3>1, <3>2, <3>3
  <2>4. Snapshots(k)!SoundIds(ledger) \subseteq Snapshots(k)!SoundIds(b) \cup {ledger[Len(ledger)].id}
    BY <2>3, Zenon DEF Snapshots!SoundIds
  <2>5. Snapshots(k)!AnsweredSoundly'
    BY <1>1, <2>1, <2>2, <2>4 DEF Snapshots!AnsweredSoundly
  <2>6. Snapshots(k)!RowsRegistered(ledger)'
    BY <1>1, <2>2, <2>3, Zenon DEF Snapshots!RowsRegistered, RegistryKeeps
  <2> QED BY <1>1, <2>1, <2>2, <2>5, <2>6 DEF Tails
<1> QED BY <1>2, <1>3, LedgerFrame DEF Tails

\* The rows of a call are appended, all of them in one write; or they are glued to a row,
\* which raises.
LEMMA AppendRowsKeeps ==
    ASSUME NEW k \in DOMAIN Ledgers, Snapshots(k)!LedgerInv, NEW p \in Ledgers[k].proc,
           Snapshots(k)!AppendRows(p)
    PROVE  Snapshots(k)!LedgerInv'
<1> DEFINE rs == call[p].rows
           ids == call[p].ids
           next == [step |-> "answer", rows |-> rs, ids |-> ids]
<1>1. /\ Snapshots(k)!InStep(p, "append")
      /\ UNCHANGED <<registered, registry_tail, answered, reading, shown, crashes>>
      /\ \/ /\ tail = "ended" /\ ledger' = ledger \o rs /\ UNCHANGED <<tail, lock>>
            /\ call' = [call EXCEPT ![p] = [call[p] EXCEPT !.step = "answer"]]
         \/ /\ tail # "ended" /\ Snapshots(k)!Spoils /\ lock' = Nothing
            /\ call' = [call EXCEPT ![p] = Nothing]
  BY DEF Snapshots!AppendRows, Snapshots!Goes, Snapshots!targets
<1>2. /\ lock = p /\ rs \in Seq(Snapshots(k)!Row) /\ Len(rs) \in Nat /\ call[p] \in Snapshots(k)!Calls
      /\ call[p] = [step |-> "append", rows |-> rs, ids |-> ids]
      /\ Snapshots(k)!Written(ledger \o SubSeq(rs, 1, Len(rs)))
      /\ ledger \o SubSeq(rs, 1, Len(rs)) = ledger \o rs
      /\ Snapshots(k)!RowsRegistered(rs) /\ ids \subseteq Snapshots(k)!SoundIds(ledger \o rs)
  <2>1. Len(rs) \in Nat => Len(rs) \in 0 .. Len(rs)
    OBVIOUS
  <2> QED BY <1>1, <2>1, AppendMay
<1>3. ids \in SUBSET Snapshots(k)!RowId
  <2>1. call[p].step = "append"
    BY <1>1 DEF Snapshots!InStep
  <2> QED BY <1>2, <2>1, LedgerCallIs
<1>4. next = [call[p] EXCEPT !.step = "answer"]
  <2> HIDE DEF rs, ids
  <2> QED BY <1>2
<1>5. next \in Snapshots(k)!Calls /\ next.step = "answer" /\ next.ids = ids
  <2> DEFINE R == Seq(Snapshots(k)!Row)
             T == SUBSET Snapshots(k)!RowId
  <2> HIDE DEF R, T, rs, ids
  <2>1. rs \in R /\ ids \in T
    BY <1>2, <1>3 DEF R, T
  <2>2. next \in [step : {"append", "answer"}, rows : R, ids : T]
    BY <2>1
  <2>3. next \in Snapshots(k)!Calls
    BY <2>2 DEF Snapshots!Calls, R, T
  <2> QED BY <2>3
<1>6. next # Nothing
  BY <1>5, LedgerCallIs
<1> HIDE DEF next, rs, ids
<1>7. RegistryKeeps(k) /\ crashes' \in 0 .. Ledgers[k].max_crashes
  BY <1>1, RegistryAlone, LedgerFrame
<1>8. CASE /\ tail = "ended" /\ ledger' = ledger \o rs /\ UNCHANGED <<tail, lock>>
           /\ call' = [call EXCEPT ![p] = next]
  <2>1. Snapshots(k)!RowsRegistered(ledger)'
    BY <1>2, <1>7, <1>8, LedgerFrame, RegisteredJoin
  <2>2. Snapshots(k)!SoundIds(ledger) \subseteq Snapshots(k)!SoundIds(ledger')
    BY <1>2, <1>8, LedgerFrame, IdsStay
  <2>3. Snapshots(k)!AnsweredSoundly'
    BY <1>1, <1>8, <2>2 DEF Snapshots!LedgerInv, Snapshots!AnsweredSoundly
  <2>4. /\ Snapshots(k)!Written(ledger') /\ tail' \in Tails
        /\ lock' = p /\ lock' = lock /\ lock' \in Ledgers[k].proc \cup {Nothing}
    BY <1>2, <1>8, LedgerFrame
  <2>5. next.ids \subseteq Snapshots(k)!SoundIds(ledger')
    BY <1>2, <1>5, <1>8
  <2> QED BY <1>1, <1>2, <1>5, <1>6, <1>7, <1>8, <2>1, <2>3, <2>4, <2>5, LedgerGoes
<1>9. CASE tail # "ended" /\ Snapshots(k)!Spoils /\ lock' = Nothing /\ call' = [call EXCEPT ![p] = Nothing]
  <2>1. /\ Snapshots(k)!Written(ledger') /\ Snapshots(k)!RowsRegistered(ledger)'
        /\ Snapshots(k)!AnsweredSoundly' /\ tail' \in Tails
    BY <1>1, <1>7, <1>9, SpoiltLedger
  <2>2. \A q \in Ledgers[k].proc \ {p} : lock' = q <=> lock = q
    BY <1>2, <1>9, LedgerFrame
  <2> QED BY <1>1, <1>2, <1>7, <1>9, <2>1, <2>2, LedgerFrame, LedgerGoes
<1> QED BY <1>1, <1>4, <1>8, <1>9

\* The write fails: the ledger is as it was, and the call raises.
LEMMA AppendFailsKeeps ==
    ASSUME NEW k \in DOMAIN Ledgers, Snapshots(k)!LedgerInv, NEW p \in Ledgers[k].proc,
           Snapshots(k)!AppendFails(p)
    PROVE  Snapshots(k)!LedgerInv'
<1>1. /\ Snapshots(k)!InStep(p, "append") /\ lock' = Nothing
      /\ UNCHANGED <<ledger, tail, registered, registry_tail, answered, reading, shown, crashes>>
      /\ call' = [call EXCEPT ![p] = Nothing]
  BY DEF Snapshots!AppendFails, Snapshots!Goes, Snapshots!file, Snapshots!targets
<1>2. lock = p
  BY <1>1, LedgerHolder
<1>3. \A q \in Ledgers[k].proc \ {p} : lock' = q <=> lock = q
  BY <1>1, <1>2, LedgerFrame
<1> QED BY <1>1, <1>2, <1>3, LedgerFrame, RegistryAlone, RegisteredStays, AnsweredStays,
           LedgerGoes

\* A call answers, and gives up the lock.
LEMMA AnswerKeeps ==
    ASSUME NEW k \in DOMAIN Ledgers, Snapshots(k)!LedgerInv, NEW p \in Ledgers[k].proc,
           Snapshots(k)!Answer(p)
    PROVE  Snapshots(k)!LedgerInv'
<1>1. /\ Snapshots(k)!InStep(p, "answer") /\ lock' = Nothing
      /\ UNCHANGED <<ledger, tail, registered, registry_tail, reading, shown, crashes>>
      /\ call' = [call EXCEPT ![p] = Nothing] /\ answered' = answered \cup call[p].ids
  BY DEF Snapshots!Answer, Snapshots!Goes, Snapshots!file, Snapshots!targets
<1>2. lock = p /\ call[p].ids \subseteq Snapshots(k)!SoundIds(ledger)
  BY <1>1, LedgerHolder DEF Snapshots!LedgerInv
<1>3. \A q \in Ledgers[k].proc \ {p} : lock' = q <=> lock = q
  BY <1>1, <1>2, LedgerFrame
<1>4. Snapshots(k)!AnsweredSoundly'
  BY <1>1, <1>2, AnsweredStays
<1> QED BY <1>1, <1>2, <1>3, <1>4, LedgerFrame, RegistryAlone, RegisteredStays, LedgerGoes

\* Where the elements of a part of a sequence are.
LEMMA PartPlaces ==
    ASSUME NEW T, NEW rs \in Seq(T), NEW m \in 0 .. Len(rs)
    PROVE  /\ SubSeq(rs, 1, m) \in Seq(T) /\ Len(SubSeq(rs, 1, m)) = m
           /\ \A i \in 1 .. m : SubSeq(rs, 1, m)[i] = rs[i]
OBVIOUS

\* Some rows of an append, and the last of them without its newline perhaps.
LEMMA PartOfAppend ==
    ASSUME NEW k \in DOMAIN Ledgers, NEW rs \in Seq(Snapshots(k)!Row), NEW more \in Seq(Snapshots(k)!Row),
           NEW n \in 1 .. Len(more)
    PROVE  /\ rs \o SubSeq(more, 1, n) # <<>> /\ n - 1 \in 0 .. Len(more)
           /\ Snapshots(k)!ButLast(rs \o SubSeq(more, 1, n)) = rs \o SubSeq(more, 1, n - 1)
<1>1. PICK j \in Nat : j = n - 1 /\ n = j + 1 /\ j \in 0 .. Len(more)
  OBVIOUS
<1>2. PICK a, b : a = SubSeq(more, 1, n) /\ b = SubSeq(more, 1, j)
  OBVIOUS
<1>3. PICK m \in Nat : m = Len(rs)
  OBVIOUS
<1>4. /\ a \in Seq(Snapshots(k)!Row) /\ Len(a) = n /\ \A i \in 1 .. n : a[i] = more[i]
      /\ b \in Seq(Snapshots(k)!Row) /\ Len(b) = j /\ \A i \in 1 .. j : b[i] = more[i]
  <2>1. n \in 0 .. Len(more)
    BY <1>1
  <2> QED BY <1>1, <1>2, <2>1, PartPlaces
<1>5. PICK c, d : c = rs \o a /\ d = rs \o b
  OBVIOUS
<1>6. /\ c \in Seq(Snapshots(k)!Row) /\ Len(c) = m + n
      /\ \A i \in 1 .. (m + n) : c[i] = IF i <= m THEN rs[i] ELSE a[i - m]
  <2>1. /\ rs \o a \in Seq(Snapshots(k)!Row) /\ Len(rs \o a) = Len(rs) + Len(a)
        /\ \A i \in 1 .. (Len(rs) + Len(a)) :
               (rs \o a)[i] = IF i <= Len(rs) THEN rs[i] ELSE a[i - Len(rs)]
    BY <1>4, JoinedPlaces, Zenon
  <2> QED BY <1>3, <1>4, <1>5, <2>1, Zenon
<1>7. /\ d \in Seq(Snapshots(k)!Row) /\ Len(d) = m + j
      /\ \A i \in 1 .. (m + j) : d[i] = IF i <= m THEN rs[i] ELSE b[i - m]
  <2>1. /\ rs \o b \in Seq(Snapshots(k)!Row) /\ Len(rs \o b) = Len(rs) + Len(b)
        /\ \A i \in 1 .. (Len(rs) + Len(b)) :
               (rs \o b)[i] = IF i <= Len(rs) THEN rs[i] ELSE b[i - Len(rs)]
    BY <1>4, JoinedPlaces, Zenon
  <2> QED BY <1>3, <1>4, <1>5, <2>1, Zenon
<1>8. ASSUME NEW i \in 1 .. (m + j) PROVE c[i] = d[i]
  <2>1. i \in 1 .. (m + n)
    BY <1>1
  <2>2. CASE i <= m
    BY <1>6, <1>7, <2>1, <2>2
  <2>3. CASE ~(i <= m)
    <3>1. i - m \in 1 .. j /\ i - m \in 1 .. n
      BY <1>1, <2>3
    <3> QED BY <1>4, <1>6, <1>7, <2>1, <2>3, <3>1
  <2> QED BY <2>2, <2>3
<1>9. c # <<>> /\ Len(c) - 1 = m + j /\ m + j \in Nat
  BY <1>1, <1>6
<1>10. PICK e : e = Snapshots(k)!ButLast(c)
  OBVIOUS
<1>11. /\ e \in Seq(Snapshots(k)!Row) /\ DOMAIN e = 1 .. (m + j)
       /\ \A i \in 1 .. (m + j) : e[i] = c[i]
  <2>1. /\ e \in Seq(Snapshots(k)!Row) /\ DOMAIN e = 1 .. (Len(c) - 1)
        /\ \A i \in 1 .. (Len(c) - 1) : e[i] = c[i]
    BY <1>6, <1>9, <1>10, ButLastIs
  <2> QED BY <1>9, <2>1
<1>12. Len(e) = m + j
  BY <1>9, <1>11
<1>13. e = d
  <2>1. Len(e) = Len(d) /\ Len(d) = m + j /\ e \in Seq(Snapshots(k)!Row) /\ d \in Seq(Snapshots(k)!Row)
    BY <1>7, <1>11, <1>12
  <2>2. \A i \in 1 .. (m + j) : e[i] = d[i]
    BY <1>8, <1>11
  <2> QED BY <2>1, <2>2
<1> QED BY <1>1, <1>2, <1>5, <1>9, <1>10, <1>13

\* What a death leaves of an append is a ledger that was written.
LEMMA DeathLeaves ==
    ASSUME NEW k \in DOMAIN Ledgers, Snapshots(k)!LedgerInv, NEW p \in Ledgers[k].proc,
           Snapshots(k)!InStep(p, "append"), Snapshots(k)!DiesWriting(call[p].rows),
           UNCHANGED <<registered, registry_tail, answered>>
    PROVE  /\ Snapshots(k)!Written(ledger') /\ Snapshots(k)!RowsRegistered(ledger)'
           /\ Snapshots(k)!AnsweredSoundly' /\ tail' \in Tails
<1>1. PICK rs : rs = call[p].rows
  OBVIOUS
<1>2. /\ rs \in Seq(Snapshots(k)!Row) /\ Len(rs) \in Nat /\ Snapshots(k)!RowsRegistered(rs)
      /\ \A m \in 0 .. Len(rs) : Snapshots(k)!Written(ledger \o SubSeq(rs, 1, m))
  BY <1>1, AppendMay
<1>3. RegistryKeeps(k)
  BY RegistryAlone
<1>4. CASE tail = "ended"
  <2>1. PICK n \in 0 .. Len(rs) :
            /\ ledger' = ledger \o SubSeq(rs, 1, n) /\ tail' \in Tails
            /\ tail' = "open" => n > 0
    BY <1>1, <1>4 DEF Snapshots!DiesWriting, Tails
  <2>2. /\ Snapshots(k)!RowsRegistered(SubSeq(rs, 1, n)) /\ SubSeq(rs, 1, n) \in Seq(Snapshots(k)!Row)
        /\ Snapshots(k)!Written(ledger')
    BY <1>2, <2>1, RegisteredPart
  <2>3. Snapshots(k)!SoundIds(ledger) \subseteq Snapshots(k)!SoundIds(ledger')
    BY <2>1, <2>2, LedgerFrame, IdsStay
  <2>4. Snapshots(k)!RowsRegistered(ledger)'
    BY <1>3, <2>1, <2>2, LedgerFrame, RegisteredJoin
  <2>5. answered' \subseteq Snapshots(k)!SoundIds(ledger')
    BY <1>4, <2>3 DEF Snapshots!LedgerInv, Snapshots!AnsweredSoundly
  <2>6. ASSUME tail' = "open"
        PROVE  ledger' # <<>> /\ Snapshots(k)!Written(Snapshots(k)!ButLast(ledger'))
    <3>1. n \in 1 .. Len(rs)
      BY <1>2, <2>1, <2>6
    <3>2. /\ ledger' # <<>> /\ n - 1 \in 0 .. Len(rs)
          /\ Snapshots(k)!ButLast(ledger') = ledger \o SubSeq(rs, 1, n - 1)
      <4>1. ledger \in Seq(Snapshots(k)!Row)
        BY LedgerFrame
      <4> QED BY <1>2, <2>1, <3>1, <4>1, PartOfAppend
    <3> QED BY <1>2, <3>2
  <2>7. Snapshots(k)!AnsweredSoundly'
    BY <2>5, <2>6 DEF Snapshots!AnsweredSoundly
  <2> QED BY <2>1, <2>2, <2>4, <2>7
<1>5. CASE tail # "ended" /\ Snapshots(k)!Spoils
  BY <1>3, <1>5, SpoiltLedger
<1>6. CASE UNCHANGED Snapshots(k)!file
  <2>1. UNCHANGED <<ledger, tail>>
    BY <1>6 DEF Snapshots!file
  <2> QED BY <1>3, <2>1, LedgerFrame, RegisteredStays, AnsweredStays
<1> QED BY <1>1, <1>4, <1>5, <1>6 DEF Snapshots!DiesWriting

\* A writer that dies leaves its lock, and of an append a part.
LEMMA WriterDiesKeeps ==
    ASSUME NEW k \in DOMAIN Ledgers, Snapshots(k)!LedgerInv, NEW p \in Ledgers[k].proc,
           Snapshots(k)!WriterDies(p)
    PROVE  Snapshots(k)!LedgerInv'
<1>1. /\ crashes < Ledgers[k].max_crashes /\ crashes' = crashes + 1
      /\ call' = [call EXCEPT ![p] = Nothing]
      /\ lock' = IF lock = p THEN Nothing ELSE lock
      /\ UNCHANGED <<answered, reading, shown>>
  BY DEF Snapshots!WriterDies, Snapshots!Goes
<1>2. /\ crashes' \in 0 .. Ledgers[k].max_crashes /\ lock' # p
      /\ lock' \in Ledgers[k].proc \cup {Nothing}
      /\ \A q \in Ledgers[k].proc \ {p} : lock' = q <=> lock = q
  BY <1>1, LedgerFrame
<1>3. CASE Snapshots(k)!InStep(p, "append")
  <2>1. lock = p /\ UNCHANGED <<registered, registry_tail>> /\ Snapshots(k)!DiesWriting(call[p].rows)
    BY <1>3, LedgerHolder DEF Snapshots!WriterDies, Snapshots!InStep, Snapshots!targets
  <2>2. RegistryKeeps(k)
    BY <2>1, RegistryAlone
  <2>3. /\ Snapshots(k)!Written(ledger') /\ Snapshots(k)!RowsRegistered(ledger)'
        /\ Snapshots(k)!AnsweredSoundly' /\ tail' \in Tails
    BY <1>1, <1>3, <2>1, DeathLeaves
  <2> QED BY <1>1, <1>2, <2>1, <2>2, <2>3, LedgerGoes
<1>4. CASE ~Snapshots(k)!InStep(p, "append")
  <2>1. UNCHANGED <<ledger, tail>>
    BY <1>4 DEF Snapshots!WriterDies, Snapshots!file
  <2>2. RegistryKeeps(k)
    <3>1. CASE Snapshots(k)!InStep(p, "register")
      <4>1. call[p] \in Snapshots(k)!Calls /\ call[p].step = "register"
        BY <3>1, LedgerFrame DEF Snapshots!InStep
      <4>2. PICK t \in Ledgers[k].stream : t = call[p].target
        BY <4>1, LedgerCallIs
      <4>3. Snapshots(k)!DiesRegistering(t)
        BY <3>1, <4>2 DEF Snapshots!WriterDies
      <4> QED BY <4>3, RegistryAlone, EntryKeeps
         DEF Snapshots!DiesRegistering, Snapshots!targets
    <3>2. CASE ~Snapshots(k)!InStep(p, "register")
      BY <3>2, RegistryAlone DEF Snapshots!WriterDies, Snapshots!targets
    <3> QED BY <3>1, <3>2
  <2>3. Snapshots(k)!RowsRegistered(ledger)' /\ Snapshots(k)!AnsweredSoundly'
    BY <1>1, <2>1, <2>2, RegisteredStays, AnsweredStays
  <2> QED BY <1>1, <1>2, <2>1, <2>2, <2>3, LedgerFrame, LedgerGoes
<1> QED BY <1>3, <1>4

\* Another program's row comes while nobody has the lock.
LEMMA WriteInvalidKeeps ==
    ASSUME NEW k \in DOMAIN Ledgers, Snapshots(k)!LedgerInv, NEW text \in Ledgers[k].content,
           Snapshots(k)!WriteInvalid(text)
    PROVE  Snapshots(k)!LedgerInv'
<1> DEFINE last == ledger[Len(ledger)]
           id == [kind |-> "invalid", stream |-> Ledgers[k].alias, key |-> Nothing,
                  seq |-> last.seq + 1]
           row == [id |-> id, stream |-> Ledgers[k].alias, seq |-> last.seq + 1, prev |-> last.id,
                   content |-> text, before |-> last.content, duplicate |-> FALSE,
                   hashed |-> FALSE]
<1>1. /\ lock = Nothing /\ ledger # <<>> /\ \A i \in DOMAIN ledger : ledger[i].id.kind # "invalid"
      /\ tail = "ended" /\ ledger' = Append(ledger, row)
      /\ UNCHANGED <<tail, lock, call, registered, registry_tail, answered, reading, shown, crashes>>
  BY DEF Snapshots!WriteInvalid, Snapshots!targets
<1>2. Snapshots(k)!Written(ledger) /\ ledger \in Seq(Snapshots(k)!Row)
  BY LedgerFrame
<1>3. last \in Snapshots(k)!Row
  <2>1. Len(ledger) \in DOMAIN ledger
    BY <1>1, <1>2
  <2> QED BY <1>2, <2>1
<1>4. /\ last.seq \in Nat /\ last.id \in Snapshots(k)!RowId /\ last.content \in Ledgers[k].content
      /\ Ledgers[k].alias \in Ledgers[k].stream
  BY <1>3, RowParts, LedgerConstants
<1> HIDE DEF last
<1>5. id \in Snapshots(k)!RowId /\ id \in Snapshots(k)!InvalidId /\ id.kind = "invalid"
      /\ id.stream = Ledgers[k].alias /\ id.seq = last.seq + 1
  BY <1>4 DEF Snapshots!RowId, Snapshots!InvalidId, Snapshots!Kind, Snapshots!Chained
<1> HIDE DEF id
<1>6. /\ row \in Snapshots(k)!Row /\ row.id = id /\ row.stream = Ledgers[k].alias /\ ~row.hashed
  <2>1. last.seq + 1 \in Nat
    BY <1>4
  <2> QED BY <1>4, <1>5, <2>1 DEF Snapshots!Row
<1> HIDE DEF row
<1>7. Snapshots(k)!Written(ledger')
  <2>1. Snapshots(k)!OwnId(row)
    BY <1>5, <1>6 DEF Snapshots!OwnId
  <2> QED BY <1>1, <1>2, <1>5, <1>6, <2>1, InvalidRowKeeps
<1>8. /\ ledger' \in Seq(Snapshots(k)!Row) /\ DOMAIN ledger' = (DOMAIN ledger) \cup {Len(ledger) + 1}
      /\ ledger'[Len(ledger) + 1] = row /\ \A i \in DOMAIN ledger : ledger'[i] = ledger[i]
  BY <1>1, <1>2, <1>6, AppendedPlaces
<1>9. Snapshots(k)!SoundIds(ledger) \subseteq Snapshots(k)!SoundIds(ledger')
  BY <1>8 DEF Snapshots!SoundIds
<1>10. Snapshots(k)!RowsRegistered(ledger)' /\ \A s : Snapshots(k)!Known(s)' <=> Snapshots(k)!Known(s)
  <2>1. row.id.kind \notin {"message", "legacy"}
    BY <1>5, <1>6
  <2>2. \A s : Snapshots(k)!Known(s)' <=> Snapshots(k)!Known(s)
    BY <1>1 DEF Snapshots!Known
  <2> QED BY <1>1, <1>8, <2>1, <2>2 DEF Snapshots!LedgerInv, Snapshots!RowsRegistered
<1>11. Snapshots(k)!AnsweredSoundly'
  BY <1>1, <1>9 DEF Snapshots!LedgerInv, Snapshots!AnsweredSoundly
<1>12. \A q \in Ledgers[k].proc : lock # q
  BY <1>1, LedgerFrame
<1>13. \A q \in Ledgers[k].proc : ~Snapshots(k)!InStep(q, "append") /\ ~Snapshots(k)!InStep(q, "answer")
  BY <1>12 DEF Snapshots!LedgerInv
<1>14. \A q \in Ledgers[k].proc : \A step : Snapshots(k)!InStep(q, step)' <=> Snapshots(k)!InStep(q, step)
  BY <1>1 DEF Snapshots!InStep
<1>15. \A q \in Ledgers[k].proc :
           /\ (Snapshots(k)!InStep(q, "append") \/ Snapshots(k)!InStep(q, "answer"))' <=> lock' = q
           /\ Snapshots(k)!InStep(q, "append")' => Snapshots(k)!AppendsSoundly(call[q])'
           /\ Snapshots(k)!InStep(q, "answer")' => call'[q].ids \subseteq Snapshots(k)!SoundIds(ledger')
  BY <1>1, <1>12, <1>13, <1>14
<1>16. Snapshots(k)!Typed'
  BY <1>1 DEF Snapshots!LedgerInv, Snapshots!Typed
<1>17. Snapshots(k)!RegistersFirst'
  BY <1>1, <1>10, <1>14 DEF Snapshots!LedgerInv, Snapshots!RegistersFirst
<1>18. Snapshots(k)!NoReaderSeesInvalid'
  BY <1>1 DEF Snapshots!LedgerInv, Snapshots!NoReaderSeesInvalid
<1>19. \A r \in Ledgers[k].reader : reading'[r] # Nothing => Snapshots(k)!Written(reading'[r])
  BY <1>1 DEF Snapshots!LedgerInv
<1> QED BY <1>7, <1>10, <1>11, <1>15, <1>16, <1>17, <1>18, <1>19 DEF Snapshots!LedgerInv

\* A reader changes nothing but what it has read.
LEMMA LedgerReads ==
    ASSUME NEW k \in DOMAIN Ledgers, Snapshots(k)!LedgerInv,
           UNCHANGED <<ledger, tail, lock, call, registered, registry_tail, answered, crashes>>,
           reading' \in [Ledgers[k].reader -> Seq(Snapshots(k)!Row) \cup {Nothing}],
           shown' \in [Ledgers[k].reader -> SUBSET Snapshots(k)!Row],
           \A r \in Ledgers[k].reader : reading'[r] # Nothing => Snapshots(k)!Written(reading'[r]),
           Snapshots(k)!NoReaderSeesInvalid'
    PROVE  Snapshots(k)!LedgerInv'
<1>1. Snapshots(k)!Typed'
  BY DEF Snapshots!LedgerInv, Snapshots!Typed
<1>0. \A s : Snapshots(k)!Known(s)' <=> Snapshots(k)!Known(s)
  BY DEF Snapshots!Known
<1>2. Snapshots(k)!RowsRegistered(ledger)' /\ Snapshots(k)!RegistersFirst'
  BY <1>0 DEF Snapshots!LedgerInv, Snapshots!RowsRegistered, Snapshots!RegistersFirst,
              Snapshots!InStep
<1>3. \A q \in Ledgers[k].proc :
          /\ (Snapshots(k)!InStep(q, "append") \/ Snapshots(k)!InStep(q, "answer"))' <=> lock' = q
          /\ Snapshots(k)!InStep(q, "append")' => Snapshots(k)!AppendsSoundly(call[q])'
          /\ Snapshots(k)!InStep(q, "answer")' => call'[q].ids \subseteq Snapshots(k)!SoundIds(ledger')
  BY <1>0 DEF Snapshots!LedgerInv, Snapshots!InStep, Snapshots!AppendsSoundly,
              Snapshots!RowsRegistered
<1>4. Snapshots(k)!Written(ledger') /\ Snapshots(k)!AnsweredSoundly'
  BY DEF Snapshots!LedgerInv, Snapshots!AnsweredSoundly
<1> QED BY <1>1, <1>2, <1>3, <1>4 DEF Snapshots!LedgerInv

\* A reader takes the rows of the ledger.
LEMMA ReadRowsKeeps ==
    ASSUME NEW k \in DOMAIN Ledgers, Snapshots(k)!LedgerInv, NEW r \in Ledgers[k].reader,
           Snapshots(k)!ReadRows(r)
    PROVE  Snapshots(k)!LedgerInv'
<1>1. /\ UNCHANGED <<ledger, tail, lock, call, registered, registry_tail, answered, crashes>>
      /\ shown' = shown
  BY DEF Snapshots!ReadRows, Snapshots!file, Snapshots!targets
<1>2. PICK rs : Snapshots(k)!Written(rs) /\ reading' = [reading EXCEPT ![r] = rs]
  <2>1. PICK rs \in Snapshots(k)!Visible : reading' = [reading EXCEPT ![r] = rs]
    BY DEF Snapshots!ReadRows
  <2>2. CASE rs = ledger
    BY <2>1, <2>2, LedgerFrame
  <2>3. CASE rs # ledger
    <3>1. PICK p \in Snapshots(k)!Appending : rs \in {ledger \o SubSeq(call[p].rows, 1, n) :
                                                  n \in 1 .. Len(call[p].rows)}
      BY <2>3 DEF Snapshots!Visible
    <3>2. PICK n \in 1 .. Len(call[p].rows) : rs = ledger \o SubSeq(call[p].rows, 1, n)
      BY <3>1
    <3>3. /\ Len(call[p].rows) \in Nat
          /\ \A m \in 0 .. Len(call[p].rows) :
                 Snapshots(k)!Written(ledger \o SubSeq(call[p].rows, 1, m))
      BY AppendMay DEF Snapshots!Appending
    <3>4. n \in 0 .. Len(call[p].rows)
      BY <3>3
    <3> QED BY <2>1, <3>2, <3>3, <3>4
  <2> QED BY <2>2, <2>3
<1>3. /\ reading \in [Ledgers[k].reader -> Seq(Snapshots(k)!Row) \cup {Nothing}]
      /\ shown \in [Ledgers[k].reader -> SUBSET Snapshots(k)!Row] /\ rs \in Seq(Snapshots(k)!Row)
      /\ \A q \in Ledgers[k].reader : reading[q] # Nothing => Snapshots(k)!Written(reading[q])
  BY <1>2 DEF Snapshots!LedgerInv, Snapshots!Typed, Snapshots!Written
<1>4. /\ reading' \in [Ledgers[k].reader -> Seq(Snapshots(k)!Row) \cup {Nothing}]
      /\ \A q \in Ledgers[k].reader : reading'[q] # Nothing => Snapshots(k)!Written(reading'[q])
  BY <1>2, <1>3
<1>5. Snapshots(k)!NoReaderSeesInvalid'
  BY <1>1 DEF Snapshots!LedgerInv, Snapshots!NoReaderSeesInvalid
<1> QED BY <1>1, <1>3, <1>4, <1>5, LedgerReads

\* The content of a valid chain has no invalid row: its hash would be right.
LEMMA ContentIsValid ==
    ASSUME NEW k \in DOMAIN Ledgers, NEW rs, Snapshots(k)!Written(rs),
           Snapshots(k)!ValidChain(rs)
    PROVE  /\ Snapshots(k)!ContentRows(rs) \subseteq Snapshots(k)!Row
           /\ \A row \in Snapshots(k)!ContentRows(rs) : row.id.kind # "invalid"
<1>1. rs \in Seq(Snapshots(k)!Row) /\ Len(rs) \in Nat /\ DOMAIN rs = 1 .. Len(rs)
  BY DEF Snapshots!Written
<1>2. ASSUME NEW i \in DOMAIN rs, ~Snapshots(k)!IsRevoked(rs, i), rs[i].id.kind = "invalid"
      PROVE  FALSE
  <2>1. Snapshots(k)!IsChained(rs[i])
    BY <1>2 DEF Snapshots!IsChained, Snapshots!Chained
  <2>2. ~Snapshots(k)!IsReplay(rs, i)
    <3> SUFFICES ASSUME NEW j \in 1 .. (i - 1), rs[j].id = rs[i].id PROVE FALSE
      BY DEF Snapshots!IsReplay
    <3>1. j \in DOMAIN rs /\ j # i
      BY <1>1
    <3> QED BY <1>2, <3>1 DEF Snapshots!Written, Snapshots!OneInvalid
  <2>3. rs[i].hashed
    BY <1>2, <2>1, <2>2, ChainSays
  <2>4. ~rs[i].hashed
    BY <1>2 DEF Snapshots!Written, Snapshots!OwnId
  <2> QED BY <2>3, <2>4
<1>3. ASSUME NEW row \in Snapshots(k)!ContentRows(rs)
      PROVE  row \in Snapshots(k)!Row /\ row.id.kind # "invalid"
  <2>1. PICK i \in DOMAIN rs : row = rs[i] /\ ~Snapshots(k)!IsRevoked(rs, i)
    BY DEF Snapshots!ContentRows
  <2> QED BY <1>1, <1>2, <2>1
<1> QED BY <1>3

\* A reader that holds rows checks the chain they make.
LEMMA CheckReadingKeeps ==
    ASSUME NEW k \in DOMAIN Ledgers, Snapshots(k)!LedgerInv, NEW r \in Ledgers[k].reader,
           Snapshots(k)!CheckReading(r)
    PROVE  Snapshots(k)!LedgerInv'
<1>1. /\ reading[r] # Nothing /\ reading' = [reading EXCEPT ![r] = Nothing]
      /\ UNCHANGED <<ledger, tail, lock, call, registered, registry_tail, answered, crashes>>
  BY DEF Snapshots!CheckReading, Snapshots!file, Snapshots!targets
<1>2. PICK rows_shown : /\ shown' = [shown EXCEPT ![r] = rows_shown]
                        /\ \/ rows_shown = {}
                           \/ /\ rows_shown = Snapshots(k)!ContentRows(reading[r])
                              /\ Snapshots(k)!ValidChain(reading[r])
  <2>1. PICK again \in Snapshots(k)!Visible :
            shown' = [shown EXCEPT ![r] =
                         IF /\ Snapshots(k)!ValidChain(reading[r])
                            /\ Snapshots(k)!HasRevocation(reading[r]) =>
                                   tail # "cut" /\ Len(again) = Len(reading[r])
                         THEN Snapshots(k)!ContentRows(reading[r]) ELSE {}]
    BY DEF Snapshots!CheckReading
  <2>2. CASE /\ Snapshots(k)!ValidChain(reading[r])
             /\ Snapshots(k)!HasRevocation(reading[r]) => tail # "cut" /\ Len(again) = Len(reading[r])
    BY <2>1, <2>2
  <2>3. CASE ~(/\ Snapshots(k)!ValidChain(reading[r])
               /\ Snapshots(k)!HasRevocation(reading[r]) => tail # "cut" /\ Len(again) = Len(reading[r]))
    BY <2>1, <2>3
  <2> QED BY <2>2, <2>3
<1>3. /\ reading \in [Ledgers[k].reader -> Seq(Snapshots(k)!Row) \cup {Nothing}]
      /\ shown \in [Ledgers[k].reader -> SUBSET Snapshots(k)!Row]
      /\ \A q \in Ledgers[k].reader : reading[q] # Nothing => Snapshots(k)!Written(reading[q])
      /\ \A q \in Ledgers[k].reader : \A row \in shown[q] : row.id.kind # "invalid"
  BY DEF Snapshots!LedgerInv, Snapshots!Typed, Snapshots!NoReaderSeesInvalid
<1>4. /\ rows_shown \subseteq Snapshots(k)!Row /\ \A row \in rows_shown : row.id.kind # "invalid"
  BY <1>1, <1>2, <1>3, ContentIsValid
<1>5. /\ reading' \in [Ledgers[k].reader -> Seq(Snapshots(k)!Row) \cup {Nothing}]
      /\ \A q \in Ledgers[k].reader : reading'[q] # Nothing => Snapshots(k)!Written(reading'[q])
  BY <1>1, <1>3
<1>6. shown' \in [Ledgers[k].reader -> SUBSET Snapshots(k)!Row]
  BY <1>2, <1>3, <1>4
<1>7. Snapshots(k)!NoReaderSeesInvalid'
  BY <1>2, <1>3, <1>4 DEF Snapshots!NoReaderSeesInvalid
<1> QED BY <1>1, <1>5, <1>6, <1>7, LedgerReads

\* Every step of a ledger keeps its invariant.
LEMMA LedgerStep ==
    ASSUME NEW k \in DOMAIN Ledgers, Snapshots(k)!LedgerInv, Snapshots(k)!Next
    PROVE  Snapshots(k)!LedgerInv'
<1>1. CASE \E p \in Ledgers[k].proc :
               \/ \E job \in Ledgers[k].job : Snapshots(k)!StartCall(p, job)
               \/ Snapshots(k)!ResolveTarget(p) \/ Snapshots(k)!RegisterTarget(p)
  BY <1>1, StartCallKeeps, ResolveTargetKeeps, RegisterTargetKeeps
<1>2. CASE \E p \in Ledgers[k].proc :
               \/ Snapshots(k)!BeginTransaction(p) \/ Snapshots(k)!BeginRevocation(p)
               \/ Snapshots(k)!AppendRows(p) \/ Snapshots(k)!AppendFails(p)
  BY <1>2, BeginTransactionKeeps, BeginRevocationKeeps, AppendRowsKeeps, AppendFailsKeeps
<1>3. CASE \E p \in Ledgers[k].proc : Snapshots(k)!Answer(p) \/ Snapshots(k)!WriterDies(p)
  BY <1>3, AnswerKeeps, WriterDiesKeeps
<1>4. CASE \E text \in Ledgers[k].content : Snapshots(k)!WriteInvalid(text)
  BY <1>4, WriteInvalidKeeps
<1>5. CASE \E r \in Ledgers[k].reader : Snapshots(k)!ReadRows(r) \/ Snapshots(k)!CheckReading(r)
  BY <1>5, ReadRowsKeeps, CheckReadingKeeps
<1> QED BY <1>1, <1>2, <1>3, <1>4, <1>5 DEF Snapshots!Next

\* A step of another part leaves a ledger as it is.
LEMMA LedgerStands ==
    ASSUME NEW k \in DOMAIN Ledgers, Snapshots(k)!LedgerInv, UNCHANGED Snapshots(k)!vars
    PROVE  Snapshots(k)!LedgerInv'
<1>1. UNCHANGED <<ledger, tail, lock, call, registered, registry_tail, answered, reading, shown,
                  crashes>>
  BY DEF Snapshots!vars
<1> QED BY <1>1, LedgerReads DEF Snapshots!LedgerInv, Snapshots!Typed,
                                 Snapshots!NoReaderSeesInvalid

\* The invariant is what the properties of a ledger say, and more.
LEMMA LedgerMeans ==
    ASSUME NEW k \in DOMAIN Ledgers, Snapshots(k)!LedgerInv
    PROVE  /\ Snapshots(k)!TypeOK /\ Snapshots(k)!AnsweredStaysContent /\ Snapshots(k)!IngestedIsRegistered
           /\ Snapshots(k)!TakenOverOnce /\ Snapshots(k)!DuplicateMeansUnedited
           /\ Snapshots(k)!ChainStaysValid /\ Snapshots(k)!NoReaderSeesInvalid
<1>1. /\ Snapshots(k)!Written(ledger) /\ ledger \in Seq(Snapshots(k)!Row) /\ Len(ledger) \in Nat
      /\ DOMAIN ledger = 1 .. Len(ledger)
  BY LedgerFrame
<1>2. Snapshots(k)!TypeOK
  BY <1>1 DEF Snapshots!LedgerInv, Snapshots!Typed, Snapshots!TypeOK
<1>3. Snapshots(k)!IngestedIsRegistered
  BY DEF Snapshots!LedgerInv, Snapshots!RowsRegistered, Snapshots!IngestedIsRegistered
<1>4. Snapshots(k)!DuplicateMeansUnedited /\ Snapshots(k)!ChainStaysValid /\ Snapshots(k)!NoReaderSeesInvalid
  BY <1>1 DEF Snapshots!LedgerInv, Snapshots!Written, Snapshots!ChainHolds,
              Snapshots!DuplicateMeansUnedited, Snapshots!ChainStaysValid
<1>5. Snapshots(k)!TakenOverOnce
  <2> SUFFICES ASSUME NEW i \in DOMAIN ledger, NEW j \in DOMAIN ledger,
                      ledger[i].id.kind = ledger[j].id.kind,
                      ledger[i].id.kind \in {"legacy", "imported"},
                      ledger[i].id.key = ledger[j].id.key,
                      ledger[i].stream = ledger[j].stream
               PROVE  i = j
    BY DEF Snapshots!TakenOverOnce
  <2>1. ledger[i] \in Snapshots(k)!Row /\ ledger[j] \in Snapshots(k)!Row
    BY <1>1
  <2>2. ledger[i].id \in Snapshots(k)!RowId /\ ledger[j].id \in Snapshots(k)!RowId
    BY <2>1, RowParts
  <2>3. /\ ledger[i].id.stream = ledger[j].id.stream /\ ledger[i].id.seq = ledger[j].id.seq
    BY <1>1 DEF Snapshots!Written, Snapshots!OwnId
  <2>4. ledger[i].id = ledger[j].id
    BY <2>2, <2>3 DEF Snapshots!RowId
  <2>5. j > Len(Ledgers[k].first)
    BY <1>1 DEF Snapshots!Written
  <2> QED BY <1>1, <2>4, <2>5 DEF Snapshots!Written
<1>6. Snapshots(k)!AnsweredStaysContent
  <2> SUFFICES ASSUME NEW i \in DOMAIN ledger,
                      ledger[i].id.kind \notin {"invalid", "revocation"},
                      Snapshots(k)!IsRevoked(ledger, i)
               PROVE  FALSE
    <3>1. \A i \in DOMAIN ledger :
              ledger[i].id.kind \notin {"invalid", "revocation"} => ~Snapshots(k)!IsRevoked(ledger, i)
      OBVIOUS
    <3>2. Snapshots(k)!SoundIds(ledger) \subseteq {row.id : row \in Snapshots(k)!ContentRows(ledger)}
      BY <3>1 DEF Snapshots!SoundIds, Snapshots!ContentRows
    <3> QED BY <3>2, LedgerFrame DEF Snapshots!AnsweredStaysContent,
                                     Snapshots!AnsweredSoundly, Tails
  <2>1. CASE Snapshots(k)!ValidChain(ledger)
    BY <1>1, <2>1, RevokedIsInvalid
  <2>2. CASE ledger[Len(ledger)].id.kind = "invalid" /\ Snapshots(k)!ValidChain(Snapshots(k)!ButLast(ledger))
    <3> DEFINE b == Snapshots(k)!ButLast(ledger)
    <3>1. i + 1 \in DOMAIN ledger /\ ledger[i + 1].id.kind = "revocation"
      BY DEF Snapshots!IsRevoked
    <3>2. i + 1 # Len(ledger)
      BY <2>2, <3>1
    <3>3. b \in Seq(Snapshots(k)!Row) /\ DOMAIN b = 1 .. (Len(ledger) - 1)
          /\ \A j \in 1 .. (Len(ledger) - 1) : b[j] = ledger[j]
      BY <1>1, <3>1 DEF Snapshots!ButLast
    <3> HIDE DEF b
    <3>4. i \in DOMAIN b /\ i + 1 \in DOMAIN b
      BY <1>1, <3>1, <3>2, <3>3
    <3>5. Snapshots(k)!IsRevoked(b, i)
      BY <3>1, <3>3, <3>4 DEF Snapshots!IsRevoked
    <3>6. Snapshots(k)!ValidChain(b)
      BY <2>2 DEF b
    <3>7. b[i].id.kind = "invalid"
      BY <3>3, <3>4, <3>5, <3>6, RevokedIsInvalid
    <3> QED BY <3>3, <3>4, <3>7
  <2> QED BY <1>1, <2>1, <2>2 DEF Snapshots!Written, Snapshots!ChainHolds
<1> QED BY <1>2, <1>3, <1>4, <1>5, <1>6

------------------------------------------------------------------------------
(***************************************************************************)
(* The knowledge projection: what a receipt that is true says              *)
(***************************************************************************)

\* The pages there are after a run that ended well, and what they show.
LEMMA SettledPages ==
    ASSUME Projection!ReceiptIsTrue, Projection!Settled
    PROVE  /\ receipt.reg \in Projection!ValidRegistries /\ receipt.n \in 1 .. Len(Ledger)
           /\ Projection!PagesOf("person") = {<<"person", p>> : p \in Projection!People(receipt.reg, receipt.n)}
           /\ Projection!PagesOf("topic") = {<<"topic", t>> : t \in Projection!Topics(receipt.reg, receipt.n)}
           /\ \A p \in Projection!People(receipt.reg, receipt.n) :
                  pages[<<"person", p>>] = Projection!PersonPage(receipt.reg, receipt.n, p)
           /\ \A t \in Projection!Topics(receipt.reg, receipt.n) :
                  pages[<<"topic", t>>] = Projection!TopicPage(receipt.reg, receipt.n, t)
           /\ pages[<<"top">>] = Projection!TopPage(receipt.reg, receipt.n)
           /\ pages[<<"queue">>] = Projection!Queue(receipt.reg, receipt.n)
<1> DEFINE reg == receipt.reg
           n == receipt.n
           A == {<<"person", p>> : p \in Projection!People(reg, n)}
           B == {<<"topic", t>> : t \in Projection!Topics(reg, n)}
           C == {<<"top">>, <<"queue">>}
<1>1. /\ reg \in Projection!ValidRegistries /\ n \in 1 .. Len(Ledger)
      /\ DOMAIN pages = Projection!ToSet(Projection!Names(reg, n)) \cup Projection!Listings
      /\ \A name \in DOMAIN pages : pages[name] = Projection!Page(reg, n, name)
  BY DEF Projection!ReceiptIsTrue, Projection!Right
<1>2. DOMAIN pages = A \cup B \cup C
  BY <1>1, NamesAre DEF Projection!Listings
<1>3. /\ \A name \in A : name[1] = "person"
      /\ \A name \in B : name[1] = "topic"
      /\ \A name \in C : name[1] \in {"top", "queue"}
  OBVIOUS
<1>4. /\ \A p \in Projection!People(reg, n) : <<"person", p>> \in A
      /\ \A t \in Projection!Topics(reg, n) : <<"topic", t>> \in B
      /\ <<"top">> \in C /\ <<"queue">> \in C
  OBVIOUS
<1> HIDE DEF A, B, C
<1>5. Projection!PagesOf("person") = A /\ Projection!PagesOf("topic") = B
  BY <1>2, <1>3 DEF Projection!PagesOf
<1>6. /\ \A p \in Projection!People(reg, n) : pages[<<"person", p>>] = Projection!PersonPage(reg, n, p)
      /\ \A t \in Projection!Topics(reg, n) : pages[<<"topic", t>>] = Projection!TopicPage(reg, n, t)
      /\ pages[<<"top">>] = Projection!TopPage(reg, n)
      /\ pages[<<"queue">>] = Projection!Queue(reg, n)
  <2> HIDE DEF reg, n
  <2> QED BY <1>1, <1>2, <1>4, PageIs
<1> QED BY <1>1, <1>5, <1>6 DEF A, B

\* The top page links what there is.
LEMMA TopIsRight ==
    ASSUME Projection!ReceiptIsTrue
    PROVE  Projection!TopLinksEveryPage
<1> SUFFICES ASSUME Projection!Settled
             PROVE  /\ {name[2] : name \in Projection!PagesOf("person")} = pages[<<"top">>].people
                    /\ {name[2] : name \in Projection!PagesOf("topic")} = pages[<<"top">>].topics
  BY DEF Projection!TopLinksEveryPage
<1> DEFINE ps == Projection!People(receipt.reg, receipt.n)
           ts == Projection!Topics(receipt.reg, receipt.n)
<1>1. /\ Projection!PagesOf("person") = {<<"person", p>> : p \in ps}
      /\ Projection!PagesOf("topic") = {<<"topic", t>> : t \in ts}
      /\ pages[<<"top">>].people = ps /\ pages[<<"top">>].topics = ts
  BY SettledPages DEF Projection!TopPage
<1>2. \A S : /\ {name[2] : name \in {<<"person", x>> : x \in S}} = S
             /\ {name[2] : name \in {<<"topic", x>> : x \in S}} = S
  <2> TAKE S
  <2> DEFINE A == {<<"person", x>> : x \in S}
             B == {<<"topic", x>> : x \in S}
  <2>1. /\ \A name \in A : name[2] \in S
        /\ \A x \in S : <<"person", x>> \in A /\ <<"person", x>>[2] = x
        /\ \A name \in B : name[2] \in S
        /\ \A x \in S : <<"topic", x>> \in B /\ <<"topic", x>>[2] = x
    OBVIOUS
  <2> HIDE DEF A, B
  <2>2. /\ {name[2] : name \in A} \subseteq S /\ S \subseteq {name[2] : name \in A}
        /\ {name[2] : name \in B} \subseteq S /\ S \subseteq {name[2] : name \in B}
    BY <2>1
  <2> QED BY <2>2 DEF A, B
<1> HIDE DEF ps, ts
<1> QED BY <1>1, <1>2

\* Topics agree on how they are related.
LEMMA RelationsAreRight ==
    ASSUME Projection!ReceiptIsTrue
    PROVE  Projection!RelationsAreMutual
<1> SUFFICES ASSUME Projection!Settled, NEW n1 \in Projection!PagesOf("topic"),
                    NEW n2 \in Projection!PagesOf("topic")
             PROVE  /\ n2[2] \in pages[n1].related <=> n1[2] \in pages[n2].related
                    /\ n2[2] \in pages[n1].narrower <=> n1[2] \in pages[n2].broader
  BY DEF Projection!RelationsAreMutual
<1> DEFINE reg == receipt.reg
           n == receipt.n
<1>1. /\ reg \in Projection!ValidRegistries
      /\ Projection!PagesOf("topic") = {<<"topic", t>> : t \in Projection!Topics(reg, n)}
      /\ \A t \in Projection!Topics(reg, n) : pages[<<"topic", t>>] = Projection!TopicPage(reg, n, t)
  BY SettledPages
<1> HIDE DEF reg, n
<1>2. PICK t \in Projection!Topics(reg, n), u \in Projection!Topics(reg, n) :
          n1 = <<"topic", t>> /\ n2 = <<"topic", u>>
  BY <1>1
<1>3. /\ pages[n1] = Projection!TopicPage(reg, n, t) /\ pages[n2] = Projection!TopicPage(reg, n, u)
      /\ n1[2] = t /\ n2[2] = u
  BY <1>1, <1>2
<1>4. /\ pages[n1].related = IF t \in Topic THEN Projection!Related(reg, t) ELSE {}
      /\ pages[n1].narrower = IF t \in Topic THEN Projection!Narrower(reg, t) ELSE {}
      /\ pages[n2].related = IF u \in Topic THEN Projection!Related(reg, u) ELSE {}
      /\ pages[n2].broader = IF u \in Topic THEN reg.broader[u] ELSE {}
  BY <1>3 DEF Projection!TopicPage
<1>5. \A v \in Topic : reg.broader[v] \subseteq Topic /\ reg.related[v] \subseteq Topic
  BY <1>1, ValidMeans
<1> QED BY <1>3, <1>4, <1>5 DEF Projection!Related, Projection!Narrower

\* Every line that is spoken is on the pages it belongs on and on no other.
LEMMA FilingIsRight ==
    ASSUME Projection!ReceiptIsTrue
    PROVE  Projection!EverythingIsFiled
<1> SUFFICES ASSUME Projection!Settled PROVE Projection!EverythingIsFiled
  BY DEF Projection!EverythingIsFiled
<1> DEFINE reg == receipt.reg
           n == receipt.n
           es == Projection!EventsOf(n)
<1>1. /\ reg \in Projection!ValidRegistries /\ n \in 1 .. Len(Ledger)
      /\ Projection!PagesOf("person") = {<<"person", p>> : p \in Projection!People(reg, n)}
      /\ Projection!PagesOf("topic") = {<<"topic", t>> : t \in Projection!Topics(reg, n)}
      /\ \A p \in Projection!People(reg, n) : pages[<<"person", p>>] = Projection!PersonPage(reg, n, p)
      /\ \A t \in Projection!Topics(reg, n) : pages[<<"topic", t>>] = Projection!TopicPage(reg, n, t)
      /\ pages[<<"queue">>] = Projection!Queue(reg, n)
  BY SettledPages
<1> HIDE DEF reg, n
<1>2. /\ \A e \in es : e[1] \in Projection!Current(n) /\ e[2] \in DOMAIN Projection!EventsIn(e[1])
                       /\ e = <<e[1], e[2]>>
      /\ \A k \in Projection!Current(n) : k \in DOMAIN Ledger
      /\ \A k \in Projection!Current(n) : \A i \in DOMAIN Projection!EventsIn(k) : <<k, i>> \in es
  BY <1>1, EventsOfAre
<1>3. /\ \A p : Projection!PersonPage(reg, n, p) = {e \in es : Projection!Author(reg, e) = p}
      /\ \A t : Projection!TopicPage(reg, n, t).events = {e \in es : t \in Projection!TopicsOf(reg, e[1], e[2])}
      /\ Projection!Queue(reg, n).events = {e \in es : Projection!TopicsOf(reg, e[1], e[2]) = {}}
      /\ Projection!People(reg, n) = {Projection!Author(reg, e) : e \in es}
      /\ Projection!Topics(reg, n) = Topic \cup UNION {Projection!TopicsOf(reg, e[1], e[2]) : e \in es}
  BY DEF Projection!PersonPage, Projection!TopicPage, Projection!Queue, Projection!People,
         Projection!Topics
<1> HIDE DEF es
<1>4. ASSUME NEW k \in Projection!Current(n), Ledger[k].kind = "snapshot",
             NEW l \in Projection!Spoken(Ledger[k].text)
      PROVE  LET text == Ledger[k].text
                 person == Projection!PersonOf(reg, Ledger[k].target, Projection!Speaker(text, l)) IN
             /\ <<"person", person>> \in Projection!PagesOf("person")
             /\ \A name \in Projection!PagesOf("person") : Projection!Shows(pages[name], k, l) <=> name[2] = person
             /\ \A tag \in text[l].tags \cap Topic :
                    Projection!Shows(pages[<<"topic", tag>>].events, k, l)
             /\ \/ Projection!Shows(pages[<<"queue">>].events, k, l)
                \/ \E name \in Projection!PagesOf("topic") : Projection!Shows(pages[name].events, k, l)
    <2> DEFINE text == Ledger[k].text
               person == Projection!PersonOf(reg, Ledger[k].target, Projection!Speaker(text, l))
               evs == Projection!EventsIn(k)
    <2>1. /\ k \in DOMAIN Ledger /\ \A i \in DOMAIN evs : <<k, i>> \in es
          /\ \A i \in DOMAIN evs : evs[i].tags = UNION {text[h].tags : h \in evs[i].lines}
          /\ \A i \in DOMAIN evs : l \in evs[i].lines => Projection!Speaker(text, l) = evs[i].author
      BY <1>2, <1>4, EventsAre
    <2>2. PICK i \in DOMAIN evs : l \in evs[i].lines
      BY <1>4, <2>1, EventsAre
    <2>3. \A j : <<k, j>>[1] = k /\ <<k, j>>[2] = j
      OBVIOUS
    <2>4. \A j \in DOMAIN evs : l \in evs[j].lines => Projection!Author(reg, <<k, j>>) = person
      BY <2>1, <2>3 DEF Projection!Author
    <2>5. \A events : Projection!Shows(events, k, l) <=>
              \E j \in DOMAIN evs : <<k, j>> \in events /\ l \in evs[j].lines
      BY DEF Projection!Shows
    <2>6. \A tag \in text[l].tags \cap Topic : tag \in Projection!TopicsOf(reg, k, i)
      <3> TAKE tag \in text[l].tags \cap Topic
      <3>1. tag \in evs[i].tags
        BY <2>1, <2>2
      <3>2. Projection!Reviewed(reg.aliases, tag, tag) = tag
        BY <1>1, ValidMeans
      <3> QED BY <3>1, <3>2 DEF Projection!TopicsOf
    <2>7. <<k, i>> \in es
      BY <2>1
    <2> HIDE DEF text, person, evs
    <2>8. person \in Projection!People(reg, n)
      BY <1>3, <2>2, <2>4, <2>7
    <2>9. <<"person", person>> \in Projection!PagesOf("person")
      BY <1>1, <2>8
    <2>10. ASSUME NEW name \in Projection!PagesOf("person")
           PROVE  Projection!Shows(pages[name], k, l) <=> name[2] = person
      <3>1. PICK p \in Projection!People(reg, n) : name = <<"person", p>> /\ name[2] = p
        BY <1>1
      <3>2. pages[name] = {e \in es : Projection!Author(reg, e) = p}
        BY <1>1, <1>3, <3>1
      <3>3. ASSUME Projection!Shows(pages[name], k, l) PROVE p = person
        BY <2>4, <2>5, <3>2, <3>3
      <3>4. ASSUME p = person PROVE Projection!Shows(pages[name], k, l)
        BY <2>2, <2>4, <2>5, <2>7, <3>2, <3>4
      <3> QED BY <3>1, <3>3, <3>4
    <2>11. ASSUME NEW t \in Projection!TopicsOf(reg, k, i)
           PROVE  /\ <<"topic", t>> \in Projection!PagesOf("topic")
                  /\ Projection!Shows(pages[<<"topic", t>>].events, k, l)
      <3>1. t \in Projection!Topics(reg, n)
        BY <1>3, <2>3, <2>7
      <3>2. <<"topic", t>> \in Projection!PagesOf("topic")
        BY <1>1, <3>1
      <3>3. pages[<<"topic", t>>].events = {e \in es : t \in Projection!TopicsOf(reg, e[1], e[2])}
        BY <1>1, <1>3, <3>1
      <3>4. <<k, i>> \in pages[<<"topic", t>>].events
        BY <2>3, <2>7, <3>3
      <3> QED BY <2>2, <2>5, <3>2, <3>4
    <2>12. ASSUME Projection!TopicsOf(reg, k, i) = {}
           PROVE  Projection!Shows(pages[<<"queue">>].events, k, l)
      <3>1. <<k, i>> \in pages[<<"queue">>].events
        BY <1>1, <1>3, <2>3, <2>7, <2>12
      <3> QED BY <2>2, <2>5, <3>1
    <2>13. \/ Projection!Shows(pages[<<"queue">>].events, k, l)
           \/ \E name \in Projection!PagesOf("topic") : Projection!Shows(pages[name].events, k, l)
      BY <2>11, <2>12
    <2> QED BY <2>6, <2>9, <2>10, <2>11, <2>13 DEF text, person
<1>5. ASSUME NEW name \in Projection!PagesOf("person")
      PROVE  pages[name] # {} /\ \A e \in pages[name] : e[1] \in Projection!Current(n)
  <2>1. PICK p \in Projection!People(reg, n) : name = <<"person", p>>
    BY <1>1
  <2>2. pages[name] = {e \in es : Projection!Author(reg, e) = p}
    BY <1>1, <1>3, <2>1
  <2>3. PICK e \in es : Projection!Author(reg, e) = p
    BY <1>3
  <2> QED BY <1>2, <2>2, <2>3
<1>6. ASSUME NEW name \in Projection!PagesOf("topic")
      PROVE  /\ \A e \in pages[name].events : e[1] \in Projection!Current(n)
             /\ pages[name].events = {} => name[2] \in Topic
  <2>1. PICK t \in Projection!Topics(reg, n) : name = <<"topic", t>> /\ name[2] = t
    BY <1>1
  <2>2. pages[name].events = {e \in es : t \in Projection!TopicsOf(reg, e[1], e[2])}
    BY <1>1, <1>3, <2>1
  <2>3. t \notin Topic => \E e \in es : t \in Projection!TopicsOf(reg, e[1], e[2])
    BY <1>3
  <2> QED BY <1>2, <2>1, <2>2, <2>3
<1> QED BY <1>4, <1>5, <1>6 DEF Projection!EverythingIsFiled, reg, n

------------------------------------------------------------------------------
(***************************************************************************)
(* The knowledge projection: runs                                          *)
(***************************************************************************)

\* The steps in which a run writes.
Writing == {"page", "note", "stale", "top", "queue", "receipt"}

\* What a runner does that has nothing more to write, or still has.
Ended == [step : {"missing", "failed"}]
Underway ==
    [step : Writing, reg : Projection!ValidRegistries, n : 1 .. Len(Ledger), todo : Seq(Projection!Paged)]

\* What a runner does is one or the other.
LEMMA WorkIs ==
    /\ Projection!Work = Ended \cup Underway
    /\ \A w \in Projection!Work : w.step \in Writing => w \in Underway
    /\ [step |-> "missing"] \in Projection!Work /\ [step |-> "failed"] \in Projection!Work
<1>1. Projection!Work = Ended \cup Underway
  BY DEF Projection!Work, Writing, Ended, Underway
<1>2. \A w \in Ended : w.step \in {"missing", "failed"}
  BY DEF Ended
<1>3. Writing \cap {"missing", "failed"} = {}
  BY DEF Writing
<1>4. [step |-> "missing"] \in Ended /\ [step |-> "failed"] \in Ended
  BY DEF Ended
<1> QED BY <1>1, <1>2, <1>3, <1>4

\* What a run under way has read and has left to do, and that it goes on.
LEMMA UnderwayMeans ==
    ASSUME NEW w \in Underway
    PROVE  /\ w.step \in Writing /\ w.reg \in Projection!ValidRegistries /\ w.n \in 1 .. Len(Ledger)
           /\ w.todo \in Seq(Projection!Paged)
           /\ w \in Projection!Work /\ w # Nothing
<1>1. w \in Projection!Work
  BY WorkIs
<1>2. w # Nothing
  BY <1>1, ProjectionConstants
<1> QED BY <1>1, <1>2 DEF Underway

\* The next step of a run under way.
LEMMA UnderwayGoesOn ==
    ASSUME NEW w \in Underway, NEW s \in Writing, NEW v, v = [w EXCEPT !.step = s]
    PROVE  v \in Underway /\ v.step = s /\ v.reg = w.reg /\ v.n = w.n /\ v.todo = w.todo
BY DEF Underway

\* The files are files of pages, and the notes are of pages of people and topics.
IsFile(f) == f = [name \in DOMAIN f |-> f[name]]
FilesAreTyped ==
    /\ IsFile(pages) /\ DOMAIN pages \subseteq Projection!Paged \cup Projection!Listings
    /\ IsFile(notes) /\ DOMAIN notes \subseteq Projection!Paged
    /\ \A name \in DOMAIN notes : notes[name] \in {"template", "own", "edited"}

\* The first of what is left to do, and the rest.
LEMMA FirstPage ==
    ASSUME NEW todo \in Seq(Projection!Paged), todo # <<>>
    PROVE  /\ Head(todo) \in Projection!ToSet(todo) /\ Head(todo) \in Projection!Paged
           /\ Tail(todo) \in Seq(Projection!Paged)
           /\ Projection!ToSet(todo) \subseteq {Head(todo)} \cup Projection!ToSet(Tail(todo))
           /\ Projection!ToSet(Tail(todo)) \subseteq Projection!ToSet(todo)
           /\ Len(todo) = 1 <=> Tail(todo) = <<>>
<1> DEFINE n == Len(todo)
           rest == Tail(todo)
<1>1. /\ n \in Nat \ {0} /\ Head(todo) \in Projection!Paged /\ rest \in Seq(Projection!Paged)
      /\ Len(rest) = n - 1 /\ (n # 1 => rest # <<>>)
  BY FirstAndRest
<1>2. DOMAIN todo = 1 .. n /\ DOMAIN rest = 1 .. n - 1 /\ Head(todo) = todo[1]
      /\ \A i \in 1 .. n - 1 : rest[i] = todo[i + 1]
  BY <1>1
<1> HIDE DEF n, rest
<1>3. n = 1 => rest = <<>>
  BY <1>1
<1>4. Head(todo) \in Projection!ToSet(todo)
  BY <1>1, <1>2 DEF Projection!ToSet
<1>5. ASSUME NEW i \in 1 .. n PROVE todo[i] \in {Head(todo)} \cup Projection!ToSet(rest)
  <2>1. CASE i = 1
    BY <1>2, <2>1
  <2>2. CASE i # 1
    <3>1. i - 1 \in 1 .. n - 1 /\ (i - 1) + 1 = i
      BY <1>1, <2>2
    <3>2. todo[i] = rest[i - 1]
      BY <1>2, <3>1
    <3> QED BY <1>2, <3>1, <3>2 DEF Projection!ToSet
  <2> QED BY <2>1, <2>2
<1>6. ASSUME NEW i \in 1 .. n - 1 PROVE rest[i] \in Projection!ToSet(todo)
  <2>1. i + 1 \in 1 .. n /\ rest[i] = todo[i + 1]
    BY <1>1, <1>2
  <2> QED BY <1>2, <2>1 DEF Projection!ToSet
<1>7. Projection!ToSet(todo) \subseteq {Head(todo)} \cup Projection!ToSet(rest)
  BY <1>2, <1>5 DEF Projection!ToSet
<1>8. Projection!ToSet(rest) \subseteq Projection!ToSet(todo)
  BY <1>2, <1>6 DEF Projection!ToSet
<1> QED BY <1>1, <1>3, <1>4, <1>7, <1>8 DEF rest, n

\* A run that writes holds the lock, and what it has written is right.
LEMMA RunFacts ==
    ASSUME Projection!ProjectionInv, NEW r \in Proc, NEW s \in Writing, Projection!InStep(r, s)
    PROVE  /\ lock = r /\ run[r] \in Underway /\ run[r].step = s
           /\ run[r].reg \in Projection!ValidRegistries /\ run[r].n \in 1 .. Len(Ledger)
           /\ run[r].todo \in Seq(Projection!Paged)
           /\ Projection!RunIsTrue(r)
<1>1. run[r] \in Projection!Work /\ run[r].step = s
  BY DEF Projection!ProjectionInv, Projection!Typed, Projection!InStep
<1>2. s # "failed" /\ s # "missing"
  BY DEF Writing
<1>3. lock = r
  BY <1>1, <1>2 DEF Projection!ProjectionInv, Projection!TypeOK, Projection!InStep
<1>4. run[r] \in Underway
  BY <1>1, WorkIs
<1>5. Projection!RunIsTrue(r)
  BY <1>1, <1>2, <1>3 DEF Projection!ProjectionInv
<1> QED BY <1>1, <1>3, <1>4, <1>5, UnderwayMeans

\* The receipt stays true while no page changes, and says nothing when one does.
LEMMA ReceiptStays ==
    ASSUME Projection!ReceiptIsTrue, receipt' = receipt,
           touched' \/ (touched' = touched /\ pages' = pages)
    PROVE  Projection!ReceiptIsTrue'
BY DEF Projection!ReceiptIsTrue, Projection!Settled, Projection!Right

\* A run stays true when it, the pages and the notes stay as they are.
LEMMA RunStays ==
    ASSUME NEW r, Projection!RunIsTrue(r), run'[r] = run[r], pages' = pages, notes' = notes
    PROVE  Projection!RunIsTrue(r)'
BY DEF Projection!RunIsTrue, Projection!Right, Projection!Active

\* A runner goes on writing: it keeps the lock, and what it has written is right.
LEMMA RunnerGoesOn ==
    ASSUME Projection!ProjectionInv, NEW r \in Proc, lock = r, run[r] # Nothing,
           NEW w \in Underway, run' = [run EXCEPT ![r] = w], lock' = lock,
           UNCHANGED <<records, registry, edits, failures>>,
           receipt' = receipt, touched' \in BOOLEAN,
           touched' \/ (touched' = touched /\ pages' = pages),
           FilesAreTyped', Projection!RunIsTrue(r)'
    PROVE  Projection!ProjectionInv'
<1>0. w \in Projection!Work /\ w # Nothing /\ w.step \in Writing
  BY UnderwayMeans
<1>1. run' \in [Proc -> {Nothing} \cup Projection!Work] /\ run'[r] = w
      /\ \A q \in Proc \ {r} : run'[q] = run[q]
  BY <1>0 DEF Projection!ProjectionInv, Projection!Typed
<1>2. w.step # "failed" /\ w # Nothing
  BY <1>0 DEF Writing
<1>3. \A name \in DOMAIN notes' : name[1] \in {"person", "topic"}
  BY PagedIs DEF FilesAreTyped
<1>4. \A q \in Proc : lock' = q <=> run'[q] # Nothing /\ run'[q].step # "failed"
  BY <1>1, <1>2 DEF Projection!ProjectionInv, Projection!TypeOK
<1>5. Projection!TypeOK'
  BY <1>3, <1>4 DEF Projection!ProjectionInv, Projection!TypeOK, FilesAreTyped
<1>6. Projection!Typed'
  BY <1>1 DEF Projection!ProjectionInv, Projection!Typed, FilesAreTyped, IsFile
<1>7. Projection!ReceiptIsTrue'
  BY ReceiptStays DEF Projection!ProjectionInv
<1>8. \A q \in Proc : lock' = q => q = r
  OBVIOUS
<1> QED BY <1>5, <1>6, <1>7, <1>8 DEF Projection!ProjectionInv

\* A run ends or fails: nobody else's work is touched.
LEMMA RunnerStops ==
    ASSUME Projection!ProjectionInv, NEW r \in Proc,
           run' = [run EXCEPT ![r] = Nothing] \/ run' = [run EXCEPT ![r] = [step |-> "failed"]],
           lock' = IF lock = r THEN Nothing ELSE lock,
           UNCHANGED <<records, registry, pages, notes, edits>>,
           failures' \in 0 .. MaxFailures,
           touched' \in BOOLEAN, receipt'.ok \in BOOLEAN, Projection!ReceiptIsTrue'
    PROVE  Projection!ProjectionInv'
<1>1. Nothing \notin Proc /\ [step |-> "failed"] \in Projection!Work
  BY ProjectionConstants, WorkIs
<1>2. /\ run' \in [Proc -> {Nothing} \cup Projection!Work]
      /\ run'[r] = Nothing \/ run'[r].step = "failed"
      /\ \A q \in Proc \ {r} : run'[q] = run[q]
  BY <1>1 DEF Projection!ProjectionInv, Projection!Typed
<1>3. \A q \in Proc : lock' = q <=> q # r /\ lock = q
  BY <1>1
<1>4. \A q \in Proc : lock' = q <=> run'[q] # Nothing /\ run'[q].step # "failed"
  BY <1>2, <1>3 DEF Projection!ProjectionInv, Projection!TypeOK
<1>5. lock' \in Proc \cup {Nothing}
  BY DEF Projection!ProjectionInv, Projection!TypeOK
<1>6. Projection!TypeOK'
  BY <1>4, <1>5 DEF Projection!ProjectionInv, Projection!TypeOK
<1>7. Projection!Typed'
  BY <1>2 DEF Projection!ProjectionInv, Projection!Typed
<1>8. ASSUME NEW q \in Proc, lock' = q, run'[q].step # "missing" PROVE Projection!RunIsTrue(q)'
  <2>1. lock = q /\ run'[q] = run[q]
    BY <1>2, <1>3, <1>8
  <2> QED BY <1>8, <2>1, RunStays DEF Projection!ProjectionInv
<1> QED BY <1>6, <1>7, <1>8 DEF Projection!ProjectionInv

\* In the beginning there are no pages, no notes and no run.
LEMMA ProjectionBegins == Projection!Init => Projection!ProjectionInv
<1> SUFFICES ASSUME Projection!Init PROVE Projection!ProjectionInv
  OBVIOUS
<1>1. /\ records = 0 /\ registry \in Registry /\ pages = Projection!NoPages /\ notes = Projection!NoPages
      /\ lock = Nothing /\ run = [r \in Proc |-> Nothing]
      /\ receipt = [ok |-> FALSE] /\ touched = FALSE /\ edits = 0 /\ failures = 0
  BY DEF Projection!Init
<1>2. /\ Len(Ledger) \in Nat /\ MaxEdits \in Nat /\ MaxFailures \in Nat /\ Nothing \notin Proc
  BY ProjectionConstants
<1>3. DOMAIN Projection!NoPages = {} /\ Projection!NoPages = [name \in DOMAIN Projection!NoPages |-> Projection!NoPages[name]]
  BY DEF Projection!NoPages
<1>4. \A r \in Proc : lock # r /\ run[r] = Nothing
  BY <1>1, <1>2
<1>5. Projection!TypeOK
  BY <1>1, <1>2, <1>3, <1>4 DEF Projection!TypeOK
<1>6. Projection!Typed
  BY <1>1, <1>3 DEF Projection!Typed
<1>7. Projection!ReceiptIsTrue
  BY <1>1 DEF Projection!ReceiptIsTrue, Projection!Settled
<1> QED BY <1>4, <1>5, <1>6, <1>7 DEF Projection!ProjectionInv

\* A run that begins with a ledger and valid registries has all its pages before it.
LEMMA StartRunKeeps ==
    ASSUME Projection!ProjectionInv, NEW r \in Proc, Projection!StartRun(r)
    PROVE  Projection!ProjectionInv'
<1> DEFINE w == Projection!Begun
           names == Projection!Names(registry, records)
<1>1. /\ run[r] = Nothing /\ lock = Nothing /\ run' = [run EXCEPT ![r] = w]
      /\ lock' = IF w.step = "failed" THEN lock ELSE r
      /\ UNCHANGED <<records, registry, pages, notes, receipt, touched, edits, failures>>
  BY DEF Projection!StartRun
<1>2. /\ run \in [Proc -> {Nothing} \cup Projection!Work] /\ touched \in BOOLEAN
      /\ records \in 0 .. Len(Ledger) /\ registry \in Registry
      /\ Nothing \notin Proc /\ Nothing \notin Projection!Work
  BY ProjectionConstants DEF Projection!ProjectionInv, Projection!Typed, Projection!TypeOK
<1>3. /\ w = [step |-> "missing"] \/ w = [step |-> "failed"]
            \/ /\ registry \in Projection!ValidRegistries /\ records \in 1 .. Len(Ledger)
               /\ w = [step |-> IF names = <<>> THEN "stale" ELSE "page",
                       reg |-> registry, n |-> records, todo |-> names]
  BY <1>2, ProjectionConstants DEF Projection!Begun, Projection!ValidRegistries
<1> HIDE DEF w
<1>4. CASE w = [step |-> "failed"]
  <2>1. w.step = "failed"
    BY <1>4
  <2>2. lock' = IF lock = r THEN Nothing ELSE lock
    BY <1>1, <1>2, <2>1
  <2>3. receipt'.ok \in BOOLEAN /\ failures' \in 0 .. MaxFailures /\ touched' \in BOOLEAN
    BY <1>1, <1>2 DEF Projection!ProjectionInv, Projection!Typed, Projection!TypeOK
  <2>4. Projection!ReceiptIsTrue'
    BY <1>1, ReceiptStays DEF Projection!ProjectionInv
  <2> QED BY <1>1, <1>4, <2>2, <2>3, <2>4, RunnerStops
<1>5. CASE w = [step |-> "missing"]
  <2>1. w.step = "missing" /\ w \in Projection!Work
    BY <1>5, WorkIs
  <2>2. lock' = r /\ run' \in [Proc -> {Nothing} \cup Projection!Work] /\ run'[r] = w
        /\ \A q \in Proc \ {r} : run'[q] = run[q]
    BY <1>1, <1>2, <2>1
  <2>3. \A q \in Proc : lock' = q <=> run'[q] # Nothing /\ run'[q].step # "failed"
    BY <1>1, <1>2, <2>1, <2>2 DEF Projection!ProjectionInv, Projection!TypeOK
  <2>4. Projection!TypeOK'
    BY <1>1, <2>2, <2>3 DEF Projection!ProjectionInv, Projection!TypeOK
  <2>5. Projection!Typed'
    BY <1>1, <2>2 DEF Projection!ProjectionInv, Projection!Typed
  <2>6. Projection!ReceiptIsTrue'
    BY <1>1, ReceiptStays DEF Projection!ProjectionInv
  <2>7. \A q \in Proc : lock' = q => run'[q].step = "missing"
    BY <2>1, <2>2
  <2> QED BY <2>4, <2>5, <2>6, <2>7 DEF Projection!ProjectionInv
<1>6. CASE /\ registry \in Projection!ValidRegistries /\ records \in 1 .. Len(Ledger)
           /\ w = [step |-> IF names = <<>> THEN "stale" ELSE "page",
                   reg |-> registry, n |-> records, todo |-> names]
  <2>1. names \in Seq(Projection!Paged)
    BY <1>6, NamesAre
  <2> HIDE DEF names
  <2>2. /\ w.step \in {"stale", "page"} /\ (w.step = "page" <=> names # <<>>)
        /\ w.reg = registry /\ w.n = records /\ w.todo = names
    BY <1>6
  <2>3. w \in Underway
    BY <1>6, <2>1 DEF Underway, Writing
  <2>4. lock' = r /\ run' \in [Proc -> {Nothing} \cup Projection!Work] /\ run'[r] = w
        /\ \A q \in Proc \ {r} : run'[q] = run[q]
    BY <1>1, <1>2, <2>2, <2>3, UnderwayMeans
  <2>5. \A q \in Proc : lock' = q <=> run'[q] # Nothing /\ run'[q].step # "failed"
    <3>1. w # Nothing /\ w.step # "failed"
      BY <2>2, <2>3, UnderwayMeans
    <3> QED BY <1>1, <1>2, <2>4, <3>1 DEF Projection!ProjectionInv, Projection!TypeOK
  <2>6. Projection!TypeOK'
    BY <1>1, <2>4, <2>5 DEF Projection!ProjectionInv, Projection!TypeOK
  <2>7. Projection!Typed'
    BY <1>1, <2>4 DEF Projection!ProjectionInv, Projection!Typed
  <2>8. Projection!ReceiptIsTrue'
    BY <1>1, ReceiptStays DEF Projection!ProjectionInv
  <2>9. Projection!RunIsTrue(r)'
    BY <2>2, <2>4 DEF Projection!RunIsTrue, Projection!Right, names
  <2> QED BY <2>4, <2>6, <2>7, <2>8, <2>9 DEF Projection!ProjectionInv
<1> QED BY <1>3, <1>4, <1>5, <1>6

\* What is right stays right when a page that is none of it, or as it should be, is put.
LEMMA PutKeepsRight ==
    ASSUME NEW reg, NEW n, NEW names, Projection!Right(reg, n, names),
           NEW name, pages' = Projection!Put(pages, name, Projection!Page(reg, n, name))
    PROVE  Projection!Right(reg, n, names \cup {name})'
<1>1. /\ DOMAIN pages' = DOMAIN pages \cup {name} /\ pages'[name] = Projection!Page(reg, n, name)
      /\ \A x \in DOMAIN pages : x # name => pages'[x] = pages[x]
  BY DEF Projection!Put
<1> QED BY <1>1 DEF Projection!Right

\* What a run under way goes on to.
LEMMA RunGoesTo ==
    ASSUME Projection!ProjectionInv, NEW r \in Proc, NEW w \in Underway,
           run' = [run EXCEPT ![r] = w]
    PROVE  run'[r] = w
BY DEF Projection!ProjectionInv, Projection!Typed

\* What makes a run true after a step, by what the run is then.
LEMMA WillBeTrue ==
    ASSUME NEW r, NEW v, run'[r] = v,
           Projection!Right(v.reg, v.n, Projection!ToSet(Projection!Names(v.reg, v.n)) \ Projection!ToSet(v.todo))',
           Projection!ToSet(v.todo) \subseteq Projection!ToSet(Projection!Names(v.reg, v.n)),
           v.step \in {"page", "note"} <=> v.todo # <<>>,
           v.step = "note" => /\ Projection!Right(v.reg, v.n, {Head(v.todo)})'
                              /\ Head(v.todo) \in DOMAIN notes' => notes'[Head(v.todo)] = "own",
           v.step \in {"top", "queue", "receipt"} =>
               DOMAIN pages' \subseteq Projection!ToSet(Projection!Names(v.reg, v.n)) \cup Projection!Listings,
           v.step \in {"queue", "receipt"} => Projection!Right(v.reg, v.n, {<<"top">>})',
           v.step = "receipt" => Projection!Right(v.reg, v.n, {<<"queue">>})'
    PROVE  Projection!RunIsTrue(r)'
BY DEF Projection!RunIsTrue, Projection!Right, Projection!Active

\* The page a run is at is as it should be, and the run turns to the next.
LEMMA TurnsPage ==
    ASSUME Projection!ProjectionInv, NEW r \in Proc, NEW w, w = run[r], w \in Underway,
           NEW names, names = Projection!ToSet(Projection!Names(w.reg, w.n)),
           w.todo # <<>>, Projection!ToSet(w.todo) \subseteq names,
           Projection!Right(w.reg, w.n, (names \ Projection!ToSet(w.todo)) \cup {Head(w.todo)})',
           run' = Projection!Onward(r)
    PROVE  \E v \in Underway : run' = [run EXCEPT ![r] = v] /\ Projection!RunIsTrue(r)'
<1>1. w.todo \in Seq(Projection!Paged)
  BY UnderwayMeans
<1>2. /\ Tail(w.todo) \in Seq(Projection!Paged)
      /\ Projection!ToSet(w.todo) \subseteq {Head(w.todo)} \cup Projection!ToSet(Tail(w.todo))
      /\ Projection!ToSet(Tail(w.todo)) \subseteq Projection!ToSet(w.todo)
      /\ Len(w.todo) = 1 <=> Tail(w.todo) = <<>>
  BY <1>1, FirstPage
<1>3. PICK s \in {"stale", "page"} : s = IF Len(w.todo) = 1 THEN "stale" ELSE "page"
  OBVIOUS
<1>4. PICK todo \in Seq(Projection!Paged) : todo = Tail(w.todo)
  BY <1>2
<1>5. PICK v : v = [w EXCEPT !.todo = todo, !.step = s]
  OBVIOUS
<1>6. v \in Underway /\ v.step = s /\ v.reg = w.reg /\ v.n = w.n /\ v.todo = todo
  <2>1. s \in Writing
    BY DEF Writing
  <2> QED BY <1>5, <2>1 DEF Underway
<1>7. run' = [run EXCEPT ![r] = v]
  BY <1>3, <1>4, <1>5 DEF Projection!Onward
<1>8. run'[r] = v
  BY <1>6, <1>7, RunGoesTo, Zenon
<1>9. Projection!Right(w.reg, w.n, names \ Projection!ToSet(todo))'
  BY <1>2, <1>4 DEF Projection!Right
<1>10. Projection!ToSet(todo) \subseteq names /\ (s \in {"page", "note"} <=> todo # <<>>)
  BY <1>2, <1>3, <1>4
<1>11. Projection!RunIsTrue(r)'
  BY <1>6, <1>8, <1>9, <1>10, WillBeTrue
<1> QED BY <1>6, <1>7, <1>11

\* A page is written whole, and is as it should be.
LEMMA WritePageKeeps ==
    ASSUME Projection!ProjectionInv, NEW r \in Proc, Projection!WritePage(r)
    PROVE  Projection!ProjectionInv'
<1> SUFFICES ASSUME NEW w, w = run[r], NEW name, name = Head(w.todo), NEW reg, reg = w.reg,
                    NEW n, n = w.n, NEW names, names = Projection!ToSet(Projection!Names(reg, n))
             PROVE  Projection!ProjectionInv'
  OBVIOUS
<1>1. Projection!InStep(r, "page") /\ "page" \in Writing
  BY DEF Projection!WritePage, Writing
<1>2. /\ lock = r /\ w \in Underway /\ w.step = "page" /\ reg \in Projection!ValidRegistries
      /\ n \in 1 .. Len(Ledger) /\ w.todo \in Seq(Projection!Paged) /\ Projection!RunIsTrue(r)
  BY <1>1, RunFacts
<1>3. /\ pages' = Projection!Put(pages, name, Projection!Page(reg, n, name))
      /\ touched' = (touched \/ pages' # pages)
      /\ run' = IF name \in DOMAIN notes THEN Projection!Onward(r) ELSE [run EXCEPT ![r].step = "note"]
      /\ UNCHANGED <<records, registry, notes, lock, receipt, edits, failures>>
  BY DEF Projection!WritePage
<1>4. /\ w.todo # <<>> /\ Projection!ToSet(w.todo) \subseteq names
      /\ Projection!Right(reg, n, names \ Projection!ToSet(w.todo))
  BY <1>2 DEF Projection!RunIsTrue
<1>5. /\ name \in Projection!ToSet(w.todo) /\ name \in Projection!Paged /\ Tail(w.todo) \in Seq(Projection!Paged)
      /\ Projection!ToSet(w.todo) \subseteq {name} \cup Projection!ToSet(Tail(w.todo))
      /\ Projection!ToSet(Tail(w.todo)) \subseteq Projection!ToSet(w.todo)
      /\ Len(w.todo) = 1 <=> Tail(w.todo) = <<>>
  BY <1>2, <1>4, FirstPage
<1>6. FilesAreTyped /\ touched \in BOOLEAN
  BY DEF Projection!ProjectionInv, Projection!Typed, Projection!TypeOK, FilesAreTyped,
         IsFile
<1>7. FilesAreTyped'
  BY <1>3, <1>5, <1>6 DEF FilesAreTyped, IsFile, Projection!Put
<1>8. Projection!Right(reg, n, (names \ Projection!ToSet(w.todo)) \cup {name})'
  BY <1>3, <1>4, PutKeepsRight
<1>9. touched' \in BOOLEAN /\ (touched' \/ (touched' = touched /\ pages' = pages))
  BY <1>3, <1>6
<1>10. run[r] # Nothing
  BY <1>2, UnderwayMeans
<1>11. CASE name \in DOMAIN notes
  <2>1. PICK v \in Underway : run' = [run EXCEPT ![r] = v] /\ Projection!RunIsTrue(r)'
    BY <1>2, <1>3, <1>4, <1>8, <1>11, TurnsPage
  <2> QED BY <1>2, <1>3, <1>7, <1>9, <1>10, <2>1, RunnerGoesOn
<1>12. CASE name \notin DOMAIN notes
  <2>1. PICK v : v = [w EXCEPT !.step = "note"]
    OBVIOUS
  <2>2. v \in Underway /\ v.step = "note" /\ v.reg = reg /\ v.n = n /\ v.todo = w.todo
    BY <1>2, <2>1, UnderwayGoesOn DEF Writing
  <2>3. run' = [run EXCEPT ![r] = v]
    BY <1>3, <1>12, <2>1
  <2>4. run'[r] = v
    BY <2>2, <2>3, RunGoesTo
  <2>5. Projection!Right(reg, n, names \ Projection!ToSet(w.todo))' /\ Projection!Right(reg, n, {name})'
    BY <1>8 DEF Projection!Right
  <2>6. name \notin DOMAIN notes'
    BY <1>3, <1>12
  <2>7. Projection!RunIsTrue(r)'
    BY <1>4, <2>2, <2>4, <2>5, <2>6, WillBeTrue
  <2> QED BY <1>2, <1>3, <1>7, <1>9, <1>10, <2>2, <2>3, <2>7, RunnerGoesOn
<1> QED BY <1>11, <1>12

\* A note is begun where there was none, or over one that somebody has just begun.
LEMMA WriteNoteKeeps ==
    ASSUME Projection!ProjectionInv, NEW r \in Proc, Projection!WriteNote(r)
    PROVE  Projection!ProjectionInv' /\ Projection!EditedNotesStay
<1> SUFFICES ASSUME NEW w, w = run[r], NEW name, name = Head(w.todo), NEW reg, reg = w.reg,
                    NEW n, n = w.n, NEW names, names = Projection!ToSet(Projection!Names(reg, n))
             PROVE  Projection!ProjectionInv' /\ Projection!EditedNotesStay
  OBVIOUS
<1>1. Projection!InStep(r, "note") /\ "note" \in Writing
  BY DEF Projection!WriteNote, Writing
<1>2. /\ lock = r /\ w \in Underway /\ w.step = "note" /\ reg \in Projection!ValidRegistries
      /\ n \in 1 .. Len(Ledger) /\ w.todo \in Seq(Projection!Paged) /\ Projection!RunIsTrue(r) /\ run[r] # Nothing
  BY <1>1, RunFacts, UnderwayMeans
<1>3. /\ notes' = Projection!Put(notes, name, "template") /\ run' = Projection!Onward(r)
      /\ UNCHANGED <<records, registry, pages, lock, receipt, touched, edits, failures>>
  BY DEF Projection!WriteNote
<1>4. /\ w.todo # <<>> /\ Projection!ToSet(w.todo) \subseteq names
      /\ Projection!Right(reg, n, names \ Projection!ToSet(w.todo)) /\ Projection!Right(reg, n, {name})
      /\ name \in DOMAIN notes => notes[name] = "own"
  BY <1>2 DEF Projection!RunIsTrue
<1>5. name \in Projection!Paged
  BY <1>2, <1>4, FirstPage
<1>6. FilesAreTyped /\ touched \in BOOLEAN
  BY DEF Projection!ProjectionInv, Projection!Typed, Projection!TypeOK, FilesAreTyped,
         IsFile
<1>7. FilesAreTyped'
  BY <1>3, <1>5, <1>6 DEF FilesAreTyped, IsFile, Projection!Put
<1>8. Projection!Right(reg, n, (names \ Projection!ToSet(w.todo)) \cup {name})'
  BY <1>3, <1>4 DEF Projection!Right
<1>9. PICK v \in Underway : run' = [run EXCEPT ![r] = v] /\ Projection!RunIsTrue(r)'
  BY <1>2, <1>3, <1>4, <1>8, TurnsPage
<1>10. Projection!ProjectionInv'
  BY <1>2, <1>3, <1>6, <1>7, <1>9, RunnerGoesOn
<1>11. Projection!EditedNotesStay
  BY <1>3, <1>4 DEF Projection!EditedNotesStay, Projection!Put
<1> QED BY <1>10, <1>11

\* Pages of nobody are removed, and none of somebody.
LEMMA RemoveStaleKeeps ==
    ASSUME Projection!ProjectionInv, NEW r \in Proc, Projection!RemoveStale(r)
    PROVE  Projection!ProjectionInv'
<1> SUFFICES ASSUME NEW w, w = run[r], NEW reg, reg = w.reg, NEW n, n = w.n,
                    NEW names, names = Projection!ToSet(Projection!Names(reg, n)),
                    NEW stale, stale = DOMAIN pages \ (names \cup Projection!Listings)
             PROVE  Projection!ProjectionInv'
  OBVIOUS
<1>1. Projection!InStep(r, "stale") /\ "stale" \in Writing
  BY DEF Projection!RemoveStale, Writing
<1>2. /\ lock = r /\ w \in Underway /\ w.step = "stale" /\ w.todo \in Seq(Projection!Paged)
      /\ Projection!RunIsTrue(r) /\ run[r] # Nothing
  BY <1>1, RunFacts, UnderwayMeans
<1>3. /\ UNCHANGED <<records, registry, notes, lock, receipt, edits, failures>>
      /\ IF stale = {} THEN run' = [run EXCEPT ![r].step = "top"] /\ UNCHANGED <<pages, touched>>
         ELSE \E gone \in stale :
                  /\ pages' = [x \in DOMAIN pages \ {gone} |-> pages[x]]
                  /\ touched' = TRUE /\ UNCHANGED run
  BY DEF Projection!RemoveStale, Projection!Active
<1>4. w.todo = <<>> /\ Projection!Right(reg, n, names \ Projection!ToSet(w.todo)) /\ Projection!ToSet(w.todo) \subseteq names
  BY <1>2 DEF Projection!RunIsTrue
<1>5. Projection!ToSet(w.todo) = {}
  BY <1>4 DEF Projection!ToSet
<1>6. FilesAreTyped /\ touched \in BOOLEAN
  BY DEF Projection!ProjectionInv, Projection!Typed, Projection!TypeOK, FilesAreTyped,
         IsFile
<1>7. CASE stale = {}
  <2>1. PICK v : v = [w EXCEPT !.step = "top"]
    OBVIOUS
  <2>2. v \in Underway /\ v.step = "top" /\ v.reg = reg /\ v.n = n /\ v.todo = w.todo
    BY <1>2, <2>1, UnderwayGoesOn DEF Writing
  <2>3. run' = [run EXCEPT ![r] = v] /\ pages' = pages /\ touched' = touched
    BY <1>3, <1>7, <2>1
  <2>4. run'[r] = v
    BY <2>2, <2>3, RunGoesTo
  <2>5. Projection!Right(reg, n, names \ Projection!ToSet(w.todo))' /\ DOMAIN pages' \subseteq names \cup Projection!Listings
    BY <1>4, <1>7, <2>3 DEF Projection!Right
  <2>6. Projection!RunIsTrue(r)'
    BY <1>4, <2>2, <2>4, <2>5, WillBeTrue, Zenon
  <2>7. FilesAreTyped'
    BY <1>3, <1>6, <2>3 DEF FilesAreTyped, IsFile
  <2>8. touched' \in BOOLEAN /\ (touched' \/ (touched' = touched /\ pages' = pages))
    BY <1>6, <2>3
  <2> QED BY <1>2, <1>3, <2>2, <2>3, <2>6, <2>7, <2>8, RunnerGoesOn
<1>8. CASE stale # {}
  <2>1. PICK gone \in stale : /\ pages' = [x \in DOMAIN pages \ {gone} |-> pages[x]]
                              /\ touched' = TRUE /\ UNCHANGED run
    BY <1>3, <1>8
  <2>2. run' = [run EXCEPT ![r] = w] /\ run'[r] = w
    BY <2>1 DEF Projection!ProjectionInv, Projection!Typed
  <2>3. Projection!Right(reg, n, names \ Projection!ToSet(w.todo))'
    BY <1>4, <2>1 DEF Projection!Right
  <2>4. Projection!RunIsTrue(r)'
    BY <1>2, <1>4, <2>2, <2>3, WillBeTrue
  <2>5. FilesAreTyped'
    BY <1>3, <1>6, <2>1 DEF FilesAreTyped, IsFile
  <2>6. touched' \in BOOLEAN /\ touched'
    BY <2>1
  <2> QED BY <1>2, <1>3, <2>2, <2>4, <2>5, <2>6, RunnerGoesOn
<1> QED BY <1>7, <1>8

\* The listings are written over what is right, and are right.
LEMMA WriteListingKeeps ==
    ASSUME Projection!ProjectionInv, NEW r \in Proc, Projection!WriteListing(r)
    PROVE  Projection!ProjectionInv'
<1> SUFFICES ASSUME NEW w, w = run[r], NEW reg, reg = w.reg, NEW n, n = w.n,
                    NEW names, names = Projection!ToSet(Projection!Names(reg, n)), NEW name, name = <<w.step>>
             PROVE  Projection!ProjectionInv'
  OBVIOUS
<1>1. PICK s \in {"top", "queue"} : Projection!InStep(r, s) /\ s \in Writing
  BY DEF Projection!WriteListing, Writing
<1>2. /\ lock = r /\ w \in Underway /\ w.step = s /\ w.todo \in Seq(Projection!Paged)
      /\ reg \in Projection!ValidRegistries /\ n \in 1 .. Len(Ledger)
      /\ Projection!RunIsTrue(r) /\ run[r] # Nothing
  BY <1>1, RunFacts, UnderwayMeans
<1>3. /\ UNCHANGED <<records, registry, notes, lock, receipt, edits, failures>>
      /\ pages' = Projection!Put(pages, name, Projection!Page(reg, n, name))
      /\ touched' = (touched \/ pages' # pages)
      /\ run' = [run EXCEPT ![r].step = IF @ = "top" THEN "queue" ELSE "receipt"]
  BY DEF Projection!WriteListing
<1>4. /\ w.todo = <<>> /\ Projection!Right(reg, n, names \ Projection!ToSet(w.todo))
      /\ Projection!ToSet(w.todo) \subseteq names /\ DOMAIN pages \subseteq names \cup Projection!Listings
      /\ s = "queue" => Projection!Right(reg, n, {<<"top">>})
  BY <1>2 DEF Projection!RunIsTrue, Projection!Active
<1>5. name \in Projection!Listings
  BY <1>2 DEF Projection!Listings
<1>6. FilesAreTyped /\ touched \in BOOLEAN
  BY DEF Projection!ProjectionInv, Projection!Typed, Projection!TypeOK, FilesAreTyped,
         IsFile
<1>7. FilesAreTyped'
  BY <1>3, <1>5, <1>6 DEF FilesAreTyped, IsFile, Projection!Put
<1>8. /\ Projection!Right(reg, n, (names \ Projection!ToSet(w.todo)) \cup {name})'
      /\ s = "queue" => Projection!Right(reg, n, {<<"top">>} \cup {name})'
  BY <1>3, <1>4, PutKeepsRight
<1>9. DOMAIN pages' \subseteq names \cup Projection!Listings
  BY <1>3, <1>4, <1>5 DEF Projection!Put
<1>10. touched' \in BOOLEAN /\ (touched' \/ (touched' = touched /\ pages' = pages))
  BY <1>3, <1>6
<1>11. PICK next \in {"queue", "receipt"} : next = IF s = "top" THEN "queue" ELSE "receipt"
  OBVIOUS
<1>12. PICK v : v = [w EXCEPT !.step = next]
  OBVIOUS
<1>13. next \in Writing
  BY DEF Writing
<1>14. v \in Underway /\ v.step = next /\ v.reg = reg /\ v.n = n /\ v.todo = w.todo
  BY <1>2, <1>12, <1>13, UnderwayGoesOn
<1>15. run' = [run EXCEPT ![r] = v]
  BY <1>2, <1>3, <1>11, <1>12
<1>16. run'[r] = v
  BY <1>14, <1>15, RunGoesTo
<1>17. Projection!Right(reg, n, names \ Projection!ToSet(w.todo))'
  BY <1>8 DEF Projection!Right
<1>18. Projection!Right(reg, n, {<<"top">>})' /\ (next = "receipt" => Projection!Right(reg, n, {<<"queue">>})')
  <2>1. CASE s = "top"
    <3>1. name = <<"top">> /\ next = "queue"
      BY <1>2, <1>11, <2>1
    <3> QED BY <1>8, <3>1 DEF Projection!Right
  <2>2. CASE s = "queue"
    <3>1. name = <<"queue">>
      BY <1>2, <2>2
    <3> QED BY <1>8, <2>2, <3>1 DEF Projection!Right
  <2> QED BY <2>1, <2>2
<1>19. Projection!RunIsTrue(r)'
  BY <1>4, <1>9, <1>11, <1>14, <1>16, <1>17, <1>18, WillBeTrue
<1> QED BY <1>2, <1>3, <1>7, <1>10, <1>14, <1>15, <1>19, RunnerGoesOn

\* The receipt of a run that wrote all its pages is true.
LEMMA WriteReceiptKeeps ==
    ASSUME Projection!ProjectionInv, NEW r \in Proc, Projection!WriteReceipt(r)
    PROVE  Projection!ProjectionInv'
<1> SUFFICES ASSUME NEW w, w = run[r], NEW reg, reg = w.reg, NEW n, n = w.n,
                    NEW names, names = Projection!ToSet(Projection!Names(reg, n))
             PROVE  Projection!ProjectionInv'
  OBVIOUS
<1>1. Projection!InStep(r, "receipt") /\ "receipt" \in Writing
  BY DEF Projection!WriteReceipt, Writing
<1>2. /\ lock = r /\ w \in Underway /\ w.step = "receipt" /\ w.todo \in Seq(Projection!Paged)
      /\ reg \in Projection!ValidRegistries /\ n \in 1 .. Len(Ledger) /\ Projection!RunIsTrue(r)
  BY <1>1, RunFacts
<1>3. /\ UNCHANGED <<records, registry, pages, notes, edits, failures>>
      /\ receipt' = [ok |-> TRUE, reg |-> reg, n |-> n] /\ touched' = FALSE
      /\ lock' = Nothing /\ run' = [run EXCEPT ![r] = Nothing]
  BY DEF Projection!WriteReceipt
<1>4. /\ w.todo = <<>> /\ Projection!Right(reg, n, names \ Projection!ToSet(w.todo))
      /\ DOMAIN pages \subseteq names \cup Projection!Listings
      /\ Projection!Right(reg, n, {<<"top">>}) /\ Projection!Right(reg, n, {<<"queue">>})
  BY <1>2 DEF Projection!RunIsTrue, Projection!Active
<1>5. Projection!ToSet(w.todo) = {}
  BY <1>4 DEF Projection!ToSet
<1>6. Projection!Right(reg, n, names \cup Projection!Listings)
  BY <1>4, <1>5 DEF Projection!Right, Projection!Listings
<1>7. DOMAIN pages = names \cup Projection!Listings
  BY <1>4, <1>6 DEF Projection!Right
<1>8. receipt'.reg = reg /\ receipt'.n = n /\ receipt'.ok = TRUE
  BY <1>3
<1>9. Projection!ReceiptIsTrue'
  BY <1>2, <1>3, <1>6, <1>7, <1>8 DEF Projection!ReceiptIsTrue, Projection!Right
<1>10. failures' \in 0 .. MaxFailures
  BY <1>3 DEF Projection!ProjectionInv, Projection!TypeOK
<1>11. touched' \in BOOLEAN /\ receipt'.ok \in BOOLEAN /\ lock' = IF lock = r THEN Nothing ELSE lock
  BY <1>2, <1>3, <1>8
<1> QED BY <1>3, <1>9, <1>10, <1>11, RunnerStops

\* A receipt that says that the run did not end well says nothing of the pages.
LEMMA FailureKeeps ==
    ASSUME Projection!ProjectionInv, NEW r \in Proc,
           Projection!ReportMissing(r) \/ Projection!WriteFailure(r)
    PROVE  Projection!ProjectionInv'
<1>1. /\ UNCHANGED <<records, registry, pages, notes, edits, failures>>
      /\ receipt' = [ok |-> FALSE] /\ touched' = FALSE /\ run' = [run EXCEPT ![r] = Nothing]
  BY DEF Projection!ReportMissing, Projection!WriteFailure
<1>2. lock' = IF lock = r THEN Nothing ELSE lock
  <2>1. CASE Projection!ReportMissing(r)
    BY <2>1 DEF Projection!ReportMissing, Projection!InStep, Projection!ProjectionInv,
                Projection!TypeOK
  <2>2. CASE Projection!WriteFailure(r)
    BY <2>2 DEF Projection!WriteFailure, Projection!InStep, Projection!ProjectionInv,
                Projection!TypeOK
  <2> QED BY <2>1, <2>2
<1>3. receipt'.ok = FALSE
  BY <1>1
<1>4. Projection!ReceiptIsTrue'
  BY <1>3 DEF Projection!ReceiptIsTrue, Projection!Settled
<1>5. failures' \in 0 .. MaxFailures /\ touched' \in BOOLEAN /\ receipt'.ok \in BOOLEAN
  BY <1>1, <1>3 DEF Projection!ProjectionInv, Projection!TypeOK
<1> QED BY <1>1, <1>2, <1>4, <1>5, RunnerStops

\* A run that raises or dies leaves the pages where they are.
LEMMA CrashKeeps ==
    ASSUME Projection!ProjectionInv, NEW r \in Proc,
           Projection!RunFails(r) \/ Projection!RunDies(r)
    PROVE  Projection!ProjectionInv'
<1>1. /\ UNCHANGED <<records, registry, pages, notes, receipt, touched, edits>>
      /\ run' = [run EXCEPT ![r] = Nothing] \/ run' = [run EXCEPT ![r] = [step |-> "failed"]]
      /\ lock' = IF lock = r THEN Nothing ELSE lock
      /\ failures < MaxFailures /\ failures' = failures + 1
  BY DEF Projection!RunFails, Projection!RunDies
<1>2. failures' \in 0 .. MaxFailures /\ touched' \in BOOLEAN /\ receipt'.ok \in BOOLEAN
  BY <1>1, ProjectionConstants DEF Projection!ProjectionInv, Projection!TypeOK,
                                   Projection!Typed
<1>3. Projection!ReceiptIsTrue'
  BY <1>1, ReceiptStays DEF Projection!ProjectionInv
<1> QED BY <1>1, <1>2, <1>3, RunnerStops

\* The ledger grows and registries change beside every run.
LEMMA OutsideKeeps ==
    ASSUME Projection!ProjectionInv, Projection!AppendRecord \/ Projection!EditRegistry
    PROVE  Projection!ProjectionInv'
<1>1. /\ UNCHANGED <<pages, notes, lock, run, receipt, touched, failures>>
      /\ records' \in 0 .. Len(Ledger) /\ registry' \in Registry /\ edits' \in 0 .. MaxEdits
  BY ProjectionConstants DEF Projection!AppendRecord, Projection!EditRegistry,
                             Projection!ProjectionInv, Projection!TypeOK
<1>2. Projection!TypeOK'
  BY <1>1 DEF Projection!ProjectionInv, Projection!TypeOK
<1>3. Projection!Typed'
  BY <1>1 DEF Projection!ProjectionInv, Projection!Typed
<1>4. Projection!ReceiptIsTrue'
  BY <1>1, ReceiptStays DEF Projection!ProjectionInv
<1>5. \A r \in Proc : lock' = r /\ run'[r].step # "missing" => Projection!RunIsTrue(r)'
  BY <1>1, RunStays DEF Projection!ProjectionInv
<1> QED BY <1>2, <1>3, <1>4, <1>5 DEF Projection!ProjectionInv

\* A person changes a note, or begins one: the run that is about to begin it finds it
\* one of that person's own.
LEMMA EditNoteKeeps ==
    ASSUME Projection!ProjectionInv, NEW name \in DOMAIN pages \ Projection!Listings,
           Projection!EditNote(name)
    PROVE  Projection!ProjectionInv' /\ Projection!EditedNotesStay
<1>1. /\ UNCHANGED <<records, registry, pages, lock, run, receipt, touched, failures>>
      /\ edits < MaxEdits /\ edits' = edits + 1
      /\ \A x \in DOMAIN notes \cap {name} : notes[x] = "template"
      /\ notes' = Projection!Put(notes, name, IF name \in DOMAIN notes THEN "edited" ELSE "own")
  BY DEF Projection!EditNote
<1>2. FilesAreTyped /\ touched \in BOOLEAN /\ name \in Projection!Paged
  BY DEF Projection!ProjectionInv, Projection!Typed, Projection!TypeOK, FilesAreTyped,
         IsFile
<1>3. FilesAreTyped'
  BY <1>1, <1>2 DEF FilesAreTyped, IsFile, Projection!Put
<1>4. /\ \A x \in DOMAIN notes : x # name => x \in DOMAIN notes' /\ notes'[x] = notes[x]
      /\ DOMAIN notes' = DOMAIN notes \cup {name}
      /\ name \in DOMAIN notes => notes[name] = "template" /\ notes'[name] = "edited"
      /\ name \notin DOMAIN notes => notes'[name] = "own"
  BY <1>1 DEF Projection!Put
<1>5. edits' \in 0 .. MaxEdits
  BY <1>1, ProjectionConstants DEF Projection!ProjectionInv, Projection!TypeOK
<1>6. \A x \in DOMAIN notes' : x[1] \in {"person", "topic"}
  BY <1>3, PagedIs DEF FilesAreTyped
<1>7. Projection!TypeOK'
  BY <1>1, <1>3, <1>5, <1>6 DEF Projection!ProjectionInv, Projection!TypeOK, FilesAreTyped
<1>8. Projection!Typed'
  BY <1>1, <1>3 DEF Projection!ProjectionInv, Projection!Typed, FilesAreTyped, IsFile
<1>9. Projection!ReceiptIsTrue'
  BY <1>1, ReceiptStays DEF Projection!ProjectionInv
<1>10. ASSUME NEW r \in Proc, lock' = r, run'[r].step # "missing" PROVE Projection!RunIsTrue(r)'
  <2>1. Projection!RunIsTrue(r)
    BY <1>1, <1>10 DEF Projection!ProjectionInv
  <2>2. PICK head : head = Head(run[r].todo)
    OBVIOUS
  <2>3. run[r].step = "note" => (head \in DOMAIN notes => notes[head] = "own")
    BY <2>1, <2>2 DEF Projection!RunIsTrue
  <2>4. run[r].step = "note" => (head \in DOMAIN notes' => notes'[head] = "own")
    <3>1. CASE head = name
      <4>1. run[r].step = "note" => name \notin DOMAIN notes
        BY <1>4, <2>3, <3>1
      <4> QED BY <1>4, <3>1, <4>1
    <3>2. CASE head # name
      BY <1>4, <2>3, <3>2
    <3> QED BY <3>1, <3>2
  <2> QED BY <1>1, <2>1, <2>2, <2>4 DEF Projection!RunIsTrue, Projection!Right,
                                        Projection!Active
<1>11. Projection!EditedNotesStay
  BY <1>4 DEF Projection!EditedNotesStay
<1> QED BY <1>7, <1>8, <1>9, <1>10, <1>11 DEF Projection!ProjectionInv

\* Every step keeps the invariant, and every note that a person changed.
LEMMA ProjectionStep ==
    ASSUME Projection!ProjectionInv, Projection!Next
    PROVE  Projection!ProjectionInv' /\ Projection!EditedNotesStay
<1>1. notes' = notes => Projection!EditedNotesStay
  BY DEF Projection!EditedNotesStay
<1>2. CASE \E r \in Proc : Projection!Project(r)
  <2>1. PICK r \in Proc : Projection!Project(r)
    BY <1>2
  <2>2. CASE Projection!WriteNote(r)
    BY <2>2, WriteNoteKeeps
  <2>3. CASE Projection!StartRun(r)
    BY <1>1, <2>3, StartRunKeeps DEF Projection!StartRun
  <2>4. CASE Projection!WritePage(r)
    BY <1>1, <2>4, WritePageKeeps DEF Projection!WritePage
  <2>5. CASE Projection!RemoveStale(r)
    BY <1>1, <2>5, RemoveStaleKeeps DEF Projection!RemoveStale
  <2>6. CASE Projection!WriteListing(r)
    BY <1>1, <2>6, WriteListingKeeps DEF Projection!WriteListing
  <2>7. CASE Projection!WriteReceipt(r)
    BY <1>1, <2>7, WriteReceiptKeeps DEF Projection!WriteReceipt
  <2>8. CASE Projection!ReportMissing(r)
    BY <1>1, <2>8, FailureKeeps DEF Projection!ReportMissing
  <2>9. CASE Projection!WriteFailure(r)
    BY <1>1, <2>9, FailureKeeps DEF Projection!WriteFailure
  <2> QED BY <2>1, <2>2, <2>3, <2>4, <2>5, <2>6, <2>7, <2>8, <2>9 DEF Projection!Project
<1>3. CASE \E r \in Proc : Projection!RunFails(r) \/ Projection!RunDies(r)
  <2>1. PICK r \in Proc : Projection!RunFails(r) \/ Projection!RunDies(r)
    BY <1>3
  <2> QED BY <1>1, <2>1, CrashKeeps DEF Projection!RunFails, Projection!RunDies
<1>4. CASE Projection!AppendRecord
  BY <1>1, <1>4, OutsideKeeps DEF Projection!AppendRecord
<1>5. CASE Projection!EditRegistry
  BY <1>1, <1>5, OutsideKeeps DEF Projection!EditRegistry
<1>6. CASE \E name \in DOMAIN pages \ Projection!Listings : Projection!EditNote(name)
  BY <1>6, EditNoteKeeps
<1> QED BY <1>2, <1>3, <1>4, <1>5, <1>6 DEF Projection!Next

\* When nothing changes, the invariant stays.
LEMMA ProjectionStands ==
    ASSUME Projection!ProjectionInv, UNCHANGED Projection!vars
    PROVE  Projection!ProjectionInv'
<1>1. UNCHANGED <<records, registry, pages, notes, lock, run, receipt, touched, edits, failures>>
  BY DEF Projection!vars
<1>2. Projection!TypeOK'
  BY <1>1 DEF Projection!ProjectionInv, Projection!TypeOK
<1>3. Projection!Typed'
  BY <1>1 DEF Projection!ProjectionInv, Projection!Typed
<1>4. Projection!ReceiptIsTrue'
  BY <1>1, ReceiptStays DEF Projection!ProjectionInv
<1>5. \A r \in Proc : lock' = r /\ run'[r].step # "missing" => Projection!RunIsTrue(r)'
  BY <1>1, RunStays DEF Projection!ProjectionInv
<1> QED BY <1>2, <1>3, <1>4, <1>5 DEF Projection!ProjectionInv

\* What the invariant says of the vault.
LEMMA ProjectionMeans ==
    ASSUME Projection!ProjectionInv

         PROVE  Projection!TypeOK /\ Projection!EverythingIsFiled /\ Projection!TopLinksEveryPage /\ Projection!RelationsAreMutual
BY FilingIsRight, TopIsRight, RelationsAreRight DEF Projection!ProjectionInv

------------------------------------------------------------------------------
(***************************************************************************)
(* All parts together                                                      *)
(***************************************************************************)
TextInv ==
    /\ \A k \in DOMAIN Ledgers : part = k => Snapshots(k)!LedgerInv
    /\ part = "registry" => Registrar!RegistryInv
    /\ \A k \in DOMAIN Importings : part = k => Import(k)!ImportInv
    /\ part = "projection" => Projection!ProjectionInv
    /\ part = "local" => Local!LocalInv
    /\ part = "intake" => Intake!IntakeInv

\* A part is one of the named ones, a ledger or an import.
LEMMA PartsDiffer ==
    /\ \A k \in DOMAIN Ledgers : k \notin Singles /\ k \notin DOMAIN Importings
    /\ \A k \in DOMAIN Importings : k \notin Singles /\ k \notin DOMAIN Ledgers
    /\ Singles = {"registry", "projection", "local", "intake"}
  BY TextStoreAssumption DEF Singles

\* Every behaviour begins as its part does.
LEMMA TextBegins == Init => TextInv
<1> SUFFICES ASSUME Init PROVE TextInv
  OBVIOUS
<1>1. ASSUME NEW k \in DOMAIN Ledgers, part = k PROVE Snapshots(k)!LedgerInv
  <2>1. Snapshots(k)!Init
    BY <1>1, PartsDiffer DEF Init
  <2> QED BY <2>1, LedgerBegins
<1>2. ASSUME part = "registry" PROVE Registrar!RegistryInv
  <2>1. Registrar!Init
    BY <1>2, PartsDiffer DEF Init
  <2> QED BY <2>1, RegistryBegins
<1>3. ASSUME NEW k \in DOMAIN Importings, part = k PROVE Import(k)!ImportInv
  <2>1. Import(k)!Init
    BY <1>3, PartsDiffer DEF Init
  <2> QED BY <2>1, ImportBegins
<1>4. ASSUME part = "local" PROVE Local!LocalInv
  <2>1. Local!Init
    BY <1>4, PartsDiffer DEF Init
  <2> QED BY <2>1, LocalBegins
<1>5. ASSUME part = "intake" PROVE Intake!IntakeInv
  <2>1. Intake!Init
    BY <1>5, PartsDiffer DEF Init
  <2> QED BY <2>1, IntakeBegins
<1>6. ASSUME part = "projection" PROVE Projection!ProjectionInv
  <2>1. Projection!Init
    BY <1>6, PartsDiffer DEF Init
  <2> QED BY <2>1, ProjectionBegins
<1> QED BY <1>1, <1>2, <1>3, <1>4, <1>5, <1>6 DEF TextInv

\* A step is one of the behaviour's own part, or none.
LEMMA OwnSteps ==
    ASSUME [Next]_vars
    PROVE  /\ part' = part
           /\ \A k \in DOMAIN Ledgers : part = k =>
                  Snapshots(k)!Next \/ UNCHANGED vars
           /\ part = "registry" => Registrar!Next \/ UNCHANGED vars
           /\ \A k \in DOMAIN Importings : part = k =>
                  Import(k)!Next \/ UNCHANGED vars
           /\ part = "projection" => Projection!Next \/ UNCHANGED vars
           /\ part = "local" => Local!Next \/ UNCHANGED vars
           /\ part = "intake" => Intake!Next \/ UNCHANGED vars
<1>1. part' = part
  BY DEF Next, vars, BesideLedger, BesideRegistry, BesideImport, BesideProjection,
         BesideLocal,
         BesideIntake
<1>2. ASSUME NEW k \in DOMAIN Ledgers, part = k PROVE Snapshots(k)!Next \/ UNCHANGED vars
  BY <1>2, PartsDiffer DEF Next
<1>3. ASSUME part = "registry" PROVE Registrar!Next \/ UNCHANGED vars
  BY <1>3, PartsDiffer DEF Next
<1>4. ASSUME NEW k \in DOMAIN Importings, part = k PROVE Import(k)!Next \/ UNCHANGED vars
  BY <1>4, PartsDiffer DEF Next
<1>5. ASSUME part = "local" PROVE Local!Next \/ UNCHANGED vars
  BY <1>5, PartsDiffer DEF Next
<1>6. ASSUME part = "intake" PROVE Intake!Next \/ UNCHANGED vars
  BY <1>6, PartsDiffer DEF Next
<1>7. ASSUME part = "projection" PROVE Projection!Next \/ UNCHANGED vars
  BY <1>7, PartsDiffer DEF Next
<1> QED BY <1>1, <1>2, <1>3, <1>4, <1>5, <1>6, <1>7

\* When nothing changes, nothing changes in a part.
LEMMA NothingMoves ==
    ASSUME UNCHANGED vars
    PROVE  /\ \A k \in DOMAIN Ledgers : UNCHANGED Snapshots(k)!vars
           /\ UNCHANGED <<registry, registry_tail, call, told, runs, crashes>>
           /\ \A k \in DOMAIN Importings : UNCHANGED Import(k)!vars
           /\ UNCHANGED Projection!vars /\ UNCHANGED Local!vars /\ UNCHANGED Intake!vars
<1> USE DEF vars, ledgerVars, registryVars, importVars, projectionVars, localVars, intakeVars
<1>1. \A k \in DOMAIN Ledgers : UNCHANGED Snapshots(k)!vars
  BY DEF Snapshots!vars
<1>2. UNCHANGED <<registry, registry_tail, call, told, runs, crashes>>
  OBVIOUS
<1>3. \A k \in DOMAIN Importings : UNCHANGED Import(k)!vars
  BY DEF Import!vars
<1>4. UNCHANGED Local!vars
  BY DEF Local!vars
<1>5. UNCHANGED Intake!vars
  BY DEF Intake!vars
<1>6. UNCHANGED Projection!vars
  BY DEF Projection!vars
<1> QED BY <1>1, <1>2, <1>3, <1>4, <1>5, <1>6

\* A step of a part keeps its invariant, and all others stand.
LEMMA TextStep == TextInv /\ [Next]_vars => TextInv'
<1> SUFFICES ASSUME TextInv, [Next]_vars PROVE TextInv'
  OBVIOUS
<1>0. part' = part
  BY OwnSteps
<1>1. ASSUME NEW k \in DOMAIN Ledgers, part = k PROVE Snapshots(k)!LedgerInv'
  <2>1. Snapshots(k)!LedgerInv
    BY <1>1 DEF TextInv
  <2>2. Snapshots(k)!Next \/ UNCHANGED Snapshots(k)!vars
    BY <1>1, OwnSteps, NothingMoves
  <2> QED BY <2>1, <2>2, LedgerStep, LedgerStands
<1>2. ASSUME part = "registry" PROVE Registrar!RegistryInv'
  <2>1. Registrar!Next \/ UNCHANGED <<registry, registry_tail, call, told, runs, crashes>>
    BY <1>2, OwnSteps, NothingMoves
  <2> QED BY <1>2, <2>1, RegistryStep, RegistryStands DEF TextInv
<1>3. ASSUME NEW k \in DOMAIN Importings, part = k PROVE Import(k)!ImportInv'
  <2>1. Import(k)!ImportInv
    BY <1>3 DEF TextInv
  <2>2. Import(k)!Next \/ UNCHANGED Import(k)!vars
    BY <1>3, OwnSteps, NothingMoves
  <2> QED BY <2>1, <2>2, ImportStep, ImportStands
<1>4. ASSUME part = "local" PROVE Local!LocalInv'
  <2>1. Local!Next \/ UNCHANGED Local!vars
    BY <1>4, OwnSteps, NothingMoves
  <2> QED BY <1>4, <2>1, LocalStep, LocalStands DEF TextInv
<1>5. ASSUME part = "intake" PROVE Intake!IntakeInv'
  <2>1. Intake!Next \/ UNCHANGED Intake!vars
    BY <1>5, OwnSteps, NothingMoves
  <2> QED BY <1>5, <2>1, IntakeStep, IntakeStands DEF TextInv
<1>6. ASSUME part = "projection" PROVE Projection!ProjectionInv'
  <2>1. Projection!Next \/ UNCHANGED Projection!vars
    BY <1>6, OwnSteps, NothingMoves
  <2> QED BY <1>6, <2>1, ProjectionStep, ProjectionStands DEF TextInv
<1> QED BY <1>0, <1>1, <1>2, <1>3, <1>4, <1>5, <1>6 DEF TextInv

\* The invariants of the parts hold throughout.
LEMMA TextInvariant == Spec => []TextInv
<1> QED BY TextBegins, TextStep, PTL DEF Spec

\* What the invariants say of each part.
LEMMA TextMeans ==
    ASSUME TextInv
    PROVE  /\ \A k \in DOMAIN Ledgers : part = k =>
                  /\ Snapshots(k)!TypeOK /\ Snapshots(k)!AnsweredStaysContent /\ Snapshots(k)!IngestedIsRegistered
                  /\ Snapshots(k)!TakenOverOnce /\ Snapshots(k)!DuplicateMeansUnedited
                  /\ Snapshots(k)!ChainStaysValid /\ Snapshots(k)!NoReaderSeesInvalid
           /\ part = "registry" =>
                  Registrar!TypeOK /\ Registrar!ToldIsRecorded /\ Registrar!RedundantOnlyByRace
           /\ \A k \in DOMAIN Importings : part = k =>
                  Import(k)!TypeOK /\ Import(k)!AnsweredIsThere /\ Import(k)!ZeroMeansNothing
                  /\ Import(k)!ImportedOnce
           /\ part = "projection" =>
                  /\ Projection!TypeOK /\ Projection!EverythingIsFiled /\ Projection!TopLinksEveryPage
                  /\ Projection!RelationsAreMutual
           /\ part = "local" => Local!TypeOK /\ Local!AnsweredIsKept
           /\ part = "intake" => Intake!TypeOK /\ Intake!IntakeIsBacked
<1>1. \A k \in DOMAIN Ledgers : part = k =>
          /\ Snapshots(k)!TypeOK /\ Snapshots(k)!AnsweredStaysContent /\ Snapshots(k)!IngestedIsRegistered
          /\ Snapshots(k)!TakenOverOnce /\ Snapshots(k)!DuplicateMeansUnedited
          /\ Snapshots(k)!ChainStaysValid /\ Snapshots(k)!NoReaderSeesInvalid
  BY LedgerMeans DEF TextInv
<1>2. part = "registry" => Registrar!TypeOK /\ Registrar!ToldIsRecorded /\ Registrar!RedundantOnlyByRace
  BY DEF TextInv, Registrar!RegistryInv
<1>3. \A k \in DOMAIN Importings : part = k =>
          Import(k)!TypeOK /\ Import(k)!AnsweredIsThere /\ Import(k)!ZeroMeansNothing /\ Import(k)!ImportedOnce
  BY ImportMeans DEF TextInv
<1>4. part = "local" => Local!TypeOK /\ Local!AnsweredIsKept
  BY LocalMeans DEF TextInv
<1>5. part = "intake" => Intake!TypeOK /\ Intake!IntakeIsBacked
  BY IntakeMeans DEF TextInv
<1>6. part = "projection" =>
          Projection!TypeOK /\ Projection!EverythingIsFiled /\ Projection!TopLinksEveryPage /\ Projection!RelationsAreMutual
  BY ProjectionMeans DEF TextInv
<1> QED BY <1>1, <1>2, <1>3, <1>4, <1>5, <1>6

\* In each part the ledgers, records, locks and calls are of their types, whatever
\* batches, foreign files and processes there are.
THEOREM StoresTypeCorrect == Spec => []TypeOK
<1>1. TextInv => TypeOK
  BY TextMeans DEF TypeOK
<1> QED BY <1>1, TextInvariant, PTL

\* A row reported as saved stays content, messages are of registered targets, what was
\* told of a target can be read back, an import that answers says what it did, and a
\* saved entry is lost only where calls overlapped: for every ledger, batch, registry,
\* foreign file and number of processes, and whoever raced, failed or died.
THEOREM AnswersAreOnDisk == Spec => []AnsweredIsOnDisk
<1>1. TextInv => AnsweredIsOnDisk
  BY TextMeans DEF AnsweredIsOnDisk
<1> QED BY <1>1, TextInvariant, PTL

\* Nothing is taken over, imported or registered twice but in a race for the registry,
\* and a message is a duplicate only of its last version.
THEOREM NothingComesTwice == Spec => []NothingTwice
<1>1. TextInv => NothingTwice
  BY TextMeans DEF NothingTwice
<1> QED BY <1>1, TextInvariant, PTL

\* What the intake of a URL calls ready is backed by the capture and the rows it read.
THEOREM IntakeStaysBacked == Spec => []IntakeIsBacked
<1>1. TextInv => IntakeIsBacked
  BY TextMeans DEF IntakeIsBacked
<1> QED BY <1>1, TextInvariant, PTL

\* An import that swaps its stage in puts what it was pinned to first.
LEMMA PinnedStep ==
    ASSUME NEW k \in DOMAIN Importings, Import(k)!ImportInv, Import(k)!Next
    PROVE  Import(k)!PinnedFollowsDryRun
<1> SUFFICES ASSUME NEW i \in Importings[k].importer, Import(k)!InStep(i, "swap"), swapped'[i],
                    call[i].expected # Nothing
             PROVE  /\ call[i].before = call[i].expected
                    /\ SubSeq(rows', 1, Len(call[i].expected)) = call[i].expected
  BY DEF Import!PinnedFollowsDryRun
<1>1. /\ call[i] # Nothing /\ call[i].step = "swap" /\ swapped \in [Importings[k].importer -> BOOLEAN]
      /\ call[i] \in Import(k)!Work
  BY DEF Import!InStep, Import!ImportInv, Import!Typed
<1>2. Import(k)!Knows(i)
  BY DEF Import!ImportInv
<1>3. ~swapped[i] /\ call[i].before = call[i].expected
  BY <1>1, <1>2 DEF Import!Knows
<1>4. Import(k)!Swap(i)
  <2>1. PICK j \in Importings[k].importer : swapped' = [swapped EXCEPT ![j] = FALSE] \/ Import(k)!Swap(j)
    <3>1. swapped' # swapped
      BY <1>3
    <3> QED BY <3>1, Zenon DEF Import!Next, Import!StartImport, Import!Inspect,
                               Import!TakeLock, Import!Compare, Import!CheckStage,
           Import!SwapFails, Import!ReadBack, Import!ImporterDies, Import!EditSource, Import!WriterLoads, Import!WriterOpens,
           Import!WriterAppends, Import!WriterReadsBack
  <2>2. CASE swapped' = [swapped EXCEPT ![j] = FALSE]
    BY <1>1, <1>3, <2>2
  <2>3. CASE Import(k)!Swap(j)
    <3>1. swapped' = [swapped EXCEPT ![j] = TRUE]
      BY <2>3 DEF Import!Swap
    <3>2. i = j
      BY <1>1, <1>3, <3>1
    <3> QED BY <2>3, <3>2
  <2> QED BY <2>1, <2>2, <2>3
<1>5. /\ rows' = Append(call[i].before, Import(k)!RowOf(call[i].source, call[i].before))
      /\ call[i].before \in Seq(Import(k)!Row) /\ call[i].source \in Importings[k].source
  BY <1>1, <1>4 DEF Import!Swap, Import!Staged, Import!Work, Import!Rows
<1>6. Import(k)!RowOf(call[i].source, call[i].before) \in Import(k)!Row
  <2>1. Len(call[i].before) + 1 \in Nat
    BY <1>5
  <2> QED BY <1>5, <2>1 DEF Import!RowOf, Import!Row
<1>7. SubSeq(rows', 1, Len(call[i].before)) = call[i].before
  <2> DEFINE before == call[i].before
             row == Import(k)!RowOf(call[i].source, call[i].before)
  <2>1. before \in Seq(Import(k)!Row) /\ row \in Import(k)!Row /\ rows' = Append(before, row)
    BY <1>5, <1>6
  <2> HIDE DEF before, row
  <2>2. SubSeq(rows', 1, Len(before)) = before
    BY <2>1, LastIsAppended
  <2> QED BY <2>2 DEF before
<1> QED BY <1>3, <1>7

\* Every ledger's chain is valid up to an invalid row at its end, no reader is shown
\* one, and an import goes right after the ledger that its dry run judged.
THEOREM ChainStaysKept == Spec => ChainIsKept
<1>1. TextInv => \A k \in DOMAIN Ledgers : part = k =>
                     Snapshots(k)!ChainStaysValid /\ Snapshots(k)!NoReaderSeesInvalid
  BY TextMeans
<1>2. TextInv /\ [Next]_vars =>
          [\A k \in DOMAIN Importings : part = k => Import(k)!PinnedFollowsDryRun]_vars
  <2> SUFFICES ASSUME TextInv, [Next]_vars, ~(UNCHANGED vars),
                      NEW k \in DOMAIN Importings, part = k
               PROVE  Import(k)!PinnedFollowsDryRun
    OBVIOUS
  <2> QED BY OwnSteps, PinnedStep DEF TextInv
<1> QED BY <1>1, <1>2, TextInvariant, PTL DEF Spec, ChainIsKept

\* A projection whose receipt says that it is done, and that nobody has touched since,
\* has each line spoken in a current record on the page of its person and of its
\* topics, or in the review queue; its top page links every page, the relations of
\* topics are mutual; and no note that a person edited is ever written over: for every
\* ledger of legible texts, registry and number of runs, wherever a run fails or dies.
THEOREM ProjectionStaysWhole == Spec => ProjectionIsWhole
<1>1. TextInv => (part = "projection" => /\ Projection!EverythingIsFiled
                                         /\ Projection!TopLinksEveryPage
                                         /\ Projection!RelationsAreMutual)
  BY TextMeans
<1>2. TextInv /\ [Next]_vars => [part = "projection" => Projection!EditedNotesStay]_vars
  <2> SUFFICES ASSUME TextInv, [Next]_vars, ~(UNCHANGED vars), part = "projection"
               PROVE  Projection!EditedNotesStay
    OBVIOUS
  <2> QED BY OwnSteps, ProjectionStep DEF TextInv
<1> QED BY <1>1, <1>2, TextInvariant, PTL DEF Spec, ProjectionIsWhole
==============================================================================
