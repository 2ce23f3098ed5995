--------------------------- MODULE TextPartsProofs ---------------------------
(***************************************************************************)
(* Proofs about what takes observed text in: the registry of targets, the  *)
(* import of foreign snapshots, the intake of a URL, and the local stores  *)
(* of captures and transcripts.  Each has its inductive invariant, for     *)
(* every set of processes, calls and bounds.  The last lemmas are about    *)
(* what the projection reads back from its pages.  TextStoreProofs has the *)
(* other parts, and puts all together.                                     *)
(***************************************************************************)
EXTENDS TextStore, TLAPS, FiniteSetTheorems

------------------------------------------------------------------------------
(***************************************************************************)
(* Induction on an interval, and the last of a set of places               *)
(***************************************************************************)

\* A set that has 0 and with every number below n the next one has n: otherwise adding
\* one would map it into what it has besides 0, which is one element less.
LEMMA ReachesTop ==
    ASSUME NEW n \in Nat, NEW G, G \subseteq 0 .. n, 0 \in G,
           \A i \in G : i < n => i + 1 \in G
    PROVE  n \in G
<1> SUFFICES ASSUME n \notin G PROVE FALSE
  OBVIOUS
<1> DEFINE next == [i \in G |-> i + 1]
<1>1. IsFiniteSet(G) /\ IsFiniteSet(G \ {0}) /\ Cardinality(G) \in Nat
      /\ Cardinality(G \ {0}) = Cardinality(G) - 1
  <2>1. IsFiniteSet(0 .. n)
    BY FS_Interval
  <2>2. IsFiniteSet(G)
    BY <2>1, FS_Subset
  <2> QED
    BY <2>2, FS_RemoveElement, FS_CardinalityType
<1>2. next \in [G -> G \ {0}]
  OBVIOUS
<1>3. \E i, j \in G : i # j /\ next[i] = next[j]
  <2> HIDE DEF next
  <2>1. Cardinality(G \ {0}) < Cardinality(G)
    BY <1>1
  <2> QED BY <1>1, <1>2, <2>1, FS_PigeonHole
<1> QED
  BY <1>3

\* Places have a last one.
LEMMA HasLast ==
    ASSUME NEW n \in Nat, NEW S, S \subseteq 1 .. n, S # {}
    PROVE  \E i \in S : \A j \in S : j <= i
<1> SUFFICES ASSUME \A i \in S : \E j \in S : ~(j <= i) PROVE FALSE
  OBVIOUS
<1> DEFINE G == {i \in 0 .. n + 1 : \E j \in S : i <= j}
<1>1. 0 \in G
  <2>1. PICK j \in S : TRUE
    OBVIOUS
  <2>2. 0 \in 0 .. n + 1 /\ 0 <= j
    BY <2>1
  <2> QED BY <2>2
<1>2. ASSUME NEW i \in G, i < n + 1 PROVE i + 1 \in G
  <2>1. PICK j \in S : i <= j
    OBVIOUS
  <2>2. PICK h \in S : ~(h <= j)
    OBVIOUS
  <2>3. i + 1 <= h /\ i + 1 \in 0 .. n + 1
    BY <1>2, <2>1, <2>2
  <2> QED BY <2>3
<1>3. n + 1 \in G
  <2>1. G \subseteq 0 .. n + 1 /\ n + 1 \in Nat
    OBVIOUS
  <2> HIDE DEF G
  <2> QED BY <1>1, <1>2, <2>1, ReachesTop
<1> QED BY <1>3

\* Numbers have a first one.
LEMMA HasFirst ==
    ASSUME NEW S, S \subseteq Nat, S # {}
    PROVE  \E i \in S : \A j \in S : i <= j
<1>1. PICK t \in S : TRUE
  OBVIOUS
<1> DEFINE down == {t + 1 - j : j \in {k \in S : k <= t}}
<1>2. t \in Nat /\ down \subseteq 1 .. t + 1 /\ down # {} /\ t + 1 \in Nat
  BY <1>1
<1>3. PICK d \in down : \A e \in down : e <= d
  <2> HIDE DEF down
  <2> QED BY <1>2, HasLast
<1>4. PICK i \in S : i <= t /\ d = t + 1 - i
  OBVIOUS
<1>5. ASSUME NEW j \in S PROVE i <= j
  <2>1. CASE j <= t
    <3>1. t + 1 - j \in down /\ i \in Nat /\ j \in Nat
      BY <2>1
    <3>2. t + 1 - j <= t + 1 - i
      BY <1>3, <1>4, <3>1
    <3> QED BY <1>2, <3>1, <3>2
  <2>2. CASE ~(j <= t)
    BY <1>2, <1>4, <2>2
  <2> QED BY <2>1, <2>2
<1> QED BY <1>4, <1>5

\* A set of places is finite.
LEMMA PlacesAreFinite ==
    ASSUME NEW n \in Nat, NEW S, S \subseteq 1 .. n
    PROVE  IsFiniteSet(S) /\ Cardinality(S) \in Nat
<1>1. IsFiniteSet(1 .. n)
  BY FS_Interval
<1> QED BY <1>1, FS_Subset, FS_CardinalityType

\* A sequence that is not empty has a first element, and the others after it.
LEMMA FirstAndRest ==
    ASSUME NEW S, NEW s \in Seq(S), s # <<>>
    PROVE  /\ Head(s) \in S /\ Tail(s) \in Seq(S)
           /\ Len(s) \in Nat \ {0} /\ Len(Tail(s)) = Len(s) - 1
           /\ Len(s) # 1 => Tail(s) # <<>>
<1>1. Len(s) \in Nat \ {0}
  OBVIOUS
<1>2. Head(s) \in S /\ Tail(s) \in Seq(S) /\ Len(Tail(s)) = Len(s) - 1
  BY <1>1
<1>3. ASSUME Tail(s) = <<>> PROVE Len(s) = 1
  <2>1. Len(<<>>) = 0
    OBVIOUS
  <2>2. Len(Tail(s)) = 0
    BY <1>3, <2>1, Zenon
  <2>3. PICK n \in Nat : n = Len(s)
    BY <1>1
  <2>4. n - 1 = 0
    BY <1>2, <2>2, <2>3, Zenon
  <2>5. n = 1
    BY <2>4
  <2> QED BY <2>3, <2>5
<1> QED BY <1>1, <1>2, <1>3

\* A run of step functions from a start.
IsRun(a, n, S, s0, step) ==
    /\ a \in [0 .. n -> S]
    /\ a[0] = s0
    /\ \A i \in 1 .. n : a[i] = step[i][a[i - 1]]

\* Recursion on an interval: step functions on S have a run from every start.
LEMMA RunExists ==
    ASSUME NEW n \in Nat, NEW S, NEW s0 \in S, NEW step \in [1 .. n -> [S -> S]]
    PROVE  \E a : IsRun(a, n, S, s0, step)
<1> DEFINE Upto(k, a) == a[0] = s0 /\ \A i \in 1 .. k : a[i] = step[i][a[i - 1]]
           G == {k \in 0 .. n : \E a \in [0 .. k -> S] : Upto(k, a)}
<1>1. 0 \in G
  <2>1. [i \in 0 .. 0 |-> s0] \in [0 .. 0 -> S] /\ Upto(0, [i \in 0 .. 0 |-> s0])
    OBVIOUS
  <2>2. \E a \in [0 .. 0 -> S] : Upto(0, a)
    <3> HIDE DEF Upto
    <3> QED BY <2>1
  <2> QED BY <2>2
<1>2. ASSUME NEW k \in G, k < n
      PROVE  k + 1 \in G
  <2>1. PICK a \in [0 .. k -> S] : Upto(k, a)
    OBVIOUS
  <2>2. k \in Nat /\ k + 1 \in 1 .. n /\ a[k] \in S
    <3>1. k \in 0 .. n
      OBVIOUS
    <3> HIDE DEF G, Upto
    <3> QED BY <1>2, <3>1
  <2>3. step[k + 1][a[k]] \in S
    BY <2>2
  <2> DEFINE b == [i \in 0 .. k + 1 |-> IF i <= k THEN a[i] ELSE step[k + 1][a[k]]]
  <2>4. b \in [0 .. k + 1 -> S]
    BY <2>2, <2>3
  <2>5. b[0] = s0
    BY <2>1, <2>2
  <2>6. ASSUME NEW i \in 1 .. k + 1
        PROVE  b[i] = step[i][b[i - 1]]
    <3>1. CASE i = k + 1
      <4>1. b[i] = step[k + 1][a[k]] /\ b[i - 1] = a[k]
        BY <2>2, <3>1
      <4> QED BY <4>1, <3>1
    <3>2. CASE i \in 1 .. k
      <4>1. b[i] = a[i] /\ b[i - 1] = a[i - 1]
        BY <2>2, <3>2
      <4> QED BY <4>1, <3>2, <2>1
    <3> QED BY <3>1, <3>2, <2>2
  <2>7. Upto(k + 1, b)
    <3> HIDE DEF b
    <3> QED BY <2>5, <2>6
  <2>8. \E c \in [0 .. k + 1 -> S] : Upto(k + 1, c)
    <3> HIDE DEF b, Upto
    <3> QED BY <2>4, <2>7
  <2> QED BY <2>2, <2>8
<1>3. n \in G
  <2>1. G \subseteq 0 .. n
    OBVIOUS
  <2> HIDE DEF G
  <2> QED BY <1>1, <1>2, <2>1, ReachesTop
<1> QED BY <1>3 DEF IsRun

\* A function that begins as a run and goes on as one, as long as it stays in S, is one.
LEMMA SolvedIsRun ==
    ASSUME NEW n \in Nat, NEW S, NEW s0 \in S, NEW step \in [1 .. n -> [S -> S]],
           NEW c, c = [i \in 0 .. n |-> c[i]], c[0] = s0,
           \A i \in 1 .. n : c[i - 1] \in S => c[i] = step[i][c[i - 1]]
    PROVE  IsRun(c, n, S, s0, step)
<1>1. ASSUME NEW j \in 0 .. n PROVE c[j] \in S
  <2> DEFINE G == {i \in 0 .. j : c[i] \in S}
  <2>1. 0 \in G
    OBVIOUS
  <2>2. ASSUME NEW i \in G, i < j PROVE i + 1 \in G
    <3>1. i + 1 \in 1 .. n /\ (i + 1) - 1 = i /\ c[i] \in S /\ i + 1 \in 0 .. j
      BY <2>2
    <3>2. c[i + 1] = step[i + 1][c[i]]
      BY <3>1
    <3> QED BY <3>1, <3>2
  <2>3. G \subseteq 0 .. j /\ j \in Nat
    OBVIOUS
  <2>4. j \in G
    <3> HIDE DEF G
    <3> QED BY <2>1, <2>2, <2>3, ReachesTop
  <2> QED BY <2>4
<1>2. \A i \in 1 .. n : c[i] = step[i][c[i - 1]]
  <2> TAKE i \in 1 .. n
  <2>1. i - 1 \in 0 .. n
    OBVIOUS
  <2> QED BY <1>1, <2>1
<1> QED BY <1>1, <1>2 DEF IsRun

------------------------------------------------------------------------------
(***************************************************************************)
(* The registry of targets                                                 *)
(***************************************************************************)
LEMMA RegistryConstants ==
    /\ IsFiniteSet(Proc) /\ Cardinality(Proc) \in Nat
    /\ KeyOf \in [Url -> Key] /\ MaxEntries \in Nat /\ MaxRuns \in Nat /\ MaxDeaths \in Nat
    /\ Nothing \notin Key \cup Url \cup Label \cup Registrar!GivenUrl
    /\ CallerFacts \subseteq Registrar!Facts /\ Artifact \subseteq Registrar!Found
<1>1. Registrar!IsFiniteSet(Proc) => IsFiniteSet(Proc)
  BY DEF Registrar!IsFiniteSet, IsFiniteSet
<1> QED BY <1>1, TextStoreAssumption, FS_CardinalityType
        DEF Registrar!RegistryAssumption, Registrar!CallerAssumption,
            Registrar!ArtifactAssumption

\* The instance counts as the library does.
LEMMA RegistryCounts == \A S : Registrar!Cardinality(S) = Cardinality(S)
BY DEF Registrar!Cardinality, Cardinality

\* The last of a set of places.
LEMMA RegistryLast ==
    ASSUME NEW n \in Nat, NEW S, S \subseteq 1 .. n, S # {}
    PROVE  Registrar!LastOf(S) \in S /\ \A j \in S : j <= Registrar!LastOf(S)
BY HasLast DEF Registrar!LastOf

\* The last value that is there after an entry is appended.
LEMMA LastKnownAppend ==
    ASSUME NEW entries \in Seq(Registrar!Facts), NEW f \in Registrar!Facts, NEW field \in {"url", "label"},
           NEW mine, mine \subseteq 1 .. Len(entries)
    PROVE  LET n == Len(entries) + 1 IN
           /\ Registrar!LastKnown(Append(entries, f), mine, field) = Registrar!LastKnown(entries, mine, field)
           /\ Registrar!LastKnown(Append(entries, f), mine \cup {n}, field) =
                  IF f[field] # Nothing THEN f[field] ELSE Registrar!LastKnown(entries, mine, field)
<1> DEFINE n == Len(entries) + 1
           longer == Append(entries, f)
           known == {k \in mine : entries[k][field] # Nothing}
<1>1. n \in Nat /\ Len(entries) \in Nat /\ n \notin mine /\ longer[n] = f
      /\ \A k \in mine : longer[k] = entries[k]
  <2>1. Len(entries) \in Nat /\ n \in Nat
    OBVIOUS
  <2>2. n \notin mine
    BY <2>1
  <2>3. longer[n] = f /\ \A k \in 1 .. Len(entries) : longer[k] = entries[k]
    OBVIOUS
  <2> QED BY <2>1, <2>2, <2>3
<1>2. {k \in mine : longer[k][field] # Nothing} = known
  BY <1>1
<1>3. Registrar!LastKnown(longer, mine, field) = Registrar!LastKnown(entries, mine, field)
  <2>1. CASE known = {}
    BY <1>2, <2>1 DEF Registrar!LastKnown
  <2>2. CASE known # {}
    <3>1. Registrar!LastOf(known) \in mine
      BY <1>1, <2>2, RegistryLast
    <3> HIDE DEF longer
    <3> QED BY <1>1, <1>2, <2>2, <3>1 DEF Registrar!LastKnown
  <2> QED BY <2>1, <2>2
<1>4. {k \in mine \cup {n} : longer[k][field] # Nothing}
          = IF f[field] # Nothing THEN known \cup {n} ELSE known
  BY <1>1, <1>2
<1>5. CASE f[field] # Nothing
  <2>1. Registrar!LastOf(known \cup {n}) = n
    <3>1. known \cup {n} \subseteq 1 .. n
      <4>1. known \subseteq 1 .. Len(entries)
        OBVIOUS
      <4>2. Len(entries) \in Nat /\ n = Len(entries) + 1
        OBVIOUS
      <4> HIDE DEF known, n, longer
      <4>3. ASSUME NEW j \in known \cup {n} PROVE j \in 1 .. n
        <5>1. CASE j \in known
          <6>1. j \in 1 .. Len(entries)
            BY <4>1, <5>1
          <6> QED BY <4>2, <6>1
        <5>2. CASE j = n
          BY <4>2, <5>2
        <5> QED BY <5>1, <5>2
      <4> QED BY <4>3
    <3>2. Registrar!LastOf(known \cup {n}) \in known \cup {n} /\ n <= Registrar!LastOf(known \cup {n})
      BY <1>1, <3>1, RegistryLast
    <3> QED BY <1>1, <3>1, <3>2
  <2>2. Registrar!LastKnown(longer, mine \cup {n}, field) = longer[n][field]
    <3> HIDE DEF longer, known, n
    <3> QED BY <1>4, <1>5, <2>1 DEF Registrar!LastKnown
  <2> QED BY <1>1, <1>3, <1>5, <2>2
<1>6. CASE f[field] = Nothing
  <2>1. Registrar!LastKnown(longer, mine \cup {n}, field) = Registrar!LastKnown(longer, mine, field)
    <3> HIDE DEF longer, known, n
    <3> QED BY <1>2, <1>4, <1>6 DEF Registrar!LastKnown
  <2> QED BY <1>3, <1>6, <2>1
<1> QED BY <1>5, <1>6

\* What is known of a target after an entry is appended.
LEMMA ResolveAppend ==
    ASSUME NEW entries \in Seq(Registrar!Facts), NEW f \in Registrar!Facts, NEW key
    PROVE  LET old == Registrar!Resolve(entries, key)
               new == Registrar!Resolve(Append(entries, f), key)
           IN  /\ f.key # key => new = old
               /\ f.key = key /\ old # Nothing =>
                      new = [url |-> IF f.url # Nothing THEN f.url ELSE old.url,
                             label |-> IF f.label # Nothing THEN f.label ELSE old.label,
                             aliases |-> old.aliases \cup f.aliases]
<1> DEFINE n == Len(entries) + 1
           longer == Append(entries, f)
           mine == Registrar!EntriesOf(entries, key)
           theirs == Registrar!EntriesOf(longer, key)
<1>1. n \in Nat /\ Len(entries) \in Nat /\ longer[n] = f /\ mine \subseteq 1 .. Len(entries)
      /\ \A k \in 1 .. Len(entries) : longer[k] = entries[k]
  BY DEF Registrar!EntriesOf
<1>2. theirs = IF f.key = key THEN mine \cup {n} ELSE mine
  BY <1>1 DEF Registrar!EntriesOf
<1>3. CASE f.key # key
  <2>1. Registrar!LastKnown(longer, mine, "url") = Registrar!LastKnown(entries, mine, "url")
    BY <1>1, LastKnownAppend
  <2>2. Registrar!LastKnown(longer, mine, "label") = Registrar!LastKnown(entries, mine, "label")
    BY <1>1, LastKnownAppend
  <2>3. {longer[k].aliases : k \in mine} = {entries[k].aliases : k \in mine}
    BY <1>1
  <2> HIDE DEF longer, mine
  <2>4. Registrar!Resolve(longer, key) = Registrar!Resolve(entries, key)
    BY <1>2, <1>3, <2>1, <2>2, <2>3 DEF Registrar!Resolve, mine
  <2> QED BY <1>3, <2>4 DEF longer
<1>4. CASE f.key = key
  <2>1. Registrar!LastKnown(longer, mine \cup {n}, "url")
            = IF f.url # Nothing THEN f.url ELSE Registrar!LastKnown(entries, mine, "url")
    BY <1>1, LastKnownAppend
  <2>2. Registrar!LastKnown(longer, mine \cup {n}, "label")
            = IF f.label # Nothing THEN f.label ELSE Registrar!LastKnown(entries, mine, "label")
    BY <1>1, LastKnownAppend
  <2>3. UNION {longer[k].aliases : k \in mine \cup {n}}
            = (UNION {entries[k].aliases : k \in mine}) \cup f.aliases
    BY <1>1
  <2>4. Registrar!Resolve(longer, key) = [url |-> Registrar!LastKnown(longer, mine \cup {n}, "url"),
                                  label |-> Registrar!LastKnown(longer, mine \cup {n}, "label"),
                                  aliases |-> UNION {longer[k].aliases : k \in mine \cup {n}}]
    <3> HIDE DEF longer, mine, n
    <3> QED BY <1>2, <1>4 DEF Registrar!Resolve, theirs
  <2>5. Registrar!Resolve(entries, key) =
            IF mine = {} THEN Nothing
            ELSE [url |-> Registrar!LastKnown(entries, mine, "url"),
                  label |-> Registrar!LastKnown(entries, mine, "label"),
                  aliases |-> UNION {entries[k].aliases : k \in mine}]
    BY DEF Registrar!Resolve
  <2> DEFINE old == Registrar!Resolve(entries, key)
  <2>6. ASSUME old # Nothing
        PROVE  Registrar!Resolve(longer, key) =
                   [url |-> IF f.url # Nothing THEN f.url ELSE old.url,
                    label |-> IF f.label # Nothing THEN f.label ELSE old.label,
                    aliases |-> old.aliases \cup f.aliases]
    <3>1. old = [url |-> Registrar!LastKnown(entries, mine, "url"),
                 label |-> Registrar!LastKnown(entries, mine, "label"),
                 aliases |-> UNION {entries[k].aliases : k \in mine}]
      BY <2>5, <2>6
    <3>2. /\ old.url = Registrar!LastKnown(entries, mine, "url")
          /\ old.label = Registrar!LastKnown(entries, mine, "label")
          /\ old.aliases = UNION {entries[k].aliases : k \in mine}
      <4> HIDE DEF mine, old
      <4> QED BY <3>1
    <3> HIDE DEF longer, mine, n, old
    <3> QED BY <2>1, <2>2, <2>3, <2>4, <3>2
  <2> QED BY <1>4, <2>6
<1> QED BY <1>3, <1>4

\* Facts that bring nothing new are in the registry.
LEMMA KnownIsRecorded ==
    ASSUME NEW entries \in Seq(Registrar!Facts), NEW f \in Registrar!Facts,
           ~Registrar!BringsNews(Registrar!Resolve(entries, f.key), f)
    PROVE  LET mine == Registrar!EntriesOf(entries, f.key) IN
           /\ mine # {}
           /\ f.url # Nothing => \E k \in mine : /\ entries[k].url # Nothing
                                                 /\ entries[k].url.url = f.url.url
           /\ f.label # Nothing => \E k \in mine : entries[k].label = f.label
           /\ f.aliases \subseteq UNION {entries[k].aliases : k \in mine}
<1> DEFINE mine == Registrar!EntriesOf(entries, f.key)
           known(field) == {k \in mine : entries[k][field] # Nothing}
           old == Registrar!Resolve(entries, f.key)
<1>1. mine \subseteq 1 .. Len(entries) /\ Len(entries) \in Nat
  BY DEF Registrar!EntriesOf
<1>2. old # Nothing /\ f.url # Nothing => Registrar!Stripped(f.url) = old.url
  BY DEF Registrar!BringsNews
<1>3. /\ old # Nothing
      /\ f.label # Nothing => f.label = old.label
      /\ f.aliases \subseteq old.aliases
  BY DEF Registrar!BringsNews
<1>4. /\ mine # {}
      /\ old = [url |-> Registrar!LastKnown(entries, mine, "url"),
                label |-> Registrar!LastKnown(entries, mine, "label"),
                aliases |-> UNION {entries[k].aliases : k \in mine}]
  <2> HIDE DEF mine
  <2> QED BY <1>3 DEF Registrar!Resolve, mine
<1>5. ASSUME NEW field \in {"url", "label"}, Registrar!LastKnown(entries, mine, field) # Nothing
      PROVE  \E k \in mine : /\ entries[k][field] = Registrar!LastKnown(entries, mine, field)
                             /\ entries[k][field] # Nothing
  <2>1. known(field) # {} /\ Registrar!LastKnown(entries, mine, field) = entries[Registrar!LastOf(known(field))][field]
    BY <1>5 DEF Registrar!LastKnown
  <2>2. known(field) \subseteq 1 .. Len(entries)
    BY <1>1
  <2>3. Registrar!LastOf(known(field)) \in known(field)
    <3> HIDE DEF known
    <3> QED BY <1>1, <2>1, <2>2, RegistryLast
  <2> QED BY <2>1, <2>3
<1>6. ASSUME f.url # Nothing
      PROVE  \E k \in mine : entries[k].url # Nothing /\ entries[k].url.url = f.url.url
  <2>1. f.url \in Registrar!GivenUrl
    BY <1>6 DEF Registrar!Facts
  <2>2. Registrar!Stripped(f.url) \in Registrar!GivenUrl /\ Registrar!Stripped(f.url).url = f.url.url
    BY <1>6, <2>1 DEF Registrar!Stripped, Registrar!GivenUrl
  <2>3. Registrar!LastKnown(entries, mine, "url") = Registrar!Stripped(f.url)
    BY <1>2, <1>3, <1>4, <1>6
  <2>4. Registrar!LastKnown(entries, mine, "url") # Nothing
    BY <2>2, <2>3, RegistryConstants
  <2> HIDE DEF mine
  <2> QED BY <1>5, <2>2, <2>3, <2>4
<1>7. ASSUME f.label # Nothing
      PROVE  \E k \in mine : entries[k].label = f.label
  <2>1. Registrar!LastKnown(entries, mine, "label") = f.label
    BY <1>3, <1>4, <1>7
  <2> HIDE DEF mine
  <2> QED BY <1>5, <1>7, <2>1
<1>8. f.aliases \subseteq UNION {entries[k].aliases : k \in mine}
  BY <1>3, <1>4
<1> QED BY <1>4, <1>6, <1>7, <1>8

\* An entry that brings nothing new makes nothing known that was news.
LEMMA RedundantKeepsNews ==
    ASSUME NEW entries \in Seq(Registrar!Facts), NEW f \in Registrar!Facts, NEW g \in Registrar!Facts,
           ~Registrar!BringsNews(Registrar!Resolve(entries, f.key), f),
           Registrar!BringsNews(Registrar!Resolve(entries, g.key), g)
    PROVE  Registrar!BringsNews(Registrar!Resolve(Append(entries, f), g.key), g)
<1> DEFINE old == Registrar!Resolve(entries, g.key)
           new == Registrar!Resolve(Append(entries, f), g.key)
<1>1. CASE f.key # g.key
  BY <1>1, ResolveAppend
<1>2. CASE f.key = g.key
  <2>1. /\ old # Nothing
        /\ f.url # Nothing => Registrar!Stripped(f.url) = old.url
        /\ f.label # Nothing => f.label = old.label
        /\ f.aliases \subseteq old.aliases
    BY <1>2 DEF Registrar!BringsNews
  <2>2. new = [url |-> IF f.url # Nothing THEN f.url ELSE old.url,
               label |-> IF f.label # Nothing THEN f.label ELSE old.label,
               aliases |-> old.aliases \cup f.aliases]
    BY <1>2, <2>1, ResolveAppend
  <2>3. new.label = old.label /\ new.aliases = old.aliases
    BY <2>1, <2>2
  <2>4. ASSUME g.url # Nothing, Registrar!Stripped(g.url) # old.url
        PROVE  Registrar!Stripped(g.url) # new.url
    <3>1. CASE f.url = Nothing
      BY <2>2, <2>4, <3>1
    <3>2. CASE f.url # Nothing
      <4>1. f.url \in Registrar!GivenUrl /\ g.url \in Registrar!GivenUrl
        BY <2>4, <3>2 DEF Registrar!Facts
      <4>2. ~Registrar!Stripped(g.url).padded
        BY <2>4, <4>1 DEF Registrar!Stripped, Registrar!GivenUrl
      <4>3. f.url.padded \/ Registrar!Stripped(f.url) = f.url
        BY <3>2, <4>1 DEF Registrar!Stripped, Registrar!GivenUrl
      <4> QED BY <2>1, <2>2, <2>4, <3>2, <4>2, <4>3
    <3> QED BY <3>1, <3>2
  <2>5. \/ g.url # Nothing /\ Registrar!Stripped(g.url) # old.url
        \/ g.label # Nothing /\ g.label # old.label
        \/ ~(g.aliases \subseteq old.aliases)
    BY <2>1 DEF Registrar!BringsNews
  <2> HIDE DEF old, new
  <2>6. Registrar!BringsNews(new, g)
    BY <2>3, <2>4, <2>5 DEF Registrar!BringsNews
  <2> QED BY <2>6 DEF new
<1> QED BY <1>1, <1>2

\* Reading the store makes candidates of what it holds.
LEMMA CandidatesTyped ==
    ASSUME NEW artifact \in Registrar!Found
    PROVE  Registrar!CandidatesOf(artifact) \in Seq(Registrar!Facts)
<1>1. ASSUME NEW key \in Key, NEW url \in Registrar!GivenUrl \cup {Nothing},
             NEW label \in Label \cup {Nothing}
      PROVE  <<Registrar!Candidate(key, url, label)>> \in Seq(Registrar!Facts)
  <2>1. Registrar!Candidate(key, url, label) \in Registrar!Facts
    BY DEF Registrar!Candidate, Registrar!Facts
  <2> QED BY <2>1
<1>2. \A url \in Url : Registrar!Given(url) \in Registrar!GivenUrl /\ KeyOf[url] \in Key
  BY RegistryConstants DEF Registrar!Given, Registrar!GivenUrl
<1>3. <<>> \in Seq(Registrar!Facts)
  OBVIOUS
<1>4. CASE artifact \in [kind : {"snapshot"}, key : Key \cup {Nothing},
                         url : Url \cup {Nothing}, title : Label \cup {Nothing}]
  <2>1. Registrar!CandidatesOf(artifact) = Registrar!FromSnapshotRow(artifact)
    BY <1>4 DEF Registrar!CandidatesOf
  <2>2. /\ artifact.key \in Key \cup {Nothing} /\ artifact.title \in Label \cup {Nothing}
        /\ artifact.url \in Url \cup {Nothing}
    BY <1>4
  <2> QED BY <1>1, <1>2, <1>3, <2>1, <2>2 DEF Registrar!FromSnapshotRow
<1>5. CASE artifact \in [kind : {"manifest"}, hash : Key, url : Url \cup {Nothing},
                         title : Label \cup {Nothing}]
  <2>1. Registrar!CandidatesOf(artifact) = Registrar!FromManifest(artifact)
    BY <1>5 DEF Registrar!CandidatesOf
  <2>2. /\ artifact.hash \in Key /\ artifact.title \in Label \cup {Nothing}
        /\ artifact.url \in Url \cup {Nothing}
    BY <1>5
  <2> QED BY <1>1, <1>2, <2>1, <2>2 DEF Registrar!FromManifest
<1>6. CASE artifact \in [kind : {"other"}, known : BOOLEAN, url : Url \cup {Nothing},
                         key : Key \cup {Nothing}]
  <2>1. Registrar!CandidatesOf(artifact) = Registrar!FromArtifact(artifact)
    BY <1>6 DEF Registrar!CandidatesOf
  <2>2. artifact.key \in Key \cup {Nothing} /\ artifact.url \in Url \cup {Nothing}
    BY <1>6
  <2> QED BY <1>1, <1>2, <1>3, <2>1, <2>2 DEF Registrar!FromArtifact
<1> QED BY <1>4, <1>5, <1>6 DEF Registrar!Found

\* Overtaken calls are calls of processes, and finitely many.
LEMMA OvertakenFinite ==
    /\ Registrar!Overtaken \subseteq Proc /\ IsFiniteSet(Registrar!Overtaken)
    /\ Cardinality(Registrar!Overtaken) \in Nat
<1>1. Registrar!Overtaken \subseteq Proc
  BY DEF Registrar!Overtaken
<1> QED BY <1>1, RegistryConstants, FS_Subset, FS_CardinalityType

\* An empty registry knows of no target.
LEMMA NothingRegistered ==
    ASSUME NEW key PROVE Registrar!Resolve(<<>>, key) = Nothing
BY DEF Registrar!Resolve, Registrar!EntriesOf

\* An empty registry, with no call made.
LEMMA RegistryBegins == Registrar!Init => Registrar!RegistryInv
<1> SUFFICES ASSUME Registrar!Init PROVE Registrar!RegistryInv
  OBVIOUS
<1>1. /\ registry = <<>> /\ told = {} /\ runs = 0 /\ call = [p \in Proc |-> Nothing]
      /\ registry_tail = "ended" /\ crashes = 0
  BY DEF Registrar!Init
<1>2. Registrar!TypeOK /\ call \in [Proc -> {Nothing} \cup Registrar!Work]
  BY <1>1, RegistryConstants DEF Registrar!TypeOK
<1>3. Registrar!ToldIsRecorded /\ Registrar!RedundantOnlyByRace /\ Registrar!RacesAreCounted
  BY <1>1 DEF Registrar!ToldIsRecorded, Registrar!RedundantOnlyByRace,
              Registrar!RacesAreCounted
<1> QED BY <1>2, <1>3 DEF Registrar!RegistryInv

\* What was told stays recorded as entries are added, and what is told now is recorded.
Recorded(entries, f) ==
    LET mine == Registrar!EntriesOf(entries, f.key) IN
    /\ mine # {}
    /\ f.url # Nothing => \E k \in mine : /\ entries[k].url # Nothing
                                          /\ entries[k].url.url = f.url.url
    /\ f.label # Nothing => \E k \in mine : entries[k].label = f.label
    /\ f.aliases \subseteq UNION {entries[k].aliases : k \in mine}

\* What is recorded, in terms of the entries themselves instead of their places.
LEMMA RecordedMeans ==
    ASSUME NEW entries, NEW f
    PROVE  Recorded(entries, f) <=>
               LET mine == {entries[k] : k \in Registrar!EntriesOf(entries, f.key)} IN
               /\ mine # {}
               /\ f.url # Nothing => \E e \in mine : /\ e.url # Nothing
                                                     /\ e.url.url = f.url.url
               /\ f.label # Nothing => \E e \in mine : e.label = f.label
               /\ f.aliases \subseteq UNION {e.aliases : e \in mine}
BY DEF Recorded

\* Adding an entry forgets nothing of what is recorded.
LEMMA RecordedStays ==
    ASSUME NEW entries \in Seq(Registrar!Facts), NEW f, NEW g \in Registrar!Facts,
           Recorded(entries, f)
    PROVE  Recorded(Append(entries, g), f)
<1> DEFINE longer == Append(entries, g)
           mine == Registrar!EntriesOf(entries, f.key)
           theirs == Registrar!EntriesOf(longer, f.key)
<1>1. mine \subseteq theirs /\ \A k \in mine : longer[k] = entries[k]
  BY DEF Registrar!EntriesOf
<1>2. theirs # {}
  BY <1>1 DEF Recorded
<1>3. f.url # Nothing => \E k \in theirs : longer[k].url # Nothing /\ longer[k].url.url = f.url.url
  <2> HIDE DEF longer, theirs
  <2> QED BY <1>1 DEF Recorded
<1>4. f.label # Nothing => \E k \in theirs : longer[k].label = f.label
  <2> HIDE DEF longer, theirs
  <2> QED BY <1>1 DEF Recorded
<1>5. f.aliases \subseteq UNION {longer[k].aliases : k \in theirs}
  <2> HIDE DEF longer, theirs
  <2> QED BY <1>1 DEF Recorded
<1> QED BY <1>2, <1>3, <1>4, <1>5 DEF Recorded

\* What was just added is recorded.
LEMMA AppendedIsRecorded ==
    ASSUME NEW entries \in Seq(Registrar!Facts), NEW f \in Registrar!Facts
    PROVE  Recorded(Append(entries, f), f)
<1> DEFINE n == Len(entries) + 1
           longer == Append(entries, f)
           theirs == Registrar!EntriesOf(longer, f.key)
<1>1. n \in theirs /\ longer[n] = f
  BY DEF Registrar!EntriesOf
<1> HIDE DEF longer, n, theirs
<1> QED BY <1>1 DEF Recorded, longer, theirs

\* A step that leaves the registry as it is and overtakes nobody.
LEMMA RegistryUnchanged ==
    ASSUME Registrar!RegistryInv, UNCHANGED Registrar!file, Registrar!TypeOK',
           call' \in [Proc -> {Nothing} \cup Registrar!Work],
           registry_tail # "cut" => \A f \in told' : Recorded(registry, f),
           Registrar!Overtaken' \subseteq Registrar!Overtaken
    PROVE  Registrar!RegistryInv'
<1>0. registry' = registry /\ registry_tail' = registry_tail
  BY DEF Registrar!file
<1>1. Registrar!ToldIsRecorded'
  BY <1>0, RecordedMeans DEF Registrar!ToldIsRecorded
<1>2. \A k : Registrar!Redundant(k)' <=> Registrar!Redundant(k)
  BY <1>0 DEF Registrar!Redundant
<1>3. Registrar!RedundantOnlyByRace'
  <2>1. Registrar!Cardinality(Proc)' = Registrar!Cardinality(Proc)
    OBVIOUS
  <2> QED BY <1>0, <1>2, <2>1 DEF Registrar!RegistryInv, Registrar!RedundantOnlyByRace
<1>4. Registrar!RacesAreCounted'
  <2>1. Cardinality(Registrar!Overtaken') <= Cardinality(Registrar!Overtaken)
        /\ Cardinality(Registrar!Overtaken') \in Nat
    BY OvertakenFinite, FS_Subset, FS_CardinalityType
  <2>2. SUFFICES ASSUME registry # <<>>, registry_tail # "cut"
        PROVE \E m \in DOMAIN registry :
                  /\ ~Registrar!Redundant(m)
                  /\ Len(registry) - m + Cardinality(Registrar!Overtaken') < Cardinality(Proc)
    BY <1>0, <1>2, RegistryCounts DEF Registrar!RacesAreCounted
  <2>3. PICK m \in DOMAIN registry :
            /\ ~Registrar!Redundant(m)
            /\ Len(registry) - m + Cardinality(Registrar!Overtaken) < Cardinality(Proc)
    BY <2>2, RegistryCounts DEF Registrar!RegistryInv, Registrar!RacesAreCounted
  <2>4. Len(registry) \in Nat /\ m \in 1 .. Len(registry)
    BY DEF Registrar!RegistryInv, Registrar!TypeOK
  <2>5. Len(registry) - m + Cardinality(Registrar!Overtaken') < Cardinality(Proc)
    BY <2>1, <2>3, <2>4, OvertakenFinite, RegistryConstants
  <2> QED BY <2>3, <2>5
<1> QED BY <1>1, <1>3, <1>4 DEF Registrar!RegistryInv

\* A registry that can be read no more keeps the entries it had, or all but the last.
LEMMA RegistrySpoilt ==
    ASSUME Registrar!RegistryInv, Registrar!Spoils, Registrar!TypeOK', call' \in [Proc -> {Nothing} \cup Registrar!Work],
           Proc # {}
    PROVE  Registrar!RegistryInv'
<1>1. registry_tail' = "cut" /\ (registry' = registry \/ registry' = Registrar!ButLast(registry))
  BY DEF Registrar!Spoils
<1>2. registry \in Seq(Registrar!Facts) /\ Len(registry) \in Nat
  BY DEF Registrar!RegistryInv, Registrar!TypeOK
<1>3. PICK n \in Nat : /\ n <= Len(registry) /\ registry' = SubSeq(registry, 1, n)
  <2>1. CASE registry' = registry
    <3>1. registry' = SubSeq(registry, 1, Len(registry))
      BY <1>2, <2>1
    <3> QED BY <1>2, <3>1
  <2>2. CASE registry' # registry /\ registry = <<>>
    BY <1>1, <1>2, <2>2 DEF Registrar!ButLast
  <2>3. CASE registry' # registry /\ registry # <<>>
    <3>1. registry' = SubSeq(registry, 1, Len(registry) - 1)
      BY <1>1, <2>3 DEF Registrar!ButLast
    <3>2. Len(registry) - 1 \in Nat
      BY <1>2, <2>3
    <3> QED BY <1>2, <3>1, <3>2
  <2> QED BY <2>1, <2>2, <2>3
<1>4. /\ Len(registry') = n /\ DOMAIN registry' = 1 .. n /\ DOMAIN registry = 1 .. Len(registry)
      /\ \A k \in 1 .. n : registry'[k] = registry[k]
  BY <1>2, <1>3
<1>5. \A k \in 1 .. n : Registrar!Redundant(k)' <=> Registrar!Redundant(k)
  <2> TAKE k \in 1 .. n
  <2>1. SubSeq(registry', 1, k - 1) = SubSeq(registry, 1, k - 1)
    BY <1>2, <1>3, <1>4
  <2> QED BY <1>4, <2>1 DEF Registrar!Redundant
<1>6. Registrar!RedundantOnlyByRace'
  <2>0. Cardinality(Proc) \in Nat \ {0}
    BY RegistryConstants, FS_EmptySet
  <2>1. SUFFICES ASSUME NEW k \in 1 .. n, k >= Cardinality(Proc)
                 PROVE  \E j \in (k - Cardinality(Proc) + 1) .. k : ~Registrar!Redundant(j)'
    BY <1>4, RegistryCounts DEF Registrar!RedundantOnlyByRace
  <2>2. k \in 1 .. Len(registry)
    BY <1>2, <1>3
  <2>3. PICK j \in (k - Cardinality(Proc) + 1) .. k : ~Registrar!Redundant(j)
    BY <1>4, <2>1, <2>2, RegistryCounts DEF Registrar!RegistryInv,
                                            Registrar!RedundantOnlyByRace
  <2>4. j \in 1 .. n
    BY <2>0, <2>1, <2>3, <1>3
  <2> QED BY <1>5, <2>3, <2>4
<1>7. Registrar!ToldIsRecorded' /\ Registrar!RacesAreCounted'
  BY <1>1 DEF Registrar!ToldIsRecorded, Registrar!RacesAreCounted
<1> QED BY <1>6, <1>7 DEF Registrar!RegistryInv

\* What is left of a spoilt registry is a registry.
LEMMA SpoiltTyped ==
    ASSUME Registrar!RegistryInv, Registrar!Spoils
    PROVE  registry' \in Seq(Registrar!Facts) /\ registry_tail' = "cut"
BY DEF Registrar!Spoils, Registrar!RegistryInv, Registrar!TypeOK, Registrar!ButLast

\* An entry is appended: if it brings nothing new, its call had been overtaken, and is
\* over; if it brings something, all calls but this one may be overtaken.
LEMMA RegistryAppends ==
    ASSUME Registrar!RegistryInv, NEW p \in Proc, NEW f \in Registrar!Facts,
           call[p] # Nothing, call[p].step = "append", f = Head(call[p].todo),
           registry_tail # "cut", registry' = Append(registry, f), told' \subseteq told \cup {f},
           Registrar!TypeOK', call' \in [Proc -> {Nothing} \cup Registrar!Work],
           \A q \in Proc \ {p} : call'[q] = call[q],
           call'[p] # Nothing => call'[p].step = "resolve"
    PROVE  Registrar!RegistryInv'
<1>0. PICK n \in Nat : n = Len(registry) + 1
  BY DEF Registrar!RegistryInv, Registrar!TypeOK
<1>1. /\ registry \in Seq(Registrar!Facts) /\ Len(registry) \in Nat /\ n \in Nat
      /\ Len(registry') = n /\ DOMAIN registry' = 1 .. n /\ registry'[n] = f
      /\ DOMAIN registry = 1 .. Len(registry)
      /\ \A k \in 1 .. Len(registry) : registry'[k] = registry[k]
  BY <1>0 DEF Registrar!RegistryInv, Registrar!TypeOK
<1>2. Registrar!ToldIsRecorded'
  <2>1. \A g \in told : Recorded(registry, g)
    BY RecordedMeans DEF Registrar!RegistryInv, Registrar!ToldIsRecorded
  <2>2. \A g \in told' : Recorded(registry', g)
    BY <1>0, <1>1, <2>1, RecordedStays, AppendedIsRecorded
  <2> QED BY <2>2, RecordedMeans DEF Registrar!ToldIsRecorded
<1>3. \A k \in 1 .. Len(registry) : Registrar!Redundant(k)' <=> Registrar!Redundant(k)
  <2> TAKE k \in 1 .. Len(registry)
  <2>1. SubSeq(registry', 1, k - 1) = SubSeq(registry, 1, k - 1)
    BY <1>0, <1>1
  <2> QED BY <1>0, <1>1, <2>1 DEF Registrar!Redundant
<1>4. Registrar!Redundant(n)' <=> ~Registrar!BringsNews(Registrar!Resolve(registry, f.key), f)
  <2>1. SubSeq(registry', 1, n - 1) = registry
    BY <1>0, <1>1
  <2> QED BY <1>0, <1>1, <2>1 DEF Registrar!Redundant
<1>5. IsFiniteSet(Registrar!Overtaken') /\ Cardinality(Registrar!Overtaken') \in Nat
      /\ Cardinality(Registrar!Overtaken) \in Nat /\ IsFiniteSet(Registrar!Overtaken)
  <2>1. Registrar!Overtaken' \subseteq Proc
    BY DEF Registrar!Overtaken
  <2> QED BY <2>1, OvertakenFinite, RegistryConstants, FS_Subset, FS_CardinalityType
<1>6. Registrar!Overtaken' \subseteq Proc \ {p}
  BY DEF Registrar!Overtaken
<1>7. \E m \in 1 .. n :
          ~Registrar!Redundant(m)' /\ n - m + Cardinality(Registrar!Overtaken') < Cardinality(Proc)
  <2>1. CASE Registrar!BringsNews(Registrar!Resolve(registry, f.key), f)
    <3>1. Cardinality(Registrar!Overtaken') <= Cardinality(Proc) - 1
      <4>1. IsFiniteSet(Proc \ {p}) /\ Cardinality(Proc \ {p}) = Cardinality(Proc) - 1
        BY RegistryConstants, FS_RemoveElement
      <4> QED BY <1>6, <4>1, FS_Subset
    <3>2. n - n + Cardinality(Registrar!Overtaken') < Cardinality(Proc)
      BY <1>0, <1>1, <1>5, <3>1, RegistryConstants
    <3> QED BY <1>0, <1>1, <1>4, <2>1, <3>2
  <2>2. CASE ~Registrar!BringsNews(Registrar!Resolve(registry, f.key), f)
    <3>1. p \in Registrar!Overtaken
      BY <2>2 DEF Registrar!Overtaken
    <3>2. Registrar!Overtaken' \subseteq Registrar!Overtaken \ {p}
      <4>1. SUFFICES ASSUME NEW q \in Registrar!Overtaken' PROVE q \in Registrar!Overtaken
        BY <1>6
      <4>2. q \in Proc \ {p} /\ call'[q] = call[q]
        BY <1>6
      <4> DEFINE g == Head(call[q].todo)
      <4>3. /\ call[q] # Nothing /\ call[q].step = "append"
            /\ ~Registrar!BringsNews(Registrar!Resolve(registry', g.key), g)
        BY <4>2 DEF Registrar!Overtaken
      <4>4. g \in Registrar!Facts
        BY <4>2, <4>3 DEF Registrar!RegistryInv, Registrar!TypeOK
      <4>5. ~Registrar!BringsNews(Registrar!Resolve(registry, g.key), g)
        BY <1>0, <1>1, <2>2, <4>3, <4>4, RedundantKeepsNews
      <4> QED BY <4>2, <4>3, <4>5 DEF Registrar!Overtaken
    <3>3. Cardinality(Registrar!Overtaken') <= Cardinality(Registrar!Overtaken) - 1
      <4>1. IsFiniteSet(Registrar!Overtaken \ {p})
            /\ Cardinality(Registrar!Overtaken \ {p}) = Cardinality(Registrar!Overtaken) - 1
        BY <1>5, <3>1, FS_RemoveElement
      <4> QED BY <3>2, <4>1, FS_Subset
    <3>4. registry # <<>>
      <4>1. registry = <<>> => Registrar!Resolve(registry, f.key) = Nothing
        BY NothingRegistered
      <4> QED BY <2>2, <4>1 DEF Registrar!BringsNews
    <3>5. PICK m \in 1 .. Len(registry) :
              /\ ~Registrar!Redundant(m)
              /\ Len(registry) - m + Cardinality(Registrar!Overtaken) < Cardinality(Proc)
      BY <1>0, <1>1, <3>4, RegistryCounts
         DEF Registrar!RegistryInv, Registrar!RacesAreCounted
    <3>6. n - m + Cardinality(Registrar!Overtaken') < Cardinality(Proc)
      BY <1>0, <1>1, <1>5, <3>3, <3>5, RegistryConstants
    <3>7. ~Registrar!Redundant(m)' /\ m \in 1 .. n
      BY <1>0, <1>1, <1>3, <3>5
    <3> QED BY <3>6, <3>7
  <2> QED BY <2>1, <2>2
<1>8. Registrar!RacesAreCounted'
  <2> QED BY <1>0, <1>1, <1>7, RegistryCounts DEF Registrar!RacesAreCounted
<1>9. Registrar!RedundantOnlyByRace'
  <2>1. SUFFICES ASSUME NEW k \in 1 .. n, k >= Cardinality(Proc)
                 PROVE  \E j \in (k - Cardinality(Proc) + 1) .. k : ~Registrar!Redundant(j)'
    BY <1>0, <1>1, RegistryCounts DEF Registrar!RedundantOnlyByRace
  <2>2. CASE k = n
    <3>1. PICK m \in 1 .. n : ~Registrar!Redundant(m)' /\ n - m + Cardinality(Registrar!Overtaken') < Cardinality(Proc)
      BY <1>7
    <3>2. m \in (k - Cardinality(Proc) + 1) .. k
      BY <1>0, <1>1, <1>5, <2>2, <3>1, RegistryConstants
    <3> QED BY <3>1, <3>2
  <2>3. CASE k \in 1 .. Len(registry)
    <3>1. PICK j \in (k - Cardinality(Proc) + 1) .. k : ~Registrar!Redundant(j)
      BY <1>0, <1>1, <2>1, <2>3, RegistryCounts
         DEF Registrar!RegistryInv, Registrar!RedundantOnlyByRace
    <3>2. CASE j \in 1 .. Len(registry)
      BY <1>3, <3>1, <3>2
    <3>3. CASE j \notin 1 .. Len(registry)
      <4>1. j <= 0 /\ j \in Int
        BY <1>0, <1>1, <2>1, <2>3, <3>1, <3>3, RegistryConstants
      <4>2. k - Cardinality(Proc) + 1 >= 1
        BY <1>0, <1>1, <2>1, <2>3, RegistryConstants
      <4> QED BY <1>0, <1>1, <2>1, <2>3, <3>1, <4>1, <4>2, RegistryConstants
    <3> QED BY <3>2, <3>3
  <2> QED BY <1>0, <1>1, <2>2, <2>3
<1> QED BY <1>2, <1>8, <1>9 DEF Registrar!RegistryInv

\* The step of each action on the registry and the calls.
LEMMA RegistryStarts ==
    ASSUME Registrar!RegistryInv, NEW p \in Proc, NEW facts \in CallerFacts,
           Registrar!StartRegister(p, facts)
    PROVE  Registrar!RegistryInv'
<1>1. facts \in Registrar!Facts
  BY RegistryConstants
<1>2. <<facts>> \in Seq(Registrar!Facts) \ {<<>>}
  BY <1>1
<1>3. [step |-> "resolve", todo |-> <<facts>>, registered |-> 0, would |-> 0,
       backfill |-> FALSE] \in Registrar!Work
  BY <1>2 DEF Registrar!Work
<1>4. /\ call' \in [Proc -> {Nothing} \cup Registrar!Work] /\ UNCHANGED Registrar!file
      /\ UNCHANGED <<registry, registry_tail, told, runs, crashes>>
      /\ \A q \in Proc \ {p} : call'[q] = call[q]
      /\ call'[p] # Nothing => call'[p].step = "resolve"
  BY <1>3 DEF Registrar!StartRegister, Registrar!Goes, Registrar!RegistryInv, Registrar!file
<1>5. Registrar!TypeOK'
  BY <1>4 DEF Registrar!RegistryInv, Registrar!TypeOK, Registrar!Work
<1>6. Registrar!Overtaken' \subseteq Registrar!Overtaken
  BY <1>4 DEF Registrar!Overtaken
<1> QED BY <1>4, <1>5, <1>6, RegistryUnchanged, RecordedMeans
   DEF Registrar!RegistryInv, Registrar!ToldIsRecorded

\* A backfill makes candidates of two artifacts; it registers them or counts them.
LEMMA RegistryBackfills ==
    ASSUME Registrar!RegistryInv, NEW p \in Proc, NEW a \in Artifact, NEW b \in Artifact,
           NEW apply \in BOOLEAN, Registrar!StartBackfill(p, a, b, apply)
    PROVE  Registrar!RegistryInv'
<1> DEFINE candidates == Registrar!CandidatesOf(a) \o Registrar!CandidatesOf(b)
           would == Registrar!Cardinality({k \in DOMAIN candidates :
                                      Registrar!WouldRegister(registry, candidates[k])})
<1>1. candidates \in Seq(Registrar!Facts)
  <2>1. Registrar!CandidatesOf(a) \in Seq(Registrar!Facts) /\ Registrar!CandidatesOf(b) \in Seq(Registrar!Facts)
    BY RegistryConstants, CandidatesTyped
  <2> QED BY <2>1
<1>2. would \in Nat
  <2>1. {k \in DOMAIN candidates : Registrar!WouldRegister(registry, candidates[k])}
            \subseteq 1 .. Len(candidates) /\ Len(candidates) \in Nat
    BY <1>1
  <2> HIDE DEF candidates
  <2> QED BY <2>1, PlacesAreFinite, RegistryCounts
<1>3. candidates # <<>> =>
          [step |-> "resolve", todo |-> candidates, registered |-> 0,
           would |-> would, backfill |-> TRUE] \in Registrar!Work
  <2> HIDE DEF candidates, would
  <2> QED BY <1>1, <1>2 DEF Registrar!Work
<1>4. /\ \/ call' = call
         \/ candidates # <<>>
            /\ call' = [call EXCEPT ![p] = [step |-> "resolve", todo |-> candidates,
                                            registered |-> 0, would |-> would,
                                            backfill |-> TRUE]]
      /\ UNCHANGED Registrar!file /\ UNCHANGED <<registry, registry_tail, told, crashes>>
      /\ runs' = runs + 1 /\ runs < MaxRuns
  BY DEF Registrar!StartBackfill, Registrar!Goes, Registrar!file
<1>5. /\ call' \in [Proc -> {Nothing} \cup Registrar!Work]
      /\ \A q \in Proc : call'[q] = call[q] \/ call'[q].step = "resolve"
  <2> DEFINE next == [step |-> "resolve", todo |-> candidates, registered |-> 0,
                      would |-> would, backfill |-> TRUE]
  <2>1. CASE call' = call
    BY <2>1 DEF Registrar!RegistryInv
  <2>2. CASE candidates # <<>> /\ call' = [call EXCEPT ![p] = next]
    <3>1. next \in Registrar!Work /\ next.step = "resolve"
      BY <1>3, <2>2
    <3> HIDE DEF next
    <3> QED BY <2>2, <3>1 DEF Registrar!RegistryInv
  <2> QED BY <1>4, <2>1, <2>2
<1>6. Registrar!TypeOK'
  <2>1. runs' \in 0 .. MaxRuns
    BY <1>4, RegistryConstants DEF Registrar!RegistryInv, Registrar!TypeOK
  <2> HIDE DEF candidates, would
  <2> QED BY <1>4, <1>5, <2>1 DEF Registrar!RegistryInv, Registrar!TypeOK, Registrar!Work
<1>7. Registrar!Overtaken' \subseteq Registrar!Overtaken
  <2> HIDE DEF candidates, would
  <2> QED BY <1>4, <1>5 DEF Registrar!Overtaken
<1> QED BY <1>4, <1>5, <1>6, <1>7, RegistryUnchanged, RecordedMeans
        DEF Registrar!RegistryInv, Registrar!ToldIsRecorded

\* A call that is answered is over, or goes on with the next one.
LEMMA AnswersTyped ==
    ASSUME Registrar!RegistryInv, NEW p \in Proc, call[p] # Nothing, NEW more \in {0, 1},
           Registrar!Answers(p, more)
    PROVE  /\ call' \in [Proc -> {Nothing} \cup Registrar!Work]
           /\ \A q \in Proc \ {p} : call'[q] = call[q]
           /\ call'[p] # Nothing => call'[p].step = "resolve"
           /\ told' = told \cup {Head(call[p].todo)} /\ Head(call[p].todo) \in Registrar!Facts
<1>1. call[p] \in Registrar!Work /\ call \in [Proc -> {Nothing} \cup Registrar!Work]
  BY DEF Registrar!RegistryInv
<1>2. /\ call[p].todo \in Seq(Registrar!Facts) \ {<<>>} /\ call[p].registered \in Nat
      /\ Head(call[p].todo) \in Registrar!Facts
  BY <1>1 DEF Registrar!Work
<1>3. CASE Len(call[p].todo) = 1
  BY <1>1, <1>2, <1>3 DEF Registrar!Answers, Registrar!Goes
<1>4. CASE Len(call[p].todo) # 1
  <2>1. Tail(call[p].todo) \in Seq(Registrar!Facts) \ {<<>>}
    BY <1>2, <1>4, FirstAndRest
  <2>2. call[p].registered + more \in Nat
    BY <1>2
  <2> DEFINE next == [call[p] EXCEPT !.step = "resolve", !.todo = Tail(call[p].todo),
                                     !.registered = call[p].registered + more]
  <2>3. next \in Registrar!Work /\ next.step = "resolve"
    BY <1>1, <2>1, <2>2 DEF Registrar!Work
  <2>4. call' = [call EXCEPT ![p] = next] /\ told' = told \cup {Head(call[p].todo)}
    BY <1>4 DEF Registrar!Answers, Registrar!Goes
  <2> HIDE DEF next
  <2> QED BY <1>1, <1>2, <2>3, <2>4
<1> QED BY <1>3, <1>4

\* A call reads the registry; one that brings nothing new is done.
LEMMA RegistryReads ==
    ASSUME Registrar!RegistryInv, NEW p \in Proc, Registrar!ReadRegistry(p)
    PROVE  Registrar!RegistryInv'
<1> DEFINE f == Head(call[p].todo)
<1>1. /\ call[p] \in Registrar!Work /\ call[p] # Nothing /\ call[p].step = "resolve"
      /\ call \in [Proc -> {Nothing} \cup Registrar!Work]
      /\ registry \in Seq(Registrar!Facts) /\ UNCHANGED Registrar!file
      /\ UNCHANGED <<registry, registry_tail, runs, crashes>>
  BY DEF Registrar!RegistryInv, Registrar!TypeOK, Registrar!ReadRegistry, Registrar!file
<1>2. f \in Registrar!Facts
  BY <1>1 DEF Registrar!Work
<1>3. CASE registry_tail # "cut" /\ Registrar!BringsNews(Registrar!Resolve(registry, f.key), f)
  <2>1. call' = [call EXCEPT ![p] = [call[p] EXCEPT !.step = "append"]] /\ told' = told
    BY <1>3 DEF Registrar!ReadRegistry, Registrar!Goes
  <2>2. [call[p] EXCEPT !.step = "append"] \in Registrar!Work
        /\ [call[p] EXCEPT !.step = "append"].todo = call[p].todo
    BY <1>1 DEF Registrar!Work
  <2>3. /\ call' \in [Proc -> {Nothing} \cup Registrar!Work] /\ call'[p].todo = call[p].todo
        /\ \A q \in Proc \ {p} : call'[q] = call[q]
    BY <1>1, <2>1, <2>2
  <2>4. Registrar!TypeOK'
    BY <1>1, <2>1, <2>3 DEF Registrar!RegistryInv, Registrar!TypeOK, Registrar!Work
  <2>5. Registrar!Overtaken' \subseteq Registrar!Overtaken
    BY <1>1, <1>3, <2>3 DEF Registrar!Overtaken
  <2> QED BY <1>1, <2>1, <2>3, <2>4, <2>5, RegistryUnchanged, RecordedMeans
          DEF Registrar!RegistryInv, Registrar!ToldIsRecorded
<1>4. CASE registry_tail # "cut" /\ ~Registrar!BringsNews(Registrar!Resolve(registry, f.key), f)
  <2>1. Registrar!Answers(p, 0)
    BY <1>4 DEF Registrar!ReadRegistry
  <2>2. /\ call' \in [Proc -> {Nothing} \cup Registrar!Work]
        /\ \A q \in Proc \ {p} : call'[q] = call[q]
        /\ call'[p] # Nothing => call'[p].step = "resolve"
        /\ told' = told \cup {f}
    BY <1>1, <2>1, AnswersTyped
  <2>3. Recorded(registry, f)
    BY <1>1, <1>2, <1>4, KnownIsRecorded DEF Recorded
  <2>4. \A g \in told' : Recorded(registry, g)
    BY <1>4, <2>2, <2>3, RecordedMeans DEF Registrar!RegistryInv, Registrar!ToldIsRecorded
  <2>5. Registrar!TypeOK'
    BY <1>1, <1>2, <2>2 DEF Registrar!RegistryInv, Registrar!TypeOK, Registrar!Work
  <2>6. Registrar!Overtaken' \subseteq Registrar!Overtaken
    BY <1>1, <2>2 DEF Registrar!Overtaken
  <2> QED BY <1>1, <2>2, <2>4, <2>5, <2>6, RegistryUnchanged
<1>5. CASE registry_tail = "cut"
  <2>1. call' = [call EXCEPT ![p] = Nothing] /\ told' = told
    BY <1>5 DEF Registrar!ReadRegistry, Registrar!Goes
  <2>2. /\ call' \in [Proc -> {Nothing} \cup Registrar!Work] /\ call'[p] = Nothing
        /\ \A q \in Proc \ {p} : call'[q] = call[q]
    BY <1>1, <2>1
  <2>3. Registrar!TypeOK'
    BY <1>1, <2>1, <2>2 DEF Registrar!RegistryInv, Registrar!TypeOK, Registrar!Work
  <2>4. Registrar!Overtaken' \subseteq Registrar!Overtaken
    BY <1>1, <2>2 DEF Registrar!Overtaken
  <2> QED BY <1>1, <1>5, <2>2, <2>3, <2>4, RegistryUnchanged
<1> QED BY <1>3, <1>4, <1>5

\* A call adds its entry, and whoever had read the registry before is overtaken; or it
\* spoils the registry.
LEMMA RegistryAdds ==
    ASSUME Registrar!RegistryInv, NEW p \in Proc, Registrar!AppendEntry(p)
    PROVE  Registrar!RegistryInv'
<1>1. PICK f : f = Head(call[p].todo)
  OBVIOUS
<1>2. /\ call[p] # Nothing /\ call[p].step = "append" /\ Registrar!Answers(p, 1)
      /\ UNCHANGED <<runs, crashes>> /\ registry \in Seq(Registrar!Facts)
  BY <1>1 DEF Registrar!AppendEntry, Registrar!RegistryInv, Registrar!TypeOK
<1>3. /\ call' \in [Proc -> {Nothing} \cup Registrar!Work]
      /\ \A q \in Proc \ {p} : call'[q] = call[q]
      /\ call'[p] # Nothing => call'[p].step = "resolve"
      /\ told' = told \cup {f} /\ f \in Registrar!Facts
  BY <1>1, <1>2, AnswersTyped
<1>4. CASE registry_tail = "ended"
  <2>1. registry' = Append(registry, f) /\ registry_tail' = "ended"
    BY <1>1, <1>4 DEF Registrar!AppendEntry
  <2>2. registry' \in Seq(Registrar!Facts)
    BY <1>2, <1>3, <2>1
  <2>3. Registrar!TypeOK'
    BY <1>2, <1>3, <2>1, <2>2 DEF Registrar!RegistryInv, Registrar!TypeOK, Registrar!Work
  <2> QED BY <1>1, <1>2, <1>3, <1>4, <2>1, <2>3, RegistryAppends
<1>5. CASE registry_tail # "ended"
  <2>1. Registrar!Spoils
    BY <1>5 DEF Registrar!AppendEntry
  <2>2. Registrar!TypeOK'
    BY <1>2, <1>3, <2>1, SpoiltTyped DEF Registrar!RegistryInv, Registrar!TypeOK,
                                         Registrar!Work
  <2> QED BY <1>3, <2>1, <2>2, RegistrySpoilt
<1> QED BY <1>4, <1>5

\* A process dies and forgets its call; the entry it was writing is there, not there,
\* or spoils the registry.
LEMMA RegistryDies ==
    ASSUME Registrar!RegistryInv, NEW p \in Proc, Registrar!ProcessDies(p)
    PROVE  Registrar!RegistryInv'
<1>1. /\ call' \in [Proc -> {Nothing} \cup Registrar!Work] /\ UNCHANGED <<told, runs>>
      /\ \A q \in Proc \ {p} : call'[q] = call[q]
  BY DEF Registrar!ProcessDies, Registrar!Goes, Registrar!RegistryInv
<1>2. call'[p] = Nothing /\ call[p] # Nothing
  BY DEF Registrar!ProcessDies, Registrar!Goes, Registrar!RegistryInv
<1>3. crashes' \in 0 .. MaxDeaths
  BY RegistryConstants DEF Registrar!ProcessDies, Registrar!RegistryInv, Registrar!TypeOK
<1>4. CASE UNCHANGED Registrar!file
  <2>1. Registrar!TypeOK'
    BY <1>1, <1>3, <1>4 DEF Registrar!RegistryInv, Registrar!TypeOK, Registrar!Work,
                            Registrar!file
  <2>2. Registrar!Overtaken' \subseteq Registrar!Overtaken
    BY <1>1, <1>2, <1>4 DEF Registrar!Overtaken, Registrar!file
  <2> QED BY <1>1, <1>4, <2>1, <2>2, RegistryUnchanged, RecordedMeans
          DEF Registrar!RegistryInv, Registrar!ToldIsRecorded
<1>5. CASE Registrar!Spoils
  <2>1. Registrar!TypeOK'
    BY <1>1, <1>3, <1>5, SpoiltTyped DEF Registrar!RegistryInv, Registrar!TypeOK,
                                         Registrar!Work
  <2> QED BY <1>1, <1>5, <2>1, RegistrySpoilt
<1>6. CASE /\ call[p].step = "append" /\ registry_tail = "ended"
           /\ registry' = Append(registry, Head(call[p].todo))
           /\ registry_tail' \in {"ended", "open"}
  <2>1. PICK f : f = Head(call[p].todo)
    OBVIOUS
  <2>2. call[p] \in Registrar!Work
    BY <1>2 DEF Registrar!RegistryInv
  <2>3. f \in Registrar!Facts
    BY <2>1, <2>2 DEF Registrar!Work
  <2>4. registry' \in Seq(Registrar!Facts)
    BY <1>6, <2>1, <2>3 DEF Registrar!RegistryInv, Registrar!TypeOK
  <2>5. Registrar!TypeOK'
    BY <1>1, <1>3, <1>6, <2>4 DEF Registrar!RegistryInv, Registrar!TypeOK, Registrar!Work
  <2> QED BY <1>1, <1>2, <1>6, <2>1, <2>3, <2>5, RegistryAppends
<1> QED BY <1>4, <1>5, <1>6 DEF Registrar!ProcessDies

\* Every step of a process keeps what was told, and counts the races.
LEMMA RegistryStep == Registrar!RegistryInv /\ Registrar!Next => Registrar!RegistryInv'
BY RegistryStarts, RegistryBackfills, RegistryReads, RegistryAdds, RegistryDies
   DEF Registrar!Next

\* Nothing happens to the registry.
LEMMA RegistryStands ==
    Registrar!RegistryInv /\ UNCHANGED <<registry, registry_tail, call, told, runs, crashes>> => Registrar!RegistryInv'
<1> SUFFICES ASSUME Registrar!RegistryInv, UNCHANGED <<registry, registry_tail, call, told,
                    runs, crashes>>
             PROVE  Registrar!RegistryInv'
  OBVIOUS
<1>1. Registrar!TypeOK' /\ Registrar!Overtaken' \subseteq Registrar!Overtaken /\ UNCHANGED Registrar!file
  BY DEF Registrar!RegistryInv, Registrar!TypeOK, Registrar!Overtaken, Registrar!file
<1> QED BY <1>1, RegistryUnchanged, RecordedMeans
   DEF Registrar!RegistryInv, Registrar!ToldIsRecorded

------------------------------------------------------------------------------
(***************************************************************************)
(* The import of foreign ledgers                                           *)
(***************************************************************************)
LEMMA ImportConstants ==
    ASSUME NEW k \in DOMAIN Importings
    PROVE  /\ Importings[k].max_changes \in Nat /\ Importings[k].max_crashes \in Nat
           /\ Importings[k].source \cap Importings[k].writer = {}
           /\ Nothing \notin Importings[k].importer \cup Importings[k].source \cup Importings[k].writer
           /\ Nothing \notin Import(k)!Work /\ Nothing \notin Import(k)!Rows
BY TextStoreAssumption DEF Import!ImportAssumption

\* A row that is appended adds its origin, if that is a foreign file.
LEMMA ForeignAppend ==
    ASSUME NEW k \in DOMAIN Importings, NEW r \in Import(k)!Rows, NEW row \in Import(k)!Row
    PROVE  /\ Import(k)!Foreign(Append(r, row)) = Import(k)!Foreign(r) \cup ({row.origin} \cap Importings[k].source)
           /\ Append(r, row) \in Import(k)!Rows
           /\ Import(k)!Once(r) /\ row.origin \notin Import(k)!Foreign(r) => Import(k)!Once(Append(r, row))
<1> DEFINE n == Len(r) + 1
           longer == Append(r, row)
<1>1. /\ n \in Nat /\ longer \in Seq(Import(k)!Row) /\ DOMAIN longer = 1 .. n
      /\ DOMAIN r = 1 .. Len(r) /\ Len(r) \in Nat
      /\ \A j \in 1 .. Len(r) : longer[j] = r[j]
      /\ longer[n] = row
  BY DEF Import!Rows
<1>2. DOMAIN longer = (DOMAIN r) \cup {n} /\ n \notin DOMAIN r
  BY <1>1
<1> HIDE DEF n, longer
<1>3. Import(k)!Foreign(longer) = Import(k)!Foreign(r) \cup ({row.origin} \cap Importings[k].source)
  <2>1. ASSUME NEW f \in Import(k)!Foreign(longer)
        PROVE  f \in Import(k)!Foreign(r) \/ (f = row.origin /\ f \in Importings[k].source)
    <3>1. PICK j \in DOMAIN longer : longer[j].origin = f /\ f \in Importings[k].source
      BY DEF Import!Foreign
    <3>2. CASE j = n
      BY <1>1, <3>1, <3>2
    <3>3. CASE j \in DOMAIN r
      BY <1>1, <3>1, <3>3 DEF Import!Foreign
    <3> QED BY <1>2, <3>2, <3>3
  <2>2. ASSUME NEW f \in Import(k)!Foreign(r) PROVE f \in Import(k)!Foreign(longer)
    <3>1. PICK j \in DOMAIN r : r[j].origin = f /\ f \in Importings[k].source
      BY DEF Import!Foreign
    <3>2. j \in DOMAIN longer /\ longer[j].origin = f
      BY <1>1, <1>2, <3>1
    <3> QED BY <3>1, <3>2 DEF Import!Foreign
  <2>3. ASSUME row.origin \in Importings[k].source
        PROVE  row.origin \in Import(k)!Foreign(longer)
    <3>1. n \in DOMAIN longer /\ longer[n].origin = row.origin
      BY <1>1, <1>2
    <3> QED BY <2>3, <3>1 DEF Import!Foreign
  <2> QED BY <2>1, <2>2, <2>3
<1>4. ASSUME Import(k)!Once(r), row.origin \notin Import(k)!Foreign(r)
      PROVE  Import(k)!Once(longer)
  BY <1>1, <1>2, <1>4 DEF Import!Foreign, Import!Once
<1> QED BY <1>1, <1>3, <1>4 DEF longer, Import!Rows

\* An import finds its source among the rows if it is one they come from.
LEMMA PresentIsForeign ==
    ASSUME NEW k \in DOMAIN Importings, NEW r, NEW source \in Importings[k].source
    PROVE  Import(k)!Present(source, r) <=> source \in Import(k)!Foreign(r)
BY DEF Import!Present, Import!Foreign

\* The foreign sources of the rows are the sources among their origins.
LEMMA OriginsAreForeign ==
    ASSUME NEW k \in DOMAIN Importings
    PROVE  /\ Import(k)!Foreign(rows) = Import(k)!Origins \cap Importings[k].source
           /\ Import(k)!Foreign(rows') = Import(k)!Origins' \cap Importings[k].source
BY DEF Import!Origins, Import!Foreign

\* The row of a source or a writer is a row that comes from there.
LEMMA RowOfTyped ==
    ASSUME NEW k \in DOMAIN Importings, NEW r \in Import(k)!Rows,
           NEW origin \in Importings[k].source \cup Importings[k].writer

         PROVE  Import(k)!RowOf(origin, r) \in Import(k)!Row /\ Import(k)!RowOf(origin, r).origin = origin
BY DEF Import!RowOf, Import!Row, Import!Rows

\* An empty ledger, with no import and no append under way.
LEMMA ImportBegins ==
    ASSUME NEW k \in DOMAIN Importings, Import(k)!Init
    PROVE  Import(k)!ImportInv
<1>1. /\ edited = {} /\ file = 0 /\ rows = <<>> /\ import_lock = Nothing
      /\ ledger_lock = Nothing /\ crashes = 0
      /\ call = [i \in Importings[k].importer |-> Nothing]
      /\ answer = [i \in Importings[k].importer |-> Import(k)!NoAnswer]
      /\ swapped = [i \in Importings[k].importer |-> FALSE]
      /\ writing = [w \in Importings[k].writer |-> Nothing]
  BY DEF Import!Init
<1>2. Import(k)!NoAnswer \in Import(k)!Answers /\ Import(k)!NoAnswer.status = "none"
  BY DEF Import!NoAnswer, Import!Answers, Import!Rows
<1>3. Import(k)!Typed
  <2>1. 0 \in 0 .. Importings[k].max_crashes /\ 0 \in Nat
    BY ImportConstants
  <2>2. swapped \in [Importings[k].importer -> BOOLEAN]
    BY <1>1
  <2>3. answer \in [Importings[k].importer -> Import(k)!Answers]
    BY <1>1, <1>2
  <2>4. call \in [Importings[k].importer -> {Nothing} \cup Import(k)!Work]
        /\ writing \in [Importings[k].writer -> {Nothing} \cup Import(k)!Appends]
    BY <1>1
  <2> QED BY <1>1, <2>1, <2>2, <2>3, <2>4 DEF Import!Typed, Import!Rows
<1>4. Import(k)!ImportedOnce /\ Import(k)!AnsweredIsThere /\ Import(k)!ZeroMeansNothing
  BY <1>1, <1>2 DEF Import!ImportedOnce, Import!AnsweredIsThere, Import!ZeroMeansNothing
<1>5. ASSUME NEW i \in Importings[k].importer PROVE Import(k)!Knows(i)
  BY <1>1 DEF Import!Knows, Import!Holds, Import!InStep
<1> QED BY <1>3, <1>4, <1>5 DEF Import!ImportInv

\* A step of one importer that leaves the ledger as it is.
LEMMA ImportKeeps ==
    ASSUME NEW k \in DOMAIN Importings, Import(k)!ImportInv, NEW i \in Importings[k].importer,
           Import(k)!Typed', rows' = rows,
           \A j \in Importings[k].importer \ {i} : /\ call'[j] = call[j] /\ answer'[j] = answer[j]
                                          /\ swapped'[j] = swapped[j],
           import_lock' = import_lock \/ import_lock \in {i, Nothing},
           stages \ {i} \subseteq stages',
           Import(k)!Knows(i)',
           answer'[i].status \in {"absorbed", "already_present"} =>
               answer'[i].source \in Import(k)!Origins,
           answer'[i].status # "none" /\ call'[i] = Nothing =>
               (answer'[i].commit = "none" <=> ~swapped'[i])
    PROVE  Import(k)!ImportInv'
<1>1. Import(k)!ImportedOnce'
  BY DEF Import!ImportInv, Import!ImportedOnce
<1>2. Import(k)!AnsweredIsThere'
  <2>1. Import(k)!Origins' = Import(k)!Origins
    BY DEF Import!Origins
  <2> QED BY <2>1 DEF Import!ImportInv, Import!AnsweredIsThere
<1>3. Import(k)!ZeroMeansNothing'
  BY DEF Import!ImportInv, Import!ZeroMeansNothing
<1>4. ASSUME NEW j \in Importings[k].importer \ {i} PROVE Import(k)!Knows(j)'
  <2>1. j # Nothing
    BY ImportConstants
  <2>2. Import(k)!Knows(j)
    BY DEF Import!ImportInv
  <2> QED BY <2>1, <2>2 DEF Import!Knows, Import!Holds, Import!InStep, Import!Foreign,
                            Import!Once
<1> QED BY <1>1, <1>2, <1>3, <1>4 DEF Import!ImportInv

\* A call that begins has renamed nothing yet.
LEMMA StartImportKeeps ==
    ASSUME NEW k \in DOMAIN Importings, Import(k)!ImportInv, NEW i \in Importings[k].importer,
           NEW source \in Importings[k].source, NEW apply \in BOOLEAN, NEW pinned \in BOOLEAN,
           Import(k)!StartImport(i, source, apply, pinned)
    PROVE  Import(k)!ImportInv'
<1> DEFINE work == [step |-> "inspect", source |-> source, apply |-> apply,
                    expected |-> IF pinned THEN answer[i].seen ELSE Nothing,
                    before |-> <<>>]
<1>1. /\ call[i] = Nothing /\ call' = [call EXCEPT ![i] = work]
      /\ swapped' = [swapped EXCEPT ![i] = FALSE]
      /\ edited' = edited /\ file' = file /\ rows' = rows
      /\ import_lock' = import_lock /\ stages' = stages /\ answer' = answer
      /\ ledger_lock' = ledger_lock /\ writing' = writing /\ saved' = saved
      /\ crashes' = crashes
  BY DEF Import!StartImport, Import!store, Import!writers
<1>2. /\ call \in [Importings[k].importer -> {Nothing} \cup Import(k)!Work]
      /\ answer \in [Importings[k].importer -> Import(k)!Answers]
      /\ swapped \in [Importings[k].importer -> BOOLEAN]
      /\ answer[i].status \in {"absorbed", "already_present"} =>
             answer[i].source \in Import(k)!Origins
  BY DEF Import!ImportInv, Import!Typed, Import!AnsweredIsThere
<1>3. work \in Import(k)!Work /\ work.step = "inspect" /\ work # Nothing
  <2>1. work \in Import(k)!Work
    BY <1>2 DEF Import!Work, Import!Answers, Import!Rows
  <2> QED BY <2>1, ImportConstants
<1> HIDE DEF work
<1>4. call'[i] = work /\ swapped'[i] = FALSE /\ call' \in [Importings[k].importer -> {Nothing} \cup Import(k)!Work]
      /\ swapped' \in [Importings[k].importer -> BOOLEAN]
      /\ \A j \in Importings[k].importer \ {i} : call'[j] = call[j] /\ swapped'[j] = swapped[j]
  BY <1>1, <1>2, <1>3
<1>5. Import(k)!Typed'
  BY <1>1, <1>4 DEF Import!ImportInv, Import!Typed
<1>6. Import(k)!Knows(i)'
  BY <1>3, <1>4 DEF Import!Knows, Import!Holds, Import!InStep
<1> QED BY <1>1, <1>2, <1>3, <1>4, <1>5, <1>6, ImportKeeps

\* What the invariant says of one call.
LEMMA ImportFacts ==
    ASSUME NEW k \in DOMAIN Importings, Import(k)!ImportInv, NEW i \in Importings[k].importer
    PROVE  /\ call \in [Importings[k].importer -> {Nothing} \cup Import(k)!Work]
           /\ answer \in [Importings[k].importer -> Import(k)!Answers]
           /\ swapped \in [Importings[k].importer -> BOOLEAN]
           /\ rows \in Import(k)!Rows /\ crashes \in 0 .. Importings[k].max_crashes
           /\ import_lock \in Importings[k].importer \cup {Nothing}
           /\ call[i] # Nothing => call[i] \in Import(k)!Work
           /\ answer[i] \in Import(k)!Answers /\ swapped[i] \in BOOLEAN
           /\ answer[i].status \in {"absorbed", "already_present"} =>
                  answer[i].source \in Import(k)!Origins
           /\ answer[i].status # "none" /\ call[i] = Nothing =>
                  (answer[i].commit = "none" <=> ~swapped[i])
           /\ Import(k)!Knows(i) /\ i # Nothing
BY ImportConstants DEF Import!ImportInv, Import!Typed, Import!AnsweredIsThere,
                       Import!ZeroMeansNothing

\* A step of one call that leaves the ledger and the files as they are: what it goes
\* on with and what it has answered are all that changes, besides its lock and stage.
LEMMA ImportGoesOn ==
    ASSUME NEW k \in DOMAIN Importings, Import(k)!ImportInv, NEW i \in Importings[k].importer,
           NEW next \in {Nothing} \cup Import(k)!Work, NEW reply \in Import(k)!Answers,
           call' = [call EXCEPT ![i] = next], answer' = [answer EXCEPT ![i] = reply],
           edited' = edited, file' = file, rows' = rows, swapped' = swapped,
           ledger_lock' = ledger_lock, writing' = writing, saved' = saved,
           crashes' \in 0 .. Importings[k].max_crashes,
           \/ import_lock' = import_lock
           \/ import_lock \in {i, Nothing} /\ import_lock' \in {i, Nothing},
           stages \ {i} \subseteq stages',
           Import(k)!Knows(i)',
           reply.status \in {"absorbed", "already_present"} => reply.source \in Import(k)!Origins,
           reply.status # "none" /\ next = Nothing => (reply.commit = "none" <=> ~swapped[i])
    PROVE  Import(k)!ImportInv'
<1>1. call'[i] = next /\ answer'[i] = reply
      /\ call' \in [Importings[k].importer -> {Nothing} \cup Import(k)!Work]
      /\ answer' \in [Importings[k].importer -> Import(k)!Answers]
      /\ \A j \in Importings[k].importer \ {i} : /\ call'[j] = call[j] /\ answer'[j] = answer[j]
                                        /\ swapped'[j] = swapped[j]
  BY ImportFacts
<1>2. Import(k)!Typed'
  BY <1>1, ImportFacts DEF Import!ImportInv, Import!Typed
<1>3. reply.status # "none" /\ call'[i] = Nothing => (reply.commit = "none" <=> ~swapped'[i])
  BY <1>1
<1> QED BY <1>1, <1>2, <1>3, ImportKeeps

\* An import reads and judges source and ledger, without a lock.
LEMMA InspectKeeps ==
    ASSUME NEW k \in DOMAIN Importings, Import(k)!ImportInv,
           NEW i \in Importings[k].importer, Import(k)!Inspect(i)
    PROVE  Import(k)!ImportInv'
<1>1. /\ call[i] # Nothing /\ call[i].step = "inspect" /\ call[i] \in Import(k)!Work
      /\ edited' = edited /\ file' = file /\ rows' = rows /\ import_lock' = import_lock
      /\ stages' = stages /\ swapped' = swapped /\ ledger_lock' = ledger_lock
      /\ writing' = writing /\ saved' = saved /\ crashes' = crashes
  BY ImportFacts DEF Import!Inspect, Import!InStep, Import!store, Import!writers
<1>2. swapped[i] = FALSE
  BY <1>1, ImportFacts DEF Import!Knows
<1> DEFINE judged == [[call[i] EXCEPT !.before = rows] EXCEPT !.step = "lock"]
           status == IF \/ call[i].source \in edited \/ ~Import(k)!ChainIsValid(rows)
                        \/ call[i].expected # Nothing /\ rows # call[i].expected
                     THEN "blocked"
                     ELSE IF Import(k)!Present(call[i].source, rows)
                     THEN "already_present" ELSE "ready"
           reply == [status |-> status, commit |-> "none", source |-> call[i].source,
                     seen |-> IF status = "ready" THEN rows ELSE <<>>]
<1>3. CASE call' = [call EXCEPT ![i] = Nothing] /\ answer' = [answer EXCEPT ![i] = reply]
  <2>1. reply \in Import(k)!Answers
    BY <1>1, ImportFacts DEF Import!Answers, Import!Work, Import!Rows
  <2>2. reply.status \in {"absorbed", "already_present"} => reply.source \in Import(k)!Origins
    BY <1>1 DEF Import!Present, Import!Origins
  <2>3. reply.commit = "none"
    OBVIOUS
  <2> HIDE DEF reply
  <2>4. Import(k)!Knows(i)'
    <3>1. call'[i] = Nothing
      BY <1>3, ImportFacts
    <3> QED BY <3>1 DEF Import!Knows, Import!Holds, Import!InStep
  <2> QED BY <1>1, <1>2, <1>3, <2>1, <2>2, <2>3, <2>4, ImportFacts, ImportGoesOn
<1>4. CASE /\ call' = [call EXCEPT ![i] = judged] /\ answer' = answer
           /\ ~(call[i].expected # Nothing /\ rows # call[i].expected)
           /\ ~Import(k)!Present(call[i].source, rows)
  <2>1. judged \in Import(k)!Work /\ judged.step = "lock" /\ judged.before = rows
        /\ judged.source = call[i].source /\ judged.expected = call[i].expected
    BY <1>1, ImportFacts DEF Import!Work, Import!Rows
  <2> HIDE DEF judged
  <2>2. call'[i] = judged /\ judged # Nothing /\ answer' = [answer EXCEPT ![i] = answer[i]]
    BY <1>4, <2>1, ImportFacts, ImportConstants
  <2>3. Import(k)!Once(rows)
    BY DEF Import!ImportInv, Import!ImportedOnce, Import!Once
  <2>4. judged.source \notin Import(k)!Foreign(rows)
    BY <1>1, <1>4, <2>1, PresentIsForeign DEF Import!Work
  <2>5. Import(k)!Knows(i)'
    <3>1. Import(k)!Once(judged.before) /\ judged.source \notin Import(k)!Foreign(judged.before)
          /\ (judged.expected # Nothing => judged.before = judged.expected)
      BY <1>4, <2>1, <2>3, <2>4
    <3>2. swapped'[i] = FALSE
      BY <1>1, <1>2
    <3> QED BY <2>1, <2>2, <3>1, <3>2 DEF Import!Knows, Import!Holds, Import!InStep,
                                          Import!Once, Import!Foreign
  <2> QED BY <1>1, <1>4, <2>1, <2>2, <2>5, ImportFacts, ImportGoesOn
<1> QED BY <1>1, <1>3, <1>4 DEF Import!Inspect

\* A call that ends with nothing committed, having renamed nothing.
LEMMA ReturnsEmptyHanded ==
    ASSUME NEW k \in DOMAIN Importings, Import(k)!ImportInv, NEW i \in Importings[k].importer,
           call[i] # Nothing, Import(k)!Returns(i, "blocked", "none"),
           call[i].step # "read_back",
           edited' = edited, file' = file, rows' = rows, swapped' = swapped,
           ledger_lock' = ledger_lock, writing' = writing, saved' = saved,
           crashes' \in 0 .. Importings[k].max_crashes,
           \/ import_lock' = import_lock
           \/ import_lock \in {i, Nothing} /\ import_lock' \in {i, Nothing},
           stages \ {i} \subseteq stages'
    PROVE  Import(k)!ImportInv'
<1> DEFINE reply == [status |-> "blocked", commit |-> "none", source |-> call[i].source,
                     seen |-> <<>>]
<1>1. call' = [call EXCEPT ![i] = Nothing] /\ answer' = [answer EXCEPT ![i] = reply]
  BY DEF Import!Returns
<1>2. reply \in Import(k)!Answers /\ reply.status = "blocked" /\ reply.commit = "none"
  BY ImportFacts DEF Import!Answers, Import!Work, Import!Rows
<1> HIDE DEF reply
<1>3. swapped[i] = FALSE
  BY ImportFacts DEF Import!Knows
<1>4. Import(k)!Knows(i)'
  <2>1. call'[i] = Nothing
    BY <1>1, ImportFacts
  <2> QED BY <2>1 DEF Import!Knows, Import!Holds, Import!InStep
<1> QED BY <1>1, <1>2, <1>3, <1>4, ImportGoesOn

\* Going on to a next step with what was judged.
LEMMA GoesTo ==
    ASSUME NEW k \in DOMAIN Importings, Import(k)!ImportInv, NEW i \in Importings[k].importer,
           NEW step \in {"compare", "stage", "swap"}, call[i] # Nothing,
           call[i].step \in {"lock", "compare", "stage"}, Import(k)!Goes(i, step),
           answer' = answer, import_lock' = i, i = import_lock \/ import_lock = Nothing,
           step \in {"stage", "swap"} => i \in stages',
           step = "swap" => rows = call[i].before,
           edited' = edited, file' = file, rows' = rows, swapped' = swapped,
           ledger_lock' = ledger_lock, writing' = writing, saved' = saved, crashes' = crashes,
           stages \subseteq stages'
    PROVE  Import(k)!ImportInv'
<1> DEFINE next == [call[i] EXCEPT !.step = step]
<1>1. call' = [call EXCEPT ![i] = next] /\ answer' = [answer EXCEPT ![i] = answer[i]]
  BY ImportFacts DEF Import!Goes
<1>2. next \in Import(k)!Work /\ next.step = step /\ next.before = call[i].before
      /\ next.source = call[i].source /\ next.expected = call[i].expected
  BY ImportFacts DEF Import!Work
<1> HIDE DEF next
<1>3. next # Nothing /\ call'[i] = next
  BY <1>1, <1>2, ImportFacts, ImportConstants
<1>4. swapped[i] = FALSE
  BY ImportFacts DEF Import!Knows
<1>5. Import(k)!Knows(i)'
  <2>1. /\ Import(k)!Once(call[i].before) /\ call[i].source \notin Import(k)!Foreign(call[i].before)
        /\ call[i].expected # Nothing => call[i].before = call[i].expected
    BY ImportFacts DEF Import!Knows
  <2>2. swapped'[i] = FALSE
    BY <1>4
  <2> QED BY <1>2, <1>3, <2>1, <2>2 DEF Import!Knows, Import!Holds, Import!InStep,
                                        Import!Once, Import!Foreign
<1> QED BY <1>1, <1>2, <1>3, <1>4, <1>5, ImportFacts, ImportGoesOn

\* An import takes the lock of the imports, or is blocked by it.
LEMMA TakeLockKeeps ==
    ASSUME NEW k \in DOMAIN Importings, Import(k)!ImportInv,
           NEW i \in Importings[k].importer, Import(k)!TakeLock(i)
    PROVE  Import(k)!ImportInv'
<1>1. /\ call[i] # Nothing /\ call[i].step = "lock"
      /\ edited' = edited /\ file' = file /\ rows' = rows
      /\ stages' = stages /\ swapped' = swapped /\ ledger_lock' = ledger_lock
      /\ writing' = writing /\ saved' = saved /\ crashes' = crashes
  BY DEF Import!TakeLock, Import!InStep, Import!store, Import!writers
<1>2. CASE import_lock = Nothing /\ import_lock' = i /\ Import(k)!Goes(i, "compare") /\ answer' = answer
  BY <1>1, <1>2, GoesTo
<1>3. CASE Import(k)!Returns(i, "blocked", "none") /\ import_lock' = import_lock
  BY <1>1, <1>3, ImportFacts, ReturnsEmptyHanded
<1> QED BY <1>2, <1>3 DEF Import!TakeLock

\* Giving up under the lock, before anything is renamed.
LEMMA GivesUp ==
    ASSUME NEW k \in DOMAIN Importings, Import(k)!ImportInv, NEW i \in Importings[k].importer,
           call[i] # Nothing, call[i].step \in {"compare", "stage", "swap"},
           Import(k)!GiveUp(i, "none"),
           edited' = edited, file' = file, rows' = rows, swapped' = swapped,
           ledger_lock' = ledger_lock, writing' = writing, saved' = saved,
           crashes' \in 0 .. Importings[k].max_crashes
    PROVE  Import(k)!ImportInv'
<1>1. import_lock = i
  BY ImportFacts DEF Import!Knows, Import!Holds, Import!InStep
<1>2. Import(k)!Returns(i, "blocked", "none") /\ import_lock' = Nothing /\ stages' = stages \ {i}
  BY DEF Import!GiveUp
<1> QED BY <1>1, <1>2, ReturnsEmptyHanded

\* An import that holds the lock compares both files with what it judged, and stages.
LEMMA CompareKeeps ==
    ASSUME NEW k \in DOMAIN Importings, Import(k)!ImportInv,
           NEW i \in Importings[k].importer, Import(k)!Compare(i)
    PROVE  Import(k)!ImportInv'
<1>1. /\ call[i] # Nothing /\ call[i].step = "compare"
      /\ edited' = edited /\ file' = file /\ rows' = rows
      /\ swapped' = swapped /\ ledger_lock' = ledger_lock
      /\ writing' = writing /\ saved' = saved /\ crashes' = crashes
  BY DEF Import!Compare, Import!InStep, Import!store, Import!writers
<1>2. import_lock = i
  BY <1>1, ImportFacts DEF Import!Knows, Import!Holds, Import!InStep
<1>3. CASE /\ stages' = stages \cup {i} /\ Import(k)!Goes(i, "stage")
           /\ import_lock' = import_lock /\ answer' = answer
  BY <1>1, <1>2, <1>3, GoesTo
<1>4. CASE Import(k)!GiveUp(i, "none")
  BY <1>1, <1>4, ImportFacts, GivesUp
<1> QED BY <1>3, <1>4 DEF Import!Compare

\* Both files are compared again before the rename.
LEMMA CheckStageKeeps ==
    ASSUME NEW k \in DOMAIN Importings, Import(k)!ImportInv, NEW i \in Importings[k].importer,
           Import(k)!CheckStage(i)
    PROVE  Import(k)!ImportInv'
<1>1. /\ call[i] # Nothing /\ call[i].step = "stage"
      /\ edited' = edited /\ file' = file /\ rows' = rows
      /\ swapped' = swapped /\ ledger_lock' = ledger_lock
      /\ writing' = writing /\ saved' = saved /\ crashes' = crashes
  BY DEF Import!CheckStage, Import!InStep, Import!store, Import!writers
<1>2. import_lock = i /\ i \in stages
  BY <1>1, ImportFacts DEF Import!Knows, Import!Holds, Import!InStep
<1>3. CASE /\ rows = call[i].before /\ Import(k)!Goes(i, "swap") /\ import_lock' = import_lock
           /\ stages' = stages /\ answer' = answer
  BY <1>1, <1>2, <1>3, GoesTo
<1>4. CASE Import(k)!GiveUp(i, "none")
  BY <1>1, <1>4, ImportFacts, GivesUp
<1> QED BY <1>3, <1>4 DEF Import!CheckStage, Import!Unchanged

\* One crash more is within the bound.
LEMMA ImportCrashes ==
    ASSUME NEW k \in DOMAIN Importings, Import(k)!ImportInv,
           crashes < Importings[k].max_crashes, crashes' = crashes + 1
    PROVE  crashes' \in 0 .. Importings[k].max_crashes
<1>1. crashes \in 0 .. Importings[k].max_crashes /\ Importings[k].max_crashes \in Nat
  BY ImportConstants DEF Import!ImportInv, Import!Typed
<1> QED BY <1>1

\* The rename fails: the lock and the stage are given up, the ledger is as it was.
LEMMA SwapFailsKeeps ==
    ASSUME NEW k \in DOMAIN Importings, Import(k)!ImportInv, NEW i \in Importings[k].importer,
           Import(k)!SwapFails(i)
    PROVE  Import(k)!ImportInv'
<1>1. /\ call[i] # Nothing /\ call[i].step = "swap" /\ Import(k)!GiveUp(i, "none")
      /\ edited' = edited /\ file' = file /\ rows' = rows
      /\ swapped' = swapped /\ ledger_lock' = ledger_lock
      /\ writing' = writing /\ saved' = saved
      /\ crashes < Importings[k].max_crashes /\ crashes' = crashes + 1
  BY DEF Import!SwapFails, Import!InStep, Import!store, Import!writers
<1> QED BY <1>1, ImportCrashes, GivesUp

\* The row that is staged, and what is then in the ledger.
LEMMA StagedRows ==
    ASSUME NEW k \in DOMAIN Importings, Import(k)!ImportInv, NEW i \in Importings[k].importer,
           call[i] # Nothing, call[i].step \in {"swap", "read_back"}
    PROVE  /\ Import(k)!Staged(i) \in Import(k)!Rows /\ Import(k)!Once(Import(k)!Staged(i))
           /\ Import(k)!Foreign(Import(k)!Staged(i)) =
                  Import(k)!Foreign(call[i].before) \cup {call[i].source}
<1>1. /\ call[i].before \in Import(k)!Rows /\ call[i].source \in Importings[k].source
  BY ImportFacts DEF Import!Work
<1>2. Import(k)!Once(call[i].before) /\ call[i].source \notin Import(k)!Foreign(call[i].before)
  BY ImportFacts DEF Import!Knows
<1>3. PICK row \in Import(k)!Row : row = Import(k)!RowOf(call[i].source, call[i].before)
                             /\ row.origin = call[i].source
  BY <1>1, RowOfTyped
<1> QED BY <1>1, <1>2, <1>3, ForeignAppend DEF Import!Staged

\* An import reads the ledger back, answers, and gives up its lock and its stage.
LEMMA ReadBackKeeps ==
    ASSUME NEW k \in DOMAIN Importings, Import(k)!ImportInv,
           NEW i \in Importings[k].importer, Import(k)!ReadBack(i)
    PROVE  Import(k)!ImportInv'
<1>1. /\ call[i] # Nothing /\ call[i].step = "read_back" /\ call[i] \in Import(k)!Work
      /\ edited' = edited /\ file' = file /\ rows' = rows
      /\ swapped' = swapped /\ ledger_lock' = ledger_lock
      /\ writing' = writing /\ saved' = saved
      /\ import_lock' = Nothing /\ stages' = stages \ {i}
  BY ImportFacts DEF Import!ReadBack, Import!InStep, Import!store, Import!writers
<1>2. import_lock = i /\ swapped[i]
  BY <1>1, ImportFacts DEF Import!Knows, Import!Holds, Import!InStep
<1>3. crashes' \in 0 .. Importings[k].max_crashes
  BY ImportCrashes, ImportFacts DEF Import!ReadBack
<1>4. PICK status \in {"absorbed", "blocked"},
           commit \in {"applied_verified", "applied_unverified"} :
          Import(k)!Returns(i, status, commit) /\ (status = "absorbed" => rows = Import(k)!Staged(i))
  BY DEF Import!ReadBack
<1> DEFINE reply == [status |-> status, commit |-> commit, source |-> call[i].source,
                     seen |-> <<>>]
<1>5. call' = [call EXCEPT ![i] = Nothing] /\ answer' = [answer EXCEPT ![i] = reply]
  BY <1>4 DEF Import!Returns
<1>6. reply \in Import(k)!Answers /\ reply.commit # "none" /\ reply.source = call[i].source
      /\ reply.status = status
  BY <1>1 DEF Import!Answers, Import!Work, Import!Rows
<1> HIDE DEF reply
<1>7. reply.status \in {"absorbed", "already_present"} => reply.source \in Import(k)!Origins
  <2> SUFFICES ASSUME status = "absorbed" PROVE call[i].source \in Import(k)!Origins
    BY <1>6
  <2>1. call[i].source \in Import(k)!Foreign(rows)
    BY <1>1, <1>4, StagedRows
  <2> QED BY <2>1, OriginsAreForeign
<1>8. Import(k)!Knows(i)'
  <2>1. call'[i] = Nothing
    BY <1>5, ImportFacts
  <2> QED BY <2>1 DEF Import!Knows, Import!Holds, Import!InStep
<1> QED BY <1>1, <1>2, <1>3, <1>5, <1>6, <1>7, <1>8, ImportFacts, ImportGoesOn

\* An import dies, and the system gives up its lock.
LEMMA ImporterDiesKeeps ==
    ASSUME NEW k \in DOMAIN Importings, Import(k)!ImportInv, NEW i \in Importings[k].importer,
           Import(k)!ImporterDies(i)
    PROVE  Import(k)!ImportInv'
<1>1. /\ call' = [call EXCEPT ![i] = Nothing] /\ answer' = [answer EXCEPT ![i] = Import(k)!NoAnswer]
      /\ import_lock' = IF import_lock = i THEN Nothing ELSE import_lock
      /\ edited' = edited /\ file' = file /\ rows' = rows /\ stages' = stages
      /\ swapped' = swapped /\ ledger_lock' = ledger_lock
      /\ writing' = writing /\ saved' = saved
      /\ crashes < Importings[k].max_crashes /\ crashes' = crashes + 1
  BY DEF Import!ImporterDies, Import!store, Import!writers
<1>2. Import(k)!NoAnswer \in Import(k)!Answers /\ Import(k)!NoAnswer.status = "none"
  BY DEF Import!NoAnswer, Import!Answers, Import!Rows
<1>3. Import(k)!Knows(i)'
  <2>1. call'[i] = Nothing
    BY <1>1, ImportFacts
  <2> QED BY <2>1 DEF Import!Knows, Import!Holds, Import!InStep
<1> QED BY <1>1, <1>2, <1>3, ImportCrashes, ImportGoesOn

\* What was answered stays in a ledger that keeps its foreign observations.
LEMMA AnswersStay ==
    ASSUME NEW k \in DOMAIN Importings, Import(k)!ImportInv, answer' = answer,
           Import(k)!Foreign(rows) \subseteq Import(k)!Foreign(rows')
    PROVE  Import(k)!AnsweredIsThere'
<1> SUFFICES ASSUME NEW i \in Importings[k].importer, answer[i].status \in {"absorbed",
                    "already_present"}
             PROVE  answer[i].source \in Import(k)!Origins'
  BY DEF Import!AnsweredIsThere
<1>1. answer[i].source \in Import(k)!Origins /\ answer[i].source \in Importings[k].source \cup {Nothing}
      /\ rows \in Import(k)!Rows
  BY ImportFacts DEF Import!Answers
<1>2. Nothing \notin Import(k)!Origins
  <2>1. ASSUME NEW j \in DOMAIN rows PROVE rows[j].origin # Nothing
    <3>1. rows[j] \in Import(k)!Row
      BY <1>1 DEF Import!Rows
    <3> QED BY <3>1, ImportConstants DEF Import!Row
  <2> QED BY <2>1 DEF Import!Origins
<1>3. answer[i].source \in Import(k)!Foreign(rows)
  BY <1>1, <1>2, OriginsAreForeign
<1> QED BY <1>3, OriginsAreForeign

\* The stage takes the ledger's place: rows a writer appended meanwhile are lost, but
\* no source gets a second row.
LEMMA SwapKeeps ==
    ASSUME NEW k \in DOMAIN Importings, Import(k)!ImportInv,
           NEW i \in Importings[k].importer, Import(k)!Swap(i)
    PROVE  Import(k)!ImportInv'
<1> DEFINE next == [call[i] EXCEPT !.step = "read_back"]
<1>1. /\ call[i] # Nothing /\ call[i].step = "swap" /\ call[i] \in Import(k)!Work
      /\ file' = file + 1 /\ rows' = Import(k)!Staged(i)
      /\ swapped' = [swapped EXCEPT ![i] = TRUE] /\ call' = [call EXCEPT ![i] = next]
      /\ edited' = edited /\ import_lock' = import_lock /\ stages' = stages
      /\ answer' = answer /\ ledger_lock' = ledger_lock
      /\ writing' = writing /\ saved' = saved /\ crashes' = crashes
  BY ImportFacts DEF Import!Swap, Import!InStep, Import!Goes, Import!store, Import!writers
<1>2. next \in Import(k)!Work /\ next.step = "read_back" /\ next.before = call[i].before
      /\ next.source = call[i].source /\ next.expected = call[i].expected
  BY <1>1 DEF Import!Work
<1> HIDE DEF next
<1>3. /\ next # Nothing /\ call'[i] = next /\ swapped'[i] = TRUE
      /\ call' \in [Importings[k].importer -> {Nothing} \cup Import(k)!Work]
      /\ swapped' \in [Importings[k].importer -> BOOLEAN]
      /\ \A j \in Importings[k].importer \ {i} : call'[j] = call[j] /\ swapped'[j] = swapped[j]
  BY <1>1, <1>2, ImportFacts, ImportConstants
<1>4. /\ rows' \in Import(k)!Rows /\ Import(k)!Once(rows')
      /\ Import(k)!Foreign(rows') = Import(k)!Foreign(call[i].before) \cup {call[i].source}
  <2>1. Import(k)!Staged(i) \in Import(k)!Rows /\ Import(k)!Once(Import(k)!Staged(i))
        /\ Import(k)!Foreign(Import(k)!Staged(i)) =
               Import(k)!Foreign(call[i].before) \cup {call[i].source}
    BY <1>1, StagedRows
  <2> QED BY <1>1, <2>1
<1>5. import_lock = i /\ i \in stages /\ Import(k)!Foreign(rows) \subseteq Import(k)!Foreign(call[i].before)
  BY <1>1, ImportFacts DEF Import!Knows, Import!Holds, Import!InStep
<1>6. Import(k)!Typed'
  <2>1. file' \in Nat
    BY <1>1 DEF Import!ImportInv, Import!Typed
  <2> QED BY <1>1, <1>3, <1>4, <2>1 DEF Import!ImportInv, Import!Typed
<1>7. Import(k)!ImportedOnce'
  BY <1>4 DEF Import!ImportedOnce, Import!Once
<1>8. Import(k)!AnsweredIsThere'
  BY <1>1, <1>4, <1>5, AnswersStay
<1>9. Import(k)!ZeroMeansNothing'
  BY <1>1, <1>3 DEF Import!ImportInv, Import!ZeroMeansNothing
<1>10. Import(k)!Knows(i)'
  <2>1. /\ Import(k)!Once(call[i].before) /\ call[i].source \notin Import(k)!Foreign(call[i].before)
        /\ call[i].expected # Nothing => call[i].before = call[i].expected
    BY <1>1, ImportFacts DEF Import!Knows
  <2> QED BY <1>1, <1>2, <1>3, <1>5, <2>1
     DEF Import!Knows, Import!Holds, Import!InStep, Import!Once, Import!Foreign
<1>11. ASSUME NEW j \in Importings[k].importer \ {i} PROVE Import(k)!Knows(j)'
  <2>1. Import(k)!Knows(j) /\ ~Import(k)!Holds(j)
    BY <1>5, ImportFacts DEF Import!Knows
  <2>2. ~Import(k)!Holds(j)' /\ ~Import(k)!InStep(j, "stage")' /\ ~Import(k)!InStep(j, "swap")'
        /\ ~Import(k)!InStep(j, "read_back")'
    BY <1>3, <2>1 DEF Import!Holds, Import!InStep
  <2> QED BY <1>3, <2>1, <2>2 DEF Import!Knows, Import!Once, Import!Foreign
<1> QED BY <1>6, <1>7, <1>8, <1>9, <1>10, <1>11 DEF Import!ImportInv

\* A step of a writer that leaves the rows as they are, or an edit of a source.
LEMMA ImportIsUntouched ==
    ASSUME NEW k \in DOMAIN Importings, Import(k)!ImportInv, Import(k)!Typed',
           rows' = rows, call' = call, answer' = answer, swapped' = swapped,
           import_lock' = import_lock, stages' = stages
    PROVE  Import(k)!ImportInv'
<1>1. Import(k)!ImportedOnce' /\ Import(k)!ZeroMeansNothing'
  BY DEF Import!ImportInv, Import!ImportedOnce, Import!ZeroMeansNothing
<1>2. Import(k)!AnsweredIsThere'
  BY DEF Import!ImportInv, Import!AnsweredIsThere, Import!Origins
<1>3. ASSUME NEW j \in Importings[k].importer PROVE Import(k)!Knows(j)'
  BY ImportFacts DEF Import!Knows, Import!Holds, Import!InStep, Import!Foreign, Import!Once
<1> QED BY <1>1, <1>2, <1>3 DEF Import!ImportInv

\* A writer loads, opens, appends and reads back, with no lock.
LEMMA WriterKeeps ==
    ASSUME NEW k \in DOMAIN Importings, Import(k)!ImportInv, NEW w \in Importings[k].writer,
           Import(k)!WriterLoads(w) \/ Import(k)!WriterOpens(w) \/ Import(k)!WriterAppends(w)
           \/ Import(k)!WriterReadsBack(w)
    PROVE  Import(k)!ImportInv'
<1>1. /\ edited' = edited /\ file' = file /\ import_lock' = import_lock
      /\ stages' = stages /\ call' = call /\ answer' = answer
      /\ swapped' = swapped /\ crashes' = crashes
  BY DEF Import!WriterLoads, Import!WriterOpens, Import!WriterAppends,
         Import!WriterReadsBack, Import!store
<1>2. /\ rows \in Import(k)!Rows /\ file \in Nat
      /\ writing \in [Importings[k].writer -> {Nothing} \cup Import(k)!Appends]
      /\ ledger_lock \in Importings[k].writer \cup {Nothing}
  BY DEF Import!ImportInv, Import!Typed
<1>3. \/ rows' = rows
      \/ /\ writing[w] # Nothing
         /\ rows' = Append(rows, Import(k)!RowOf(w, writing[w].loaded))
  BY DEF Import!WriterLoads, Import!WriterOpens, Import!WriterAppends,
         Import!WriterReadsBack, Import!store
<1>4. rows' \in Import(k)!Rows /\ Import(k)!Foreign(rows') = Import(k)!Foreign(rows)
      /\ (Import(k)!Once(rows) => Import(k)!Once(rows'))
  <2>1. CASE rows' = rows
    BY <1>2, <2>1
  <2>2. CASE /\ writing[w] # Nothing
             /\ rows' = Append(rows, Import(k)!RowOf(w, writing[w].loaded))
    <3>1. writing[w].loaded \in Import(k)!Rows
      BY <1>2, <2>2 DEF Import!Appends
    <3>2. PICK row \in Import(k)!Row : row = Import(k)!RowOf(w, writing[w].loaded) /\ row.origin = w
      BY <3>1, RowOfTyped
    <3>3. w \notin Importings[k].source /\ w \notin Import(k)!Foreign(rows)
      BY ImportConstants DEF Import!Foreign
    <3>4. /\ Import(k)!Foreign(Append(rows, row)) = Import(k)!Foreign(rows) \cup ({row.origin} \cap Importings[k].source)
          /\ Append(rows, row) \in Import(k)!Rows
          /\ Import(k)!Once(rows) /\ row.origin \notin Import(k)!Foreign(rows) => Import(k)!Once(Append(rows, row))
      BY <1>2, ForeignAppend
    <3>5. rows' = Append(rows, row)
      BY <2>2, <3>2
    <3> HIDE DEF Import!Foreign, Import!Once
    <3> QED BY <3>2, <3>3, <3>4, <3>5
  <2> QED BY <1>3, <2>1, <2>2
<1>5. writing' \in [Importings[k].writer -> {Nothing} \cup Import(k)!Appends]
      /\ ledger_lock' \in Importings[k].writer \cup {Nothing}
  <2>1. CASE Import(k)!WriterLoads(w)
    BY <1>2, <2>1 DEF Import!WriterLoads, Import!Appends
  <2>2. CASE Import(k)!WriterOpens(w)
    BY <1>2, <2>2 DEF Import!WriterOpens, Import!Appends
  <2>3. CASE Import(k)!WriterAppends(w)
    BY <1>2, <2>3 DEF Import!WriterAppends, Import!WriterRaises, Import!Appends
  <2>4. CASE Import(k)!WriterReadsBack(w)
    BY <1>2, <2>4 DEF Import!WriterReadsBack, Import!WriterRaises, Import!Appends
  <2> QED BY <2>1, <2>2, <2>3, <2>4
<1>6. Import(k)!Typed'
  BY <1>1, <1>4, <1>5 DEF Import!ImportInv, Import!Typed
<1>7. Import(k)!ImportedOnce'
  <2>1. Import(k)!Once(rows)
    BY DEF Import!ImportInv, Import!ImportedOnce, Import!Once
  <2>2. Import(k)!Once(rows')
    BY <1>4, <2>1
  <2> QED BY <2>2 DEF Import!ImportedOnce, Import!Once
<1>8. Import(k)!AnsweredIsThere'
  BY <1>1, <1>4, AnswersStay
<1>9. Import(k)!ZeroMeansNothing'
  BY <1>1 DEF Import!ImportInv, Import!ZeroMeansNothing
<1>10. ASSUME NEW j \in Importings[k].importer PROVE Import(k)!Knows(j)'
  <2>1. Import(k)!Knows(j)
    BY ImportFacts
  <2>2. call' = call /\ swapped' = swapped /\ import_lock' = import_lock /\ stages' = stages
        /\ Import(k)!Foreign(rows)' = Import(k)!Foreign(rows)
    BY <1>1, <1>4
  <2> QED BY <2>1, <2>2 DEF Import!Knows, Import!Holds, Import!InStep, Import!Foreign,
                            Import!Once
<1> QED BY <1>6, <1>7, <1>8, <1>9, <1>10 DEF Import!ImportInv

\* Every step of an import keeps its invariant.
LEMMA ImportStep ==
    ASSUME NEW k \in DOMAIN Importings, Import(k)!ImportInv, Import(k)!Next
    PROVE  Import(k)!ImportInv'
<1>1. ASSUME NEW i \in Importings[k].importer,
             \/ \E source \in Importings[k].source, apply, pinned \in BOOLEAN :
                    Import(k)!StartImport(i, source, apply, pinned)
             \/ Import(k)!Inspect(i) \/ Import(k)!TakeLock(i) \/ Import(k)!Compare(i) \/ Import(k)!CheckStage(i)
             \/ Import(k)!Swap(i) \/ Import(k)!SwapFails(i) \/ Import(k)!ReadBack(i) \/ Import(k)!ImporterDies(i)
      PROVE  Import(k)!ImportInv'
  BY <1>1, StartImportKeeps, InspectKeeps, TakeLockKeeps, CompareKeeps, CheckStageKeeps,
     SwapKeeps, SwapFailsKeeps, ReadBackKeeps, ImporterDiesKeeps
<1>2. ASSUME NEW source \in Importings[k].source, Import(k)!EditSource(source)
      PROVE  Import(k)!ImportInv'
  <2>1. /\ edited' = edited \cup {source} /\ file' = file /\ rows' = rows
        /\ import_lock' = import_lock /\ stages' = stages /\ call' = call
        /\ answer' = answer /\ swapped' = swapped /\ ledger_lock' = ledger_lock
        /\ writing' = writing /\ crashes' = crashes
    BY <1>2 DEF Import!EditSource, Import!store, Import!writers
  <2>2. Import(k)!Typed'
    BY <2>1 DEF Import!ImportInv, Import!Typed
  <2> QED BY <2>1, <2>2, ImportIsUntouched
<1> QED BY <1>1, <1>2, WriterKeeps DEF Import!Next

\* A step of another part leaves an import as it is.
LEMMA ImportStands ==
    ASSUME NEW k \in DOMAIN Importings, Import(k)!ImportInv, UNCHANGED Import(k)!vars
    PROVE  Import(k)!ImportInv'
<1>1. /\ edited' = edited /\ file' = file /\ rows' = rows /\ import_lock' = import_lock
      /\ stages' = stages /\ call' = call /\ answer' = answer /\ swapped' = swapped
      /\ ledger_lock' = ledger_lock /\ writing' = writing /\ crashes' = crashes
  BY DEF Import!vars
<1>2. Import(k)!Typed'
  BY <1>1 DEF Import!ImportInv, Import!Typed
<1> QED BY <1>1, <1>2, ImportIsUntouched

\* The invariant is what the types and the properties of the import say, and more.
LEMMA ImportMeans ==
    ASSUME NEW k \in DOMAIN Importings, Import(k)!ImportInv

         PROVE  /\ Import(k)!TypeOK /\ Import(k)!AnsweredIsThere /\ Import(k)!ZeroMeansNothing /\ Import(k)!ImportedOnce
<1>1. ASSUME NEW i \in Importings[k].importer
      PROVE  /\ Import(k)!InStep(i, "stage") \/ Import(k)!InStep(i, "swap") \/ Import(k)!InStep(i, "read_back")
                     => i \in stages /\ import_lock = i
             /\ answer[i].status \in {"none", "blocked", "ready", "already_present",
                                      "absorbed"}
  BY ImportFacts DEF Import!Knows, Import!Holds, Import!Answers
<1> QED BY <1>1 DEF Import!ImportInv, Import!Typed, Import!TypeOK

------------------------------------------------------------------------------
(***************************************************************************)
(* The intake of one URL                                                   *)
(***************************************************************************)

\* What is left of the steps of a command when one is done.
LEMMA NextTodo ==
    ASSUME NEW todo \in Intake!Todos, todo # <<>>
    PROVE  /\ Tail(todo) \in Intake!Todos
           /\ Head(todo) \in {"raw", "ai", "compare", "skip", "import", "synced", "receipt",
                              "cover", "refresh", "save", "latest", "decide", "guide", "book",
                              "plan"}
           /\ Tail(todo) \in {<<"decide">>, <<"guide">>} => Head(todo) = "latest"
           /\ Tail(todo) = <<"ai", "synced">> => Head(todo) = "import"
           /\ Tail(todo) = <<"synced">> => todo = <<"ai", "synced">>
           /\ Tail(todo) # <<"import", "ai", "synced">>
           /\ Head(todo) = "decide" => todo = <<"decide">>
           /\ Head(todo) = "guide" => todo = <<"guide">>
           /\ Head(todo) = "synced" => todo = <<"synced">>
           /\ Head(todo) = "import" => todo = <<"import", "ai", "synced">>
<1>1. CASE todo = <<"raw", "ai", "compare">>
  BY <1>1 DEF Intake!Todos
<1>2. CASE todo = <<"ai", "compare">>
  BY <1>2 DEF Intake!Todos
<1>3. CASE todo = <<"compare">>
  BY <1>3 DEF Intake!Todos
<1>4. CASE todo = <<"skip">>
  BY <1>4 DEF Intake!Todos
<1>5. CASE todo = <<"import", "ai", "synced">>
  BY <1>5 DEF Intake!Todos
<1>6. CASE todo = <<"ai", "synced">>
  BY <1>6 DEF Intake!Todos
<1>7. CASE todo = <<"synced">>
  BY <1>7 DEF Intake!Todos
<1>8. CASE todo = <<"raw", "ai", "receipt", "cover">>
  BY <1>8 DEF Intake!Todos
<1>9. CASE todo = <<"ai", "receipt", "cover">>
  BY <1>9 DEF Intake!Todos
<1>10. CASE todo = <<"receipt", "cover">>
  BY <1>10 DEF Intake!Todos
<1>11. CASE todo = <<"cover">>
  BY <1>11 DEF Intake!Todos
<1>12. CASE todo = <<"raw", "ai", "refresh">>
  BY <1>12 DEF Intake!Todos
<1>13. CASE todo = <<"ai", "refresh">>
  BY <1>13 DEF Intake!Todos
<1>14. CASE todo = <<"refresh">>
  BY <1>14 DEF Intake!Todos
<1>15. CASE todo = <<"save", "latest", "decide">>
  BY <1>15 DEF Intake!Todos
<1>16. CASE todo = <<"latest", "decide">>
  BY <1>16 DEF Intake!Todos
<1>17. CASE todo = <<"decide">>
  BY <1>17 DEF Intake!Todos
<1>18. CASE todo = <<"save", "raw", "ai", "latest", "guide">>
  BY <1>18 DEF Intake!Todos
<1>19. CASE todo = <<"save", "ai", "latest", "guide">>
  BY <1>19 DEF Intake!Todos
<1>20. CASE todo = <<"raw", "ai", "latest", "guide">>
  BY <1>20 DEF Intake!Todos
<1>21. CASE todo = <<"ai", "latest", "guide">>
  BY <1>21 DEF Intake!Todos
<1>22. CASE todo = <<"latest", "guide">>
  BY <1>22 DEF Intake!Todos
<1>23. CASE todo = <<"guide">>
  BY <1>23 DEF Intake!Todos
<1>24. CASE todo = <<"raw", "ai", "book">>
  BY <1>24 DEF Intake!Todos
<1>25. CASE todo = <<"ai", "book">>
  BY <1>25 DEF Intake!Todos
<1>26. CASE todo = <<"book">>
  BY <1>26 DEF Intake!Todos
<1>27. CASE todo = <<"ai", "raw", "plan">>
  BY <1>27 DEF Intake!Todos
<1>28. CASE todo = <<"ai", "plan">>
  BY <1>28 DEF Intake!Todos
<1>29. CASE todo = <<"raw", "plan">>
  BY <1>29 DEF Intake!Todos
<1>30. CASE todo = <<"plan">>
  BY <1>30 DEF Intake!Todos
<1> QED BY <1>1, <1>2, <1>3, <1>4, <1>5, <1>6, <1>7, <1>8, <1>9, <1>10, <1>11, <1>12,
           <1>13, <1>14, <1>15, <1>16, <1>17, <1>18, <1>19, <1>20, <1>21, <1>22, <1>23,
           <1>24, <1>25, <1>26, <1>27, <1>28, <1>29, <1>30 DEF Intake!Todos

\* A list of steps that none of the lists that rest on something is.
Plain(todo) ==
    /\ todo \in Intake!Todos
    /\ todo \notin {<<"import", "ai", "synced">>, <<"ai", "synced">>, <<"synced">>,
                    <<"decide">>, <<"guide">>}

\* The lists of steps that rest on nothing are plain.
LEMMA PlainTodos ==
    /\ Plain(<<>>) /\ Plain(<<"raw", "ai", "compare">>) /\ Plain(<<"skip">>)
    /\ Plain(<<"raw", "ai", "receipt", "cover">>) /\ Plain(<<"ai", "receipt", "cover">>)
    /\ Plain(<<"raw", "ai", "refresh">>) /\ Plain(<<"ai", "refresh">>)
    /\ Plain(<<"save", "latest", "decide">>) /\ Plain(<<"latest", "decide">>)
    /\ Plain(<<"save", "raw", "ai", "latest", "guide">>)
    /\ Plain(<<"save", "ai", "latest", "guide">>)
    /\ Plain(<<"raw", "ai", "latest", "guide">>) /\ Plain(<<"ai", "latest", "guide">>)
    /\ Plain(<<"raw", "ai", "book">>) /\ Plain(<<"ai", "raw", "plan">>) /\ Plain(<<"ai", "plan">>)
BY DEF Plain, Intake!Todos

\* What is assumed of the captures, rows, requests and receipts of an intake.
LEMMA IntakeConstants ==
    /\ \A c \in DOMAIN Covers : Covers[c].start \in Nat /\ Covers[c].end \in Nat
    /\ CacheRows \cup LedgerRows \subseteq Intake!Row /\ Asks \subseteq Intake!Ask
    /\ \A r \in CacheRows \cup LedgerRows : Intake!Fits(r)
    /\ \A r \in Receipts : r.valid =>
           /\ r.capture \in DOMAIN Covers
           /\ r.start \in Nat /\ r.start >= Covers[r.capture].start
           /\ r.end \in Nat /\ r.end <= Covers[r.capture].end
    /\ Nothing \notin (DOMAIN Covers) \cup Nat \cup Receipts \cup Intake!Verdicts
    /\ MaxAge \in Nat /\ MaxTime \in Nat /\ MaxChanges \in Nat /\ MaxRows \in Nat
<1>1. Intake!IntakeAssumption
  BY TextStoreAssumption
<1> QED BY <1>1 DEF Intake!IntakeAssumption, Intake!Captures, Intake!Fits

\* The lists that commands begin with or go on with are plain with or without their first
\* step.
LEMMA FromIsPlain ==
    ASSUME NEW first \in BOOLEAN
    PROVE  /\ Plain(Intake!From(first, <<"raw", "ai", "receipt", "cover">>))
           /\ Plain(Intake!From(first, <<"raw", "ai", "refresh">>))
           /\ Plain(Intake!From(first, <<"save", "latest", "decide">>))
           /\ Plain(Intake!From(first, <<"save", "raw", "ai", "latest", "guide">>))
           /\ Plain(Intake!From(first, <<"save", "ai", "latest", "guide">>))
<1>1. /\ Tail(<<"raw", "ai", "receipt", "cover">>) = <<"ai", "receipt", "cover">>
      /\ Tail(<<"raw", "ai", "refresh">>) = <<"ai", "refresh">>
      /\ Tail(<<"save", "latest", "decide">>) = <<"latest", "decide">>
      /\ Tail(<<"save", "raw", "ai", "latest", "guide">>) = <<"raw", "ai", "latest", "guide">>
      /\ Tail(<<"save", "ai", "latest", "guide">>) = <<"ai", "latest", "guide">>
  OBVIOUS
<1>2. CASE first
  BY <1>2, PlainTodos DEF Intake!From
<1>3. CASE ~first
  BY <1>1, <1>3, PlainTodos DEF Intake!From
<1> QED BY <1>2, <1>3

\* What a command is to do when it begins.
LEMMA StepsArePlain ==
    ASSUME NEW ask \in Asks
    PROVE  Plain(Intake!Steps(ask))
<1>1. ask \in Intake!Ask
  BY IntakeConstants
<1>2. ask.kind \in {"verify", "coverage", "fast", "bridge", "book", "plan"}
      /\ ask.cache \in BOOLEAN /\ ask.text \in BOOLEAN
  BY <1>1 DEF Intake!Ask, Intake!Kinds
<1>3. ASSUME NEW first \in BOOLEAN
      PROVE  /\ Plain(Intake!From(first, <<"raw", "ai", "receipt", "cover">>))
             /\ Plain(Intake!From(first, <<"raw", "ai", "refresh">>))
             /\ Plain(Intake!From(first, <<"save", "raw", "ai", "latest", "guide">>))
             /\ Plain(Intake!From(first, <<"save", "ai", "latest", "guide">>))
  BY FromIsPlain
<1> QED BY <1>2, <1>3, PlainTodos DEF Intake!Steps

\* Finitely many numbers have a greatest one: otherwise each has a next one, no two of
\* them the same one, and none has the first.
LEMMA HasGreatest ==
    ASSUME NEW S, S \subseteq Nat, S # {}, IsFiniteSet(S)
    PROVE  \E i \in S : \A j \in S : i >= j
<1> SUFFICES ASSUME \A i \in S : \E j \in S : j > i PROVE FALSE
  OBVIOUS
<1>1. PICK m \in S : \A j \in S : m <= j
  BY HasFirst
<1>2. \A i \in S : \E j \in S : j > i /\ \A h \in S : h > i => j <= h
  <2> TAKE i \in S
  <2> DEFINE above == {j \in S : j > i}
  <2>1. above \subseteq Nat /\ above # {}
    OBVIOUS
  <2>2. PICK j \in above : \A h \in above : j <= h
    <3> HIDE DEF above
    <3> QED BY <2>1, HasFirst
  <2> QED BY <2>2
<1> DEFINE next == [i \in S |-> CHOOSE j \in S : j > i /\ \A h \in S : h > i => j <= h]
<1>3. \A i \in S : /\ next[i] \in S /\ next[i] > i
                   /\ \A h \in S : h > i => next[i] <= h
  BY <1>2
<1>4. next \in [S -> S \ {m}]
  <2> HIDE DEF next
  <2>1. ASSUME NEW i \in S PROVE next[i] # m
    BY <1>1, <1>3
  <2>2. next = [i \in S |-> next[i]]
    BY DEF next
  <2> QED BY <1>3, <2>1, <2>2
<1>5. /\ IsFiniteSet(S \ {m}) /\ Cardinality(S \ {m}) < Cardinality(S)
  <2>1. IsFiniteSet(S \ {m}) /\ Cardinality(S \ {m}) = Cardinality(S) - 1
    BY FS_RemoveElement
  <2>2. Cardinality(S) \in Nat
    BY FS_CardinalityType
  <2> HIDE DEF next
  <2> QED BY <2>1, <2>2
<1>6. \E i, j \in S : i # j /\ next[i] = next[j]
  <2> HIDE DEF next
  <2> QED BY <1>4, <1>5, FS_PigeonHole
<1>7. PICK i, j \in S : i # j /\ next[i] = next[j]
  BY <1>6
<1> HIDE DEF next
<1>8. i \in Nat /\ j \in Nat /\ next[i] \in Nat /\ next[j] \in Nat
  BY <1>3
<1>9. CASE i < j
  BY <1>3, <1>7, <1>8, <1>9
<1>10. CASE j < i
  BY <1>3, <1>7, <1>8, <1>10
<1> QED BY <1>7, <1>8, <1>9, <1>10

\* What the elements of a sequence are mapped to is a finite set.
LEMMA ImagesAreFinite ==
    ASSUME NEW n \in Nat, NEW f, NEW T, T = {f[i] : i \in 1 .. n}
    PROVE  IsFiniteSet(T)
<1> DEFINE g == [i \in 1 .. n |-> f[i]]
<1>1. IsFiniteSet(1 .. n)
  BY PlacesAreFinite
<1>2. g \in Surjection(1 .. n, T)
  BY DEF Surjection
<1> QED BY <1>1, <1>2, FS_Surjection

\* The elements of a sequence with one appended, and of two sequences after each other.
LEMMA AppendedSet ==
    ASSUME NEW S, NEW s \in Seq(S), NEW e \in S
    PROVE  Intake!ToSet(Append(s, e)) = Intake!ToSet(s) \cup {e}
<1> DEFINE t == Append(s, e)
           n == Len(s)
<1>1. /\ n \in Nat /\ DOMAIN s = 1 .. n /\ DOMAIN t = 1 .. n + 1
      /\ \A i \in 1 .. n : t[i] = s[i]
      /\ t[n + 1] = e
  OBVIOUS
<1>2. 1 .. n + 1 = (1 .. n) \cup {n + 1}
  BY <1>1
<1> HIDE DEF t, n
<1>3. Intake!ToSet(t) \subseteq Intake!ToSet(s) \cup {e}
  BY <1>1, <1>2 DEF Intake!ToSet
<1>4. Intake!ToSet(s) \cup {e} \subseteq Intake!ToSet(t)
  BY <1>1, <1>2 DEF Intake!ToSet
<1> QED BY <1>3, <1>4 DEF t

\* The elements of two sequences joined are the elements of either.
LEMMA JoinedSet ==
    ASSUME NEW S, NEW s \in Seq(S), NEW t \in Seq(S)
    PROVE  s \o t \in Seq(S) /\ Intake!ToSet(s \o t) = Intake!ToSet(s) \cup Intake!ToSet(t)
<1> DEFINE u == s \o t
           n == Len(s)
           m == Len(t)
<1>1. /\ n \in Nat /\ m \in Nat /\ DOMAIN s = 1 .. n /\ DOMAIN t = 1 .. m
      /\ u \in Seq(S) /\ DOMAIN u = 1 .. n + m
      /\ \A i \in 1 .. n : u[i] = s[i]
      /\ \A i \in 1 .. m : u[n + i] = t[i]
  OBVIOUS
<1> HIDE DEF u, n, m
<1>2. ASSUME NEW i \in DOMAIN u PROVE u[i] \in Intake!ToSet(s) \cup Intake!ToSet(t)
  <2>1. CASE i <= n
    BY <1>1, <2>1 DEF Intake!ToSet
  <2>2. CASE ~(i <= n)
    <3>1. i - n \in 1 .. m /\ n + (i - n) = i
      BY <1>1, <2>2
    <3>2. u[i] = t[i - n]
      BY <1>1, <3>1
    <3> QED BY <1>1, <3>1, <3>2 DEF Intake!ToSet
  <2> QED BY <2>1, <2>2
<1>3. ASSUME NEW i \in 1 .. n PROVE s[i] \in Intake!ToSet(u)
  <2>1. i \in DOMAIN u
    BY <1>1
  <2> QED BY <1>1, <2>1 DEF Intake!ToSet
<1>4. ASSUME NEW i \in 1 .. m PROVE t[i] \in Intake!ToSet(u)
  <2>1. n + i \in DOMAIN u
    BY <1>1
  <2> QED BY <1>1, <2>1 DEF Intake!ToSet
<1>5. Intake!ToSet(u) = Intake!ToSet(s) \cup Intake!ToSet(t)
  <2>1. Intake!ToSet(u) \subseteq Intake!ToSet(s) \cup Intake!ToSet(t)
    BY <1>2, Zenon DEF Intake!ToSet
  <2>2. Intake!ToSet(s) \subseteq Intake!ToSet(u) /\ Intake!ToSet(t) \subseteq Intake!ToSet(u)
    BY <1>1, <1>3, <1>4, Zenon DEF Intake!ToSet
  <2> QED BY <2>1, <2>2, Zenon
<1> QED BY <1>1, <1>5 DEF u

\* The elements of a sequence over a set are in it, and only the empty one has none.
LEMMA SetOfSequence ==
    ASSUME NEW S, NEW s \in Seq(S)
    PROVE  Intake!ToSet(s) \subseteq S /\ (Intake!ToSet(s) = {} <=> s = <<>>)
<1>1. DOMAIN s = 1 .. Len(s) /\ Len(s) \in Nat /\ \A i \in 1 .. Len(s) : s[i] \in S
  OBVIOUS
<1>2. s # <<>> => 1 \in DOMAIN s
  OBVIOUS
<1>3. s = <<>> => DOMAIN s = {}
  OBVIOUS
<1> QED BY <1>1, <1>2, <1>3 DEF Intake!ToSet

\* The rows at some places are a sequence of just those rows.
LEMMA PickedRows ==
    ASSUME NEW S, NEW s \in Seq(S), NEW places
    PROVE  /\ Intake!Picked(s, places) \in Seq(S)
           /\ Intake!ToSet(Intake!Picked(s, places)) = {s[i] : i \in (DOMAIN s) \cap places}
<1> DEFINE n == Len(s)
           After(l, i) == IF i \in places THEN Append(l, s[i]) ELSE l
           step == [i \in 1 .. n |-> [l \in Seq(S) |-> After(l, i)]]
           Solves(f) == f = [i \in 0 .. n |->
                                IF i = 0 THEN <<>>
                                ELSE IF i \in places THEN Append(f[i - 1], s[i]) ELSE f[i - 1]]
           kept == CHOOSE f : Solves(f)
<1>1. n \in Nat /\ DOMAIN s = 1 .. n /\ \A i \in 1 .. n : s[i] \in S
  OBVIOUS
<1>2. \A i \in 1 .. n, l \in Seq(S) : After(l, i) \in Seq(S)
  BY <1>1
<1>3. step \in [1 .. n -> [Seq(S) -> Seq(S)]]
  BY <1>2
<1>4. \A i \in 1 .. n, l \in Seq(S) : step[i][l] = After(l, i)
  OBVIOUS
<1> HIDE DEF step
<1>5. PICK a : IsRun(a, n, Seq(S), <<>>, step)
  <2>1. <<>> \in Seq(S)
    OBVIOUS
  <2> HIDE DEF n
  <2> QED BY <1>1, <1>3, <2>1, RunExists
<1>6. Solves(a)
  <2>1. a = [i \in 0 .. n |-> a[i]] /\ a[0] = <<>>
    BY <1>5 DEF IsRun
  <2>2. ASSUME NEW i \in 0 .. n
        PROVE  a[i] = IF i = 0 THEN <<>>
                      ELSE IF i \in places THEN Append(a[i - 1], s[i]) ELSE a[i - 1]
    <3>1. CASE i = 0
      BY <2>1, <3>1
    <3>2. CASE i # 0
      <4>1. i \in 1 .. n /\ i - 1 \in 0 .. n
        BY <1>1, <3>2
      <4>2. a[i] = step[i][a[i - 1]] /\ a[i - 1] \in Seq(S)
        BY <1>5, <4>1 DEF IsRun
      <4>3. a[i] = After(a[i - 1], i)
        BY <1>4, <4>1, <4>2
      <4> QED BY <3>2, <4>3
    <3> QED BY <3>1, <3>2
  <2> HIDE DEF n
  <2> QED BY <2>1, <2>2
<1>7. Solves(kept)
  <2> HIDE DEF Solves
  <2> QED BY <1>6
<1>8. Intake!Picked(s, places) = kept[n]
  BY DEF Intake!Picked
<1> HIDE DEF kept
<1>9. kept = [i \in 0 .. n |-> kept[i]] /\ kept[0] = <<>>
      /\ \A i \in 1 .. n : kept[i] = After(kept[i - 1], i)
  <2> HIDE DEF n
  <2>1. kept = [i \in 0 .. n |-> kept[i]]
    BY <1>7
  <2>2. kept[0] = <<>>
    BY <1>1, <1>7
  <2>3. ASSUME NEW i \in 1 .. n PROVE kept[i] = After(kept[i - 1], i)
    <3>1. i \in 0 .. n /\ i # 0
      BY <1>1
    <3> QED BY <1>7, <3>1
  <2> HIDE DEF After, Solves
  <2> QED BY <2>1, <2>2, <2>3
<1>10. \A i \in 1 .. n : kept[i - 1] \in Seq(S) => kept[i] = step[i][kept[i - 1]]
  BY <1>4, <1>9
<1>11. IsRun(kept, n, Seq(S), <<>>, step)
  <2>1. <<>> \in Seq(S)
    OBVIOUS
  <2> HIDE DEF n, After
  <2> QED BY <1>1, <1>3, <1>9, <1>10, <2>1, SolvedIsRun
<1>12. \A i \in 0 .. n : kept[i] \in Seq(S)
  BY <1>11 DEF IsRun
<1> DEFINE Upto(i) == {s[j] : j \in (1 .. i) \cap places}
           G == {i \in 0 .. n : Intake!ToSet(kept[i]) = Upto(i)}
<1>13. 0 \in G
  <2>1. Intake!ToSet(<<>>) = {} /\ Upto(0) = {}
    BY DEF Intake!ToSet
  <2> QED BY <1>1, <1>9, <2>1
<1>14. ASSUME NEW i \in G, i < n PROVE i + 1 \in G
  <2>1. i \in 0 .. n /\ i + 1 \in 1 .. n /\ (i + 1) - 1 = i /\ i + 1 \in 0 .. n
        /\ Intake!ToSet(kept[i]) = Upto(i) /\ kept[i] \in Seq(S) /\ s[i + 1] \in S
    BY <1>1, <1>12, <1>14
  <2>2. kept[i + 1] = After(kept[i], i + 1)
    BY <1>9, <2>1
  <2>3. 1 .. (i + 1) = (1 .. i) \cup {i + 1}
    BY <2>1
  <2>4. CASE i + 1 \in places
    <3>1. kept[i + 1] = Append(kept[i], s[i + 1])
      BY <2>2, <2>4
    <3>2. Intake!ToSet(kept[i + 1]) = Intake!ToSet(kept[i]) \cup {s[i + 1]}
      BY <2>1, <3>1, AppendedSet
    <3>3. Upto(i + 1) = Upto(i) \cup {s[i + 1]}
      BY <2>3, <2>4
    <3> QED BY <2>1, <3>2, <3>3
  <2>5. CASE i + 1 \notin places
    <3>1. kept[i + 1] = kept[i]
      BY <2>2, <2>5
    <3>2. Upto(i + 1) = Upto(i)
      BY <2>3, <2>5
    <3> QED BY <2>1, <3>1, <3>2
  <2> QED BY <2>4, <2>5
<1>15. n \in G
  <2>1. G \subseteq 0 .. n
    OBVIOUS
  <2> HIDE DEF G, n
  <2> QED BY <1>1, <1>13, <1>14, <2>1, ReachesTop
<1> QED
  <2>1. Intake!ToSet(kept[n]) = Upto(n) /\ kept[n] \in Seq(S)
    BY <1>1, <1>12, <1>15
  <2>2. Upto(n) = {s[i] : i \in (DOMAIN s) \cap places}
    BY <1>1
  <2> QED BY <1>8, <2>1, <2>2

\* What is read off the rows: the ones that are not revoked, and those of a capture.
LEMMA MatchingRows ==
    ASSUME NEW s \in Intake!Rows
    PROVE  /\ Intake!Matching(s) \in Intake!Rows
           /\ Intake!ToSet(Intake!Matching(s)) = {r \in Intake!ToSet(s) : r.state # "revoked"}
<1> DEFINE places == {i \in DOMAIN s : s[i].state # "revoked"}
<1>1. /\ Intake!Picked(s, places) \in Intake!Rows
      /\ Intake!ToSet(Intake!Picked(s, places)) = {s[i] : i \in (DOMAIN s) \cap places}
  <2> HIDE DEF places
  <2> QED BY PickedRows DEF Intake!Rows
<1>2. Intake!Matching(s) = Intake!Picked(s, places)
  BY DEF Intake!Matching
<1>3. {s[i] : i \in (DOMAIN s) \cap places} = {r \in Intake!ToSet(s) : r.state # "revoked"}
  BY DEF Intake!ToSet
<1> HIDE DEF places
<1> QED BY <1>1, <1>2, <1>3

\* The rows of a receipt's capture, as a sequence and as a set.
LEMMA CaptureRows ==
    ASSUME NEW s \in Intake!Rows, NEW r \in Receipts
    PROVE  /\ Intake!OfCapture(s, r) \in Intake!Rows
           /\ Intake!ToSet(Intake!OfCapture(s, r)) =
                  {q \in Intake!ToSet(s) : r.capture # Nothing /\ q.capture = r.capture}
<1> DEFINE places == {i \in DOMAIN s : r.capture # Nothing /\ s[i].capture = r.capture}
<1>1. /\ Intake!Picked(s, places) \in Intake!Rows
      /\ Intake!ToSet(Intake!Picked(s, places)) = {s[i] : i \in (DOMAIN s) \cap places}
  <2> HIDE DEF places
  <2> QED BY PickedRows DEF Intake!Rows
<1>2. Intake!OfCapture(s, r) = Intake!Picked(s, places)
  <2>1. r # Nothing
    BY IntakeConstants
  <2> QED BY <2>1 DEF Intake!OfCapture
<1>3. {s[i] : i \in (DOMAIN s) \cap places} =
          {q \in Intake!ToSet(s) : r.capture # Nothing /\ q.capture = r.capture}
  BY DEF Intake!ToSet
<1> HIDE DEF places
<1> QED BY <1>1, <1>2, <1>3

\* The latest observation is a row, and no observed row is later.
LEMMA LatestRow ==
    ASSUME NEW s \in Intake!Rows
    PROVE  /\ Intake!LatestOf(s) \in 0 .. Len(s)
           /\ \A i \in DOMAIN s : s[i].event = "observed" => i <= Intake!LatestOf(s)
<1> DEFINE seen == Intake!Observed(s)
<1>1. /\ Len(s) \in Nat /\ DOMAIN s = 1 .. Len(s) /\ seen \subseteq 1 .. Len(s)
      /\ \A i \in DOMAIN s : s[i].event = "observed" => i \in seen
  BY DEF Intake!Rows, Intake!Observed
<1>2. CASE seen = {}
  BY <1>1, <1>2 DEF Intake!LatestOf
<1>3. CASE seen # {}
  <2>1. PICK i \in seen : \A j \in seen : j <= i
    <3> HIDE DEF seen
    <3> QED BY <1>1, <1>3, HasLast
  <2>2. \A j \in seen : i >= j
    BY <1>1, <2>1
  <2>3. Intake!Max(seen) \in seen /\ \A j \in seen : Intake!Max(seen) >= j
    <3> HIDE DEF seen
    <3> QED BY <2>2 DEF Intake!Max
  <2>4. Intake!LatestOf(s) = Intake!Max(seen)
    BY <1>3 DEF Intake!LatestOf
  <2> HIDE DEF seen
  <2>5. Intake!LatestOf(s) \in seen
    BY <2>3, <2>4
  <2>6. Intake!LatestOf(s) \in 1 .. Len(s) /\ Intake!LatestOf(s) \in 0 .. Len(s)
    <3>1. Intake!LatestOf(s) \in 1 .. Len(s)
      BY <1>1, <2>5, Zenon
    <3>2. 1 .. Len(s) \subseteq 0 .. Len(s)
      BY <1>1
    <3> QED BY <3>1, <3>2, Zenon
  <2>7. ASSUME NEW j \in DOMAIN s, s[j].event = "observed" PROVE j <= Intake!LatestOf(s)
    <3>1. j \in seen /\ j \in Nat
      BY <1>1, <2>7
    <3>2. Intake!LatestOf(s) >= j
      BY <2>3, <2>4, <3>1
    <3> QED BY <2>6, <3>1, <3>2
  <2> QED BY <2>6, <2>7
<1> QED BY <1>2, <1>3

\* The least and the greatest of what rows say are said by one of them.
LEMMA ExtremesAreSaid ==
    ASSUME NEW T, T \subseteq Nat \cup {Nothing}, IsFiniteSet(T)
    PROVE  /\ Intake!AtLeast(T) # Nothing => Intake!AtLeast(T) \in T
           /\ Intake!AtMost(T) # Nothing => Intake!AtMost(T) \in T
<1> DEFINE said == Intake!Values(T)
<1>1. said \subseteq Nat /\ IsFiniteSet(said) /\ said \subseteq T
  <2>1. said \subseteq Nat /\ said \subseteq T
    BY DEF Intake!Values
  <2> QED BY <2>1, FS_Subset
<1>2. CASE said = {}
  BY <1>2 DEF Intake!AtLeast, Intake!AtMost
<1>3. CASE said # {}
  <2>1. /\ \E i \in said : \A j \in said : i <= j
        /\ \E i \in said : \A j \in said : i >= j
    <3> HIDE DEF said
    <3> QED BY <1>1, <1>3, HasFirst, HasGreatest
  <2>2. Intake!Min(said) \in said
    <3> HIDE DEF said
    <3> QED BY <2>1 DEF Intake!Min
  <2>3. Intake!Max(said) \in said
    <3> HIDE DEF said
    <3> QED BY <2>1 DEF Intake!Max
  <2>4. Intake!AtLeast(T) = Intake!Min(said) /\ Intake!AtMost(T) = Intake!Max(said)
    BY <1>3 DEF Intake!AtLeast, Intake!AtMost
  <2> HIDE DEF said
  <2> QED BY <1>1, <2>2, <2>3, <2>4
<1> QED BY <1>2, <1>3

\* What rows say is finite.
LEMMA SaidIsFinite ==
    ASSUME NEW s \in Intake!Rows
    PROVE  /\ IsFiniteSet({r.at : r \in Intake!ToSet(s)})
           /\ IsFiniteSet({r.start : r \in Intake!ToSet(s)})
           /\ IsFiniteSet({r.end : r \in Intake!ToSet(s)})
<1>1. Len(s) \in Nat /\ DOMAIN s = 1 .. Len(s)
  BY DEF Intake!Rows
<1> DEFINE n == Len(s)
<1>2. IsFiniteSet({r.at : r \in Intake!ToSet(s)})
  <2> DEFINE f == [i \in 1 .. n |-> s[i].at]
  <2>1. {r.at : r \in Intake!ToSet(s)} = {f[i] : i \in 1 .. n}
    BY <1>1 DEF Intake!ToSet
  <2> HIDE DEF f, n
  <2> QED BY <1>1, <2>1, ImagesAreFinite DEF n
<1>3. IsFiniteSet({r.start : r \in Intake!ToSet(s)})
  <2> DEFINE f == [i \in 1 .. n |-> s[i].start]
  <2>1. {r.start : r \in Intake!ToSet(s)} = {f[i] : i \in 1 .. n}
    BY <1>1 DEF Intake!ToSet
  <2> HIDE DEF f, n
  <2> QED BY <1>1, <2>1, ImagesAreFinite DEF n
<1>4. IsFiniteSet({r.end : r \in Intake!ToSet(s)})
  <2> DEFINE f == [i \in 1 .. n |-> s[i].end]
  <2>1. {r.end : r \in Intake!ToSet(s)} = {f[i] : i \in 1 .. n}
    BY <1>1 DEF Intake!ToSet
  <2> HIDE DEF f, n
  <2> QED BY <1>1, <2>1, ImagesAreFinite DEF n
<1> QED BY <1>2, <1>3, <1>4

\* Rows are recent only if one of them is.
LEMMA RecentMeans ==
    ASSUME NEW s \in Intake!Rows, NEW time \in 0 .. MaxTime, Intake!Freshness(s,
           time) = "recent"
    PROVE  \E r \in Intake!ToSet(s) : r.at # Nothing /\ time - r.at <= MaxAge
<1> DEFINE times == {r.at : r \in Intake!ToSet(s)}
<1>1. times \subseteq Nat \cup {Nothing} /\ IsFiniteSet(times)
  <2>1. ASSUME NEW r \in Intake!ToSet(s) PROVE r.at \in Nat \cup {Nothing}
    <3>1. r \in Intake!Row
      BY SetOfSequence DEF Intake!Rows
    <3> QED BY <3>1, IntakeConstants DEF Intake!Row
  <2> QED BY <2>1, SaidIsFinite
<1>2. Intake!AtMost(times) # Nothing /\ time - Intake!AtMost(times) <= MaxAge
  BY DEF Intake!Freshness
<1>3. Intake!AtMost(times) \in times
  <2> HIDE DEF times
  <2> QED BY <1>1, <1>2, ExtremesAreSaid
<1> QED BY <1>2, <1>3

\* What the gate calls ready is covered by the capture whose receipt was read, and a row
\* of that capture that was read is recent.
LEMMA ReadyIsBacked ==
    ASSUME Intake!Typed, call.ask \in Asks, Intake!SummaryReady
    PROVE  /\ Covers[call.receipt.capture].start <= call.ask.start
           /\ call.ask.end <= Covers[call.receipt.capture].end
           /\ \E r \in Intake!ToSet(call.raw) \cup Intake!ToSet(call.ai) :
                  /\ r.capture = call.receipt.capture
                  /\ r.at # Nothing /\ call.begun - r.at <= MaxAge
<1> DEFINE c == call.receipt.capture
           both == call.ai \o call.raw
           bound == Intake!OfCapture(both, call.receipt)
<1>1. /\ call.ai \in Intake!Rows /\ call.raw \in Intake!Rows /\ call.begun \in 0 .. MaxTime
      /\ call.receipt \in Receipts /\ call.receipt.valid
      /\ call.ask.start \in Nat /\ call.ask.end \in Nat
  BY IntakeConstants DEF Intake!Typed, Intake!Calls, Intake!SummaryReady, Intake!Valid,
                         Intake!Ask
<1>2. /\ c \in DOMAIN Covers /\ c # Nothing
      /\ Covers[c].start \in Nat /\ Covers[c].end \in Nat
      /\ call.receipt.start \in Nat /\ call.receipt.start >= Covers[c].start
      /\ call.receipt.end \in Nat /\ call.receipt.end <= Covers[c].end
  BY <1>1, IntakeConstants
<1>3. both \in Intake!Rows /\ Intake!ToSet(both) = Intake!ToSet(call.ai) \cup Intake!ToSet(call.raw)
  BY <1>1, JoinedSet DEF Intake!Rows
<1>4. /\ bound \in Intake!Rows
      /\ Intake!ToSet(bound) = {r \in Intake!ToSet(both) : r.capture = c}
  <2> HIDE DEF both
  <2> QED BY <1>1, <1>2, <1>3, CaptureRows
<1>5. Intake!GateRows = bound /\ Intake!BoundRows = Intake!ToSet(Intake!OfCapture(Intake!GateRows, call.receipt))
      /\ Intake!BoundRows # {}
  <2>1. Intake!BoundRows = Intake!ToSet(Intake!OfCapture(Intake!GateRows, call.receipt)) /\ Intake!BoundRows # {}
    BY DEF Intake!SummaryReady, Intake!BoundRows
  <2>2. CASE bound = <<>>
    <3>1. Intake!GateRows = Intake!Selected /\ Intake!Selected \in {call.ai, call.raw}
      BY <2>2 DEF Intake!GateRows, Intake!Selected
    <3>2. Intake!GateRows \in Intake!Rows /\ Intake!ToSet(Intake!GateRows) \subseteq Intake!ToSet(both)
      BY <1>1, <1>3, <3>1
    <3>3. Intake!BoundRows = {r \in Intake!ToSet(Intake!GateRows) : r.capture = c}
      BY <1>1, <1>2, <2>1, <3>2, CaptureRows
    <3>4. Intake!ToSet(bound) # {}
      BY <1>4, <2>1, <3>2, <3>3
    <3>5. Intake!ToSet(bound) = {}
      BY <2>2 DEF Intake!ToSet
    <3> QED BY <3>4, <3>5
  <2>3. CASE bound # <<>>
    BY <2>1, <2>3 DEF Intake!GateRows
  <2> QED BY <2>2, <2>3
<1> HIDE DEF both, bound
<1>6. Intake!OfCapture(bound, call.receipt) \in Intake!Rows /\ Intake!BoundRows = Intake!ToSet(bound)
      /\ Intake!BoundRows = Intake!ToSet(Intake!OfCapture(bound, call.receipt))
  <2>1. Intake!BoundRows = Intake!ToSet(Intake!OfCapture(bound, call.receipt))
    BY <1>5
  <2>2. /\ Intake!OfCapture(bound, call.receipt) \in Intake!Rows
        /\ Intake!ToSet(Intake!OfCapture(bound, call.receipt)) = {r \in Intake!ToSet(bound) : r.capture = c}
    BY <1>1, <1>2, <1>4, CaptureRows
  <2> QED BY <1>4, <2>1, <2>2
<1>7. \E r \in Intake!ToSet(call.raw) \cup Intake!ToSet(call.ai) :
          r.capture = c /\ r.at # Nothing /\ call.begun - r.at <= MaxAge
  <2>1. Intake!Freshness(bound, call.begun) = "recent"
    BY <1>5 DEF Intake!SummaryReady
  <2>2. PICK r \in Intake!ToSet(bound) : r.at # Nothing /\ call.begun - r.at <= MaxAge
    BY <1>1, <1>4, <2>1, RecentMeans
  <2> QED BY <1>3, <1>4, <2>2
<1>8. \A r \in Intake!BoundRows : r \in Intake!Row /\ Intake!Fits(r) /\ r.capture = c
  <2>1. Intake!ToSet(bound) \subseteq {r \in Intake!Row : Intake!Fits(r)}
    BY <1>4, SetOfSequence DEF Intake!Rows
  <2> QED BY <1>4, <1>6, <2>1
<1>9. /\ call.ask.start <= call.ask.end
      /\ Intake!Acquired.start # Nothing /\ Intake!Acquired.start <= call.ask.start
      /\ Intake!Acquired.end # Nothing /\ Intake!Acquired.end >= call.ask.end
  BY DEF Intake!SummaryReady, Intake!RangeCovered
<1> DEFINE starts == {r.start : r \in Intake!BoundRows}
           ends == {r.end : r \in Intake!BoundRows}
<1>10. /\ starts \subseteq Nat \cup {Nothing} /\ ends \subseteq Nat \cup {Nothing}
       /\ \A i \in starts : i # Nothing => i >= Covers[c].start
       /\ \A i \in ends : i # Nothing => i <= Covers[c].end
  BY <1>2, <1>8 DEF Intake!Row, Intake!Fits
<1>11. IsFiniteSet(starts) /\ IsFiniteSet(ends)
  BY <1>6, SaidIsFinite
<1>12. /\ Intake!Acquired.start = IF Intake!AtLeast(starts) = Nothing THEN call.receipt.start
                             ELSE Intake!AtLeast(starts)
       /\ Intake!Acquired.end = IF Intake!AtMost(ends) = Nothing THEN call.receipt.end
                           ELSE Intake!AtMost(ends)
  <2>1. call.receipt # Nothing
    BY <1>1, IntakeConstants
  <2> QED BY <2>1 DEF Intake!Acquired
<1> HIDE DEF starts, ends
<1>13. Intake!AtLeast(starts) # Nothing => Intake!AtLeast(starts) \in Nat /\ Intake!AtLeast(starts) >= Covers[c].start
  BY <1>10, <1>11, ExtremesAreSaid
<1>14. Intake!AtMost(ends) # Nothing => Intake!AtMost(ends) \in Nat /\ Intake!AtMost(ends) <= Covers[c].end
  BY <1>10, <1>11, ExtremesAreSaid
<1>15. Intake!Acquired.start \in Nat /\ Intake!Acquired.start >= Covers[c].start
  BY <1>2, <1>12, <1>13
<1>16. Intake!Acquired.end \in Nat /\ Intake!Acquired.end <= Covers[c].end
  BY <1>2, <1>12, <1>14
<1>17. Covers[c].start <= call.ask.start
  BY <1>1, <1>2, <1>9, <1>15
<1>18. call.ask.end <= Covers[c].end
  BY <1>1, <1>2, <1>9, <1>16
<1> QED BY <1>7, <1>17, <1>18

------------------------------------------------------------------------------
\* A command that was not called yet.
LEMMA IdleCall ==
    /\ Intake!Idle \in Intake!Calls /\ Intake!Idle.verdict = Nothing /\ Intake!Idle.raw = <<>>
    /\ Intake!Idle.ai = <<>> /\ Intake!Idle.own = 0 /\ Intake!Idle.latest = 0
<1>1. 0 \in 0 .. MaxTime
  BY IntakeConstants
<1>2. <<>> \in Intake!Rows /\ <<>> \in Intake!Todos
  BY DEF Intake!Rows, Intake!Todos
<1> QED BY <1>1, <1>2 DEF Intake!Idle, Intake!Calls

\* The invariant holds when an intake begins.
LEMMA IntakeBegins ==
    ASSUME Intake!Init
    PROVE  Intake!IntakeInv
<1>1. /\ raw = <<>> /\ ai = <<>> /\ receipt = Nothing /\ book = <<>>
      /\ now = 0 /\ call = Intake!Idle /\ changes = 0
  BY DEF Intake!Init
<1>2. /\ call.ask = Nothing /\ call.todo = <<>> /\ call.begun = 0 /\ call.raw = <<>>
      /\ call.ai = <<>> /\ call.receipt = Nothing /\ call.status = Nothing
      /\ call.own = 0 /\ call.latest = 0 /\ call.verdict = Nothing
  BY <1>1 DEF Intake!Idle
<1>3. 0 \in 0 .. MaxTime /\ 0 \in 0 .. MaxChanges
  BY IntakeConstants
<1>4. Intake!Idle \in Intake!Calls
  BY IdleCall
<1>5. Intake!Typed
  BY <1>1, <1>3, <1>4 DEF Intake!Typed, Intake!Rows
<1>6. Intake!OneInvalid
  BY <1>1 DEF Intake!OneInvalid
<1>7. Intake!Kept
  <2>1. Intake!ToSet(<<>>) = {} /\ Len(<<>>) = 0
    BY DEF Intake!ToSet
  <2> QED BY <1>1, <1>2, <2>1 DEF Intake!Kept
<1>8. Nothing # "summary_ready" /\ Nothing # "ready"
  BY IntakeConstants DEF Intake!Verdicts
<1>9. Intake!Rests
  BY <1>2, PlainTodos DEF Intake!Rests, Plain
<1>10. Intake!Backed
  BY <1>2, <1>8 DEF Intake!Backed, Intake!OwnTextIsUsed, Intake!OwnTextIsFound
<1> QED BY <1>5, <1>6, <1>7, <1>9, <1>10 DEF Intake!IntakeInv

\* What one sees of a call under way.
LEMMA IntakeFacts ==
    ASSUME Intake!IntakeInv
    PROVE  /\ raw \in Intake!Rows /\ ai \in Intake!Rows /\ book \in Intake!Rows
           /\ receipt \in Receipts \cup {Nothing} /\ now \in 0 .. MaxTime
           /\ changes \in 0 .. MaxChanges /\ call \in Intake!Calls
           /\ call.todo \in Intake!Todos /\ call.raw \in Intake!Rows /\ call.ai \in Intake!Rows
           /\ call.own \in Nat /\ call.latest \in Nat /\ Len(ai) \in Nat /\ Len(raw) \in Nat
           /\ call.own # 0 => call.own \in DOMAIN ai
BY DEF Intake!IntakeInv, Intake!Typed, Intake!Calls, Intake!Rows, Intake!Kept

\* Other programs: the files grow, or an invalid row is revoked, and the call stays.
LEMMA OthersKeep ==
    ASSUME Intake!IntakeInv, call' = call, Intake!Typed', Intake!OneInvalid',
           \A r \in Intake!ToSet(raw) : r \in Intake!ToSet(raw'),
           \A r \in Intake!ToSet(ai) :
               \/ r \in Intake!ToSet(ai')
               \/ r.state = "invalid" /\ [r EXCEPT !.state = "revoked"] \in Intake!ToSet(ai'),
           Len(ai) <= Len(ai'),
           \A i \in DOMAIN ai : i \in DOMAIN ai' /\ ai'[i].event = ai[i].event
    PROVE  Intake!IntakeInv'
<1>1. Intake!Kept'
  <2>1. \A r \in Intake!ToSet(call.raw) : r \in Intake!ToSet(raw')
    BY DEF Intake!IntakeInv, Intake!Kept
  <2>2. ASSUME NEW r \in Intake!ToSet(call.ai)
        PROVE  r.state # "revoked" /\ (\/ r \in Intake!ToSet(ai')
                                       \/ r.state = "invalid"
                                          /\ [r EXCEPT !.state = "revoked"] \in Intake!ToSet(ai'))
    <3>1. r.state # "revoked" /\ r \in Intake!Row
          /\ (\/ r \in Intake!ToSet(ai)
              \/ r.state = "invalid" /\ [r EXCEPT !.state = "revoked"] \in Intake!ToSet(ai))
      <4>1. Intake!ToSet(call.ai) \subseteq {q \in Intake!Row : Intake!Fits(q)}
        BY IntakeFacts, SetOfSequence DEF Intake!Rows
      <4> QED BY <4>1 DEF Intake!IntakeInv, Intake!Kept, Intake!StillThere
    <3>2. CASE r \in Intake!ToSet(ai)
      BY <3>1, <3>2
    <3>3. CASE r.state = "invalid" /\ [r EXCEPT !.state = "revoked"] \in Intake!ToSet(ai)
      <4> DEFINE q == [r EXCEPT !.state = "revoked"]
      <4>1. q.state = "revoked"
        BY <3>1 DEF Intake!Row
      <4>2. q \in Intake!ToSet(ai')
        BY <3>3, <4>1
      <4> QED BY <3>1, <3>3, <4>2
    <3> QED BY <3>1, <3>2, <3>3
  <2>3. call.own # 0 => call.own \in DOMAIN ai' /\ ai'[call.own].event = "observed"
    BY DEF Intake!IntakeInv, Intake!Kept
  <2>4. call.latest \in 0 .. Len(ai')
    <3>1. call.latest \in 0 .. Len(ai) /\ Len(ai) \in Nat
      BY IntakeFacts DEF Intake!IntakeInv, Intake!Kept
    <3>2. Len(ai') \in Nat
      BY DEF Intake!Typed, Intake!Rows
    <3> QED BY <3>1, <3>2
  <2> QED BY <2>1, <2>2, <2>3, <2>4 DEF Intake!Kept, Intake!StillThere
<1>2. Intake!Rests'
  <2>1. ASSUME NEW r \in Intake!ToSet(ai), r.state = "sound"
        PROVE  \E q \in Intake!ToSet(ai') : q.state = "sound"
    BY <2>1
  <2> QED BY <2>1 DEF Intake!IntakeInv, Intake!Rests
<1>3. Intake!Backed'
  BY DEF Intake!IntakeInv, Intake!Backed, Intake!OwnTextIsUsed, Intake!OwnTextIsFound
<1> QED BY <1>1, <1>2, <1>3 DEF Intake!IntakeInv

\* A row that is appended: what there was is there, in its place.
LEMMA RowsGrow ==
    ASSUME NEW s \in Intake!Rows, NEW r \in Intake!Row, Intake!Fits(r)
    PROVE  /\ Append(s, r) \in Intake!Rows
           /\ Intake!ToSet(Append(s, r)) = Intake!ToSet(s) \cup {r}
           /\ Len(Append(s, r)) = Len(s) + 1 /\ Len(s) \in Nat
           /\ DOMAIN s = 1 .. Len(s)
           /\ DOMAIN Append(s, r) = 1 .. Len(s) + 1
           /\ DOMAIN Append(s, r) = (DOMAIN s) \cup {Len(s) + 1}
           /\ Len(s) + 1 \notin DOMAIN s
           /\ \A i \in DOMAIN s : Append(s, r)[i] = s[i]
           /\ Append(s, r)[Len(s) + 1] = r
<1>1. s \in Seq({q \in Intake!Row : Intake!Fits(q)}) /\ r \in {q \in Intake!Row : Intake!Fits(q)}
  BY DEF Intake!Rows
<1>2. Intake!ToSet(Append(s, r)) = Intake!ToSet(s) \cup {r}
  BY <1>1, AppendedSet
<1>3. /\ Len(Append(s, r)) = Len(s) + 1 /\ Len(s) \in Nat
      /\ DOMAIN s = 1 .. Len(s)
      /\ DOMAIN Append(s, r) = 1 .. Len(s) + 1
      /\ \A i \in DOMAIN s : Append(s, r)[i] = s[i]
      /\ Append(s, r)[Len(s) + 1] = r
      /\ Append(s, r) \in Intake!Rows
  BY <1>1 DEF Intake!Rows
<1>4. 1 .. Len(s) + 1 = (1 .. Len(s)) \cup {Len(s) + 1} /\ Len(s) + 1 \notin 1 .. Len(s)
  BY <1>3
<1> QED BY <1>2, <1>3, <1>4

\* A ledger that accepts rows has no invalid one, and so at most one after the next.
LEMMA GrownOnce ==
    ASSUME Intake!OneInvalid, ai \in Intake!Rows, NEW r \in Intake!Row, Intake!Fits(r), Intake!Appendable,
           ai' = Append(ai, r)
    PROVE  Intake!OneInvalid'
<1>1. \A i \in DOMAIN ai : ai[i].state # "invalid"
  BY DEF Intake!Appendable
<1>2. \A i \in DOMAIN ai' : ai'[i].state = "invalid" => i = Len(ai) + 1
  BY <1>1, RowsGrow
<1> QED BY <1>2 DEF Intake!OneInvalid

\* A command that has no verdict yet claims nothing.
LEMMA NoVerdictYet ==
    ASSUME call'.verdict = Nothing
    PROVE  Intake!Backed'
<1>1. Nothing \notin Intake!Verdicts
  BY IntakeConstants
<1> QED BY <1>1 DEF Intake!Backed, Intake!OwnTextIsUsed, Intake!OwnTextIsFound,
                    Intake!Verdicts

\* What is left of the steps rests on what the step that is done has brought.
LEMMA RestsOn ==
    ASSUME Intake!IntakeInv, call.todo # <<>>, call'.todo = Tail(call.todo),
           call'.ask = call.ask, call'.verdict = call.verdict,
           Head(call.todo) = "import" => \E r \in Intake!ToSet(ai') : r.state = "sound",
           call.todo = <<"ai", "synced">> => call'.ai # <<>>,
           Head(call.todo) = "latest" /\ call'.own # 0 => call'.latest >= call'.own
    PROVE  Intake!Rests' /\ Intake!Backed' /\ call'.todo \in Intake!Todos
<1>1. call.todo \in Intake!Todos
  BY IntakeFacts
<1>2. /\ Tail(call.todo) \in Intake!Todos
      /\ Tail(call.todo) \in {<<"decide">>, <<"guide">>} => Head(call.todo) = "latest"
      /\ Tail(call.todo) = <<"ai", "synced">> => Head(call.todo) = "import"
      /\ Tail(call.todo) = <<"synced">> => call.todo = <<"ai", "synced">>
      /\ Tail(call.todo) # <<"import", "ai", "synced">>
  BY <1>1, NextTodo
<1>3. call'.ask \in Asks /\ call'.verdict = Nothing
  BY DEF Intake!IntakeInv, Intake!Rests
<1>4. Intake!Rests'
  BY <1>2, <1>3 DEF Intake!Rests
<1> QED BY <1>2, <1>3, <1>4, NoVerdictYet

\* A step that reads, or writes a book.
LEMMA CallGoesOn ==
    ASSUME Intake!IntakeInv, raw' = raw, ai' = ai, receipt' = receipt, now' = now,
           changes' = changes, book' \in Intake!Rows, call' \in Intake!Calls, Intake!Rests', Intake!Backed',
           \A r \in Intake!ToSet(call'.raw) : r \in Intake!ToSet(raw),
           \A r \in Intake!ToSet(call'.ai) :
               r \in Intake!ToSet(call.ai) \/ (r \in Intake!ToSet(ai) /\ r.state # "revoked"),
           call'.own \in {0, call.own}, call'.latest \in 0 .. Len(ai)
    PROVE  Intake!IntakeInv'
<1>1. Intake!Typed'
  BY DEF Intake!IntakeInv, Intake!Typed
<1>2. Intake!OneInvalid'
  BY DEF Intake!IntakeInv, Intake!OneInvalid
<1>3. Intake!Kept'
  <2>1. ASSUME NEW r \in Intake!ToSet(call'.ai)
        PROVE  r.state # "revoked" /\ Intake!StillThere(r)'
    BY <2>1 DEF Intake!IntakeInv, Intake!Kept, Intake!StillThere
  <2>2. call'.own # 0 => call'.own \in DOMAIN ai /\ ai[call'.own].event = "observed"
    BY DEF Intake!IntakeInv, Intake!Kept
  <2> QED BY <2>1, <2>2 DEF Intake!Kept, Intake!StillThere
<1> QED BY <1>1, <1>2, <1>3 DEF Intake!IntakeInv

\* A command ends with a verdict.
LEMMA Finishes ==
    ASSUME Intake!IntakeInv, call.todo # <<>>, NEW verdict \in Intake!Verdicts, Intake!Finish(verdict),
           raw' = raw, ai' = ai, receipt' = receipt, now' = now, changes' = changes,
           book' \in Intake!Rows,
           verdict = "summary_ready" =>
               /\ Covers[call.receipt.capture].start <= call.ask.start
               /\ call.ask.end <= Covers[call.receipt.capture].end
               /\ \E r \in Intake!ToSet(call.raw) \cup Intake!ToSet(call.ai) :
                      /\ r.capture = call.receipt.capture
                      /\ r.at # Nothing /\ call.begun - r.at <= MaxAge,
           verdict = "ready" => call.ai # <<>>,
           verdict \in {"snapshot_metadata_ready", "passport_ready", "guide_ready"}
               /\ call.own # 0 => call.latest >= call.own,
           verdict = "need_visible_text" => call.own = 0
    PROVE  Intake!IntakeInv'
<1>1. call \in Intake!Calls
  BY IntakeFacts
<1> DEFINE next == [call EXCEPT !.todo = <<>>, !.verdict = verdict]
<1>2. /\ next.todo = <<>> /\ next.verdict = verdict /\ next.ask = call.ask
      /\ next.begun = call.begun /\ next.raw = call.raw /\ next.ai = call.ai
      /\ next.receipt = call.receipt /\ next.own = call.own /\ next.latest = call.latest
      /\ next \in Intake!Calls
  <2>1. <<>> \in Intake!Todos
    BY PlainTodos DEF Plain
  <2> QED BY <1>1, <2>1 DEF Intake!Calls
<1>3. call' = next
  BY DEF Intake!Finish
<1> HIDE DEF next
<1>4. Intake!Rests'
  BY <1>2, <1>3, PlainTodos DEF Intake!Rests, Plain
<1>5. Intake!Backed'
  BY <1>2, <1>3 DEF Intake!Backed, Intake!OwnTextIsUsed, Intake!OwnTextIsFound
<1>6. call'.latest \in 0 .. Len(ai)
  BY <1>2, <1>3 DEF Intake!IntakeInv, Intake!Kept
<1>7. \A r \in Intake!ToSet(call'.raw) : r \in Intake!ToSet(raw)
  BY <1>2, <1>3 DEF Intake!IntakeInv, Intake!Kept
<1> QED BY <1>2, <1>3, <1>4, <1>5, <1>6, <1>7, CallGoesOn

\* A step takes the first of the steps off the list.
LEMMA WentOn ==
    ASSUME Intake!IntakeInv, NEW step, Intake!At(step)
    PROVE  /\ call \in Intake!Calls /\ call.todo # <<>> /\ Head(call.todo) = step
           /\ call.todo \in Intake!Todos /\ Tail(call.todo) \in Intake!Todos
           /\ Intake!Went = [call EXCEPT !.todo = Tail(call.todo)]
           /\ Intake!Went \in Intake!Calls /\ Intake!Went.todo = Tail(call.todo)
           /\ Intake!Went.ask = call.ask /\ Intake!Went.begun = call.begun /\ Intake!Went.raw = call.raw
           /\ Intake!Went.ai = call.ai /\ Intake!Went.receipt = call.receipt
           /\ Intake!Went.status = call.status /\ Intake!Went.own = call.own
           /\ Intake!Went.latest = call.latest /\ Intake!Went.verdict = call.verdict
           /\ call.latest \in 0 .. Len(ai)
           /\ \A r \in Intake!ToSet(call.raw) : r \in Intake!ToSet(raw)
<1>1. call \in Intake!Calls /\ call.todo \in Intake!Todos /\ call.todo # <<>> /\ Head(call.todo) = step
  BY IntakeFacts DEF Intake!At
<1>2. Tail(call.todo) \in Intake!Todos
  BY <1>1, NextTodo
<1>3. Intake!Went = [call EXCEPT !.todo = Tail(call.todo)]
  BY DEF Intake!Went
<1> HIDE DEF Intake!Todos
<1>4. /\ Intake!Went \in Intake!Calls /\ Intake!Went.todo = Tail(call.todo)
      /\ Intake!Went.ask = call.ask /\ Intake!Went.begun = call.begun /\ Intake!Went.raw = call.raw
      /\ Intake!Went.ai = call.ai /\ Intake!Went.receipt = call.receipt
      /\ Intake!Went.status = call.status /\ Intake!Went.own = call.own
      /\ Intake!Went.latest = call.latest /\ Intake!Went.verdict = call.verdict
  BY <1>1, <1>2, <1>3 DEF Intake!Calls
<1>5. call.latest \in 0 .. Len(ai) /\ \A r \in Intake!ToSet(call.raw) : r \in Intake!ToSet(raw)
  BY DEF Intake!IntakeInv, Intake!Kept
<1> QED BY <1>1, <1>2, <1>3, <1>4, <1>5

\* The cache is read.
LEMMA ReadRawKeeps ==
    ASSUME Intake!IntakeInv, Intake!ReadRaw
    PROVE  Intake!IntakeInv'
<1> DEFINE next == [Intake!Went EXCEPT !.raw = Intake!Matching(raw)]
<1>1. /\ Intake!At("raw") /\ call' = next /\ raw' = raw /\ ai' = ai /\ receipt' = receipt
      /\ book' = book /\ now' = now /\ changes' = changes
  BY DEF Intake!ReadRaw, Intake!files
<1>2. Intake!Matching(raw) \in Intake!Rows /\ Intake!ToSet(Intake!Matching(raw)) \subseteq Intake!ToSet(raw)
  BY IntakeFacts, MatchingRows
<1>3. /\ next \in Intake!Calls /\ next.todo = Tail(call.todo) /\ next.ask = call.ask
      /\ next.verdict = call.verdict /\ next.raw = Intake!Matching(raw) /\ next.ai = call.ai
      /\ next.own = call.own /\ next.latest = call.latest
  BY <1>1, <1>2, WentOn DEF Intake!Calls
<1> HIDE DEF next
<1>4. Head(call.todo) = "raw" /\ call.todo # <<>> /\ call.latest \in 0 .. Len(ai)
  BY <1>1, WentOn
<1>5. call.todo # <<"ai", "synced">>
  BY <1>4
<1>6. Intake!Rests' /\ Intake!Backed'
  BY <1>1, <1>3, <1>4, <1>5, RestsOn
<1> QED BY <1>1, <1>2, <1>3, <1>4, <1>6, IntakeFacts, CallGoesOn

\* The ledger of texts is read.
LEMMA ReadAiKeeps ==
    ASSUME Intake!IntakeInv, Intake!ReadAi
    PROVE  Intake!IntakeInv'
<1> DEFINE next == [Intake!Went EXCEPT !.ai = Intake!Matching(ai)]
<1>1. /\ Intake!At("ai") /\ call' = next /\ raw' = raw /\ ai' = ai /\ receipt' = receipt
      /\ book' = book /\ now' = now /\ changes' = changes
  BY DEF Intake!ReadAi, Intake!files
<1>2. Intake!Matching(ai) \in Intake!Rows
      /\ Intake!ToSet(Intake!Matching(ai)) = {r \in Intake!ToSet(ai) : r.state # "revoked"}
  BY IntakeFacts, MatchingRows
<1>3. /\ next \in Intake!Calls /\ next.todo = Tail(call.todo) /\ next.ask = call.ask
      /\ next.verdict = call.verdict /\ next.raw = call.raw /\ next.ai = Intake!Matching(ai)
      /\ next.own = call.own /\ next.latest = call.latest
  BY <1>1, <1>2, WentOn DEF Intake!Calls
<1> HIDE DEF next
<1>4. /\ Head(call.todo) = "ai" /\ call.todo # <<>> /\ call.latest \in 0 .. Len(ai)
      /\ \A r \in Intake!ToSet(call.raw) : r \in Intake!ToSet(raw)
  BY <1>1, WentOn
<1>5. call.todo = <<"ai", "synced">> => Intake!Matching(ai) # <<>>
  <2>1. call.todo = <<"ai", "synced">> => \E r \in Intake!ToSet(ai) : r.state = "sound"
    BY DEF Intake!IntakeInv, Intake!Rests
  <2>2. (\E r \in Intake!ToSet(ai) : r.state = "sound") => Intake!ToSet(Intake!Matching(ai)) # {}
    BY <1>2
  <2>3. Intake!ToSet(<<>>) = {}
    BY DEF Intake!ToSet
  <2> QED BY <2>1, <2>2, <2>3
<1>6. Intake!Rests' /\ Intake!Backed'
  BY <1>1, <1>3, <1>4, <1>5, RestsOn
<1> QED BY <1>1, <1>2, <1>3, <1>4, <1>6, IntakeFacts, CallGoesOn

\* The receipt is read.
LEMMA LoadReceiptKeeps ==
    ASSUME Intake!IntakeInv, Intake!LoadReceipt
    PROVE  Intake!IntakeInv'
<1> DEFINE next == [Intake!Went EXCEPT !.receipt = receipt]
<1>1. /\ Intake!At("receipt") /\ call' = next /\ raw' = raw /\ ai' = ai /\ receipt' = receipt
      /\ book' = book /\ now' = now /\ changes' = changes
  BY DEF Intake!LoadReceipt, Intake!files
<1>2. receipt \in Receipts \cup {Nothing}
  BY IntakeFacts
<1>3. /\ next \in Intake!Calls /\ next.todo = Tail(call.todo) /\ next.ask = call.ask
      /\ next.verdict = call.verdict /\ next.raw = call.raw /\ next.ai = call.ai
      /\ next.own = call.own /\ next.latest = call.latest
  BY <1>1, <1>2, WentOn DEF Intake!Calls
<1> HIDE DEF next
<1>4. /\ Head(call.todo) = "receipt" /\ call.todo # <<>> /\ call.latest \in 0 .. Len(ai)
      /\ \A r \in Intake!ToSet(call.raw) : r \in Intake!ToSet(raw)
  BY <1>1, WentOn
<1>5. call.todo # <<"ai", "synced">>
  BY <1>4
<1>6. Intake!Rests' /\ Intake!Backed'
  BY <1>1, <1>3, <1>4, <1>5, RestsOn
<1> QED BY <1>1, <1>3, <1>4, <1>6, IntakeFacts, CallGoesOn

\* The latest row of the ledger is selected, its own one or a later one.
LEMMA SelectLatestKeeps ==
    ASSUME Intake!IntakeInv, Intake!SelectLatest
    PROVE  Intake!IntakeInv'
<1> DEFINE next == [Intake!Went EXCEPT !.latest = Intake!LatestOf(ai)]
<1>1. /\ Intake!At("latest") /\ call' = next /\ raw' = raw /\ ai' = ai /\ receipt' = receipt
      /\ book' = book /\ now' = now /\ changes' = changes
  BY DEF Intake!SelectLatest, Intake!files
<1>2. /\ Intake!LatestOf(ai) \in 0 .. Len(ai) /\ Len(ai) \in Nat /\ Intake!LatestOf(ai) \in Nat
      /\ \A i \in DOMAIN ai : ai[i].event = "observed" => i <= Intake!LatestOf(ai)
  <2>1. /\ Intake!LatestOf(ai) \in 0 .. Len(ai) /\ Len(ai) \in Nat
        /\ \A i \in DOMAIN ai : ai[i].event = "observed" => i <= Intake!LatestOf(ai)
    BY IntakeFacts, LatestRow
  <2> QED BY <2>1
<1>3. /\ next \in Intake!Calls /\ next.todo = Tail(call.todo) /\ next.ask = call.ask
      /\ next.verdict = call.verdict /\ next.raw = call.raw /\ next.ai = call.ai
      /\ next.own = call.own /\ next.latest = Intake!LatestOf(ai)
  BY <1>1, <1>2, WentOn DEF Intake!Calls
<1> HIDE DEF next
<1>4. /\ Head(call.todo) = "latest" /\ call.todo # <<>>
      /\ \A r \in Intake!ToSet(call.raw) : r \in Intake!ToSet(raw)
  BY <1>1, WentOn
<1>5. call.todo # <<"ai", "synced">> /\ Head(call.todo) # "import"
  BY <1>4
<1>6. call.own # 0 => Intake!LatestOf(ai) >= call.own
  <2>1. call.own \in Nat /\ (call.own # 0 => call.own <= Intake!LatestOf(ai))
    BY <1>2, IntakeFacts DEF Intake!IntakeInv, Intake!Kept
  <2> QED BY <1>2, <2>1
<1>7. Intake!Rests' /\ Intake!Backed'
  BY <1>1, <1>3, <1>4, <1>5, <1>6, RestsOn
<1> QED BY <1>1, <1>2, <1>3, <1>4, <1>7, IntakeFacts, CallGoesOn

\* The text is read when what is known is not recent.
LEMMA RefreshKeeps ==
    ASSUME Intake!IntakeInv, Intake!Refresh
    PROVE  Intake!IntakeInv'
<1> DEFINE todo == Intake!From(call.ask.text /\ Intake!Status # "recent", <<"save", "latest", "decide">>)
           next == [call EXCEPT !.status = Intake!Status, !.todo = todo]
<1>1. /\ Intake!At("refresh") /\ call' = next /\ raw' = raw /\ ai' = ai /\ receipt' = receipt
      /\ book' = book /\ now' = now /\ changes' = changes
  BY DEF Intake!Refresh, Intake!files
<1>2. Plain(todo)
  <2>1. PICK first \in BOOLEAN : first = (call.ask.text /\ Intake!Status # "recent")
    OBVIOUS
  <2> QED BY <2>1, FromIsPlain
<1>3. Intake!Status \in {"missing", "unknown", "recent", "stale"}
  BY DEF Intake!Status, Intake!Freshness
<1> HIDE DEF todo
<1>4. /\ next \in Intake!Calls /\ next.todo = todo /\ next.ask = call.ask
      /\ next.verdict = call.verdict /\ next.raw = call.raw /\ next.ai = call.ai
      /\ next.own = call.own /\ next.latest = call.latest
  BY <1>1, <1>2, <1>3, WentOn DEF Intake!Calls, Plain
<1> HIDE DEF next
<1>5. call.ask \in Asks /\ call.verdict = Nothing
  BY <1>1, WentOn DEF Intake!IntakeInv, Intake!Rests
<1>6. Intake!Rests'
  BY <1>1, <1>2, <1>4, <1>5 DEF Intake!Rests, Plain
<1>7. Intake!Backed'
  BY <1>1, <1>4, <1>5, NoVerdictYet
<1>8. call.latest \in 0 .. Len(ai) /\ \A r \in Intake!ToSet(call.raw) : r \in Intake!ToSet(raw)
  BY <1>1, WentOn
<1> QED BY <1>1, <1>4, <1>6, <1>7, <1>8, IntakeFacts, CallGoesOn

\* A command begins with all of its steps, and has read nothing.
LEMMA BeginKeeps ==
    ASSUME Intake!IntakeInv, NEW ask \in Asks, Intake!Begin(ask)
    PROVE  Intake!IntakeInv'
<1> DEFINE next == [Intake!Idle EXCEPT !.ask = ask, !.todo = Intake!Steps(ask), !.begun = now]
<1>1. /\ call' = next /\ raw' = raw /\ ai' = ai /\ receipt' = receipt
      /\ book' = book /\ now' = now /\ changes' = changes
  BY DEF Intake!Begin, Intake!files
<1>2. Plain(Intake!Steps(ask)) /\ now \in 0 .. MaxTime
  BY StepsArePlain, IntakeFacts
<1> HIDE DEF Intake!Todos
<1>3. /\ next \in Intake!Calls /\ next.todo = Intake!Steps(ask) /\ next.ask = ask
      /\ next.verdict = Nothing /\ next.raw = <<>> /\ next.ai = <<>>
      /\ next.own = 0 /\ next.latest = 0
  <2>1. Intake!Steps(ask) \in Intake!Todos
    BY <1>2 DEF Plain
  <2>2. PICK idle \in Intake!Calls :
            /\ idle = Intake!Idle /\ idle.verdict = Nothing /\ idle.raw = <<>> /\ idle.ai = <<>>
            /\ idle.own = 0 /\ idle.latest = 0
    BY IdleCall
  <2>3. PICK steps \in Intake!Todos : steps = Intake!Steps(ask)
    BY <2>1
  <2>4. next = [idle EXCEPT !.ask = ask, !.todo = steps, !.begun = now]
    BY <2>2, <2>3
  <2> HIDE DEF next
  <2> QED BY <1>2, <2>2, <2>3, <2>4 DEF Intake!Calls
<1> HIDE DEF next
<1>4. Intake!Rests'
  BY <1>1, <1>2, <1>3 DEF Intake!Rests, Plain
<1>5. Intake!Backed'
  BY <1>1, <1>3, NoVerdictYet
<1>6. Intake!ToSet(<<>>) = {} /\ 0 \in 0 .. Len(ai)
  <2>1. Len(ai) \in Nat
    BY IntakeFacts
  <2> QED BY <2>1 DEF Intake!ToSet
<1> QED BY <1>1, <1>3, <1>4, <1>5, <1>6, IntakeFacts, CallGoesOn

\* The two files are compared: the intake is ready, has to import, or lacks one of them.
LEMMA CompareIntakeKeeps ==
    ASSUME Intake!IntakeInv, Intake!Compare
    PROVE  Intake!IntakeInv'
<1>1. /\ Intake!At("compare") /\ raw' = raw /\ ai' = ai /\ receipt' = receipt
      /\ book' = book /\ now' = now /\ changes' = changes
  BY DEF Intake!Compare, Intake!files
<1>2. call.todo # <<>> /\ book' \in Intake!Rows
  BY <1>1, WentOn, IntakeFacts
<1>3. CASE Intake!Finish("ready") /\ call.ai # <<>>
  <2>1. "ready" \in Intake!Verdicts
    BY DEF Intake!Verdicts
  <2> QED BY <1>1, <1>2, <1>3, <2>1, Finishes
<1>4. CASE Intake!Finish("ai_log_stale")
  <2>1. "ai_log_stale" \in Intake!Verdicts
    BY DEF Intake!Verdicts
  <2> QED BY <1>1, <1>2, <1>4, <2>1, Finishes
<1>5. CASE Intake!Finish("raw_cache_missing")
  <2>1. "raw_cache_missing" \in Intake!Verdicts
    BY DEF Intake!Verdicts
  <2> QED BY <1>1, <1>2, <1>5, <2>1, Finishes
<1>6. CASE call.raw # <<>> /\ call' = [call EXCEPT !.todo = <<"import", "ai", "synced">>]
  <2> DEFINE next == [call EXCEPT !.todo = <<"import", "ai", "synced">>]
  <2>1. <<"import", "ai", "synced">> \in Intake!Todos
    BY DEF Intake!Todos
  <2> HIDE DEF Intake!Todos
  <2>2. /\ next \in Intake!Calls /\ next.todo = <<"import", "ai", "synced">> /\ next.ask = call.ask
        /\ next.verdict = call.verdict /\ next.raw = call.raw /\ next.ai = call.ai
        /\ next.own = call.own /\ next.latest = call.latest
    BY <1>1, <2>1, WentOn DEF Intake!Calls
  <2>3. call' = next
    BY <1>6
  <2> HIDE DEF next
  <2>4. call.ask \in Asks /\ call.verdict = Nothing
    BY <1>2 DEF Intake!IntakeInv, Intake!Rests
  <2>5. Intake!Rests'
    <3>1. call'.todo \notin {<<"ai", "synced">>, <<"synced">>, <<"decide">>, <<"guide">>}
      BY <2>2, <2>3
    <3>2. call'.raw # <<>> /\ call'.ask \in Asks /\ call'.verdict = Nothing
      BY <1>6, <2>2, <2>3, <2>4
    <3> QED BY <3>1, <3>2 DEF Intake!Rests
  <2>6. Intake!Backed'
    BY <2>2, <2>3, <2>4, NoVerdictYet
  <2>7. call.latest \in 0 .. Len(ai) /\ \A r \in Intake!ToSet(call.raw) : r \in Intake!ToSet(raw)
    BY <1>1, WentOn
  <2> QED BY <1>1, <1>2, <2>2, <2>3, <2>5, <2>6, <2>7, CallGoesOn
<1> QED BY <1>3, <1>4, <1>5, <1>6 DEF Intake!Compare

\* The commands that end with what they have read.
LEMMA EndsKeep ==
    ASSUME Intake!IntakeInv,
           Intake!Skip \/ Intake!Synced \/ Intake!Cover \/ Intake!Decide \/ Intake!WriteBook \/ Intake!Plan
    PROVE  Intake!IntakeInv'
<1>1. CASE Intake!Skip
  <2>1. /\ Intake!At("skip") /\ raw' = raw /\ ai' = ai /\ receipt' = receipt
        /\ book' = book /\ now' = now /\ changes' = changes
        /\ Intake!Finish("raw_cache_gate_skipped") /\ "raw_cache_gate_skipped" \in Intake!Verdicts
    BY <1>1 DEF Intake!Skip, Intake!files, Intake!Verdicts
  <2>2. call.todo # <<>> /\ book' \in Intake!Rows
    BY <2>1, WentOn, IntakeFacts
  <2> QED BY <2>1, <2>2, Finishes
<1>2. CASE Intake!Synced
  <2>1. /\ Intake!At("synced") /\ raw' = raw /\ ai' = ai /\ receipt' = receipt
        /\ book' = book /\ now' = now /\ changes' = changes
        /\ Intake!Finish("ready") /\ "ready" \in Intake!Verdicts
    BY <1>2 DEF Intake!Synced, Intake!files, Intake!Verdicts
  <2>2. call.todo # <<>> /\ call.todo \in Intake!Todos /\ Head(call.todo) = "synced"
    BY <2>1, WentOn
  <2>3. call.todo = <<"synced">>
    BY <2>2, NextTodo
  <2>4. call.ai # <<>>
    BY <2>3 DEF Intake!IntakeInv, Intake!Rests
  <2> QED BY <2>1, <2>2, <2>4, IntakeFacts, Finishes
<1>3. CASE Intake!Cover
  <2>1. /\ Intake!At("cover") /\ raw' = raw /\ ai' = ai /\ receipt' = receipt
        /\ book' = book /\ now' = now /\ changes' = changes
        /\ Intake!Finish(IF Intake!SummaryReady THEN "summary_ready" ELSE "summary_blocked")
    BY <1>3 DEF Intake!Cover, Intake!files
  <2>2. call.todo # <<>> /\ book' \in Intake!Rows /\ Intake!Typed
    BY <2>1, WentOn, IntakeFacts DEF Intake!IntakeInv
  <2>3. call.ask \in Asks
    BY <2>2 DEF Intake!IntakeInv, Intake!Rests
  <2>4. "summary_ready" \in Intake!Verdicts /\ "summary_blocked" \in Intake!Verdicts
    BY DEF Intake!Verdicts
  <2>5. CASE Intake!SummaryReady
    BY <2>1, <2>2, <2>3, <2>4, <2>5, ReadyIsBacked, Finishes
  <2>6. CASE ~Intake!SummaryReady
    BY <2>1, <2>2, <2>4, <2>6, Finishes
  <2> QED BY <2>5, <2>6
<1>4. CASE Intake!Decide
  <2>1. /\ Intake!At("decide") /\ raw' = raw /\ ai' = ai /\ receipt' = receipt
        /\ book' = book /\ now' = now /\ changes' = changes
        /\ Intake!Finish(IF call.latest # 0 THEN "snapshot_metadata_ready" ELSE "need_visible_text")
    BY <1>4 DEF Intake!Decide, Intake!files
  <2>2. call.todo # <<>> /\ call.todo \in Intake!Todos /\ Head(call.todo) = "decide"
    BY <2>1, WentOn
  <2>3. call.todo = <<"decide">>
    BY <2>2, NextTodo
  <2>4. call.own # 0 => call.latest >= call.own
    BY <2>3 DEF Intake!IntakeInv, Intake!Rests
  <2>5. call.own \in Nat /\ book' \in Intake!Rows
    BY <2>1, IntakeFacts
  <2>6. "snapshot_metadata_ready" \in Intake!Verdicts /\ "need_visible_text" \in Intake!Verdicts
    BY DEF Intake!Verdicts
  <2>7. CASE call.latest # 0
    BY <2>1, <2>2, <2>4, <2>5, <2>6, <2>7, Finishes
  <2>8. CASE call.latest = 0
    <3>1. call.own = 0
      BY <2>4, <2>5, <2>8
    <3> QED BY <2>1, <2>2, <2>5, <2>6, <2>8, <3>1, Finishes
  <2> QED BY <2>7, <2>8
<1>5. CASE Intake!WriteBook
  <2> DEFINE rows_ == IF call.raw # <<>> THEN call.raw ELSE call.ai
  <2>1. /\ Intake!At("book") /\ raw' = raw /\ ai' = ai /\ receipt' = receipt
        /\ book' = (IF rows_ = <<>> THEN book ELSE rows_) /\ now' = now /\ changes' = changes
        /\ Intake!Finish(IF rows_ = <<>> THEN "cache_missing" ELSE "book_created")
    BY <1>5 DEF Intake!WriteBook
  <2>2. call.todo # <<>> /\ book' \in Intake!Rows
    BY <2>1, WentOn, IntakeFacts
  <2> HIDE DEF rows_
  <2>3. "cache_missing" \in Intake!Verdicts /\ "book_created" \in Intake!Verdicts
    BY DEF Intake!Verdicts
  <2>4. CASE rows_ = <<>>
    BY <2>1, <2>2, <2>3, <2>4, Finishes
  <2>5. CASE rows_ # <<>>
    BY <2>1, <2>2, <2>3, <2>5, Finishes
  <2> QED BY <2>4, <2>5
<1>6. CASE Intake!Plan
  <2>1. /\ Intake!At("plan") /\ raw' = raw /\ ai' = ai /\ receipt' = receipt
        /\ book' = book /\ now' = now /\ changes' = changes
        /\ \/ Intake!Finish("ready_for_full_capture")
           \/ Intake!Finish("blocked_missing_full_thread_route")
    BY <1>6 DEF Intake!Plan, Intake!files
  <2>2. call.todo # <<>> /\ book' \in Intake!Rows
    BY <2>1, WentOn, IntakeFacts
  <2>3. /\ "ready_for_full_capture" \in Intake!Verdicts
        /\ "blocked_missing_full_thread_route" \in Intake!Verdicts
    BY DEF Intake!Verdicts
  <2> QED BY <2>1, <2>2, <2>3, Finishes
<1> QED BY <1>1, <1>2, <1>3, <1>4, <1>5, <1>6

\* The passport is built of whatever text was found.
LEMMA GuideKeeps ==
    ASSUME Intake!IntakeInv, Intake!Guide
    PROVE  Intake!IntakeInv'
<1>1. /\ Intake!At("guide") /\ raw' = raw /\ ai' = ai /\ receipt' = receipt
      /\ book' = book /\ now' = now /\ changes' = changes
  BY DEF Intake!Guide, Intake!files
<1>2. \/ call.latest = 0 /\ Intake!Finish("need_visible_text")
      \/ Intake!Finish("passport_ready") \/ Intake!Finish("reply_context_blocked")
      \/ Intake!Finish("guide_ready") \/ Intake!Finish("understanding_blocked")
  <2>1. CASE call.latest = 0
    BY <2>1 DEF Intake!Guide
  <2>2. CASE call.latest # 0 /\ ~call.ask.draft
    BY <2>2 DEF Intake!Guide
  <2>3. CASE call.latest # 0 /\ call.ask.draft /\ ~call.ask.context
    BY <2>3 DEF Intake!Guide
  <2>4. CASE call.latest # 0 /\ call.ask.draft /\ call.ask.context
    BY <2>4 DEF Intake!Guide
  <2> QED BY <2>1, <2>2, <2>3, <2>4
<1>3. call.todo # <<>> /\ call.todo \in Intake!Todos /\ Head(call.todo) = "guide"
  BY <1>1, WentOn
<1>4. call.todo = <<"guide">>
  BY <1>3, NextTodo
<1>5. call.own # 0 => call.latest >= call.own
  BY <1>4 DEF Intake!IntakeInv, Intake!Rests
<1>6. call.own \in Nat /\ book' \in Intake!Rows
  BY <1>1, IntakeFacts
<1>7. {"need_visible_text", "passport_ready", "reply_context_blocked", "guide_ready",
       "understanding_blocked"} \subseteq Intake!Verdicts
  BY DEF Intake!Verdicts
<1>8. CASE call.latest = 0 /\ Intake!Finish("need_visible_text")
  <2>1. call.own = 0
    BY <1>5, <1>6, <1>8
  <2> QED BY <1>1, <1>3, <1>6, <1>7, <1>8, <2>1, Finishes
<1>9. CASE Intake!Finish("passport_ready")
  BY <1>1, <1>3, <1>5, <1>6, <1>7, <1>9, Finishes
<1>10. CASE Intake!Finish("reply_context_blocked")
  BY <1>1, <1>3, <1>5, <1>6, <1>7, <1>10, Finishes
<1>11. CASE Intake!Finish("guide_ready")
  BY <1>1, <1>3, <1>5, <1>6, <1>7, <1>11, Finishes
<1>12. CASE Intake!Finish("understanding_blocked")
  BY <1>1, <1>3, <1>5, <1>6, <1>7, <1>12, Finishes
<1> QED BY <1>2, <1>8, <1>9, <1>10, <1>11, <1>12

\* Appending to the ledger: the file grows by a sound row, and the call goes on.
LEMMA AppendsAndGoesOn ==
    ASSUME Intake!IntakeInv, NEW r \in Intake!Row, Intake!Fits(r), Intake!Appendable,
           ai' = Append(ai, r), raw' = raw, receipt' = receipt, book' = book, now' = now,
           changes' = changes, call' \in Intake!Calls, Intake!Rests', Intake!Backed',
           call'.raw = call.raw, call'.ai = call.ai, call'.latest = call.latest,
           \/ call'.own = call.own
           \/ call'.own = Len(ai) + 1 /\ r.event = "observed"
    PROVE  Intake!IntakeInv'
<1>1. /\ ai' \in Intake!Rows /\ Intake!ToSet(ai') = Intake!ToSet(ai) \cup {r}
      /\ Len(ai') = Len(ai) + 1 /\ Len(ai) \in Nat
      /\ DOMAIN ai' = (DOMAIN ai) \cup {Len(ai) + 1}
      /\ \A i \in DOMAIN ai : ai'[i] = ai[i]
      /\ ai'[Len(ai) + 1] = r
  <2>1. ai \in Intake!Rows
    BY IntakeFacts
  <2> QED BY <2>1, RowsGrow
<1>2. Intake!Typed'
  BY <1>1 DEF Intake!IntakeInv, Intake!Typed
<1>3. Intake!OneInvalid'
  BY IntakeFacts, GrownOnce DEF Intake!IntakeInv
<1>4. Intake!Kept'
  <2>1. \A q \in Intake!ToSet(call.raw) : q \in Intake!ToSet(raw)
    BY DEF Intake!IntakeInv, Intake!Kept
  <2>2. ASSUME NEW q \in Intake!ToSet(call.ai)
        PROVE  q.state # "revoked" /\ (\/ q \in Intake!ToSet(ai')
                                       \/ q.state = "invalid"
                                          /\ [q EXCEPT !.state = "revoked"] \in Intake!ToSet(ai'))
    BY <1>1 DEF Intake!IntakeInv, Intake!Kept, Intake!StillThere
  <2>3. call'.own # 0 => call'.own \in DOMAIN ai' /\ ai'[call'.own].event = "observed"
    BY <1>1 DEF Intake!IntakeInv, Intake!Kept
  <2>4. call.latest \in 0 .. Len(ai')
    <3>1. call.latest \in 0 .. Len(ai)
      BY DEF Intake!IntakeInv, Intake!Kept
    <3> QED BY <1>1, <3>1
  <2> QED BY <2>1, <2>2, <2>3, <2>4 DEF Intake!Kept, Intake!StillThere
<1> QED BY <1>2, <1>3, <1>4 DEF Intake!IntakeInv

\* The text that was given is saved, in a row the command knows as its own.
LEMMA SaveKeeps ==
    ASSUME Intake!IntakeInv, Intake!Save
    PROVE  Intake!IntakeInv'
<1>1. /\ Intake!At("save") /\ raw' = raw /\ receipt' = receipt
      /\ book' = book /\ now' = now /\ changes' = changes
  BY DEF Intake!Save
<1>2. CASE ~Intake!Appendable
  <2>1. Intake!Finish("raised") /\ ai' = ai /\ "raised" \in Intake!Verdicts
    BY <1>2 DEF Intake!Save, Intake!Verdicts
  <2> QED BY <1>1, <2>1, WentOn, IntakeFacts, Finishes
<1>3. CASE Intake!Appendable
  <2> DEFINE next == [Intake!Went EXCEPT !.own = Len(ai) + 1]
  <2>1. ai' = Append(ai, Intake!OwnRow) /\ call' = next
    BY <1>3 DEF Intake!Save
  <2>2. Intake!OwnRow \in Intake!Row /\ Intake!Fits(Intake!OwnRow) /\ Intake!OwnRow.event = "observed"
    <3>1. now \in 0 .. MaxTime
      BY IntakeFacts
    <3>2. Intake!OwnRow \in Intake!Row /\ Intake!OwnRow.capture = Nothing /\ Intake!OwnRow.event = "observed"
      BY <3>1 DEF Intake!OwnRow, Intake!Row
    <3> QED BY <3>2 DEF Intake!Fits
  <2>3. Len(ai) + 1 \in Nat
    BY IntakeFacts
  <2>4. /\ next \in Intake!Calls /\ next.todo = Tail(call.todo) /\ next.ask = call.ask
        /\ next.verdict = call.verdict /\ next.raw = call.raw /\ next.ai = call.ai
        /\ next.own = Len(ai) + 1 /\ next.latest = call.latest
    BY <1>1, <2>3, WentOn DEF Intake!Calls
  <2> HIDE DEF next
  <2>5. Head(call.todo) = "save" /\ call.todo # <<>>
    BY <1>1, WentOn
  <2>6. call.todo # <<"ai", "synced">>
    BY <2>5
  <2>7. Intake!Rests' /\ Intake!Backed'
    BY <2>1, <2>4, <2>5, <2>6, RestsOn
  <2> QED BY <1>1, <1>3, <2>1, <2>2, <2>4, <2>7, AppendsAndGoesOn
<1> QED BY <1>2, <1>3

\* The first row of the cache is appended to the ledger, unless it is there.
LEMMA ImportKeepsIntake ==
    ASSUME Intake!IntakeInv, Intake!Import
    PROVE  Intake!IntakeInv'
<1> DEFINE row == Intake!Imported(call.raw[1])
<1>1. /\ Intake!At("import") /\ raw' = raw /\ receipt' = receipt
      /\ book' = book /\ now' = now /\ changes' = changes
  BY DEF Intake!Import
<1>2. /\ call.todo # <<>> /\ Head(call.todo) = "import" /\ call.todo \in Intake!Todos
      /\ call.latest \in 0 .. Len(ai)
      /\ \A r \in Intake!ToSet(call.raw) : r \in Intake!ToSet(raw)
  BY <1>1, WentOn
<1>3. call.raw # <<>>
  BY <1>2, NextTodo DEF Intake!IntakeInv, Intake!Rests
<1>4. row \in Intake!Row /\ Intake!Fits(row)
  <2>1. call.raw[1] \in {r \in Intake!Row : Intake!Fits(r)} /\ now \in 0 .. MaxTime
    BY <1>3, IntakeFacts DEF Intake!Rows
  <2>2. PICK r \in Intake!Row : r = call.raw[1] /\ Intake!Fits(r)
    BY <2>1
  <2>3. row \in Intake!Row /\ row.capture = r.capture /\ row.start = r.start /\ row.end = r.end
    BY <2>1, <2>2 DEF Intake!Imported, Intake!Row
  <2> HIDE DEF row
  <2> QED BY <2>2, <2>3 DEF Intake!Fits
<1>5. CASE row.state # "sound" \/ ~Intake!Appendable
  <2>1. Intake!Finish("raised") /\ ai' = ai /\ "raised" \in Intake!Verdicts
    BY <1>5 DEF Intake!Import, Intake!Verdicts
  <2> QED BY <1>1, <1>2, <2>1, IntakeFacts, Finishes
<1>6. CASE row.state = "sound" /\ Intake!Appendable
  <2>1. /\ call' = Intake!Went
        /\ \/ ai' = ai /\ row \in Intake!ToSet(ai)
           \/ ai' = Append(ai, row)
    BY <1>6 DEF Intake!Import
  <2> HIDE DEF row
  <2>2. /\ call' \in Intake!Calls /\ call'.todo = Tail(call.todo) /\ call'.ask = call.ask
        /\ call'.verdict = call.verdict /\ call'.raw = call.raw /\ call'.ai = call.ai
        /\ call'.own = call.own /\ call'.latest = call.latest
    BY <1>1, <2>1, WentOn
  <2>3. \E r \in Intake!ToSet(ai') : r.state = "sound"
    <3>1. CASE ai' = ai /\ row \in Intake!ToSet(ai)
      BY <1>6, <3>1
    <3>2. CASE ai' = Append(ai, row)
      <4>1. Intake!ToSet(ai') = Intake!ToSet(ai) \cup {row}
        BY <1>4, <3>2, IntakeFacts, RowsGrow
      <4> QED BY <1>6, <4>1
    <3> QED BY <2>1, <3>1, <3>2
  <2>4. call.todo # <<"ai", "synced">>
    BY <1>2
  <2>5. Intake!Rests' /\ Intake!Backed'
    BY <1>2, <2>2, <2>3, <2>4, RestsOn
  <2>6. CASE ai' = ai
    BY <1>1, <1>2, <2>2, <2>5, <2>6, IntakeFacts, CallGoesOn
  <2>7. CASE ai' = Append(ai, row)
    BY <1>1, <1>4, <1>6, <2>2, <2>5, <2>7, AppendsAndGoesOn
  <2> QED BY <2>1, <2>6, <2>7
<1> QED BY <1>5, <1>6

\* Somebody else appends to the cache.
LEMMA AppendRawKeeps ==
    ASSUME Intake!IntakeInv, NEW r \in CacheRows, Intake!AppendRaw(r)
    PROVE  Intake!IntakeInv'
<1>1. /\ raw' = Append(raw, r) /\ ai' = ai /\ receipt' = receipt /\ book' = book
      /\ now' = now /\ call' = call /\ changes < MaxChanges /\ changes' = changes + 1
  BY DEF Intake!AppendRaw, Intake!Change
<1>2. r \in Intake!Row /\ Intake!Fits(r) /\ raw \in Intake!Rows /\ changes' \in 0 .. MaxChanges
  BY <1>1, IntakeConstants, IntakeFacts
<1>3. raw' \in Intake!Rows /\ Intake!ToSet(raw') = Intake!ToSet(raw) \cup {r}
  BY <1>1, <1>2, RowsGrow
<1>4. Intake!Typed'
  BY <1>1, <1>2, <1>3 DEF Intake!IntakeInv, Intake!Typed
<1>5. Intake!OneInvalid' /\ Len(ai) <= Len(ai')
  BY <1>1, IntakeFacts DEF Intake!IntakeInv, Intake!OneInvalid
<1> QED BY <1>1, <1>3, <1>4, <1>5, OthersKeep

\* Somebody else appends to the ledger of texts.
LEMMA AppendAiKeeps ==
    ASSUME Intake!IntakeInv, NEW r \in LedgerRows, Intake!AppendAi(r)
    PROVE  Intake!IntakeInv'
<1>1. /\ raw' = raw /\ ai' = Append(ai, r) /\ receipt' = receipt /\ book' = book
      /\ now' = now /\ call' = call /\ changes < MaxChanges /\ changes' = changes + 1
      /\ Intake!Appendable
  BY DEF Intake!AppendAi, Intake!Change
<1>2. r \in Intake!Row /\ Intake!Fits(r) /\ ai \in Intake!Rows /\ changes' \in 0 .. MaxChanges
  BY <1>1, IntakeConstants, IntakeFacts
<1>3. /\ ai' \in Intake!Rows /\ Intake!ToSet(ai') = Intake!ToSet(ai) \cup {r}
      /\ Len(ai') = Len(ai) + 1 /\ Len(ai) \in Nat
      /\ DOMAIN ai' = (DOMAIN ai) \cup {Len(ai) + 1}
      /\ \A i \in DOMAIN ai : ai'[i] = ai[i]
  BY <1>1, <1>2, RowsGrow
<1>4. Intake!Typed'
  BY <1>1, <1>2, <1>3 DEF Intake!IntakeInv, Intake!Typed
<1>5. Intake!OneInvalid'
  BY <1>1, <1>2, GrownOnce DEF Intake!IntakeInv
<1>6. Len(ai) <= Len(ai')
  BY <1>3
<1> QED BY <1>1, <1>3, <1>4, <1>5, <1>6, OthersKeep

\* The invalid row at the end of the ledger is revoked.
LEMMA RevokeKeeps ==
    ASSUME Intake!IntakeInv, Intake!Revoke
    PROVE  Intake!IntakeInv'
<1> DEFINE n == Len(ai)
           row == [ai[n] EXCEPT !.state = "revoked"]
<1>1. /\ raw' = raw /\ ai' = [ai EXCEPT ![n] = row] /\ receipt' = receipt /\ book' = book
      /\ now' = now /\ call' = call /\ changes < MaxChanges /\ changes' = changes + 1
      /\ ai # <<>> /\ ai[n].state = "invalid"
  BY DEF Intake!Revoke, Intake!Change
<1>2. ai \in Intake!Rows /\ changes' \in 0 .. MaxChanges
  BY <1>1, IntakeConstants, IntakeFacts
<1>3. n \in DOMAIN ai /\ n \in Nat /\ ai[n] \in Intake!Row /\ Intake!Fits(ai[n]) /\ DOMAIN ai = 1 .. n
  BY <1>1, <1>2 DEF Intake!Rows
<1>4. /\ row \in Intake!Row /\ row.capture = ai[n].capture /\ row.start = ai[n].start
      /\ row.end = ai[n].end /\ row.event = ai[n].event /\ row.state = "revoked"
  BY <1>3 DEF Intake!Row
<1>5. Intake!Fits(row)
  BY <1>3, <1>4 DEF Intake!Fits
<1> DEFINE R == {r \in Intake!Row : Intake!Fits(r)}
<1>6. row \in R /\ ai \in Seq(R)
  BY <1>2, <1>4, <1>5 DEF Intake!Rows
<1> HIDE DEF row, R
<1>7. /\ ai' \in Seq(R) /\ Len(ai') = n /\ DOMAIN ai' = DOMAIN ai
      /\ ai'[n] = row /\ \A i \in DOMAIN ai : i # n => ai'[i] = ai[i]
  BY <1>1, <1>3, <1>6
<1>8. Intake!Typed'
  BY <1>1, <1>2, <1>7 DEF Intake!IntakeInv, Intake!Typed, Intake!Rows, R
<1>9. Intake!OneInvalid'
  BY <1>4, <1>7 DEF Intake!IntakeInv, Intake!OneInvalid
<1>10. ASSUME NEW r \in Intake!ToSet(ai)
       PROVE  \/ r \in Intake!ToSet(ai')
              \/ r.state = "invalid" /\ [r EXCEPT !.state = "revoked"] \in Intake!ToSet(ai')
  <2>1. PICK i \in DOMAIN ai : r = ai[i]
    BY DEF Intake!ToSet
  <2>2. CASE i = n
    <3>1. row \in Intake!ToSet(ai')
      BY <1>3, <1>7 DEF Intake!ToSet
    <3> QED BY <1>1, <2>1, <2>2, <3>1 DEF row
  <2>3. CASE i # n
    BY <1>7, <2>1, <2>3 DEF Intake!ToSet
  <2> QED BY <2>2, <2>3
<1>11. \A i \in DOMAIN ai : i \in DOMAIN ai' /\ ai'[i].event = ai[i].event
  BY <1>3, <1>4, <1>7
<1>12. Len(ai) <= Len(ai')
  BY <1>3, <1>7
<1> QED BY <1>1, <1>8, <1>9, <1>10, <1>11, <1>12, OthersKeep

\* Time passes, or a capture leaves a receipt.
LEMMA ReceiptOrTickKeeps ==
    ASSUME Intake!IntakeInv, Intake!Tick \/ \E r \in Receipts : Intake!LeaveReceipt(r)
    PROVE  Intake!IntakeInv'
<1>1. /\ raw' = raw /\ ai' = ai /\ book' = book /\ call' = call
  BY DEF Intake!Tick, Intake!LeaveReceipt, Intake!files
<1>2. receipt' \in Receipts \cup {Nothing} /\ now' \in 0 .. MaxTime
      /\ changes' \in 0 .. MaxChanges
  <2>1. CASE Intake!Tick
    BY <2>1, IntakeFacts, IntakeConstants DEF Intake!Tick, Intake!files
  <2>2. ASSUME NEW r \in Receipts, Intake!LeaveReceipt(r)
        PROVE  /\ receipt' \in Receipts \cup {Nothing} /\ now' \in 0 .. MaxTime
               /\ changes' \in 0 .. MaxChanges
    BY <2>2, IntakeFacts, IntakeConstants DEF Intake!LeaveReceipt, Intake!Change
  <2> QED BY <2>1, <2>2
<1>3. Intake!Typed'
  BY <1>1, <1>2 DEF Intake!IntakeInv, Intake!Typed
<1>4. Intake!OneInvalid' /\ Len(ai) <= Len(ai')
  BY <1>1, IntakeFacts DEF Intake!IntakeInv, Intake!OneInvalid
<1> QED BY <1>1, <1>3, <1>4, OthersKeep

\* Every step of the intake keeps its invariant.
LEMMA IntakeStep ==
    ASSUME Intake!IntakeInv, Intake!Next
    PROVE  Intake!IntakeInv'
<1>1. CASE Intake!Command
  BY <1>1, BeginKeeps, ReadRawKeeps, ReadAiKeeps, LoadReceiptKeeps, CompareIntakeKeeps,
     EndsKeep, ImportKeepsIntake, SaveKeeps, RefreshKeeps, SelectLatestKeeps, GuideKeeps
     DEF Intake!Command
<1>2. CASE Intake!Others
  BY <1>2, AppendRawKeeps, AppendAiKeeps, RevokeKeeps, ReceiptOrTickKeeps DEF Intake!Others
<1> QED BY <1>1, <1>2 DEF Intake!Next

\* A step of another part leaves the intake as it is.
LEMMA IntakeStands ==
    ASSUME Intake!IntakeInv, UNCHANGED Intake!vars
    PROVE  Intake!IntakeInv'
<1>1. /\ raw' = raw /\ ai' = ai /\ receipt' = receipt /\ book' = book /\ now' = now
      /\ call' = call /\ changes' = changes
  BY DEF Intake!vars
<1>2. Intake!Typed'
  BY <1>1 DEF Intake!IntakeInv, Intake!Typed
<1>3. Intake!OneInvalid' /\ Len(ai) <= Len(ai')
  BY <1>1, IntakeFacts DEF Intake!IntakeInv, Intake!OneInvalid
<1> QED BY <1>1, <1>2, <1>3, OthersKeep

\* The invariant is what the types and the properties of the intake say, and more.
LEMMA IntakeMeans ==
    ASSUME Intake!IntakeInv
    PROVE  Intake!TypeOK /\ Intake!IntakeIsBacked
<1>1. Intake!TypeOK
  <2>1. /\ Intake!ToSet(raw) \subseteq {r \in Intake!Row : Intake!Fits(r)}
        /\ Intake!ToSet(ai) \subseteq {r \in Intake!Row : Intake!Fits(r)}
        /\ Intake!ToSet(book) \subseteq {r \in Intake!Row : Intake!Fits(r)}
    BY IntakeFacts, SetOfSequence DEF Intake!Rows
  <2>2. call.own \in 0 .. Len(ai)
    <3>1. Len(ai) \in Nat /\ DOMAIN ai = 1 .. Len(ai) /\ call.own \in Nat
      BY IntakeFacts DEF Intake!Rows
    <3> QED BY <3>1, IntakeFacts
  <2>3. call.latest \in 0 .. Len(ai) /\ call.ask \in Asks \cup {Nothing}
    BY IntakeFacts DEF Intake!IntakeInv, Intake!Kept, Intake!Calls
  <2> QED BY <2>1, <2>2, <2>3, IntakeFacts
     DEF Intake!TypeOK, Intake!IntakeInv, Intake!OneInvalid
<1>2. ASSUME NEW r \in Intake!ToSet(call.ai)
      PROVE  /\ r \in Intake!Row /\ r.state # "revoked"
             /\ \E q \in Intake!ToSet(ai) : q.capture = r.capture /\ q.at = r.at
             /\ r.state # "invalid" => r \in Intake!ToSet(ai)
  <2>1. r \in Intake!Row
    BY IntakeFacts, SetOfSequence DEF Intake!Rows
  <2>2. r.state # "revoked" /\ (\/ r \in Intake!ToSet(ai)
                                \/ r.state = "invalid"
                                   /\ [r EXCEPT !.state = "revoked"] \in Intake!ToSet(ai))
    BY DEF Intake!IntakeInv, Intake!Kept, Intake!StillThere
  <2>3. \E q \in Intake!ToSet(ai) : q.capture = r.capture /\ q.at = r.at
    <3>1. CASE r \in Intake!ToSet(ai)
      BY <3>1
    <3>2. CASE [r EXCEPT !.state = "revoked"] \in Intake!ToSet(ai)
      <4> DEFINE q == [r EXCEPT !.state = "revoked"]
      <4>1. q.capture = r.capture /\ q.at = r.at
        BY <2>1 DEF Intake!Row
      <4> QED BY <3>2, <4>1
    <3> QED BY <2>2, <3>1, <3>2
  <2> QED BY <2>1, <2>2, <2>3
<1>3. Intake!SummaryIsCovered
  <2> SUFFICES ASSUME call.verdict = "summary_ready"
               PROVE  /\ Covers[call.receipt.capture].start <= call.ask.start
                      /\ call.ask.end <= Covers[call.receipt.capture].end
                      /\ \E r \in Intake!ToSet(raw) \cup Intake!ToSet(ai) :
                             /\ r.capture = call.receipt.capture
                             /\ r.at # Nothing /\ call.begun - r.at <= MaxAge
    BY DEF Intake!SummaryIsCovered
  <2>1. /\ Covers[call.receipt.capture].start <= call.ask.start
        /\ call.ask.end <= Covers[call.receipt.capture].end
        /\ \E r \in Intake!ToSet(call.raw) \cup Intake!ToSet(call.ai) :
               /\ r.capture = call.receipt.capture
               /\ r.at # Nothing /\ call.begun - r.at <= MaxAge
    BY DEF Intake!IntakeInv, Intake!Backed
  <2>2. PICK r \in Intake!ToSet(call.raw) \cup Intake!ToSet(call.ai) :
            /\ r.capture = call.receipt.capture
            /\ r.at # Nothing /\ call.begun - r.at <= MaxAge
    BY <2>1
  <2>3. \E q \in Intake!ToSet(raw) \cup Intake!ToSet(ai) : q.capture = r.capture /\ q.at = r.at
    BY <1>2 DEF Intake!IntakeInv, Intake!Kept
  <2> QED BY <2>1, <2>2, <2>3
<1>4. Intake!ReadyHasRow
  <2> SUFFICES ASSUME call.verdict = "ready"
               PROVE  /\ call.ai # <<>>
                      /\ Intake!Matching(ai) = <<>> => \A r \in Intake!ToSet(call.ai) : r.state = "invalid"
    BY DEF Intake!ReadyHasRow
  <2>1. call.ai # <<>>
    BY DEF Intake!IntakeInv, Intake!Backed
  <2>2. ASSUME Intake!Matching(ai) = <<>>, NEW r \in Intake!ToSet(call.ai)
        PROVE  r.state = "invalid"
    <3>1. Intake!ToSet(Intake!Matching(ai)) = {q \in Intake!ToSet(ai) : q.state # "revoked"}
      BY IntakeFacts, MatchingRows
    <3>2. Intake!ToSet(Intake!Matching(ai)) = {}
      BY <2>2 DEF Intake!ToSet
    <3> QED BY <1>2, <3>1, <3>2
  <2> QED BY <2>1, <2>2
<1> QED BY <1>1, <1>3, <1>4 DEF Intake!IntakeInv, Intake!Backed, Intake!IntakeIsBacked

------------------------------------------------------------------------------
(***************************************************************************)
(* The local stores                                                        *)
(***************************************************************************)

\* What is assumed of the constants of the local stores.
LEMMA LocalConstants ==
    /\ MaxCalls \in Nat /\ Torn \notin Local!Files
    /\ Texts \subseteq Seq(Local!Ids) /\ Torn \notin Seq(Local!Ids)
BY TextStoreAssumption DEF Local!LocalAssumption, Local!Files, Local!Ids

\* The calls of each kind of store.
LEMMA LocalCalls ==
    ASSUME kind \in Local!Kinds, NEW c \in Local!Calls
    PROVE  /\ c.phase \in {"idle", "save", "write", "events", "append", "raw", "manifest"}
           /\ c.stale \in BOOLEAN
           /\ c.phase = "idle" => c = Local!Idle
           /\ c.phase \in {"save", "write"} =>
                  kind \in {"library", "config"} /\ c \in Local!Saves
           /\ c.phase \in {"events", "append"} => kind = "events" /\ c \in Local!Imports
           /\ c.phase \in {"raw", "manifest"} => kind = "captures" /\ c \in Local!Stores
<1>1. CASE c = Local!Idle
  BY <1>1 DEF Local!Idle
<1>2. CASE c \in Local!Saves /\ kind \in {"library", "config"}
  BY <1>2 DEF Local!Saves
<1>3. CASE c \in Local!Imports /\ kind = "events"
  BY <1>3 DEF Local!Imports
<1>4. CASE c \in Local!Stores /\ kind = "captures"
  BY <1>4 DEF Local!Stores
<1> QED BY <1>1, <1>2, <1>3, <1>4 DEF Local!Kinds, Local!Calls

\* A call that is marked as stale is one of the same kind of store.
LEMMA StaleIsCall ==
    ASSUME kind \in Local!Kinds, NEW c \in Local!Calls, c.phase # "idle", NEW b \in BOOLEAN
    PROVE  /\ [c EXCEPT !.stale = b] \in Local!Calls
           /\ [c EXCEPT !.stale = b].phase = c.phase /\ [c EXCEPT !.stale = b].what = c.what
           /\ [c EXCEPT !.stale = b].seen = c.seen /\ [c EXCEPT !.stale = b].left = c.left
           /\ [c EXCEPT !.stale = b].stale = b
<1>1. CASE c = Local!Idle
  BY <1>1 DEF Local!Idle
<1>2. CASE c \in Local!Saves /\ kind \in {"library", "config"}
  BY <1>2 DEF Local!Saves, Local!Calls
<1>3. CASE c \in Local!Imports /\ kind = "events"
  BY <1>3 DEF Local!Imports, Local!Calls
<1>4. CASE c \in Local!Stores /\ kind = "captures"
  BY <1>4 DEF Local!Stores, Local!Calls
<1> QED BY <1>1, <1>2, <1>3, <1>4 DEF Local!Kinds, Local!Calls

\* After a write every other call under way is stale, and is otherwise as it was.
LEMMA WriteMakesStale ==
    ASSUME kind \in Local!Kinds, call \in [Proc -> Local!Calls], NEW p \in Proc,
           NEW next \in Local!Calls, Local!AfterWrite(p, next)
    PROVE  /\ call' \in [Proc -> Local!Calls] /\ call'[p] = next
           /\ \A q \in Proc \ {p} :
                  /\ call'[q].phase = "idle" \/ call'[q].stale
                  /\ call'[q].phase = call[q].phase /\ call'[q].what = call[q].what
                  /\ call'[q].seen = call[q].seen /\ call'[q].left = call[q].left
<1>1. /\ call' = [q \in Proc |-> IF q = p THEN next
                                 ELSE IF call[q].phase # "idle"
                                      THEN [call[q] EXCEPT !.stale = TRUE] ELSE call[q]]
  BY DEF Local!AfterWrite
<1>2. ASSUME NEW q \in Proc
      PROVE  call'[q] \in Local!Calls
  BY <1>1, StaleIsCall
<1>3. ASSUME NEW q \in Proc \ {p}
      PROVE  /\ call'[q].phase = "idle" \/ call'[q].stale
             /\ call'[q].phase = call[q].phase /\ call'[q].what = call[q].what
             /\ call'[q].seen = call[q].seen /\ call'[q].left = call[q].left
  <2>1. CASE call[q].phase = "idle"
    BY <1>1, <2>1
  <2>2. CASE call[q].phase # "idle"
    <3>1. call'[q] = [call[q] EXCEPT !.stale = TRUE]
      BY <1>1, <2>2
    <3>2. call[q] \in Local!Calls /\ TRUE \in BOOLEAN
      OBVIOUS
    <3>3. call'[q].stale = TRUE
      BY <2>2, <3>1, <3>2, StaleIsCall
    <3>4. /\ call'[q].phase = call[q].phase /\ call'[q].what = call[q].what
          /\ call'[q].seen = call[q].seen /\ call'[q].left = call[q].left
      BY <2>2, <3>1, <3>2, StaleIsCall
    <3> QED BY <3>3, <3>4
  <2> QED BY <2>1, <2>2
<1> QED BY <1>1, <1>2, <1>3

\* The invariant holds in the beginning.
LEMMA LocalBegins ==
    ASSUME Local!Init
    PROVE  Local!LocalInv
<1>1. [k \in Key |-> Nothing] \in Local!Files /\ <<>> \in Seq(Local!Ids)
  BY DEF Local!Files
<1>2. Local!Idle \in Local!Calls /\ Local!Idle.phase = "idle" /\ kind \in Local!Kinds
  BY DEF Local!Idle, Local!Calls, Local!Kinds, Local!Init
<1>3. /\ call = [p \in Proc |-> Local!Idle]
  BY DEF Local!Init
<1>4. call \in [Proc -> Local!Calls] /\ \A p \in Proc : call[p].phase = "idle"
  BY <1>2, <1>3
<1>5. Local!Typed
  <2>1. told \in (IF kind \in {"library", "config"} THEN Local!Files
                 ELSE SUBSET (IF kind = "events" THEN Local!Ids ELSE Site))
    BY <1>1, <1>2 DEF Local!Init
  <2>2. calls \in 0 .. MaxCalls
    BY LocalConstants DEF Local!Init
  <2> QED BY <1>1, <1>2, <1>4, <2>1, <2>2 DEF Local!Typed, Local!Init
<1>6. file \in Local!Files /\ log = <<>> /\ raw = {} /\ manifests = {}
      /\ told = (IF kind \in {"library", "config"} THEN file ELSE {})
  BY <1>1 DEF Local!Init
<1>7. Local!Undisturbed
  BY <1>4, <1>6 DEF Local!Undisturbed
<1>8. Local!Appending /\ Local!RawIsFirst /\ Local!ImportedEventsStay /\ Local!TornOnlyByDeath
      /\ Local!ManifestHasCapture
  <2>1. Local!IsInjective(<<>>)
    BY DEF Local!IsInjective
  <2>2. log # Torn
    BY <1>1, <1>6, LocalConstants
  <2> QED BY <1>4, <1>6, <2>1, <2>2 DEF Local!Appending, Local!RawIsFirst,
                                        Local!ImportedEventsStay, Local!TornOnlyByDeath,
                Local!ManifestHasCapture
<1> QED BY <1>4, <1>5, <1>6, <1>7, <1>8, LocalConstants DEF Local!LocalInv

\* A step on the library or the configuration leaves the rest of the invariant alone.
LEMMA FilesGo ==
    ASSUME Local!LocalInv, kind \in {"library", "config"}, UNCHANGED <<kind, log, raw, manifests, clip>>,
           file' \in Local!Files \cup {Torn}, call' \in [Proc -> Local!Calls], told' \in Local!Files,
           calls' \in 0 .. MaxCalls, raced' \in BOOLEAN, cut' \in BOOLEAN, Local!Undisturbed',
           kind = "config" => file' # Torn /\ \A q \in Proc : call'[q].phase # "write"
    PROVE  Local!LocalInv'
<1>1. ASSUME NEW q \in Proc
      PROVE  call'[q].phase # "append" /\ call'[q].phase # "manifest"
  <2>1. call'[q] \in Local!Calls /\ kind \in Local!Kinds
    BY DEF Local!LocalInv, Local!Typed
  <2> QED BY <2>1, LocalCalls
<1>2. Local!Typed'
  BY <1>1 DEF Local!LocalInv, Local!Typed, Local!Calls
<1>3. Local!Appending' /\ Local!RawIsFirst' /\ Local!ImportedEventsStay' /\ Local!TornOnlyByDeath'
  BY <1>1 DEF Local!Appending, Local!RawIsFirst, Local!ImportedEventsStay,
              Local!TornOnlyByDeath
<1>4. Local!ManifestHasCapture'
  BY DEF Local!LocalInv, Local!ManifestHasCapture
<1> QED BY <1>2, <1>3, <1>4 DEF Local!LocalInv

\* A step on the event log leaves the rest of the invariant alone.
LEMMA EventsGo ==
    ASSUME Local!LocalInv, kind = "events", UNCHANGED <<kind, file, raw, manifests>>,
           log' \in Seq(Local!Ids) \cup {Torn}, call' \in [Proc -> Local!Calls], clip' \in Texts,
           told' \in SUBSET Local!Ids, calls' \in 0 .. MaxCalls, raced' \in BOOLEAN,
           cut' \in BOOLEAN,
           \A q \in Proc : call'[q].phase = "append" => call'[q].left # <<>>,
           Local!Appending', Local!ImportedEventsStay', Local!TornOnlyByDeath'
    PROVE  Local!LocalInv'
<1>1. ASSUME NEW q \in Proc
      PROVE  call'[q].phase # "write" /\ call'[q].phase # "manifest"
  <2>1. call'[q] \in Local!Calls /\ kind \in Local!Kinds
    BY DEF Local!LocalInv, Local!Typed
  <2> QED BY <2>1, LocalCalls
<1>2. Local!Typed'
  BY DEF Local!LocalInv, Local!Typed, Local!Calls
<1>3. Local!Undisturbed' /\ Local!RawIsFirst'
  BY <1>1 DEF Local!Undisturbed, Local!RawIsFirst
<1>4. Local!ManifestHasCapture'
  BY DEF Local!LocalInv, Local!ManifestHasCapture
<1> QED BY <1>2, <1>3, <1>4 DEF Local!LocalInv

\* A step on the capture files leaves the rest of the invariant alone.
LEMMA CapturesGo ==
    ASSUME Local!LocalInv, kind = "captures", UNCHANGED <<kind, file, log, clip, raced>>,
           raw' \in SUBSET Site, manifests' \in SUBSET Site, call' \in [Proc -> Local!Calls],
           told' \in SUBSET Site, calls' \in 0 .. MaxCalls, cut' \in BOOLEAN,
           Local!RawIsFirst', Local!ManifestHasCapture'
    PROVE  Local!LocalInv'
<1>1. ASSUME NEW q \in Proc
      PROVE  call'[q].phase # "write" /\ call'[q].phase # "append"
  <2>1. call'[q] \in Local!Calls /\ kind \in Local!Kinds
    BY DEF Local!LocalInv, Local!Typed
  <2> QED BY <2>1, LocalCalls
<1>2. Local!Typed'
  BY <1>1 DEF Local!LocalInv, Local!Typed, Local!Calls
<1>3. Local!Undisturbed' /\ Local!Appending' /\ Local!ImportedEventsStay' /\ Local!TornOnlyByDeath'
  BY DEF Local!Undisturbed, Local!Appending, Local!ImportedEventsStay, Local!TornOnlyByDeath
<1> QED BY <1>2, <1>3 DEF Local!LocalInv

\* The step of each action on the library and the configuration.
LEMMA LoadKeeps ==
    ASSUME Local!LocalInv, NEW p \in Proc, NEW k \in Key, NEW v \in Value, Local!Load(p, k, v)
    PROVE  Local!LocalInv'
<1> DEFINE save == [Local!Idle EXCEPT !.phase = "save", !.what = <<k, v>>, !.seen = file]
<1>1. /\ kind \in {"library", "config"} /\ UNCHANGED <<kind, file, log, raw, manifests, clip>>
      /\ told' = told /\ raced' = raced /\ cut' = cut /\ call[p].phase = "idle"
      /\ calls < MaxCalls /\ calls' = calls + 1
      /\ \E next : /\ call' = [call EXCEPT ![p] = next]
                   /\ next = Local!Idle \/ (file # Torn /\ next = save)
  BY DEF Local!Load, Local!Begin, Local!data
<1>2. /\ file \in Local!Files \cup {Torn} /\ told \in Local!Files /\ calls' \in 0 .. MaxCalls
      /\ raced \in BOOLEAN /\ cut \in BOOLEAN /\ call \in [Proc -> Local!Calls]
      /\ kind \in Local!Kinds
  BY <1>1, LocalConstants DEF Local!LocalInv, Local!Typed
<1>3. PICK next : /\ call' = [call EXCEPT ![p] = next]
                  /\ next = Local!Idle \/ (file # Torn /\ next = save)
  BY <1>1
<1>4. /\ next \in Local!Calls
      /\ \/ next.phase = "idle"
         \/ (next.phase = "save" /\ next.seen = file /\ file # Torn)
  <2>1. Local!Idle \in Local!Calls /\ Local!Idle.phase = "idle"
    BY DEF Local!Idle, Local!Calls
  <2>2. file # Torn => save \in Local!Saves /\ save.phase = "save" /\ save.seen = file
    BY <1>2 DEF Local!Saves, Local!Idle
  <2> HIDE DEF save
  <2> QED BY <1>1, <1>3, <2>1, <2>2 DEF Local!Calls
<1> HIDE DEF save
<1>5. /\ call' \in [Proc -> Local!Calls] /\ call'[p] = next
      /\ \A q \in Proc \ {p} : call'[q] = call[q]
  BY <1>2, <1>3, <1>4
<1>6. Local!Undisturbed'
  <2> SUFFICES ASSUME ~raced, ~cut PROVE Local!Undisturbed'
    BY <1>1 DEF Local!Undisturbed
  <2>1. /\ \A q \in Proc : call[q].phase \in {"save", "write"} /\ ~call[q].stale =>
               call[q].seen = told
        /\ \A q \in Proc : call[q].phase = "write" =>
               /\ file = Torn /\ ~call[q].stale
               /\ \A h \in Proc \ {q} : call[h].phase = "idle" \/ call[h].stale
        /\ file = told \/ \E q \in Proc : call[q].phase = "write"
    BY <1>1 DEF Local!LocalInv, Local!Undisturbed
  <2>2. file # Torn => file = told
    BY <2>1
  <2>3. \A q \in Proc : call'[q].phase \in {"save", "write"} /\ ~call'[q].stale =>
            call'[q].seen = told
    BY <1>4, <1>5, <2>1, <2>2
  <2>4. ASSUME NEW q \in Proc, call'[q].phase = "write"
        PROVE  /\ file = Torn /\ ~call'[q].stale
               /\ \A h \in Proc \ {q} : call'[h].phase = "idle" \/ call'[h].stale
    <3>1. q # p /\ call[q].phase = "write" /\ call'[q] = call[q]
      BY <1>4, <1>5, <2>4
    <3>2. file = Torn
      BY <2>1, <3>1
    <3>3. call'[p].phase = "idle"
      BY <1>4, <1>5, <3>2
    <3> QED BY <1>5, <2>1, <3>1, <3>2, <3>3
  <2>5. file = told \/ \E q \in Proc : call'[q].phase = "write"
    <3>1. ASSUME NEW q \in Proc, call[q].phase = "write" PROVE call'[q].phase = "write"
      BY <1>1, <1>5, <3>1
    <3> QED BY <2>1, <3>1
  <2> QED BY <1>1, <2>3, <2>4, <2>5 DEF Local!Undisturbed
<1>7. kind = "config" => file' # Torn /\ \A q \in Proc : call'[q].phase # "write"
  BY <1>1, <1>4, <1>5 DEF Local!LocalInv
<1> QED BY <1>1, <1>2, <1>5, <1>6, <1>7, FilesGo

\* The library is opened for writing, and is empty until it is written.
LEMMA TruncateKeeps ==
    ASSUME Local!LocalInv, NEW p \in Proc, Local!Truncate(p)
    PROVE  Local!LocalInv'
<1> DEFINE next == [call[p] EXCEPT !.phase = "write"]
<1>1. /\ kind = "library" /\ call[p].phase = "save" /\ file' = Torn /\ Local!AfterWrite(p, next)
      /\ UNCHANGED <<kind, log, raw, manifests, clip>> /\ calls' = calls /\ told' = told
      /\ cut' = cut
  BY DEF Local!Truncate, Local!At
<1>2. /\ told \in Local!Files /\ calls \in 0 .. MaxCalls
      /\ raced \in BOOLEAN /\ cut \in BOOLEAN /\ call \in [Proc -> Local!Calls]
      /\ kind \in Local!Kinds /\ call[p] \in Local!Calls
  BY <1>1 DEF Local!LocalInv, Local!Typed
<1>3. call[p] \in Local!Saves
  BY <1>1, <1>2, LocalCalls
<1>4. /\ next \in Local!Calls /\ next.phase = "write" /\ next.seen = call[p].seen
      /\ next.stale = call[p].stale /\ call[p].stale \in BOOLEAN
  BY <1>1, <1>3 DEF Local!Saves, Local!Calls
<1>5. raced' = (raced \/ call[p].stale) /\ raced' \in BOOLEAN
  <2>1. raced' = (raced \/ call[p].stale)
    BY DEF Local!Truncate, Local!Races
  <2> QED BY <1>2, <1>4, <2>1
<1> HIDE DEF next
<1>6. /\ call' \in [Proc -> Local!Calls] /\ call'[p] = next
      /\ \A q \in Proc \ {p} :
             /\ call'[q].phase = "idle" \/ call'[q].stale
             /\ call'[q].phase = call[q].phase
  BY <1>1, <1>2, <1>4, WriteMakesStale
<1>7. Local!Undisturbed'
  <2> SUFFICES ASSUME ~raced', ~cut PROVE Local!Undisturbed'
    BY <1>1 DEF Local!Undisturbed
  <2>1. ~raced /\ ~call[p].stale
    BY <1>5
  <2>2. /\ call[p].seen = told
        /\ \A q \in Proc : call[q].phase = "write" =>
               \A h \in Proc \ {q} : call[h].phase = "idle" \/ call[h].stale
    BY <1>1, <2>1 DEF Local!LocalInv, Local!Undisturbed
  <2>3. \A q \in Proc \ {p} : call'[q].phase # "write"
    <3> SUFFICES ASSUME NEW q \in Proc \ {p}, call[q].phase = "write" PROVE FALSE
      BY <1>6
    <3> QED BY <1>1, <2>1, <2>2
  <2> QED BY <1>1, <1>4, <1>6, <2>1, <2>2, <2>3 DEF Local!Undisturbed
<1> QED BY <1>1, <1>2, <1>5, <1>6, <1>7, FilesGo

\* The entry list that a call writes.
LEMMA UpdatedTyped ==
    ASSUME NEW c \in Local!Saves
    PROVE  /\ Local!Updated(c) \in Local!Files
           /\ Local!Updated(c) = [c.seen EXCEPT ![c.what[1]] = c.what[2]]
           /\ \A f \in Local!Files : [f EXCEPT ![c.what[1]] = c.what[2]] \in Local!Files
BY DEF Local!Saves, Local!Updated, Local!Files

\* The library is written in place, or the configuration replaced.
LEMMA WriteListKeeps ==
    ASSUME Local!LocalInv, NEW p \in Proc, Local!WriteList(p) \/ Local!ReplaceConfig(p)
    PROVE  Local!LocalInv'
<1>1. /\ kind \in {"library", "config"} /\ call[p].phase \in {"save", "write"}
      /\ kind = "library" => call[p].phase = "write"
      /\ \/ file' = Local!Updated(call[p])
         \/ kind = "library" /\ file # Torn /\ file' = Torn
      /\ told' = [told EXCEPT ![call[p].what[1]] = call[p].what[2]]
      /\ Local!AfterWrite(p, Local!Idle)
      /\ UNCHANGED <<kind, log, raw, manifests, clip>> /\ calls' = calls /\ cut' = cut
  BY DEF Local!WriteList, Local!ReplaceConfig, Local!At
<1>2. /\ told \in Local!Files /\ calls \in 0 .. MaxCalls
      /\ raced \in BOOLEAN /\ cut \in BOOLEAN /\ call \in [Proc -> Local!Calls]
      /\ kind \in Local!Kinds /\ call[p] \in Local!Calls
  BY <1>1 DEF Local!LocalInv, Local!Typed
<1>3. call[p] \in Local!Saves
  BY <1>1, <1>2, LocalCalls
<1>4. /\ told' \in Local!Files /\ Local!Updated(call[p]) \in Local!Files
      /\ file' \in Local!Files \cup {Torn}
  BY <1>1, <1>2, <1>3, UpdatedTyped
<1>5. raced' = (raced \/ call[p].stale) /\ raced' \in BOOLEAN
  <2>1. raced' = (raced \/ call[p].stale)
    BY DEF Local!WriteList, Local!ReplaceConfig, Local!Races
  <2>2. call[p].stale \in BOOLEAN
    BY <1>3 DEF Local!Saves
  <2> QED BY <1>2, <2>1, <2>2
<1>6. Local!Idle \in Local!Calls /\ Local!Idle.phase = "idle"
  BY DEF Local!Idle, Local!Calls
<1>7. /\ call' \in [Proc -> Local!Calls] /\ call'[p] = Local!Idle
      /\ \A q \in Proc \ {p} :
             /\ call'[q].phase = "idle" \/ call'[q].stale
             /\ call'[q].phase = call[q].phase
  BY <1>1, <1>2, <1>6, WriteMakesStale
<1>8. Local!Undisturbed'
  <2> SUFFICES ASSUME ~raced', ~cut PROVE Local!Undisturbed'
    BY <1>1 DEF Local!Undisturbed
  <2>1. ~raced /\ ~call[p].stale
    BY <1>5
  <2>2. /\ call[p].seen = told
        /\ \A q \in Proc : call[q].phase = "write" =>
               /\ file = Torn
               /\ \A h \in Proc \ {q} : call[h].phase = "idle" \/ call[h].stale
    BY <1>1, <2>1 DEF Local!LocalInv, Local!Undisturbed
  <2>3. \A q \in Proc \ {p} : call'[q].phase # "write"
    <3> SUFFICES ASSUME NEW q \in Proc \ {p}, call[q].phase = "write" PROVE FALSE
      BY <1>7
    <3> QED BY <1>1, <2>1, <2>2
  <2>4. file' = told'
    <3>1. file' = Local!Updated(call[p])
      BY <1>1, <2>2
    <3> QED BY <1>1, <1>3, <2>2, <3>1, UpdatedTyped
  <2> QED BY <1>1, <1>6, <1>7, <2>3, <2>4 DEF Local!Undisturbed
<1>9. kind = "config" => file' # Torn /\ \A q \in Proc : call'[q].phase # "write"
  <2> SUFFICES ASSUME kind = "config"
               PROVE  file' # Torn /\ \A q \in Proc : call'[q].phase # "write"
    OBVIOUS
  <2>1. \A q \in Proc : call[q].phase # "write"
    BY DEF Local!LocalInv
  <2>2. file' # Torn
    BY <1>1, <1>4, LocalConstants
  <2> QED BY <1>6, <1>7, <2>1, <2>2
<1> QED BY <1>1, <1>2, <1>4, <1>5, <1>7, <1>8, <1>9, FilesGo

\* The step of each action on the event log.
LEMMA CopyKeeps ==
    ASSUME Local!LocalInv, NEW text \in Texts, Local!Copy(text)
    PROVE  Local!LocalInv'
<1>1. /\ kind = "events" /\ clip' = text /\ UNCHANGED <<kind, file, log, raw, manifests, call>>
      /\ calls' = calls /\ told' = told /\ raced' = raced /\ cut' = cut
  BY DEF Local!Copy, Local!data
<1>2. /\ log \in Seq(Local!Ids) \cup {Torn} /\ told \in SUBSET Local!Ids /\ calls \in 0 .. MaxCalls
      /\ raced \in BOOLEAN /\ cut \in BOOLEAN /\ call \in [Proc -> Local!Calls]
      /\ \A q \in Proc : call[q].phase = "append" => call[q].left # <<>>
  BY <1>1 DEF Local!LocalInv, Local!Typed
<1>3. Local!Appending' /\ Local!ImportedEventsStay' /\ Local!TornOnlyByDeath'
  BY <1>1 DEF Local!LocalInv, Local!Appending, Local!ImportedEventsStay,
              Local!TornOnlyByDeath
<1> QED BY <1>1, <1>2, <1>3, EventsGo

\* Where one call goes on and the log stays, a call need only hold what it claims itself.
LEMMA OneGoesOn ==
    ASSUME Local!LocalInv, kind = "events", NEW p \in Proc, NEW next \in Local!Calls,
           UNCHANGED <<kind, file, log, raw, manifests, raced>>,
           clip' \in Texts, calls' \in 0 .. MaxCalls, cut' \in BOOLEAN, cut => cut',
           call' = [call EXCEPT ![p] = next],
           next.phase = "append" => next.left # <<>>,
           told' \in SUBSET Local!Ids,
           log # Torn => told' \subseteq Local!ToSet(log),
           log # Torn /\ next.phase \in {"events", "append"} =>
               next.what \subseteq Local!ToSet(log) \cup Local!ToSet(next.left),
           log # Torn /\ next.phase = "append" => next.seen = Local!ToSet(log)
    PROVE  Local!LocalInv'
<1>1. /\ log \in Seq(Local!Ids) \cup {Torn} /\ call \in [Proc -> Local!Calls] /\ raced \in BOOLEAN
      /\ \A q \in Proc : call[q].phase = "append" => call[q].left # <<>>
  BY DEF Local!LocalInv, Local!Typed
<1>2. /\ call' \in [Proc -> Local!Calls] /\ call'[p] = next
      /\ \A q \in Proc \ {p} : call'[q] = call[q]
  BY <1>1
<1>3. Local!Appending'
  BY <1>2 DEF Local!LocalInv, Local!Appending
<1>4. Local!ImportedEventsStay' /\ Local!TornOnlyByDeath'
  BY DEF Local!LocalInv, Local!ImportedEventsStay, Local!TornOnlyByDeath
<1>5. \A q \in Proc : call'[q].phase = "append" => call'[q].left # <<>>
  BY <1>1, <1>2
<1> QED BY <1>1, <1>2, <1>3, <1>4, <1>5, EventsGo

\* A poll finds other text in the clipboard, and has all of its events to append.
LEMMA PollKeeps ==
    ASSUME Local!LocalInv, NEW p \in Proc, Local!Poll(p)
    PROVE  Local!LocalInv'
<1> DEFINE next == [Local!Idle EXCEPT !.phase = "events", !.left = clip, !.what = Local!ToSet(clip)]
<1>1. /\ kind = "events" /\ UNCHANGED <<kind, file, log, raw, manifests, raced>>
      /\ clip' = clip /\ told' = told /\ cut' = cut
      /\ calls < MaxCalls /\ calls' = calls + 1 /\ call' = [call EXCEPT ![p] = next]
  BY DEF Local!Poll, Local!Begin, Local!data
<1>2. /\ clip \in Texts /\ told \in SUBSET Local!Ids /\ calls' \in 0 .. MaxCalls
      /\ cut \in BOOLEAN
  BY <1>1, LocalConstants DEF Local!LocalInv, Local!Typed
<1>3. clip \in Seq(Local!Ids) /\ Local!ToSet(clip) \in SUBSET Local!Ids
  BY <1>2, LocalConstants DEF Local!Ids
<1>4. /\ next \in Local!Calls /\ next.phase = "events" /\ next.what = Local!ToSet(clip)
      /\ next.left = clip
  BY <1>1, <1>3 DEF Local!Idle, Local!Calls, Local!Imports
<1>5. log # Torn => told \subseteq Local!ToSet(log)
  BY <1>1 DEF Local!LocalInv, Local!ImportedEventsStay
<1> HIDE DEF next
<1> QED BY <1>1, <1>2, <1>4, <1>5, OneGoesOn

\* An import reads the ids that the log has.
LEMMA ReadLogKeeps ==
    ASSUME Local!LocalInv, NEW p \in Proc, Local!ReadLog(p)
    PROVE  Local!LocalInv'
<1> DEFINE c == call[p]
           next == IF log = Torn THEN Local!Idle
                   ELSE [c EXCEPT !.phase = "append", !.seen = Local!ToSet(log), !.stale = FALSE]
<1>1. /\ kind = "events" /\ UNCHANGED <<kind, file, log, raw, manifests, raced>>
      /\ clip' = clip /\ told' = told /\ cut' = cut /\ c.phase = "events" /\ c.left # <<>>
      /\ calls' = calls /\ call' = [call EXCEPT ![p] = next]
  BY DEF Local!ReadLog, Local!At, Local!data
<1>2. /\ clip \in Texts /\ told \in SUBSET Local!Ids /\ calls \in 0 .. MaxCalls
      /\ cut \in BOOLEAN /\ log \in Seq(Local!Ids) \cup {Torn} /\ c \in Local!Calls
      /\ kind \in Local!Kinds
  BY <1>1 DEF Local!LocalInv, Local!Typed
<1>3. c \in Local!Imports
  BY <1>1, <1>2, LocalCalls
<1>4. log # Torn => Local!ToSet(log) \in SUBSET Local!Ids
  BY <1>2 DEF Local!ToSet
<1>5. /\ next \in Local!Calls
      /\ log = Torn => next.phase = "idle"
      /\ log # Torn => /\ next.phase = "append" /\ next.what = c.what /\ next.left = c.left
                       /\ next.seen = Local!ToSet(log)
  <2>1. CASE log = Torn
    BY <2>1 DEF Local!Idle, Local!Calls
  <2>2. CASE log # Torn
    BY <1>1, <1>3, <1>4, <2>2 DEF Local!Calls, Local!Imports
  <2> QED BY <2>1, <2>2
<1>6. log # Torn => /\ told \subseteq Local!ToSet(log)
                    /\ c.what \subseteq Local!ToSet(log) \cup Local!ToSet(c.left)
  BY <1>1 DEF Local!LocalInv, Local!ImportedEventsStay, Local!Appending
<1> HIDE DEF next, c
<1> QED BY <1>1, <1>2, <1>5, <1>6, OneGoesOn

\* What an append has still to add, when it has added its first.
LEMMA RestIsAppended ==
    ASSUME NEW S, NEW left \in Seq(S), left # <<>>
    PROVE  /\ Tail(left) \in Seq(S) /\ Head(left) \in S
           /\ Local!ToSet(left) \subseteq Local!ToSet(Tail(left)) \cup {Head(left)}
<1>1. /\ Len(left) \in Nat \ {0} /\ Tail(left) \in Seq(S) /\ Head(left) \in S
      /\ Len(Tail(left)) = Len(left) - 1
  BY FirstAndRest
<1>2. ASSUME NEW i \in DOMAIN left
      PROVE  left[i] \in Local!ToSet(Tail(left)) \cup {Head(left)}
  <2>1. CASE i = 1
    BY <2>1
  <2>2. CASE i # 1
    <3>1. i - 1 \in DOMAIN Tail(left) /\ Tail(left)[i - 1] = left[i]
      BY <1>1, <2>2
    <3> QED BY <3>1 DEF Local!ToSet
  <2> QED BY <2>1, <2>2
<1> QED BY <1>1, <1>2 DEF Local!ToSet

\* The next event is appended, unless its id was in the log when it was read.
LEMMA Append1Keeps ==
    ASSUME Local!LocalInv, NEW p \in Proc, Local!Append1(p)
    PROVE  Local!LocalInv'
<1> DEFINE c == call[p]
           rest == [c EXCEPT !.phase = "events", !.left = Tail(c.left)]
<1>1. /\ kind = "events" /\ UNCHANGED <<kind, file, raw, manifests, clip>>
      /\ told' = told /\ cut' = cut /\ c.phase = "append" /\ calls' = calls
      /\ \/ /\ Head(c.left) \in c.seen /\ call' = [call EXCEPT ![p] = rest]
            /\ log' = log /\ raced' = raced
         \/ /\ Head(c.left) \notin c.seen
            /\ log' = (IF log = Torn THEN Torn ELSE Append(log, Head(c.left)))
            /\ Local!AfterWrite(p, rest) /\ raced' = (raced \/ c.stale)
  BY DEF Local!Append1, Local!At, Local!Known, Local!Races
<1>2. /\ clip \in Texts /\ told \in SUBSET Local!Ids /\ calls \in 0 .. MaxCalls
      /\ cut \in BOOLEAN /\ raced \in BOOLEAN /\ log \in Seq(Local!Ids) \cup {Torn} /\ c \in Local!Calls
      /\ kind \in Local!Kinds /\ call \in [Proc -> Local!Calls]
      /\ \A q \in Proc : call[q].phase = "append" => call[q].left # <<>>
  BY <1>1 DEF Local!LocalInv, Local!Typed
<1>3. c \in Local!Imports
  BY <1>1, <1>2, LocalCalls
<1>4. c.left \in Seq(Local!Ids) /\ c.left # <<>> /\ c.stale \in BOOLEAN
  BY <1>1, <1>2, <1>3 DEF Local!Imports
<1>5. /\ Tail(c.left) \in Seq(Local!Ids) /\ Head(c.left) \in Local!Ids
      /\ Local!ToSet(c.left) \subseteq Local!ToSet(Tail(c.left)) \cup {Head(c.left)}
  BY <1>4, RestIsAppended
<1>6. /\ rest \in Local!Calls /\ rest.phase = "events" /\ rest.what = c.what
      /\ rest.left = Tail(c.left)
  BY <1>1, <1>3, <1>5 DEF Local!Calls, Local!Imports
<1>7. log # Torn => /\ told \subseteq Local!ToSet(log)
                    /\ ~raced => Local!IsInjective(log)
  BY <1>1 DEF Local!LocalInv, Local!ImportedEventsStay
<1>8. log # Torn => /\ c.what \subseteq Local!ToSet(log) \cup Local!ToSet(c.left)
                    /\ c.seen \subseteq Local!ToSet(log)
                    /\ ~c.stale => c.seen = Local!ToSet(log)
  BY <1>1 DEF Local!LocalInv, Local!Appending
<1> HIDE DEF rest, c
<1>9. CASE Head(c.left) \in c.seen /\ call' = [call EXCEPT ![p] = rest] /\ log' = log /\ raced' = raced
  <2>1. log # Torn => rest.what \subseteq Local!ToSet(log) \cup Local!ToSet(rest.left)
    BY <1>5, <1>6, <1>8, <1>9
  <2> QED BY <1>1, <1>2, <1>6, <1>7, <1>9, <2>1, OneGoesOn
<1>10. CASE /\ Head(c.left) \notin c.seen
            /\ log' = (IF log = Torn THEN Torn ELSE Append(log, Head(c.left)))
            /\ Local!AfterWrite(p, rest) /\ raced' = (raced \/ c.stale)
  <2>1. /\ call' \in [Proc -> Local!Calls] /\ call'[p] = rest
        /\ \A q \in Proc \ {p} :
               /\ call'[q].phase = "idle" \/ call'[q].stale
               /\ call'[q].phase = call[q].phase /\ call'[q].what = call[q].what
               /\ call'[q].seen = call[q].seen /\ call'[q].left = call[q].left
    BY <1>2, <1>6, <1>10, WriteMakesStale
  <2>2. raced' \in BOOLEAN
    BY <1>2, <1>4, <1>10
  <2>3. \A q \in Proc : call'[q].phase = "append" => call'[q].left # <<>>
    BY <1>2, <1>6, <2>1
  <2>4. CASE log = Torn
    <3>1. log' = Torn
      BY <1>10, <2>4
    <3>2. Local!Appending' /\ Local!ImportedEventsStay' /\ Local!TornOnlyByDeath'
      BY <1>1, <2>4, <3>1 DEF Local!LocalInv, Local!Appending, Local!ImportedEventsStay,
                              Local!TornOnlyByDeath
    <3> QED BY <1>1, <1>2, <2>1, <2>2, <2>3, <3>1, <3>2, EventsGo
  <2>5. CASE log # Torn
    <3>1. /\ log \in Seq(Local!Ids) /\ log' = Append(log, Head(c.left))
          /\ log' \in Seq(Local!Ids)
      BY <1>2, <1>5, <1>10, <2>5
    <3>2. /\ DOMAIN log' = (DOMAIN log) \cup {Len(log) + 1} /\ log'[Len(log) + 1] = Head(c.left)
          /\ \A i \in DOMAIN log : log'[i] = log[i]
      BY <3>1
    <3>3. Local!ToSet(log') = Local!ToSet(log) \cup {Head(c.left)}
      BY <3>2 DEF Local!ToSet
    <3>4. ~raced' => Local!IsInjective(log')
      <4> SUFFICES ASSUME ~raced' PROVE Local!IsInjective(log')
        OBVIOUS
      <4>1. Local!IsInjective(log) /\ Head(c.left) \notin Local!ToSet(log)
        BY <1>7, <1>8, <1>10, <2>5
      <4> QED BY <3>2, <4>1 DEF Local!IsInjective, Local!ToSet
    <3>5. log' # Torn
      BY <3>1, LocalConstants
    <3>6. Local!ImportedEventsStay' /\ Local!TornOnlyByDeath'
      BY <1>1, <1>7, <2>5, <3>3, <3>4, <3>5
         DEF Local!ImportedEventsStay, Local!TornOnlyByDeath
    <3>7. ASSUME NEW q \in Proc
          PROVE  /\ call'[q].phase \in {"events", "append"} =>
                        call'[q].what \subseteq Local!ToSet(log') \cup Local!ToSet(call'[q].left)
                 /\ call'[q].phase = "append" =>
                        /\ call'[q].seen \subseteq Local!ToSet(log')
                        /\ ~call'[q].stale => call'[q].seen = Local!ToSet(log')
      <4>1. CASE q = p
        BY <1>5, <1>6, <1>8, <2>1, <2>5, <3>3, <4>1
      <4>2. CASE q # p
        <5>1. /\ call[q].phase \in {"events", "append"} =>
                     call[q].what \subseteq Local!ToSet(log) \cup Local!ToSet(call[q].left)
              /\ call[q].phase = "append" => call[q].seen \subseteq Local!ToSet(log)
          BY <1>1, <2>5 DEF Local!LocalInv, Local!Appending
        <5>2. call'[q].phase = "append" => call'[q].stale
          BY <2>1, <4>2
        <5> QED BY <2>1, <3>3, <4>2, <5>1, <5>2
      <4> QED BY <4>1, <4>2
    <3>8. Local!Appending'
      BY <3>7 DEF Local!Appending
    <3> QED BY <1>1, <1>2, <2>1, <2>2, <2>3, <3>1, <3>6, <3>8, EventsGo
  <2> QED BY <2>4, <2>5
<1> QED BY <1>1, <1>9, <1>10

\* An import that has no event left answers.
LEMMA AnswerImportKeeps ==
    ASSUME Local!LocalInv, NEW p \in Proc, Local!AnswerImport(p)
    PROVE  Local!LocalInv'
<1> DEFINE c == call[p]
<1>1. /\ kind = "events" /\ UNCHANGED <<kind, file, log, raw, manifests, raced>>
      /\ clip' = clip /\ told' = told \cup c.what /\ cut' = cut /\ c.phase = "events"
      /\ c.left = <<>> /\ calls' = calls /\ call' = [call EXCEPT ![p] = Local!Idle]
  BY DEF Local!AnswerImport, Local!At, Local!data
<1>2. /\ clip \in Texts /\ told \in SUBSET Local!Ids /\ calls \in 0 .. MaxCalls
      /\ cut \in BOOLEAN /\ c \in Local!Calls /\ kind \in Local!Kinds
  BY <1>1 DEF Local!LocalInv, Local!Typed
<1>3. c \in Local!Imports
  BY <1>1, <1>2, LocalCalls
<1>4. told' \in SUBSET Local!Ids
  BY <1>1, <1>2, <1>3 DEF Local!Imports
<1>5. log # Torn => told' \subseteq Local!ToSet(log)
  BY <1>1 DEF Local!LocalInv, Local!ImportedEventsStay, Local!Appending, Local!ToSet
<1>6. Local!Idle \in Local!Calls /\ Local!Idle.phase = "idle"
  BY DEF Local!Idle, Local!Calls
<1> HIDE DEF c
<1> QED BY <1>1, <1>2, <1>4, <1>5, <1>6, OneGoesOn

\* The step of each action on the capture files.
LEMMA StoreCaptureKeeps ==
    ASSUME Local!LocalInv, NEW p \in Proc, NEW s \in Site, Local!StoreCapture(p, s)
    PROVE  Local!LocalInv'
<1> DEFINE next == [Local!Idle EXCEPT !.phase = "raw", !.what = s]
<1>1. /\ kind = "captures" /\ UNCHANGED <<kind, file, log, raw, manifests, clip, raced>>
      /\ told' = told /\ cut' = cut /\ calls < MaxCalls /\ calls' = calls + 1
      /\ call' = [call EXCEPT ![p] = next]
  BY DEF Local!StoreCapture, Local!Begin, Local!data
<1>2. /\ told \in SUBSET Site /\ raw \in SUBSET Site /\ manifests \in SUBSET Site
      /\ calls' \in 0 .. MaxCalls /\ cut \in BOOLEAN /\ call \in [Proc -> Local!Calls]
  BY <1>1, LocalConstants DEF Local!LocalInv, Local!Typed
<1>3. next \in Local!Calls /\ next.phase = "raw"
  BY <1>1 DEF Local!Idle, Local!Calls, Local!Stores
<1> HIDE DEF next
<1>4. call' \in [Proc -> Local!Calls]
  BY <1>1, <1>2, <1>3
<1>5. Local!RawIsFirst' /\ Local!ManifestHasCapture'
  BY <1>1, <1>2, <1>3 DEF Local!LocalInv, Local!RawIsFirst, Local!ManifestHasCapture
<1> QED BY <1>1, <1>2, <1>4, <1>5, CapturesGo

\* The raw capture is written, or its write fails.
LEMMA WriteRawKeeps ==
    ASSUME Local!LocalInv, NEW p \in Proc, Local!WriteRaw(p)
    PROVE  Local!LocalInv'
<1> DEFINE c == call[p]
           after == [c EXCEPT !.phase = "manifest"]
<1>1. /\ kind = "captures" /\ UNCHANGED <<kind, file, log, manifests, clip, raced>>
      /\ told' = told /\ cut' = cut /\ calls' = calls /\ c.phase = "raw"
      /\ \/ raw' = raw \cup {c.what} /\ call' = [call EXCEPT ![p].phase = "manifest"]
         \/ raw' = raw /\ call' = [call EXCEPT ![p] = Local!Idle]
  BY DEF Local!WriteRaw, Local!At
<1>2. /\ told \in SUBSET Site /\ raw \in SUBSET Site /\ manifests \in SUBSET Site
      /\ calls \in 0 .. MaxCalls /\ cut \in BOOLEAN /\ call \in [Proc -> Local!Calls]
      /\ c \in Local!Calls /\ kind \in Local!Kinds
  BY <1>1 DEF Local!LocalInv, Local!Typed
<1>3. c \in Local!Stores
  BY <1>1, <1>2, LocalCalls
<1>4. /\ after \in Local!Calls /\ after.phase = "manifest" /\ after.what = c.what
      /\ c.what \in Site /\ Local!Idle \in Local!Calls /\ Local!Idle.phase = "idle"
  BY <1>1, <1>3 DEF Local!Idle, Local!Calls, Local!Stores
<1>5. \/ raw' = raw \cup {c.what} /\ call' = [call EXCEPT ![p] = after]
      \/ raw' = raw /\ call' = [call EXCEPT ![p] = Local!Idle]
  BY <1>1, <1>2
<1> HIDE DEF after, c
<1>6. call' \in [Proc -> Local!Calls] /\ raw' \in SUBSET Site
  BY <1>2, <1>4, <1>5
<1>7. Local!RawIsFirst'
  BY <1>2, <1>4, <1>5 DEF Local!LocalInv, Local!RawIsFirst
<1>8. Local!ManifestHasCapture'
  BY <1>1, <1>5 DEF Local!LocalInv, Local!ManifestHasCapture
<1> QED BY <1>1, <1>2, <1>6, <1>7, <1>8, CapturesGo

\* The manifest is written after the raw capture, or its write fails.
LEMMA WriteManifestKeeps ==
    ASSUME Local!LocalInv, NEW p \in Proc, Local!WriteManifest(p)
    PROVE  Local!LocalInv'
<1> DEFINE c == call[p]
<1>1. /\ kind = "captures" /\ UNCHANGED <<kind, file, log, raw, clip, raced>>
      /\ cut' = cut /\ calls' = calls /\ c.phase = "manifest"
      /\ call' = [call EXCEPT ![p] = Local!Idle]
      /\ \/ manifests' = manifests \cup {c.what} /\ told' = told \cup {c.what}
         \/ manifests' = manifests /\ told' = told
  BY DEF Local!WriteManifest, Local!At
<1>2. /\ told \in SUBSET Site /\ raw \in SUBSET Site /\ manifests \in SUBSET Site
      /\ calls \in 0 .. MaxCalls /\ cut \in BOOLEAN /\ call \in [Proc -> Local!Calls]
      /\ c \in Local!Calls /\ kind \in Local!Kinds
  BY <1>1 DEF Local!LocalInv, Local!Typed
<1>3. c \in Local!Stores
  BY <1>1, <1>2, LocalCalls
<1>4. c.what \in Site /\ Local!Idle \in Local!Calls /\ Local!Idle.phase = "idle" /\ c.what \in raw
  BY <1>1, <1>3 DEF Local!Idle, Local!Calls, Local!Stores, Local!LocalInv, Local!RawIsFirst
<1> HIDE DEF c
<1>5. /\ call' \in [Proc -> Local!Calls] /\ manifests' \in SUBSET Site /\ told' \in SUBSET Site
  BY <1>1, <1>2, <1>4
<1>6. Local!RawIsFirst'
  BY <1>1, <1>2, <1>4 DEF Local!LocalInv, Local!RawIsFirst
<1>7. Local!ManifestHasCapture'
  BY <1>1, <1>4 DEF Local!LocalInv, Local!ManifestHasCapture
<1> QED BY <1>1, <1>2, <1>5, <1>6, <1>7, CapturesGo

\* A process that dies leaves at worst a part of what it wrote.
LEMMA DieKeeps ==
    ASSUME Local!LocalInv, NEW p \in Proc, Local!Die(p)
    PROVE  Local!LocalInv'
<1> DEFINE c == call[p]
<1>1. /\ UNCHANGED <<kind, file, raw, manifests, clip, told, raced>> /\ calls' = calls
      /\ call' = [call EXCEPT ![p] = Local!Idle]
      /\ cut' = (cut \/ c.phase \in {"write", "append"})
      /\ \/ log' = log
         \/ c.phase = "append" /\ log' = Torn
  BY DEF Local!Die
<1>2. /\ calls \in 0 .. MaxCalls /\ cut \in BOOLEAN /\ call \in [Proc -> Local!Calls]
      /\ c \in Local!Calls /\ kind \in Local!Kinds /\ raced \in BOOLEAN /\ clip \in Texts
      /\ log \in Seq(Local!Ids) \cup {Torn} /\ file \in Local!Files \cup {Torn}
      /\ raw \in SUBSET Site /\ manifests \in SUBSET Site
      /\ \A q \in Proc : call[q].phase = "append" => call[q].left # <<>>
      /\ told \in (IF kind \in {"library", "config"} THEN Local!Files
                   ELSE SUBSET (IF kind = "events" THEN Local!Ids ELSE Site))
  BY <1>1 DEF Local!LocalInv, Local!Typed
<1>3. cut' \in BOOLEAN
  BY <1>1, <1>2
<1>4. Local!Idle \in Local!Calls /\ Local!Idle.phase = "idle"
  BY DEF Local!Idle, Local!Calls
<1>5. /\ call' \in [Proc -> Local!Calls] /\ call'[p] = Local!Idle
      /\ \A q \in Proc \ {p} : call'[q] = call[q]
  BY <1>1, <1>2, <1>4
<1>6. CASE kind \in {"library", "config"}
  <2>1. log' = log
    BY <1>1, <1>2, <1>6, LocalCalls
  <2>2. Local!Undisturbed'
    <3> SUFFICES ASSUME ~raced, ~cut' PROVE Local!Undisturbed'
      BY <1>1 DEF Local!Undisturbed
    <3>1. ~cut /\ c.phase # "write"
      BY <1>1
    <3>2. file = told \/ \E q \in Proc : call'[q].phase = "write"
      <4>1. PICK q \in Proc : file = told \/ call[q].phase = "write"
        BY <1>6, <3>1 DEF Local!LocalInv, Local!Undisturbed
      <4> QED BY <1>5, <3>1, <4>1
    <3> QED BY <1>1, <1>4, <1>5, <1>6, <3>1, <3>2 DEF Local!LocalInv, Local!Undisturbed
  <2>3. kind = "config" => file' # Torn /\ \A q \in Proc : call'[q].phase # "write"
    BY <1>1, <1>4, <1>5 DEF Local!LocalInv
  <2> QED BY <1>1, <1>2, <1>3, <1>5, <1>6, <2>1, <2>2, <2>3, FilesGo
<1>7. CASE kind = "events"
  <2>1. log' \in Seq(Local!Ids) \cup {Torn} /\ told \in SUBSET Local!Ids
    BY <1>1, <1>2, <1>7
  <2>2. \A q \in Proc : call'[q].phase = "append" => call'[q].left # <<>>
    BY <1>2, <1>4, <1>5
  <2>3. Local!TornOnlyByDeath'
    BY <1>1, <1>7 DEF Local!LocalInv, Local!TornOnlyByDeath
  <2>4. Local!ImportedEventsStay'
    BY <1>1, <1>7 DEF Local!LocalInv, Local!ImportedEventsStay
  <2>5. Local!Appending'
    BY <1>1, <1>4, <1>5, <1>7 DEF Local!LocalInv, Local!Appending
  <2> QED BY <1>1, <1>2, <1>3, <1>5, <1>7, <2>1, <2>2, <2>3, <2>4, <2>5, EventsGo
<1>8. CASE kind = "captures"
  <2>1. log' = log /\ told \in SUBSET Site
    BY <1>1, <1>2, <1>8, LocalCalls
  <2>2. Local!RawIsFirst'
    BY <1>1, <1>4, <1>5 DEF Local!LocalInv, Local!RawIsFirst
  <2>3. Local!ManifestHasCapture'
    BY <1>1 DEF Local!LocalInv, Local!ManifestHasCapture
  <2> QED BY <1>1, <1>2, <1>3, <1>5, <1>8, <2>1, <2>2, <2>3, CapturesGo
<1> QED BY <1>2, <1>6, <1>7, <1>8 DEF Local!Kinds

\* Every step of the local stores keeps their invariant.
LEMMA LocalStep ==
    ASSUME Local!LocalInv, Local!Next
    PROVE  Local!LocalInv'
BY CopyKeeps, LoadKeeps, TruncateKeeps, WriteListKeeps, PollKeeps, ReadLogKeeps,
   Append1Keeps,
   AnswerImportKeeps, StoreCaptureKeeps, WriteRawKeeps, WriteManifestKeeps, DieKeeps DEF Local!Next

\* A step of another part leaves the local stores as they are.
LEMMA LocalStands ==
    ASSUME Local!LocalInv, UNCHANGED Local!vars
    PROVE  Local!LocalInv'
<1>1. UNCHANGED <<kind, file, log, raw, manifests, clip, call, calls, told, raced, cut>>
  BY DEF Local!vars
<1> QED BY <1>1 DEF Local!LocalInv, Local!Typed, Local!Calls, Local!Undisturbed,
                    Local!Appending, Local!RawIsFirst,
        Local!ImportedEventsStay, Local!TornOnlyByDeath, Local!ManifestHasCapture

\* The invariant is what the types and the property of the local stores say, and more.
LEMMA LocalMeans ==
    ASSUME Local!LocalInv
    PROVE  Local!TypeOK /\ Local!AnsweredIsKept
<1>1. /\ kind \in Local!Kinds /\ call \in [Proc -> Local!Calls] /\ file \in Local!Files \cup {Torn}
      /\ log \in Seq(Local!Ids) \cup {Torn} /\ raw \subseteq Site /\ manifests \subseteq Site
      /\ calls \in 0 .. MaxCalls /\ raced \in BOOLEAN /\ cut \in BOOLEAN
  BY DEF Local!LocalInv, Local!Typed
<1>2. Local!TypeOK
  <2>1. \A p \in Proc : call[p].phase \in {"idle", "save", "write", "events", "append",
                                           "raw", "manifest"}
    BY <1>1, LocalCalls
  <2> QED BY <1>1, <2>1 DEF Local!TypeOK, Local!Files, Local!Ids
<1>3. Local!LostOnlyByOverlap
  BY DEF Local!LocalInv, Local!Undisturbed, Local!LostOnlyByOverlap
<1> QED BY <1>2, <1>3 DEF Local!LocalInv, Local!AnsweredIsKept

------------------------------------------------------------------------------
(***************************************************************************)
(* The knowledge projection: what is read from a text                      *)
(***************************************************************************)

\* The instance counts as the library does.
LEMMA ProjectionCounts ==
    \A S : Projection!Cardinality(S) = Cardinality(S) /\ (Projection!IsFiniteSet(S) <=> IsFiniteSet(S))
BY DEF Projection!Cardinality, Cardinality, Projection!IsFiniteSet, IsFiniteSet

\* What is assumed of the constants of the projection.
LEMMA ProjectionConstants ==
    /\ IsFiniteSet(Topic) /\ MaxEdits \in Nat /\ MaxFailures \in Nat
    /\ Len(Ledger) \in Nat /\ DOMAIN Ledger = 1 .. Len(Ledger)
    /\ \A k \in DOMAIN Ledger :
           /\ Ledger[k].kind \in {"message", "snapshot"} /\ Ledger[k].seq \in Nat
           /\ Projection!Legible(Ledger[k].text)
    /\ \A reg \in Registry, t \in Topic : <<t, t>> \in reg.aliases
    /\ Nothing \notin Proc /\ Nothing \notin Projection!Work
<1>1. Projection!ProjectionAssumption
  BY TextStoreAssumption
<1>2. Ledger \in Seq(Projection!ToSet(Ledger))
  BY <1>1 DEF Projection!ProjectionAssumption
<1>3. Len(Ledger) \in Nat /\ DOMAIN Ledger = 1 .. Len(Ledger)
  BY <1>2
<1> QED BY <1>1, <1>3, ProjectionCounts DEF Projection!ProjectionAssumption

\* What is assumed of a text.
LEMMA LegibleMeans ==
    ASSUME NEW text, Projection!Legible(text)
    PROVE  /\ Len(text) \in Nat /\ DOMAIN text = 1 .. Len(text)
           /\ \A i \in 1 .. Len(text) :
                  /\ text[i].kind \in {"plain", "time", "named", "colon"}
                  /\ text[i].person \in BOOLEAN /\ (text[i].person => text[i].name # Nothing)
                  /\ IsFiniteSet(text[i].tags)
<1>1. text \in Seq(Projection!ToSet(text))
  BY DEF Projection!Legible
<1>2. Len(text) \in Nat /\ DOMAIN text = 1 .. Len(text)
  BY <1>1
<1> QED BY <1>2, ProjectionCounts DEF Projection!Legible

\* Names in a text, what somebody said, and what the parser knows after some lines.
NamesIn(text) == {text[i].name : i \in DOMAIN text} \cup {Nothing}
Utterances(text) == [author : NamesIn(text), lines : SUBSET (DOMAIN text)]
Readings(text) ==
    [author : NamesIn(text), said : SUBSET (DOMAIN text), events : Seq(Utterances(text))]

\* The lines up to one that name a person.
NamingUpTo(text, n) == {j \in 1 .. n : Projection!Heading(text, j) /\ text[j].person}

\* What the parser knows after some lines is what was said in them, by whom.
Told(text, n, state) ==
    /\ state.author = Nothing => NamingUpTo(text, n) = {}
    /\ state.author # Nothing =>
           \E j \in NamingUpTo(text, n) :
               (\A h \in NamingUpTo(text, n) : h <= j) /\ state.author = text[j].name
    /\ state.said # {} => state.author # Nothing
    /\ \A l \in state.said :
           l <= n /\ l \in Projection!Spoken(text) /\ Projection!Speaker(text, l) = state.author
    /\ \A e \in DOMAIN state.events : \A l \in state.events[e].lines :
           l <= n /\ l \in Projection!Spoken(text) /\ Projection!Speaker(text, l) = state.events[e].author
    /\ \A l \in Projection!Spoken(text) : l <= n =>
           l \in state.said \/ \E e \in DOMAIN state.events : l \in state.events[e].lines

\* The speaker of a line is who was named last.
LEMMA SpeakerIs ==
    ASSUME NEW text, NEW l \in Nat, NEW j \in NamingUpTo(text, l),
           \A h \in NamingUpTo(text, l) : h <= j
    PROVE  Projection!Speaker(text, l) = text[j].name
<1> DEFINE above == {i \in 1 .. l : Projection!Heading(text, i) /\ text[i].person}
<1>1. above = NamingUpTo(text, l) /\ above \subseteq Nat
  BY DEF NamingUpTo
<1>2. Projection!Speaker(text, l) = text[CHOOSE i \in above : \A h \in above : h <= i].name
  BY DEF Projection!Speaker
<1> HIDE DEF above
<1>3. \A i \in above : (\A h \in above : h <= i) => i = j
  BY <1>1
<1>4. (CHOOSE i \in above : \A h \in above : h <= i) = j
  BY <1>1, <1>3
<1> QED BY <1>2, <1>4

\* Flushing makes what was said an event.
LEMMA FlushIs ==
    ASSUME NEW text, NEW st \in Readings(text)
    PROVE  /\ Projection!Flush(st) \in Readings(text)
           /\ Projection!Flush(st).said = {} /\ Projection!Flush(st).author = st.author
           /\ st.author = Nothing \/ st.said = {} => Projection!Flush(st).events = st.events
           /\ st.author # Nothing /\ st.said # {} =>
                  Projection!Flush(st).events =
                      Append(st.events, [author |-> st.author, lines |-> st.said])
<1>1. st.author \in NamesIn(text) /\ st.said \in SUBSET (DOMAIN text)
      /\ st.events \in Seq(Utterances(text))
  BY DEF Readings
<1>2. [author |-> st.author, lines |-> st.said] \in Utterances(text)
  BY <1>1 DEF Utterances
<1>3. Append(st.events, [author |-> st.author, lines |-> st.said]) \in Seq(Utterances(text))
  BY <1>1, <1>2
<1>4. {} \in SUBSET (DOMAIN text)
  OBVIOUS
<1>5. CASE st.author = Nothing \/ st.said = {}
  <2>1. Projection!Flush(st) = [st EXCEPT !.said = {}]
    BY <1>5 DEF Projection!Flush
  <2> QED BY <2>1, <1>1, <1>4, <1>5 DEF Readings
<1>6. CASE ~(st.author = Nothing \/ st.said = {})
  <2>1. Projection!Flush(st) = [st EXCEPT !.said = {},
                           !.events = Append(@, [author |-> st.author, lines |-> st.said])]
    BY <1>6 DEF Projection!Flush
  <2> QED BY <2>1, <1>1, <1>3, <1>4, <1>6 DEF Readings
<1> QED BY <1>5, <1>6

\* Flushed, it is still what was said, now all in events.
LEMMA FlushTells ==
    ASSUME NEW text, NEW st \in Readings(text), NEW n \in Nat, Told(text, n, st)
    PROVE  Told(text, n, Projection!Flush(st))
<1> SUFFICES ASSUME NEW f, f = Projection!Flush(st) PROVE Told(text, n, f)
  OBVIOUS
<1> DEFINE u == [author |-> st.author, lines |-> st.said]
<1>1. /\ f.said = {} /\ f.author = st.author
      /\ st.author = Nothing \/ st.said = {} => f.events = st.events
      /\ st.author # Nothing /\ st.said # {} => f.events = Append(st.events, u)
  BY FlushIs
<1>2. st.events \in Seq(Utterances(text))
  BY DEF Readings
<1>3. CASE f.events = st.events /\ st.said = {}
  BY <1>1, <1>3 DEF Told
<1>4. CASE f.events = Append(st.events, u)
  <2> DEFINE m == Len(st.events)
  <2>1. m \in Nat /\ DOMAIN st.events = 1 .. m /\ DOMAIN f.events = 1 .. m + 1
        /\ f.events[m + 1] = u /\ \A e \in 1 .. m : f.events[e] = st.events[e]
    BY <1>2, <1>4
  <2>2. u.author = st.author /\ u.lines = st.said
    OBVIOUS
  <2> HIDE DEF u, m
  <2>3. \A e \in DOMAIN f.events : e = m + 1 \/ e \in DOMAIN st.events
    BY <2>1
  <2>4. \A e \in DOMAIN f.events : \A l \in f.events[e].lines :
            l <= n /\ l \in Projection!Spoken(text) /\ Projection!Speaker(text, l) = f.events[e].author
    BY <2>1, <2>2, <2>3 DEF Told
  <2>5. m + 1 \in DOMAIN f.events /\ DOMAIN st.events \subseteq DOMAIN f.events
    BY <2>1
  <2>6. \A l \in Projection!Spoken(text) : l <= n => \E e \in DOMAIN f.events : l \in f.events[e].lines
    BY <2>1, <2>2, <2>5 DEF Told
  <2> QED BY <1>1, <2>4, <2>6 DEF Told
<1>5. st.said # {} => st.author # Nothing
  BY DEF Told
<1> QED BY <1>1, <1>3, <1>4, <1>5

\* The lines that name a person, with one more line.
LEMMA NamingGoesOn ==
    ASSUME NEW text, NEW i \in Nat \ {0}
    PROVE  NamingUpTo(text, i) =
               NamingUpTo(text, i - 1) \cup
                   (IF Projection!Heading(text, i) /\ text[i].person THEN {i} ELSE {})
BY DEF NamingUpTo

\* A line that is spoken has somebody named above it or in it.
LEMMA SpokenMeans ==
    ASSUME NEW text, Projection!Legible(text), NEW i \in 1 .. Len(text)
    PROVE  i \in Projection!Spoken(text) <=>
               /\ text[i].kind = "colon" \/ (text[i].kind = "plain" /\ ~Projection!Heading(text, i))
               /\ NamingUpTo(text, i) # {}
BY LegibleMeans DEF Projection!Spoken, NamingUpTo

\* A name begins what is said, and a line goes on with it.
BeginsToSay(text, st, i) ==
    [Projection!Flush(st) EXCEPT !.author = text[i].name,
                        !.said = IF text[i].kind = "colon" THEN {i} ELSE {}]
GoesOn(st, i) == [st EXCEPT !.said = @ \cup {i}]

\* The cases of a line: it says nothing, names a person, or goes on with what is said.
PassesOver(text, st, i, next) ==
    /\ next = st
    /\ i \notin Projection!Spoken(text) \/ st.author = Nothing
    /\ ~(Projection!Heading(text, i) /\ text[i].person)
NamesAPerson(text, st, i, next) ==
    /\ Projection!Heading(text, i) /\ text[i].person
    /\ next = BeginsToSay(text, st, i)
    /\ (i \in Projection!Spoken(text) <=> text[i].kind = "colon")
SaysMore(text, st, i, next) ==
    /\ ~(Projection!Heading(text, i) /\ text[i].person)
    /\ st.author # Nothing
    /\ text[i].kind = "colon" \/ (text[i].kind = "plain" /\ ~Projection!Heading(text, i))
    /\ next = GoesOn(st, i)

\* What the parser does with a line, by cases.
LEMMA ReadLineIs ==
    ASSUME NEW text, Projection!Legible(text), NEW st, NEW i \in 1 .. Len(text)
    PROVE  \/ PassesOver(text, st, i, Projection!ReadLine(text, st, i))
           \/ NamesAPerson(text, st, i, Projection!ReadLine(text, st, i))
           \/ SaysMore(text, st, i, Projection!ReadLine(text, st, i))
<1>1. text[i].kind \in {"plain", "time", "named", "colon"} /\ text[i].person \in BOOLEAN
  BY LegibleMeans
<1>2. (text[i].kind = "time" => ~Projection!Heading(text, i)) /\ (text[i].kind \in {"named", "colon"} => Projection!Heading(text, i))
  BY DEF Projection!Heading
<1>3. CASE text[i].kind = "time"
  <2>1. Projection!ReadLine(text, st, i) = st
    BY <1>3 DEF Projection!ReadLine
  <2>2. i \notin Projection!Spoken(text)
    BY <1>3, SpokenMeans
  <2> QED BY <2>1, <2>2, <1>2, <1>3 DEF PassesOver
<1>4. CASE text[i].kind # "time" /\ Projection!Heading(text, i) /\ text[i].person
  <2>1. Projection!ReadLine(text, st, i) = BeginsToSay(text, st, i)
    BY <1>4 DEF Projection!ReadLine, BeginsToSay
  <2>2. i \in NamingUpTo(text, i)
    BY <1>4 DEF NamingUpTo
  <2>3. i \in Projection!Spoken(text) <=> text[i].kind = "colon"
    BY <1>4, <2>2, SpokenMeans
  <2> QED BY <2>1, <2>3, <1>4 DEF NamesAPerson
<1>5. CASE text[i].kind # "time" /\ ~(Projection!Heading(text, i) /\ text[i].person)
           /\ ((text[i].kind # "colon" /\ Projection!Heading(text, i)) \/ st.author = Nothing)
  <2>1. Projection!ReadLine(text, st, i) = st
    BY <1>5 DEF Projection!ReadLine
  <2>2. CASE text[i].kind # "colon" /\ Projection!Heading(text, i)
    <3>1. i \notin Projection!Spoken(text)
      BY <2>2, SpokenMeans
    <3> QED BY <2>1, <3>1, <1>5 DEF PassesOver
  <2>3. CASE st.author = Nothing
    BY <2>1, <2>3, <1>5 DEF PassesOver
  <2> QED BY <2>2, <2>3, <1>5
<1>6. CASE text[i].kind # "time" /\ ~(Projection!Heading(text, i) /\ text[i].person)
           /\ ~((text[i].kind # "colon" /\ Projection!Heading(text, i)) \/ st.author = Nothing)
  <2>1. Projection!ReadLine(text, st, i) = GoesOn(st, i)
    BY <1>6 DEF Projection!ReadLine, GoesOn
  <2> QED BY <2>1, <1>1, <1>2, <1>6 DEF SaysMore
<1> QED BY <1>1, <1>3, <1>4, <1>5, <1>6

\* The parser stays within what a text has to offer.
LEMMA ReadLineTyped ==
    ASSUME NEW text, Projection!Legible(text), NEW st \in Readings(text),
           NEW i \in 1 .. Len(text)
    PROVE  Projection!ReadLine(text, st, i) \in Readings(text)
<1>1. i \in DOMAIN text /\ text[i].name \in NamesIn(text)
  BY LegibleMeans DEF NamesIn
<1>2. Projection!Flush(st) \in Readings(text)
  BY FlushIs
<1>3. \A s \in Readings(text), a \in NamesIn(text), T \in SUBSET (DOMAIN text) :
          [s EXCEPT !.author = a, !.said = T] \in Readings(text)
  BY DEF Readings
<1>4. \A s \in Readings(text) : [s EXCEPT !.said = @ \cup {i}] \in Readings(text)
  BY <1>1 DEF Readings
<1>5. (IF text[i].kind = "colon" THEN {i} ELSE {}) \in SUBSET (DOMAIN text)
  BY <1>1
<1>6. \/ Projection!ReadLine(text, st, i) = st
      \/ Projection!ReadLine(text, st, i) = BeginsToSay(text, st, i)
      \/ Projection!ReadLine(text, st, i) = GoesOn(st, i)
  BY ReadLineIs DEF PassesOver, NamesAPerson, SaysMore
<1>7. BeginsToSay(text, st, i) \in Readings(text)
  BY <1>1, <1>2, <1>3, <1>5 DEF BeginsToSay
<1>8. GoesOn(st, i) \in Readings(text)
  BY <1>4 DEF GoesOn
<1> QED BY <1>6, <1>7, <1>8

\* Each line read, the parser still knows what was said and by whom.
LEMMA ReadLineTells ==
    ASSUME NEW text, Projection!Legible(text), NEW st \in Readings(text), NEW i \in 1 .. Len(text),
           Told(text, i - 1, st)
    PROVE  Told(text, i, Projection!ReadLine(text, st, i))
<1>1. /\ i \in Nat \ {0} /\ i - 1 \in Nat
      /\ Projection!Spoken(text) \subseteq 1 .. Len(text)
      /\ text[i].person => text[i].name # Nothing
  BY LegibleMeans DEF Projection!Spoken
<1>2. NamingUpTo(text, i) = NamingUpTo(text, i - 1) \cup
                                (IF Projection!Heading(text, i) /\ text[i].person THEN {i} ELSE {})
  BY <1>1, NamingGoesOn
<1>3. NamingUpTo(text, i) \subseteq 1 .. i /\ NamingUpTo(text, i - 1) \subseteq 1 .. i - 1
  BY DEF NamingUpTo
<1> SUFFICES ASSUME NEW next, next = Projection!ReadLine(text, st, i) PROVE Told(text, i, next)
  OBVIOUS
<1>4. CASE PassesOver(text, st, i, next)
  <2>0. next = st /\ ~(Projection!Heading(text, i) /\ text[i].person)
        /\ (i \notin Projection!Spoken(text) \/ st.author = Nothing)
    BY <1>4 DEF PassesOver
  <2>1. NamingUpTo(text, i) = NamingUpTo(text, i - 1)
    BY <1>2, <2>0
  <2>2. i \notin Projection!Spoken(text)
    BY <2>0, <2>1, SpokenMeans DEF Told
  <2>3. \A l \in Projection!Spoken(text) : l <= i => l <= i - 1
    BY <1>1, <2>2
  <2>4. \A l \in Projection!Spoken(text) : l <= i - 1 => l <= i
    BY <1>1
  <2>5. \A l \in st.said :
            l <= i /\ l \in Projection!Spoken(text) /\ Projection!Speaker(text, l) = st.author
    BY <2>4 DEF Told
  <2>6. \A e \in DOMAIN st.events : \A l \in st.events[e].lines :
            l <= i /\ l \in Projection!Spoken(text) /\ Projection!Speaker(text, l) = st.events[e].author
    BY <2>4 DEF Told
  <2>7. \A l \in Projection!Spoken(text) : l <= i =>
            l \in st.said \/ \E e \in DOMAIN st.events : l \in st.events[e].lines
    BY <2>3 DEF Told
  <2>8. Told(text, i, st)
    BY <2>1, <2>5, <2>6, <2>7 DEF Told
  <2> QED BY <2>0, <2>8
<1>5. CASE NamesAPerson(text, st, i, next)
  <2>0. /\ Projection!Heading(text, i) /\ text[i].person
        /\ next = BeginsToSay(text, st, i)
        /\ (i \in Projection!Spoken(text) <=> text[i].kind = "colon")
    BY <1>5 DEF NamesAPerson
  <2>1. PICK f \in Readings(text) : f = Projection!Flush(st)
    BY FlushIs
  <2>2. Told(text, i - 1, f) /\ f.said = {}
    BY <1>1, <2>1, FlushTells, FlushIs
  <2>3. /\ next.author = text[i].name /\ next.events = f.events
        /\ next.said = IF text[i].kind = "colon" THEN {i} ELSE {}
    BY <2>0, <2>1 DEF Readings, BeginsToSay
  <2>4. i \in NamingUpTo(text, i) /\ \A h \in NamingUpTo(text, i) : h <= i
    BY <1>2, <1>3, <2>0
  <2>5. Projection!Speaker(text, i) = text[i].name
    BY <1>1, <2>4, SpeakerIs
  <2>6. next.author # Nothing
    BY <1>1, <2>0, <2>3
  <2>7. \A l \in next.said :
            l <= i /\ l \in Projection!Spoken(text) /\ Projection!Speaker(text, l) = next.author
    BY <1>1, <2>0, <2>3, <2>5
  <2>8. \A e \in DOMAIN next.events : \A l \in next.events[e].lines :
            l <= i /\ l \in Projection!Spoken(text) /\ Projection!Speaker(text, l) = next.events[e].author
    BY <1>1, <2>2, <2>3 DEF Told
  <2>9. ASSUME NEW l \in Projection!Spoken(text), l <= i
        PROVE  l \in next.said \/ \E e \in DOMAIN next.events : l \in next.events[e].lines
    <3>1. CASE l = i
      BY <2>0, <2>3, <3>1
    <3>2. CASE l # i
      <4>1. l <= i - 1
        BY <1>1, <2>9, <3>2
      <4> QED BY <2>2, <2>3, <4>1 DEF Told
    <3> QED BY <3>1, <3>2
  <2> QED BY <2>3, <2>4, <2>6, <2>7, <2>8, <2>9 DEF Told
<1>6. CASE SaysMore(text, st, i, next)
  <2>0. /\ ~(Projection!Heading(text, i) /\ text[i].person) /\ st.author # Nothing
        /\ text[i].kind = "colon" \/ (text[i].kind = "plain" /\ ~Projection!Heading(text, i))
        /\ next = GoesOn(st, i)
    BY <1>6 DEF SaysMore
  <2>1. NamingUpTo(text, i) = NamingUpTo(text, i - 1)
    BY <1>2, <2>0
  <2>2. next.author = st.author /\ next.said = st.said \cup {i} /\ next.events = st.events
    BY <2>0 DEF Readings, GoesOn
  <2>3. PICK j \in NamingUpTo(text, i) :
            (\A h \in NamingUpTo(text, i) : h <= j) /\ st.author = text[j].name
    BY <2>0, <2>1 DEF Told
  <2>4. i \in Projection!Spoken(text) /\ Projection!Speaker(text, i) = st.author
    BY <1>1, <2>0, <2>3, SpokenMeans, SpeakerIs
  <2>5. \A l \in next.said :
            l <= i /\ l \in Projection!Spoken(text) /\ Projection!Speaker(text, l) = next.author
    BY <1>1, <2>2, <2>4 DEF Told
  <2>6. \A e \in DOMAIN next.events : \A l \in next.events[e].lines :
            l <= i /\ l \in Projection!Spoken(text) /\ Projection!Speaker(text, l) = next.events[e].author
    BY <1>1, <2>2 DEF Told
  <2>7. ASSUME NEW l \in Projection!Spoken(text), l <= i
        PROVE  l \in next.said \/ \E e \in DOMAIN next.events : l \in next.events[e].lines
    <3>1. CASE l = i
      BY <2>2, <3>1
    <3>2. CASE l # i
      <4>1. l <= i - 1
        BY <1>1, <2>7, <3>2
      <4> QED BY <2>2, <4>1 DEF Told
    <3> QED BY <3>1, <3>2
  <2> QED BY <2>0, <2>1, <2>2, <2>3, <2>5, <2>6, <2>7 DEF Told
<1> QED BY <1>4, <1>5, <1>6, ReadLineIs

\* What the parser has read: a run of its rounds, from knowing nothing.
LEMMA TextIsRead ==
    ASSUME NEW text, Projection!Legible(text)
    PROVE  \E read : /\ read = [i \in 0 .. Len(text) |-> read[i]]
                     /\ read[0] = [author |-> Nothing, said |-> {}, events |-> <<>>]
                     /\ \A i \in 0 .. Len(text) : read[i] \in Readings(text)
                     /\ \A i \in 1 .. Len(text) : read[i] = Projection!ReadLine(text, read[i - 1], i)
                     /\ Projection!ParseText(text) = Projection!Flush(read[Len(text)]).events
<1> DEFINE n == Len(text)
           S == Readings(text)
           s0 == [author |-> Nothing, said |-> {}, events |-> <<>>]
           step == [i \in 1 .. n |-> [s \in S |-> Projection!ReadLine(text, s, i)]]
           Solves(f) == f = [i \in 0 .. n |-> IF i = 0 THEN s0
                                              ELSE Projection!ReadLine(text, f[i - 1], i)]
           read == CHOOSE f : Solves(f)
<1>1. n \in Nat
  BY LegibleMeans
<1>2. s0 \in S
  BY DEF Readings, NamesIn
<1>3. \A i \in 1 .. n, s \in S : Projection!ReadLine(text, s, i) \in S
  BY ReadLineTyped
<1>4. step \in [1 .. n -> [S -> S]]
  <2> HIDE DEF S, n
  <2> QED BY <1>3
<1>5. \A i \in 1 .. n, s \in S : step[i][s] = Projection!ReadLine(text, s, i)
  <2> HIDE DEF S, n
  <2> QED OBVIOUS
<1> HIDE DEF step
<1>6. PICK a : IsRun(a, n, S, s0, step)
  <2> HIDE DEF n, S, s0
  <2> QED BY <1>1, <1>2, <1>4, RunExists
<1>7. Solves(a)
  <2>1. a = [i \in 0 .. n |-> a[i]] /\ a[0] = s0 /\ \A i \in 0 .. n : a[i] \in S
    <3> HIDE DEF S, n, s0
    <3> QED BY <1>6 DEF IsRun
  <2>2. ASSUME NEW i \in 0 .. n
        PROVE  a[i] = IF i = 0 THEN s0 ELSE Projection!ReadLine(text, a[i - 1], i)
    <3>1. CASE i = 0
      BY <2>1, <3>1
    <3>2. CASE i # 0
      <4>1. i \in 1 .. n /\ i - 1 \in 0 .. n
        BY <1>1, <3>2
      <4>2. a[i] = step[i][a[i - 1]] /\ a[i - 1] \in S
        <5> HIDE DEF S, n, s0
        <5> QED BY <1>6, <2>1, <4>1 DEF IsRun
      <4> HIDE DEF S, n, s0
      <4> QED BY <1>5, <3>2, <4>1, <4>2
    <3> QED BY <3>1, <3>2
  <2> HIDE DEF n, s0
  <2> QED BY <2>1, <2>2
<1>8. Solves(read)
  <2> HIDE DEF Solves
  <2> QED BY <1>7
<1>9. Projection!ParseText(text) = Projection!Flush(read[n]).events
  BY DEF Projection!ParseText
<1> HIDE DEF read
<1>10. /\ read = [i \in 0 .. n |-> read[i]] /\ read[0] = s0
       /\ \A i \in 1 .. n : read[i] = Projection!ReadLine(text, read[i - 1], i)
  <2> HIDE DEF n, s0
  <2>1. read = [i \in 0 .. n |-> read[i]]
    BY <1>8
  <2>2. read[0] = s0
    BY <1>1, <1>8
  <2>3. ASSUME NEW i \in 1 .. n PROVE read[i] = Projection!ReadLine(text, read[i - 1], i)
    <3>1. i \in 0 .. n /\ i # 0
      BY <1>1
    <3> QED BY <1>8, <3>1
  <2> HIDE DEF Solves
  <2> QED BY <2>1, <2>2, <2>3
<1>11. \A i \in 1 .. n : read[i - 1] \in S => read[i] = step[i][read[i - 1]]
  BY <1>5, <1>10
<1>12. IsRun(read, n, S, s0, step)
  <2> HIDE DEF n, S, s0
  <2> QED BY <1>1, <1>2, <1>4, <1>10, <1>11, SolvedIsRun
<1>13. \A i \in 0 .. n : read[i] \in S
  <2> HIDE DEF n, S, s0
  <2> QED BY <1>12 DEF IsRun
<1> HIDE DEF Solves
<1> QED BY <1>9, <1>10, <1>13

\* Every line that somebody speaks is in an event, and what is in an event is spoken by
\* its author, who was named last above it.
LEMMA ParsedTells ==
    ASSUME NEW text, Projection!Legible(text)
    PROVE  LET parsed == Projection!ParseText(text) IN
           /\ parsed \in Seq(Utterances(text))
           /\ \A e \in DOMAIN parsed : \A l \in parsed[e].lines :
                  l \in Projection!Spoken(text) /\ Projection!Speaker(text, l) = parsed[e].author
           /\ \A l \in Projection!Spoken(text) : \E e \in DOMAIN parsed : l \in parsed[e].lines
<1> DEFINE n == Len(text)
<1>1. PICK read : /\ read = [i \in 0 .. n |-> read[i]]
                  /\ read[0] = [author |-> Nothing, said |-> {}, events |-> <<>>]
                  /\ \A i \in 0 .. n : read[i] \in Readings(text)
                  /\ \A i \in 1 .. n : read[i] = Projection!ReadLine(text, read[i - 1], i)
                  /\ Projection!ParseText(text) = Projection!Flush(read[n]).events
  BY TextIsRead
<1> DEFINE G == {i \in 0 .. n : Told(text, i, read[i])}
<1>2. n \in Nat /\ Projection!Spoken(text) \subseteq 1 .. n
  BY LegibleMeans DEF Projection!Spoken
<1>3. 0 \in G
  <2> DEFINE s == read[0]
  <2>1. s.author = Nothing /\ s.said = {} /\ s.events = <<>>
    BY <1>1
  <2>2. NamingUpTo(text, 0) = {} /\ \A l \in Projection!Spoken(text) : ~(l <= 0)
    BY <1>2 DEF NamingUpTo
  <2>3. DOMAIN s.events = {}
    BY <2>1
  <2> HIDE DEF s
  <2>4. Told(text, 0, s)
    BY <2>1, <2>2, <2>3 DEF Told
  <2> QED BY <1>2, <2>4 DEF s
<1>4. ASSUME NEW i \in G, i < n PROVE i + 1 \in G
  <2>1. i \in 0 .. n /\ i + 1 \in 1 .. n /\ (i + 1) - 1 = i /\ i + 1 \in 0 .. n
    BY <1>2, <1>4
  <2>2. Told(text, (i + 1) - 1, read[i]) /\ read[i] \in Readings(text)
    BY <1>1, <2>1
  <2>3. Told(text, i + 1, Projection!ReadLine(text, read[i], i + 1))
    BY <2>1, <2>2, ReadLineTells
  <2> QED BY <1>1, <2>1, <2>3
<1>5. n \in G
  <2>1. G \subseteq 0 .. n
    OBVIOUS
  <2> HIDE DEF G, n
  <2> QED BY <1>2, <1>3, <1>4, <2>1, ReachesTop
<1>6. read[n] \in Readings(text) /\ Told(text, n, read[n])
  BY <1>1, <1>2, <1>5
<1>7. PICK f \in Readings(text) : f = Projection!Flush(read[n]) /\ f.said = {}
  BY <1>6, FlushIs
<1>8. Told(text, n, f)
  BY <1>2, <1>6, <1>7, FlushTells
<1>9. f.events \in Seq(Utterances(text)) /\ Projection!ParseText(text) = f.events
  BY <1>1, <1>7 DEF Readings
<1>10. \A l \in Projection!Spoken(text) : l <= n
  BY <1>2
<1>11. \A e \in DOMAIN f.events : \A l \in f.events[e].lines :
           l \in Projection!Spoken(text) /\ Projection!Speaker(text, l) = f.events[e].author
  BY <1>8 DEF Told
<1>12. \A l \in Projection!Spoken(text) : \E e \in DOMAIN f.events : l \in f.events[e].lines
  BY <1>7, <1>8, <1>10 DEF Told
<1> QED BY <1>9, <1>11, <1>12

------------------------------------------------------------------------------
(***************************************************************************)
(* The knowledge projection: what is projected                             *)
(***************************************************************************)

\* What the elements of a finite set are mapped to is a finite set.
LEMMA MappedIsFinite ==
    ASSUME NEW S, IsFiniteSet(S), NEW f, NEW T, T = {f[x] : x \in S}
    PROVE  IsFiniteSet(T)
<1> DEFINE g == [x \in S |-> f[x]]
<1>1. g \in Surjection(S, T)
  BY DEF Surjection
<1> QED BY <1>1, FS_Surjection

\* A finite set in some order.
LEMMA SetInOrder ==
    ASSUME NEW S, IsFiniteSet(S)
    PROVE  Projection!SetToSeq(S) \in Seq(S) /\ Projection!ToSet(Projection!SetToSeq(S)) = S
<1> DEFINE n == Cardinality(S)
           Good(f) == f \in [1 .. n -> S] /\ Projection!IsInjective(f)
           s == Projection!SetToSeq(S)
<1>1. n \in Nat /\ ExistsBijection(1 .. n, S)
  BY FS_CardinalityType
<1>2. \E f : Good(f)
  BY <1>1 DEF ExistsBijection, Bijection, Injection, IsInjective, Projection!IsInjective
<1>3. s = CHOOSE f \in [1 .. n -> S] : Projection!IsInjective(f)
  BY ProjectionCounts DEF Projection!SetToSeq
<1> HIDE DEF n, s
<1>4. Good(s)
  BY <1>2, <1>3
<1>5. s \in Injection(1 .. n, S)
  BY <1>4 DEF Injection, IsInjective, Projection!IsInjective
<1>6. IsFiniteSet(1 .. n) /\ Cardinality(1 .. n) = n
  BY <1>1, FS_Interval
<1>7. s \in Surjection(1 .. n, S)
  BY <1>5, <1>6, FS_Injection DEF n
<1>8. s \in Seq(S) /\ DOMAIN s = 1 .. n /\ \A x \in S : \E i \in 1 .. n : s[i] = x
  BY <1>1, <1>4, <1>7 DEF Surjection
<1>9. Projection!ToSet(s) = {s[i] : i \in 1 .. n}
  BY <1>8 DEF Projection!ToSet
<1>10. {s[i] : i \in 1 .. n} = S
  BY <1>4, <1>8
<1> QED BY <1>8, <1>9, <1>10 DEF s

\* A record's events: their lines are lines of it, and what is tagged is finite; the
\* lines of a snapshot's events are those that are spoken, each by its event's author.
LEMMA EventsAre ==
    ASSUME NEW k \in DOMAIN Ledger
    PROVE  LET text == Ledger[k].text
               evs  == Projection!EventsIn(k) IN
           /\ Len(evs) \in Nat /\ DOMAIN evs = 1 .. Len(evs)
           /\ \A i \in DOMAIN evs :
                  /\ evs[i].lines \subseteq DOMAIN text
                  /\ evs[i].tags = UNION {text[l].tags : l \in evs[i].lines}
                  /\ IsFiniteSet(evs[i].tags)
           /\ Ledger[k].kind = "snapshot" =>
                  /\ \A i \in DOMAIN evs : \A l \in evs[i].lines :
                         l \in Projection!Spoken(text) /\ Projection!Speaker(text, l) = evs[i].author
                  /\ \A l \in Projection!Spoken(text) : \E i \in DOMAIN evs : l \in evs[i].lines
<1> DEFINE text == Ledger[k].text
           parsed == IF Ledger[k].kind = "message"
                     THEN <<[author |-> Ledger[k].author, lines |-> DOMAIN text]>>
                     ELSE Projection!ParseText(text)
           evs == Projection!EventsIn(k)
<1>1. Ledger[k].kind \in {"message", "snapshot"} /\ Projection!Legible(text)
  BY ProjectionConstants
<1>2. /\ Len(text) \in Nat /\ DOMAIN text = 1 .. Len(text)
      /\ \A l \in 1 .. Len(text) : IsFiniteSet(text[l].tags)
  BY <1>1, LegibleMeans
<1>3. /\ Len(parsed) \in Nat /\ DOMAIN parsed = 1 .. Len(parsed)
      /\ \A i \in DOMAIN parsed : parsed[i].lines \subseteq DOMAIN text
  <2>1. CASE Ledger[k].kind = "message"
    <3>1. Len(parsed) = 1 /\ DOMAIN parsed = 1 .. 1 /\ parsed[1].lines = DOMAIN text
      BY <2>1
    <3> HIDE DEF parsed
    <3> QED BY <3>1
  <2>2. CASE Ledger[k].kind = "snapshot"
    <3>1. parsed = Projection!ParseText(text) /\ parsed \in Seq(Utterances(text))
      BY <1>1, <2>2, ParsedTells
    <3> HIDE DEF parsed, text
    <3>2. \A i \in DOMAIN parsed : parsed[i] \in Utterances(text)
      BY <3>1
    <3> QED BY <3>1, <3>2 DEF Utterances
  <2> QED BY <1>1, <2>1, <2>2
<1>4. evs = [i \in DOMAIN parsed |->
                [author |-> parsed[i].author, lines |-> parsed[i].lines,
                 tags |-> UNION {text[l].tags : l \in parsed[i].lines}]]
  BY DEF Projection!EventsIn
<1>5. Ledger[k].kind = "snapshot" => parsed = Projection!ParseText(text)
  OBVIOUS
<1> HIDE DEF parsed, evs
<1>6. Len(evs) \in Nat /\ DOMAIN evs = 1 .. Len(evs) /\ DOMAIN evs = DOMAIN parsed
  <2>1. DOMAIN evs = DOMAIN parsed /\ evs = [i \in DOMAIN evs |-> evs[i]]
    BY <1>4
  <2> DEFINE content == {evs[i] : i \in 1 .. Len(parsed)}
  <2>2. evs \in [1 .. Len(parsed) -> content]
    BY <1>3, <2>1
  <2> HIDE DEF content
  <2>3. evs \in Seq(content)
    BY <1>3, <2>2
  <2> QED BY <2>1, <2>3
<1>7. \A i \in DOMAIN evs :
          /\ evs[i].author = parsed[i].author /\ evs[i].lines = parsed[i].lines
          /\ evs[i].tags = UNION {text[l].tags : l \in parsed[i].lines}
  BY <1>4
<1>8. ASSUME NEW i \in DOMAIN evs PROVE IsFiniteSet(evs[i].tags)
  <2> DEFINE f == [l \in 1 .. Len(text) |-> text[l].tags]
             T == {f[l] : l \in parsed[i].lines}
  <2>1. parsed[i].lines \subseteq 1 .. Len(text)
    BY <1>2, <1>3, <1>6
  <2>2. T = {text[l].tags : l \in parsed[i].lines}
    BY <2>1
  <2>3. IsFiniteSet(parsed[i].lines)
    BY <1>2, <2>1, PlacesAreFinite
  <2>4. IsFiniteSet(T)
    <3> HIDE DEF f
    <3> QED BY <2>3, MappedIsFinite
  <2>5. \A U \in T : IsFiniteSet(U)
    BY <1>2, <2>1, <2>2
  <2>6. IsFiniteSet(UNION T)
    <3> HIDE DEF T
    <3> QED BY <2>4, <2>5, FS_UNION
  <2> QED BY <1>7, <2>2, <2>6
<1>9. Ledger[k].kind = "snapshot" =>
          /\ \A i \in DOMAIN evs : \A l \in evs[i].lines :
                 l \in Projection!Spoken(text) /\ Projection!Speaker(text, l) = evs[i].author
          /\ \A l \in Projection!Spoken(text) : \E i \in DOMAIN evs : l \in evs[i].lines
  BY <1>1, <1>5, <1>6, <1>7, ParsedTells
<1>10. \A i \in DOMAIN evs :
           /\ evs[i].lines \subseteq DOMAIN text
           /\ evs[i].tags = UNION {text[l].tags : l \in evs[i].lines}
           /\ IsFiniteSet(evs[i].tags)
  BY <1>3, <1>6, <1>7, <1>8
<1> QED BY <1>6, <1>9, <1>10 DEF evs

\* What a registry that is valid offers: a name means one thing, a topic's label is the
\* topic, relations stay among topics, and what is assigned is finite.
LEMMA ValidMeans ==
    ASSUME NEW reg \in Projection!ValidRegistries
    PROVE  /\ reg \in Registry /\ Projection!OneMeaning(reg.aliases)
           /\ \A t \in Topic : /\ reg.broader[t] \subseteq Topic /\ reg.related[t] \subseteq Topic
                               /\ Projection!Reviewed(reg.aliases, t, t) = t
           /\ \A e \in DOMAIN reg.assigned : IsFiniteSet(reg.assigned[e])
<1>1. /\ reg \in Registry /\ Projection!OneMeaning(reg.aliases)
      /\ \A t \in Topic : reg.broader[t] \subseteq Topic /\ reg.related[t] \subseteq Topic
      /\ \A e \in DOMAIN reg.assigned : reg.assigned[e] \subseteq Topic
  BY DEF Projection!ValidRegistries, Projection!ValidTopics
<1>2. ASSUME NEW t \in Topic PROVE Projection!Reviewed(reg.aliases, t, t) = t
  <2> DEFINE it == CHOOSE pair \in reg.aliases : pair[1] = t
  <2>1. <<t, t>> \in reg.aliases /\ <<t, t>>[1] = t
    BY <1>1, ProjectionConstants
  <2>2. it \in reg.aliases /\ it[1] = t
    BY <2>1
  <2>3. it = <<t, t>>
    <3> HIDE DEF it
    <3> QED BY <1>1, <2>1, <2>2 DEF Projection!OneMeaning
  <2>4. Projection!Reviewed(reg.aliases, t, t) = it[2]
    BY <2>1 DEF Projection!Reviewed
  <2> HIDE DEF it
  <2>5. it[2] = t
    BY <2>3
  <2> QED BY <2>4, <2>5
<1>3. \A e \in DOMAIN reg.assigned : IsFiniteSet(reg.assigned[e])
  BY <1>1, ProjectionConstants, FS_Subset
<1> QED BY <1>1, <1>2, <1>3

\* The records that are projected are those that no other supersedes.
LEMMA LatestIsCurrent ==
    ASSUME NEW n \in 1 .. Len(Ledger)

         PROVE  Projection!Latest(n) = Projection!Current(n) /\ Projection!Latest(n) \subseteq DOMAIN Ledger
<1>1. /\ 1 .. n \subseteq DOMAIN Ledger
      /\ \A k \in 1 .. n : Ledger[k].kind \in {"message", "snapshot"} /\ Ledger[k].seq \in Nat
  BY ProjectionConstants
<1>2. ASSUME NEW j \in 1 .. n, NEW k \in 1 .. n
      PROVE  Projection!StreamKey(Ledger[j]) = Projection!StreamKey(Ledger[k])
                 <=> /\ Ledger[j].kind = Ledger[k].kind /\ Ledger[j].target = Ledger[k].target
                     /\ Ledger[k].kind = "message" => Ledger[j].message = Ledger[k].message
  <2>1. \A x1, x2, y1, y2 : /\ <<x1>> # <<y1, y2>> /\ (<<x1>> = <<y1>> <=> x1 = y1)
                            /\ (<<x1, x2>> = <<y1, y2>> <=> x1 = y1 /\ x2 = y2)
    OBVIOUS
  <2> QED BY <1>1, <2>1 DEF Projection!StreamKey
<1>3. ASSUME NEW k \in 1 .. n, NEW j \in 1 .. n
      PROVE  ~(\/ Ledger[j].seq < Ledger[k].seq
               \/ (Ledger[j].seq = Ledger[k].seq /\ j <= k))
                 <=> \/ Ledger[j].seq > Ledger[k].seq
                     \/ Ledger[j].seq = Ledger[k].seq /\ j > k
  BY <1>1
<1>4. \A k \in 1 .. n : k \in Projection!Latest(n) <=> ~Projection!Superseded(k, n)
  BY <1>2, <1>3 DEF Projection!Latest, Projection!Superseded
<1>5. Projection!Latest(n) \subseteq 1 .. n
  BY DEF Projection!Latest
<1> QED BY <1>1, <1>4, <1>5 DEF Projection!Current

\* The events that are projected are those of the current records, and finite.
LEMMA EventsOfAre ==
    ASSUME NEW n \in 1 .. Len(Ledger)
    PROVE  /\ IsFiniteSet(Projection!EventsOf(n))
           /\ \A e \in Projection!EventsOf(n) :
                  /\ e[1] \in Projection!Current(n) /\ e[1] \in DOMAIN Ledger
                  /\ e[2] \in DOMAIN Projection!EventsIn(e[1]) /\ e = <<e[1], e[2]>>
           /\ \A k \in Projection!Current(n) : k \in DOMAIN Ledger
           /\ \A k \in Projection!Current(n) : \A i \in DOMAIN Projection!EventsIn(k) : <<k, i>> \in Projection!EventsOf(n)
<1> DEFINE f == [k \in Projection!Latest(n) |-> {<<k, i>> : i \in 1 .. Len(Projection!EventsIn(k))}]
           T == {f[k] : k \in Projection!Latest(n)}
<1>1. Projection!Latest(n) = Projection!Current(n) /\ Projection!Latest(n) \subseteq DOMAIN Ledger /\ n \in Nat
  BY LatestIsCurrent
<1>2. Projection!EventsOf(n) = UNION T
  BY DEF Projection!EventsOf
<1>3. IsFiniteSet(Projection!Latest(n))
  <2>1. Projection!Latest(n) \subseteq 1 .. n
    BY DEF Projection!Latest
  <2> QED BY <1>1, <2>1, PlacesAreFinite
<1>4. IsFiniteSet(T)
  <2> HIDE DEF f
  <2> QED BY <1>3, MappedIsFinite
<1>5. ASSUME NEW k \in Projection!Latest(n) PROVE IsFiniteSet(f[k])
  <2> DEFINE g == [i \in 1 .. Len(Projection!EventsIn(k)) |-> <<k, i>>]
  <2>1. IsFiniteSet(1 .. Len(Projection!EventsIn(k)))
    BY <1>1, EventsAre, PlacesAreFinite
  <2>2. f[k] = {g[i] : i \in 1 .. Len(Projection!EventsIn(k))}
    OBVIOUS
  <2> HIDE DEF f, g
  <2> QED BY <2>1, <2>2, MappedIsFinite
<1>6. IsFiniteSet(UNION T)
  <2>1. \A U \in T : IsFiniteSet(U)
    <3> HIDE DEF f
    <3> QED BY <1>5
  <2> HIDE DEF T
  <2> QED BY <1>4, <2>1, FS_UNION
<1>7. \A k \in Projection!Latest(n) : DOMAIN Projection!EventsIn(k) = 1 .. Len(Projection!EventsIn(k))
  BY <1>1, EventsAre
<1>8. \A e \in Projection!EventsOf(n) : \E k \in Projection!Latest(n) :
          \E i \in 1 .. Len(Projection!EventsIn(k)) : e = <<k, i>>
  BY DEF Projection!EventsOf
<1>9. \A k \in Projection!Latest(n) : \A i \in 1 .. Len(Projection!EventsIn(k)) : <<k, i>> \in Projection!EventsOf(n)
  BY DEF Projection!EventsOf
<1>10. ASSUME NEW e \in Projection!EventsOf(n)
       PROVE  /\ e[1] \in Projection!Current(n) /\ e[1] \in DOMAIN Ledger
              /\ e[2] \in DOMAIN Projection!EventsIn(e[1]) /\ e = <<e[1], e[2]>>
  BY <1>1, <1>7, <1>8
<1> QED BY <1>1, <1>2, <1>6, <1>7, <1>9, <1>10

\* The people and topics of a run are finitely many.
LEMMA SubjectsAreFinite ==
    ASSUME NEW reg \in Projection!ValidRegistries, NEW n \in 1 .. Len(Ledger)
    PROVE  IsFiniteSet(Projection!People(reg, n)) /\ IsFiniteSet(Projection!Topics(reg, n))
<1> DEFINE es == Projection!EventsOf(n)
           who == [e \in es |-> Projection!Author(reg, e)]
           what == [e \in es |-> Projection!TopicsOf(reg, e[1], e[2])]
           T == {what[e] : e \in es}
<1>1. IsFiniteSet(es)
  BY EventsOfAre
<1>2. Projection!People(reg, n) = {who[e] : e \in es}
  BY DEF Projection!People
<1>3. IsFiniteSet(Projection!People(reg, n))
  <2> HIDE DEF who, es
  <2> QED BY <1>1, <1>2, MappedIsFinite
<1>4. IsFiniteSet(T)
  <2> HIDE DEF what, es
  <2> QED BY <1>1, MappedIsFinite
<1>5. ASSUME NEW e \in es PROVE IsFiniteSet(what[e])
  <2> DEFINE tags == Projection!EventsIn(e[1])[e[2]].tags
             means == [tag \in tags |-> Projection!Reviewed(reg.aliases, tag, tag)]
             named == {means[tag] : tag \in tags}
             assigned == IF <<e[1], e[2]>> \in DOMAIN reg.assigned
                         THEN reg.assigned[<<e[1], e[2]>>] ELSE {}
  <2>1. IsFiniteSet(tags)
    BY EventsOfAre, EventsAre
  <2>2. IsFiniteSet(named)
    <3> HIDE DEF means, tags
    <3> QED BY <2>1, MappedIsFinite
  <2>3. IsFiniteSet(assigned)
    BY ValidMeans, FS_EmptySet
  <2>4. what[e] = named \cup assigned
    BY DEF Projection!TopicsOf
  <2> HIDE DEF named, assigned
  <2> QED BY <2>2, <2>3, <2>4, FS_Union
<1>6. IsFiniteSet(UNION T)
  <2>1. \A U \in T : IsFiniteSet(U)
    <3> HIDE DEF what, es
    <3> QED BY <1>5
  <2> HIDE DEF T
  <2> QED BY <1>4, <2>1, FS_UNION
<1>7. Projection!Topics(reg, n) = Topic \cup UNION T
  BY DEF Projection!Topics
<1>8. IsFiniteSet(Topic)
  BY ProjectionConstants
<1>9. IsFiniteSet(Projection!Topics(reg, n))
  <2> HIDE DEF T
  <2> QED BY <1>6, <1>7, <1>8, FS_Union
<1> QED BY <1>3, <1>9

\* The pages of a run: one of each person, one of each topic.
LEMMA NamesAre ==
    ASSUME NEW reg \in Projection!ValidRegistries, NEW n \in 1 .. Len(Ledger)
    PROVE  /\ Projection!ToSet(Projection!Names(reg, n)) = {<<"person", p>> : p \in Projection!People(reg, n)}
                                            \cup {<<"topic", t>> : t \in Projection!Topics(reg, n)}
           /\ Projection!Names(reg, n) \in Seq(Projection!Paged)
           /\ Projection!ToSet(Projection!Names(reg, n)) \subseteq Projection!Paged
<1> DEFINE ps == Projection!People(reg, n)
           ts == Projection!Topics(reg, n)
           person == [p \in ps |-> <<"person", p>>]
           topic == [t \in ts |-> <<"topic", t>>]
           A == {<<"person", p>> : p \in ps}
           B == {<<"topic", t>> : t \in ts}
           names == Projection!Names(reg, n)
<1>1. A = {person[p] : p \in ps} /\ B = {topic[t] : t \in ts}
  OBVIOUS
<1>2. IsFiniteSet(A) /\ IsFiniteSet(B)
  <2>1. IsFiniteSet(ps) /\ IsFiniteSet(ts)
    BY SubjectsAreFinite
  <2> HIDE DEF person, topic, A, B, ps, ts
  <2> QED BY <1>1, <2>1, MappedIsFinite
<1>3. names = Projection!SetToSeq(A) \o Projection!SetToSeq(B)
  BY DEF Projection!Names
<1> HIDE DEF A, B, names
<1>4. /\ Projection!SetToSeq(A) \in Seq(A \cup B) /\ Projection!ToSet(Projection!SetToSeq(A)) = A
      /\ Projection!SetToSeq(B) \in Seq(A \cup B) /\ Projection!ToSet(Projection!SetToSeq(B)) = B
  BY <1>2, SetInOrder
<1>5. \A s : Projection!ToSet(s) = Intake!ToSet(s)
  BY DEF Projection!ToSet, Intake!ToSet
<1>6. names \in Seq(A \cup B) /\ Projection!ToSet(names) = A \cup B
  BY <1>3, <1>4, <1>5, JoinedSet
<1>7. Projection!ToSet(names) \subseteq Projection!Paged
  BY DEF Projection!Paged, names
<1>8. names \in Seq(Projection!Paged)
  BY <1>6, <1>7
<1> QED BY <1>6, <1>7, <1>8 DEF A, B, names

\* A page is of a person or of a topic.
LEMMA PagedIs ==
    /\ \A name \in Projection!Paged : name[1] \in {"person", "topic"}
    /\ Projection!Paged \cap Projection!Listings = {}
<1>1. ASSUME NEW name \in Projection!Paged PROVE name[1] \in {"person", "topic"}
  <2>1. PICK reg \in Projection!ValidRegistries, n \in 1 .. Len(Ledger) : name \in Projection!ToSet(Projection!Names(reg, n))
    BY DEF Projection!Paged
  <2>2. name \in {<<"person", p>> : p \in Projection!People(reg, n)}
                     \cup {<<"topic", t>> : t \in Projection!Topics(reg, n)}
    BY <2>1, NamesAre
  <2> QED BY <2>2
<1>2. \A name \in Projection!Listings : name[1] \in {"top", "queue"}
  BY DEF Projection!Listings
<1> QED BY <1>1, <1>2

\* What a page is, by whose it is.
LEMMA PageIs ==
    ASSUME NEW reg, NEW n
    PROVE  /\ \A p : Projection!Page(reg, n, <<"person", p>>) = Projection!PersonPage(reg, n, p)
           /\ \A t : Projection!Page(reg, n, <<"topic", t>>) = Projection!TopicPage(reg, n, t)
           /\ Projection!Page(reg, n, <<"top">>) = Projection!TopPage(reg, n)
           /\ Projection!Page(reg, n, <<"queue">>) = Projection!Queue(reg, n)
BY DEF Projection!Page
==============================================================================
