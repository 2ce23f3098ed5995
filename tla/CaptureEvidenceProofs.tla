------------------------ MODULE CaptureEvidenceProofs ------------------------
(***************************************************************************)
(* Proofs about CaptureEvidence, for every set of messages, versions,      *)
(* windows and batches and every bound.                                    *)
(*                                                                         *)
(* Windows are merged one after the other and their rows one after the     *)
(* other, by functions defined by recursion on the place in the sequence.  *)
(* What they compute is proved by induction on that place.  So are the     *)
(* order of first sight, the order of placing and the growth of a          *)
(* component, which are defined in the same way.                           *)
(***************************************************************************)
EXTENDS CaptureEvidence, TLAPS, FiniteSetTheorems

(***************************************************************************)
(* Induction on an interval.  A set that has 0 and with every number below *)
(* n the next one has n: otherwise adding one would map it into what it    *)
(* has besides 0, which is one element less.                               *)
(***************************************************************************)
LEMMA ReachesTop ==
    ASSUME NEW n \in Nat, NEW G, G \subseteq 0 .. n, 0 \in G,
           \A i \in G : i < n => i + 1 \in G
    PROVE  n \in G
<1> SUFFICES ASSUME n \notin G PROVE FALSE
  OBVIOUS
<1> DEFINE next == [i \in G |-> i + 1]
<1>1. IsFiniteSet(G) /\ IsFiniteSet(G \ {0}) /\ Cardinality(G) \in Nat
      /\ Cardinality(G \ {0}) = Cardinality(G) - 1
  <2>1. IsFiniteSet(0 .. n)
    BY FS_Interval
  <2>2. IsFiniteSet(G)
    BY <2>1, FS_Subset
  <2> QED
    BY <2>2, FS_RemoveElement, FS_CardinalityType
<1>2. next \in [G -> G \ {0}]
  OBVIOUS
<1>3. \E i, j \in G : i # j /\ next[i] = next[j]
  <2> HIDE DEF next
  <2>1. Cardinality(G \ {0}) < Cardinality(G)
    BY <1>1
  <2> QED BY <1>1, <1>2, <2>1, FS_PigeonHole
<1> QED
  BY <1>3

IsRun(a, n, S, s0, step) ==
    /\ a \in [0 .. n -> S]
    /\ a[0] = s0
    /\ \A i \in 1 .. n : a[i] = step[i][a[i - 1]]

\* Recursion on an interval: step functions on S have a run from every start.
LEMMA RunExists ==
    ASSUME NEW n \in Nat, NEW S, NEW s0 \in S, NEW step \in [1 .. n -> [S -> S]]
    PROVE  \E a : IsRun(a, n, S, s0, step)
<1> DEFINE Upto(k, a) == a[0] = s0 /\ \A i \in 1 .. k : a[i] = step[i][a[i - 1]]
           G == {k \in 0 .. n : \E a \in [0 .. k -> S] : Upto(k, a)}
<1>1. 0 \in G
  <2>1. [i \in 0 .. 0 |-> s0] \in [0 .. 0 -> S] /\ Upto(0, [i \in 0 .. 0 |-> s0])
    OBVIOUS
  <2>2. \E a \in [0 .. 0 -> S] : Upto(0, a)
    <3> HIDE DEF Upto
    <3> QED BY <2>1
  <2> QED BY <2>2
<1>2. ASSUME NEW k \in G, k < n
      PROVE  k + 1 \in G
  <2>1. PICK a \in [0 .. k -> S] : Upto(k, a)
    OBVIOUS
  <2>2. k \in Nat /\ k + 1 \in 1 .. n /\ a[k] \in S
    <3>1. k \in 0 .. n
      OBVIOUS
    <3> HIDE DEF G, Upto
    <3> QED BY <1>2, <3>1
  <2>3. step[k + 1][a[k]] \in S
    BY <2>2
  <2> DEFINE b == [i \in 0 .. k + 1 |-> IF i <= k THEN a[i] ELSE step[k + 1][a[k]]]
  <2>4. b \in [0 .. k + 1 -> S]
    BY <2>2, <2>3
  <2>5. b[0] = s0
    BY <2>1, <2>2
  <2>6. ASSUME NEW i \in 1 .. k + 1
        PROVE  b[i] = step[i][b[i - 1]]
    <3>1. CASE i = k + 1
      <4>1. b[i] = step[k + 1][a[k]] /\ b[i - 1] = a[k]
        BY <2>2, <3>1
      <4> QED BY <4>1, <3>1
    <3>2. CASE i \in 1 .. k
      <4>1. b[i] = a[i] /\ b[i - 1] = a[i - 1]
        BY <2>2, <3>2
      <4> QED BY <4>1, <3>2, <2>1
    <3> QED BY <3>1, <3>2, <2>2
  <2>7. Upto(k + 1, b)
    <3> HIDE DEF b
    <3> QED BY <2>5, <2>6
  <2>8. \E c \in [0 .. k + 1 -> S] : Upto(k + 1, c)
    <3> HIDE DEF b, Upto
    <3> QED BY <2>4, <2>7
  <2> QED BY <2>2, <2>8
<1>3. n \in G
  <2>1. G \subseteq 0 .. n
    OBVIOUS
  <2> HIDE DEF G
  <2> QED BY <1>1, <1>2, <2>1, ReachesTop
<1> QED BY <1>3 DEF IsRun

\* A function that begins as a run and goes on as one, as long as it stays in S, is one.
LEMMA SolvedIsRun ==
    ASSUME NEW n \in Nat, NEW S, NEW s0 \in S, NEW step \in [1 .. n -> [S -> S]],
           NEW c, c = [i \in 0 .. n |-> c[i]], c[0] = s0,
           \A i \in 1 .. n : c[i - 1] \in S => c[i] = step[i][c[i - 1]]
    PROVE  IsRun(c, n, S, s0, step)
<1>1. ASSUME NEW j \in 0 .. n PROVE c[j] \in S
  <2> DEFINE G == {i \in 0 .. j : c[i] \in S}
  <2>1. 0 \in G
    OBVIOUS
  <2>2. ASSUME NEW i \in G, i < j PROVE i + 1 \in G
    <3>1. i + 1 \in 1 .. n /\ (i + 1) - 1 = i /\ c[i] \in S /\ i + 1 \in 0 .. j
      BY <2>2
    <3>2. c[i + 1] = step[i + 1][c[i]]
      BY <3>1
    <3> QED BY <3>1, <3>2
  <2>3. G \subseteq 0 .. j /\ j \in Nat
    OBVIOUS
  <2>4. j \in G
    <3> HIDE DEF G
    <3> QED BY <2>1, <2>2, <2>3, ReachesTop
  <2> QED BY <2>4
<1>2. \A i \in 1 .. n : c[i] = step[i][c[i - 1]]
  <2> TAKE i \in 1 .. n
  <2>1. i - 1 \in 0 .. n
    OBVIOUS
  <2> QED BY <1>1, <2>1
<1> QED BY <1>1, <1>2 DEF IsRun

\* An element of a sequence over a set is in that set.
LEMMA ElementIn ==
    ASSUME NEW S, NEW s \in Seq(S), NEW i \in 1 .. Len(s)
    PROVE  s[i] \in S
OBVIOUS

(***************************************************************************)
(* The rows of a window in the ledger                                      *)
(***************************************************************************)
Log == Seq(EventRow)

RowStep(obs, log, i) ==
    IF RowEvent(obs, i) \in ToSet(log) THEN log ELSE Append(log, RowEvent(obs, i))

\* The rows of a window are events.
LEMMA RowEventTyped ==
    ASSUME NEW obs \in Observation, NEW i \in 1 .. Len(obs.rows)
    PROVE  RowEvent(obs, i) \in EventRow
<1>1. obs.rows \in Seq([msg : Message, ver : Version, at : Nat]) /\ obs.source \in Source
  BY ObservationAssumption DEF Submitted
<1>2. obs.rows[i] \in [msg : Message, ver : Version, at : Nat]
  BY <1>1, ElementIn
<1> QED BY <1>1, <1>2 DEF RowEvent, EventRow

\* Recording a row of a window gives a ledger.
LEMMA RowStepTyped ==
    ASSUME NEW obs \in Observation, NEW i \in 1 .. Len(obs.rows), NEW log \in Log
    PROVE  RowStep(obs, log, i) \in Log
BY RowEventTyped DEF RowStep, Log

\* The ledger after each row of a window: AppendWindowEvents is the last of a run.
LEMMA AppendIsRun ==
    ASSUME NEW obs \in Observation, NEW log \in Log
    PROVE  \E a \in [0 .. Len(obs.rows) -> Log] :
               /\ a[0] = log
               /\ \A i \in 1 .. Len(obs.rows) : a[i] = RowStep(obs, a[i - 1], i)
               /\ AppendWindowEvents(log, obs) = a[Len(obs.rows)]
<1> DEFINE n == Len(obs.rows)
           step == [i \in 1 .. n |-> [l \in Log |-> RowStep(obs, l, i)]]
           Solves(a) == a = [i \in 0 .. n |->
                                IF i = 0 THEN log
                                ELSE IF RowEvent(obs, i) \in ToSet(a[i - 1]) THEN a[i - 1]
                                ELSE Append(a[i - 1], RowEvent(obs, i))]
           chosen == CHOOSE a : Solves(a)
<1>0. n \in Nat
  BY ObservationAssumption DEF Submitted
<1>1. step \in [1 .. n -> [Log -> Log]]
  BY RowStepTyped
<1>2. \E a : IsRun(a, n, Log, log, step)
  <2> HIDE DEF step, n
  <2> QED BY <1>0, <1>1, RunExists
<1>3. PICK a \in [0 .. n -> Log] : a[0] = log /\ \A i \in 1 .. n : a[i] = step[i][a[i - 1]]
  BY <1>2 DEF IsRun
<1>4. ASSUME NEW i \in 1 .. n
      PROVE  a[i] = RowStep(obs, a[i - 1], i)
  <2>1. a[i - 1] \in Log
    BY <1>0, <1>3
  <2> QED BY <1>3, <2>1
<1>5. Solves(a)
  <2>1. a = [i \in 0 .. n |-> a[i]]
    OBVIOUS
  <2>2. ASSUME NEW i \in 0 .. n
        PROVE  a[i] = IF i = 0 THEN log
                      ELSE IF RowEvent(obs, i) \in ToSet(a[i - 1]) THEN a[i - 1]
                      ELSE Append(a[i - 1], RowEvent(obs, i))
    <3>1. CASE i = 0
      BY <3>1, <1>3
    <3>2. CASE i \in 1 .. n
      BY <3>2, <1>4 DEF RowStep
    <3> QED BY <3>1, <3>2, <1>0
  <2> HIDE DEF n
  <2> QED BY <2>1, <2>2
<1>6. Solves(chosen)
  <2> HIDE DEF Solves
  <2> QED BY <1>5
<1>7. chosen[0] = log
  <2> HIDE DEF chosen
  <2> QED BY <1>0, <1>6
<1>8. ASSUME NEW i \in 1 .. n
      PROVE  chosen[i] = RowStep(obs, chosen[i - 1], i)
  <2> HIDE DEF chosen, n
  <2>1. i \in 0 .. n /\ i # 0
    BY <1>0
  <2> QED BY <1>6, <2>1 DEF RowStep
<1>9. ASSUME NEW j \in 0 .. n
      PROVE  chosen[j] \in Log
  <2> DEFINE G == {i \in 0 .. j : chosen[i] \in Log}
  <2> HIDE DEF chosen
  <2>1. 0 \in G
    BY <1>0, <1>7
  <2>2. ASSUME NEW i \in G, i < j
        PROVE  i + 1 \in G
    <3>1. i + 1 \in 1 .. n /\ (i + 1) - 1 = i /\ chosen[i] \in Log
      BY <1>0, <2>2
    <3>2. chosen[i + 1] = RowStep(obs, chosen[i], i + 1)
      BY <1>8, <3>1
    <3>3. chosen[i + 1] \in Log
      BY <3>1, <3>2, RowStepTyped
    <3>4. i + 1 \in 0 .. j
      BY <2>2
    <3> QED BY <3>3, <3>4
  <2>3. j \in G
    <3>1. G \subseteq 0 .. j /\ j \in Nat
      OBVIOUS
    <3> HIDE DEF G
    <3> QED BY <2>1, <2>2, <3>1, ReachesTop
  <2> QED BY <2>3
<1>10. chosen \in [0 .. n -> Log]
  <2> HIDE DEF chosen, n
  <2>1. chosen = [i \in 0 .. n |-> chosen[i]]
    BY <1>6
  <2> QED BY <1>9, <2>1
<1>11. AppendWindowEvents(log, obs) = chosen[n]
  BY DEF AppendWindowEvents
<1> QED
  <2> HIDE DEF chosen, n
  <2>1. \A i \in 1 .. n : chosen[i] = RowStep(obs, chosen[i - 1], i)
    BY <1>8
  <2> QED BY <1>7, <1>10, <1>11, <2>1 DEF n

\* s is how t begins.
Begins(s, t) == Len(s) <= Len(t) /\ \A i \in 1 .. Len(s) : t[i] = s[i]

\* What begins a sequence is a prefix of it.
LEMMA BeginsIsPrefix ==
    ASSUME NEW S, NEW s \in Seq(S), NEW t \in Seq(S), Begins(s, t)
    PROVE  IsPrefix(s, t)
<1>1. SubSeq(s, 1, Len(s)) = s
  OBVIOUS
<1>2. SubSeq(t, 1, Len(s)) = s
  <2>1. SubSeq(t, 1, Len(s)) \in Seq(S) /\ Len(SubSeq(t, 1, Len(s))) = Len(s)
    BY DEF Begins
  <2>2. \A i \in 1 .. Len(s) : SubSeq(t, 1, Len(s))[i] = s[i]
    BY DEF Begins
  <2> QED BY <2>1, <2>2
<1> QED BY <1>1, <1>2 DEF IsPrefix, Begins

\* A beginning of a beginning is a beginning.
LEMMA BeginsTransitive ==
    ASSUME NEW S, NEW s \in Seq(S), NEW t \in Seq(S), NEW u \in Seq(S),
           Begins(s, t), Begins(t, u)
    PROVE  Begins(s, u)
BY DEF Begins

\* A sequence contains what its beginnings contain.
LEMMA BeginsContains ==
    ASSUME NEW S, NEW s \in Seq(S), NEW t \in Seq(S), Begins(s, t)
    PROVE  ToSet(s) \subseteq ToSet(t)
<1>1. ASSUME NEW i \in DOMAIN s
      PROVE  i \in DOMAIN t /\ t[i] = s[i]
  BY DEF Begins
<1> QED BY <1>1 DEF ToSet

\* One row.
LEMMA RowStepAdds ==
    ASSUME NEW obs \in Observation, NEW i \in 1 .. Len(obs.rows), NEW log \in Log
    PROVE  /\ RowStep(obs, log, i) \in Log
           /\ Begins(log, RowStep(obs, log, i))
           /\ RowEvent(obs, i) \in ToSet(RowStep(obs, log, i))
           /\ IsInjective(log) => IsInjective(RowStep(obs, log, i))
<1>1. RowStep(obs, log, i) \in Log
  BY RowStepTyped
<1>2. CASE RowEvent(obs, i) \in ToSet(log)
  BY <1>1, <1>2 DEF RowStep, Begins, Log
<1>3. CASE RowEvent(obs, i) \notin ToSet(log)
  <2> DEFINE e == RowEvent(obs, i)
             longer == Append(log, e)
  <2>1. RowStep(obs, log, i) = longer
    BY <1>3 DEF RowStep
  <2>2. e \in EventRow
    BY RowEventTyped
  <2> HIDE DEF e
  <2>3. /\ DOMAIN log = 1 .. Len(log) /\ DOMAIN longer = 1 .. Len(log) + 1
        /\ \A k \in 1 .. Len(log) : longer[k] = log[k]
        /\ longer[Len(log) + 1] = e /\ Len(longer) = Len(log) + 1
        /\ Len(log) \in Nat
    BY <2>2 DEF Log
  <2>4. \A k \in 1 .. Len(log) : log[k] # e
    BY <1>3, <2>3 DEF ToSet, e
  <2> HIDE DEF longer
  <2>5. e \in ToSet(longer)
    BY <2>3 DEF ToSet
  <2>6. IsInjective(log) => IsInjective(longer)
    BY <2>3, <2>4 DEF IsInjective
  <2> QED BY <1>1, <2>1, <2>3, <2>5, <2>6 DEF Begins, e
<1> QED BY <1>2, <1>3

\* A window's rows are all in the ledger, once each, after what was there.
LEMMA AppendAdds ==
    ASSUME NEW obs \in Observation, NEW log \in Log
    PROVE  /\ AppendWindowEvents(log, obs) \in Log
           /\ Begins(log, AppendWindowEvents(log, obs))
           /\ \A i \in 1 .. Len(obs.rows) :
                  RowEvent(obs, i) \in ToSet(AppendWindowEvents(log, obs))
           /\ IsInjective(log) => IsInjective(AppendWindowEvents(log, obs))
<1> DEFINE n == Len(obs.rows)
           Good(j, l) == /\ Begins(log, l)
                         /\ \A i \in 1 .. j : RowEvent(obs, i) \in ToSet(l)
                         /\ IsInjective(log) => IsInjective(l)
<1>0. n \in Nat
  BY ObservationAssumption DEF Submitted
<1>1. PICK a \in [0 .. n -> Log] :
          /\ a[0] = log
          /\ \A i \in 1 .. n : a[i] = RowStep(obs, a[i - 1], i)
          /\ AppendWindowEvents(log, obs) = a[n]
  BY AppendIsRun
<1> DEFINE G == {j \in 0 .. n : Good(j, a[j])}
<1>2. 0 \in G
  <2>1. Begins(log, log)
    BY DEF Begins, Log
  <2> QED BY <1>0, <1>1, <2>1
<1>3. ASSUME NEW j \in G, j < n
      PROVE  j + 1 \in G
  <2>1. j + 1 \in 1 .. n /\ j + 1 \in 0 .. n /\ (j + 1) - 1 = j /\ a[j] \in Log /\ a[j + 1] \in Log
    BY <1>0, <1>3
  <2>2. Good(j, a[j])
    OBVIOUS
  <2>3. a[j + 1] = RowStep(obs, a[j], j + 1)
    BY <1>1, <2>1
  <2>4. /\ Begins(a[j], a[j + 1]) /\ RowEvent(obs, j + 1) \in ToSet(a[j + 1])
        /\ IsInjective(a[j]) => IsInjective(a[j + 1])
    BY <2>1, <2>3, RowStepAdds
  <2>5. Begins(log, a[j + 1])
    BY <2>1, <2>2, <2>4, BeginsTransitive DEF Log
  <2>6. ToSet(a[j]) \subseteq ToSet(a[j + 1])
    BY <2>1, <2>4, BeginsContains DEF Log
  <2>7. \A i \in 1 .. j + 1 : RowEvent(obs, i) \in ToSet(a[j + 1])
    <3> TAKE i \in 1 .. j + 1
    <3>1. i \in 1 .. j \/ i = j + 1
      BY <2>1
    <3> HIDE DEF G
    <3> QED BY <2>2, <2>4, <2>6, <3>1
  <2> QED BY <2>1, <2>2, <2>4, <2>5, <2>7
<1>4. n \in G
  <2>1. G \subseteq 0 .. n
    OBVIOUS
  <2> HIDE DEF G
  <2> QED BY <1>0, <1>2, <1>3, <2>1, ReachesTop
<1> QED BY <1>0, <1>1, <1>4

(***************************************************************************)
(* A window in the coverage                                                *)
(***************************************************************************)
WindowIdsDiffer(windows) ==
    \A i, j \in DOMAIN windows : windows[i].id = windows[j].id => i = j

\* Grows with everything a merge may change.
Size(c) == Len(c.windows) + c.invalid

\* The versions a window shows of a message.
Shows(obs, m) == {obs.rows[i].ver : i \in {j \in DOMAIN obs.rows : obs.rows[j].msg = m}}

\* What merging a window makes of a coverage.
Grown(c, obs, d) ==
    /\ d \in Coverage
    /\ Begins(c.windows, d.windows)
    /\ c.blockers \ {"window_overlap_gap"} \subseteq d.blockers
    /\ d = c \/ Size(c) < Size(d)
    /\ WindowIdsDiffer(c.windows) => WindowIdsDiffer(d.windows)
    /\ \A m \in Message : d.versions[m] \subseteq c.versions[m] \cup Shows(obs, m)

\* Types of what a window submits.
LEMMA SubmittedTyped ==
    ASSUME NEW obs \in Observation
    PROVE  /\ obs.rows \in Seq([msg : Message, ver : Version, at : Nat])
           /\ RowIds(obs) \in Seq(Message)
           /\ obs.source \in Source /\ obs.pass \in Nat /\ obs.invalid \in Nat
           /\ obs.oldest \in BOOLEAN /\ obs.latest \in BOOLEAN
           /\ \A m \in Message : Shows(obs, m) \subseteq Version
<1>1. Submitted(obs)
  BY ObservationAssumption
<1>2. /\ obs.rows \in Seq([msg : Message, ver : Version, at : Nat])
      /\ obs.source \in Source /\ obs.pass \in Nat /\ obs.invalid \in Nat
  BY <1>1 DEF Submitted
<1>3. obs.oldest \in BOOLEAN /\ obs.latest \in BOOLEAN
  BY <1>1, Zenon DEF Submitted
<1>4. \A i \in DOMAIN obs.rows : obs.rows[i] \in [msg : Message, ver : Version, at : Nat]
  <2>1. DOMAIN obs.rows = 1 .. Len(obs.rows)
    BY <1>2
  <2> QED BY <1>2, <2>1, ElementIn
<1>5. RowIds(obs) \in Seq(Message)
  BY <1>2, <1>4 DEF RowIds
<1>6. \A m \in Message : Shows(obs, m) \subseteq Version
  BY <1>4 DEF Shows
<1> QED BY <1>2, <1>3, <1>5, <1>6

\* The window that is added has its type.
LEMMA WindowTyped ==
    ASSUME NEW c \in Coverage, NEW obs \in Observation
    PROVE  [id |-> obs.id, source |-> obs.source, ids |-> RowIds(obs),
            pass |-> obs.pass, oldest |-> obs.oldest, latest |-> obs.latest,
            new |-> Cardinality(ToSet(RowIds(obs)) \ Known(c))] \in Window
<1>1. Cardinality(ToSet(RowIds(obs)) \ Known(c)) \in Nat
  <2> DEFINE ids == RowIds(obs)
  <2>1. ids \in Seq(Message)
    BY SubmittedTyped
  <2> HIDE DEF ids
  <2>2. IsFiniteSet(DOMAIN ids)
    BY <2>1, FS_Interval
  <2>3. IsFiniteSet(ToSet(ids))
    <3>1. ids \in Surjection(DOMAIN ids, ToSet(ids))
      BY <2>1 DEF Surjection, ToSet
    <3> QED BY <2>2, <3>1, FS_Surjection
  <2>4. IsFiniteSet(ToSet(ids) \ Known(c))
    BY <2>3, FS_Subset
  <2> QED BY <2>4, FS_CardinalityType DEF ids
<1>2. obs.id \in {o.id : o \in Observation}
  OBVIOUS
<1>3. obs.oldest \in BOOLEAN /\ obs.latest \in BOOLEAN
  BY SubmittedTyped, Zenon
<1> QED BY <1>1, <1>2, <1>3, SubmittedTyped DEF Window

\* Adding a window that is new only adds to the coverage.
LEMMA AddWindowGrows ==
    ASSUME NEW c \in Coverage, NEW obs \in Observation, WindowOf(c, obs) = {}
    PROVE  Grown(c, obs, AddWindow(c, obs))
<1> DEFINE w == [id |-> obs.id, source |-> obs.source, ids |-> RowIds(obs),
                 pass |-> obs.pass, oldest |-> obs.oldest, latest |-> obs.latest,
                 new |-> Cardinality(ToSet(RowIds(obs)) \ Known(c))]
           added == [c EXCEPT
                        !.invalid = @ + obs.invalid,
                        !.versions = [m \in Message |-> @[m] \cup Shows(obs, m)],
                        !.windows = Append(@, w)]
           d == AddWindow(c, obs)
<1>1. d = [added EXCEPT !.blockers = Blockers(added)]
  BY DEF AddWindow, Shows
<1>2. /\ c.windows \in Seq(Window) /\ c.versions \in [Message -> SUBSET Version]
      /\ c.invalid \in Nat
      /\ c.blockers \subseteq {"window_overlap_gap", "stable_message_id_missing"}
  BY DEF Coverage
<1>3. w \in Window /\ w.id = obs.id
  BY WindowTyped
<1> HIDE DEF w
<1>4. /\ added.windows = Append(c.windows, w)
      /\ added.invalid = c.invalid + obs.invalid
      /\ added.versions = [m \in Message |-> c.versions[m] \cup Shows(obs, m)]
      /\ added.blockers = c.blockers
      /\ added = [windows |-> added.windows, versions |-> added.versions,
                  invalid |-> added.invalid, blockers |-> added.blockers]
  <2>1. DOMAIN c = {"windows", "versions", "invalid", "blockers"}
    BY DEF Coverage
  <2> DEFINE versions == [m \in Message |-> c.versions[m] \cup Shows(obs, m)]
             invalid == c.invalid + obs.invalid
             windows == Append(c.windows, w)
  <2>2. added = [c EXCEPT !.invalid = invalid, !.versions = versions, !.windows = windows]
    OBVIOUS
  <2> HIDE DEF added, versions, invalid, windows
  <2>3. added = [windows |-> windows, versions |-> versions,
                 invalid |-> invalid, blockers |-> c.blockers]
    BY <2>1, <2>2
  <2> QED BY <2>3 DEF versions, invalid, windows
<1> HIDE DEF added
<1>5. /\ d.windows = Append(c.windows, w)
      /\ d.invalid = c.invalid + obs.invalid
      /\ d.versions = [m \in Message |-> c.versions[m] \cup Shows(obs, m)]
      /\ d.blockers = Blockers(added)
      /\ d = [windows |-> d.windows, versions |-> d.versions,
              invalid |-> d.invalid, blockers |-> d.blockers]
  BY <1>1, <1>4
<1> HIDE DEF d
<1>6. /\ Blockers(added) \subseteq {"window_overlap_gap", "stable_message_id_missing"}
      /\ c.blockers \ {"window_overlap_gap"} \subseteq Blockers(added)
  BY <1>2, <1>4 DEF Blockers
<1>7. /\ d.windows \in Seq(Window) /\ Len(d.windows) = Len(c.windows) + 1
      /\ \A i \in 1 .. Len(c.windows) : d.windows[i] = c.windows[i]
      /\ d.windows[Len(c.windows) + 1] = w
      /\ DOMAIN c.windows = 1 .. Len(c.windows) /\ Len(c.windows) \in Nat
      /\ DOMAIN d.windows = 1 .. Len(c.windows) + 1
  BY <1>2, <1>3, <1>5
<1>8. d \in Coverage
  <2>1. d.versions \in [Message -> SUBSET Version]
    BY <1>2, <1>5, SubmittedTyped
  <2>2. d.invalid \in Nat
    BY <1>2, <1>5, SubmittedTyped
  <2> QED BY <1>5, <1>6, <1>7, <2>1, <2>2 DEF Coverage
<1>9. Begins(c.windows, d.windows)
  BY <1>7 DEF Begins
<1>10. Size(c) < Size(d)
  BY <1>2, <1>5, <1>7, SubmittedTyped DEF Size
<1>11. WindowIdsDiffer(c.windows) => WindowIdsDiffer(d.windows)
  <2>1. \A i \in 1 .. Len(c.windows) : c.windows[i].id # w.id
    BY <1>3, <1>7 DEF WindowOf
  <2> SUFFICES ASSUME WindowIdsDiffer(c.windows),
                      NEW i \in DOMAIN d.windows, NEW j \in DOMAIN d.windows,
                      d.windows[i].id = d.windows[j].id
               PROVE  i = j
    BY DEF WindowIdsDiffer
  <2>2. CASE i \in 1 .. Len(c.windows) /\ j \in 1 .. Len(c.windows)
    BY <1>7, <2>2 DEF WindowIdsDiffer
  <2>3. \A k \in 1 .. Len(c.windows) : d.windows[k].id # w.id
    BY <1>7, <2>1
  <2>4. \A k \in DOMAIN d.windows : k \in 1 .. Len(c.windows) \/ k = Len(c.windows) + 1
    BY <1>7
  <2>5. CASE i = Len(c.windows) + 1
    <3>1. d.windows[j].id = w.id
      BY <1>7, <2>5
    <3> QED BY <2>3, <2>4, <2>5, <3>1
  <2>6. CASE j = Len(c.windows) + 1
    <3>1. d.windows[i].id = w.id
      BY <1>7, <2>6
    <3> QED BY <2>3, <2>4, <2>6, <3>1
  <2> QED BY <2>2, <2>4, <2>5, <2>6
<1> QED BY <1>5, <1>6, <1>8, <1>9, <1>10, <1>11 DEF Grown, d

\* Merging one window keeps what the coverage has, whether the window is new or not.
LEMMA MergeGrows ==
    ASSUME NEW c \in Coverage, NEW obs \in Observation
    PROVE  Grown(c, obs, MergeCaptureWindow(c, obs))
<1>1. CASE WindowOf(c, obs) = {}
  BY <1>1, AddWindowGrows DEF MergeCaptureWindow
<1>2. CASE WindowOf(c, obs) # {}
  <2> DEFINE d == MergeCaptureWindow(c, obs)
  <2>1. d = [c EXCEPT !.invalid = @ + obs.invalid]
    BY <1>2 DEF MergeCaptureWindow
  <2> HIDE DEF d
  <2>2. obs.invalid \in Nat /\ c.invalid \in Nat /\ c.windows \in Seq(Window)
    BY SubmittedTyped DEF Coverage
  <2>3. /\ d.windows = c.windows /\ d.versions = c.versions /\ d.blockers = c.blockers
        /\ d.invalid = c.invalid + obs.invalid
        /\ d \in Coverage
    BY <2>1, <2>2 DEF Coverage
  <2>4. d = c \/ Size(c) < Size(d)
    <3>1. CASE obs.invalid = 0
      BY <2>1, <2>2, <3>1 DEF Coverage
    <3>2. CASE obs.invalid > 0
      BY <2>2, <2>3, <3>2 DEF Size
    <3> QED BY <2>2, <3>1, <3>2
  <2>5. Begins(c.windows, d.windows)
    BY <2>2, <2>3 DEF Begins
  <2> QED BY <2>3, <2>4, <2>5 DEF Grown, d
<1> QED BY <1>1, <1>2

(***************************************************************************)
(* A sequence of windows                                                   *)
(***************************************************************************)
MergeState == [ok : BOOLEAN, coverage : Coverage, events : Log]

MergeStep(before, obs) ==
    [ok |-> before.ok /\ Mergeable(before.coverage, obs),
     coverage |-> MergeCaptureWindow(before.coverage, obs),
     events |-> AppendWindowEvents(before.events, obs)]

\* Merging one more window of a batch keeps the types.
LEMMA MergeStepTyped ==
    ASSUME NEW st \in MergeState, NEW obs \in Observation
    PROVE  MergeStep(st, obs) \in MergeState
<1>1. st.coverage \in Coverage /\ st.events \in Log
  BY DEF MergeState
<1>2. MergeCaptureWindow(st.coverage, obs) \in Coverage
  BY <1>1, MergeGrows DEF Grown
<1>3. AppendWindowEvents(st.events, obs) \in Log
  BY <1>1, AppendAdds
<1>4. (st.ok /\ Mergeable(st.coverage, obs)) \in BOOLEAN
  BY Zenon
<1> QED BY <1>2, <1>3, <1>4 DEF MergeStep, MergeState

\* Both files after each window of a sequence: Merged is the last of a run.
LEMMA MergedIsRun ==
    ASSUME coverage \in Coverage, events \in Log, NEW sequence \in Seq(Observation)
    PROVE  \E a \in [0 .. Len(sequence) -> MergeState] :
               /\ a[0] = [ok |-> TRUE, coverage |-> coverage, events |-> events]
               /\ \A i \in 1 .. Len(sequence) : a[i] = MergeStep(a[i - 1], sequence[i])
               /\ Merged(sequence) = a[Len(sequence)]
<1> DEFINE n == Len(sequence)
           start == [ok |-> TRUE, coverage |-> coverage, events |-> events]
           step == [i \in 1 .. n |-> [st \in MergeState |-> MergeStep(st, sequence[i])]]
           Solves(a) == a = [i \in 0 .. n |->
                                IF i = 0 THEN start ELSE MergeStep(a[i - 1], sequence[i])]
           chosen == CHOOSE a : Solves(a)
<1>0. n \in Nat /\ start \in MergeState /\ \A i \in 1 .. n : sequence[i] \in Observation
  BY ElementIn DEF MergeState
<1> HIDE DEF start
<1>1. step \in [1 .. n -> [MergeState -> MergeState]]
  <2> HIDE DEF n
  <2> QED BY <1>0, MergeStepTyped
<1>2. \E a : IsRun(a, n, MergeState, start, step)
  <2> HIDE DEF step, n
  <2> QED BY <1>0, <1>1, RunExists
<1>3. PICK a \in [0 .. n -> MergeState] :
          a[0] = start /\ \A i \in 1 .. n : a[i] = step[i][a[i - 1]]
  BY <1>2 DEF IsRun
<1>4. ASSUME NEW i \in 1 .. n
      PROVE  a[i] = MergeStep(a[i - 1], sequence[i])
  <2>1. a[i - 1] \in MergeState
    BY <1>0, <1>3
  <2> QED BY <1>3, <2>1
<1>5. Solves(a)
  <2>1. a = [i \in 0 .. n |-> a[i]]
    OBVIOUS
  <2>2. ASSUME NEW i \in 0 .. n
        PROVE  a[i] = IF i = 0 THEN start ELSE MergeStep(a[i - 1], sequence[i])
    <3>1. CASE i = 0
      BY <3>1, <1>3
    <3>2. CASE i \in 1 .. n
      BY <3>2, <1>4
    <3> QED BY <3>1, <3>2, <1>0
  <2> HIDE DEF n
  <2> QED BY <2>1, <2>2
<1>6. Solves(chosen)
  <2> HIDE DEF Solves
  <2> QED BY <1>5
<1>7. chosen[0] = start
  <2> HIDE DEF chosen
  <2> QED BY <1>0, <1>6
<1>8. ASSUME NEW i \in 1 .. n
      PROVE  chosen[i] = MergeStep(chosen[i - 1], sequence[i])
  <2> HIDE DEF chosen, n
  <2>1. i \in 0 .. n /\ i # 0
    BY <1>0
  <2> QED BY <1>6, <2>1
<1>9. ASSUME NEW j \in 0 .. n
      PROVE  chosen[j] \in MergeState
  <2> DEFINE G == {i \in 0 .. j : chosen[i] \in MergeState}
  <2> HIDE DEF chosen
  <2>1. 0 \in G
    BY <1>0, <1>7
  <2>2. ASSUME NEW i \in G, i < j
        PROVE  i + 1 \in G
    <3>1. i + 1 \in 1 .. n /\ (i + 1) - 1 = i /\ chosen[i] \in MergeState
      BY <1>0, <2>2
    <3>2. chosen[i + 1] = MergeStep(chosen[i], sequence[i + 1])
      BY <1>8, <3>1
    <3>3. chosen[i + 1] \in MergeState
      BY <1>0, <3>1, <3>2, MergeStepTyped
    <3>4. i + 1 \in 0 .. j
      BY <2>2
    <3> QED BY <3>3, <3>4
  <2>3. j \in G
    <3>1. G \subseteq 0 .. j /\ j \in Nat
      OBVIOUS
    <3> HIDE DEF G
    <3> QED BY <2>1, <2>2, <3>1, ReachesTop
  <2> QED BY <2>3
<1>10. chosen \in [0 .. n -> MergeState]
  <2> HIDE DEF chosen, n
  <2>1. chosen = [i \in 0 .. n |-> chosen[i]]
    BY <1>6
  <2> QED BY <1>9, <2>1
<1>11. Merged(sequence) = chosen[n]
  BY DEF Merged, MergeStep, start
<1> QED
  <2> HIDE DEF chosen, n
  <2>1. \A i \in 1 .. n : chosen[i] = MergeStep(chosen[i - 1], sequence[i])
    BY <1>8
  <2> QED BY <1>7, <1>10, <1>11, <2>1 DEF n, start

(***************************************************************************)
(* A batch, and how evidence grows                                         *)
(***************************************************************************)

Taken(batch, sources, s, i) ==
    IF batch[i].source \in sources THEN Append(s, batch[i]) ELSE s

\* The windows taken from a batch are a sequence of windows.
LEMMA TakenTyped ==
    ASSUME NEW batch \in Seq(Observation), NEW sources,
           NEW i \in 1 .. Len(batch), NEW s \in Seq(Observation)
    PROVE  Taken(batch, sources, s, i) \in Seq(Observation)
<1>1. batch[i] \in Observation
  BY ElementIn
<1>2. Append(s, batch[i]) \in Seq(Observation)
  BY <1>1
<1> QED BY <1>2 DEF Taken

\* A selection of a batch is a sequence of windows.
LEMMA FromTyped ==
    ASSUME NEW batch \in Seq(Observation), NEW sources
    PROVE  From(batch, sources) \in Seq(Observation)
<1> DEFINE n == Len(batch)
           S == Seq(Observation)
           step == [i \in 1 .. n |-> [s \in S |-> Taken(batch, sources, s, i)]]
           Solves(a) == a = [i \in 0 .. n |->
                                IF i = 0 THEN <<>> ELSE Taken(batch, sources, a[i - 1], i)]
           chosen == CHOOSE a : Solves(a)
<1>0. n \in Nat /\ <<>> \in S
  OBVIOUS
<1>1. step \in [1 .. n -> [S -> S]]
  BY TakenTyped
<1>2. From(batch, sources) = chosen[n]
  BY DEF From, Taken
<1>3. \A i \in 1 .. n : \A s \in S : step[i][s] = Taken(batch, sources, s, i)
  <2> HIDE DEF n, S
  <2> QED OBVIOUS
<1> HIDE DEF step, n, S
<1>4. PICK a : IsRun(a, n, S, <<>>, step)
  BY <1>0, <1>1, RunExists
<1>5. Solves(a)
  <2>1. a \in [0 .. n -> S] /\ a[0] = <<>> /\ \A i \in 1 .. n : a[i] = step[i][a[i - 1]]
    BY <1>4 DEF IsRun
  <2>2. ASSUME NEW i \in 0 .. n
        PROVE  a[i] = IF i = 0 THEN <<>> ELSE Taken(batch, sources, a[i - 1], i)
    <3>1. CASE i = 0
      BY <2>1, <3>1
    <3>2. CASE i # 0
      <4>1. i \in 1 .. n /\ i - 1 \in 0 .. n
        BY <1>0, <3>2
      <4>2. a[i - 1] \in S /\ a[i] = step[i][a[i - 1]]
        BY <2>1, <4>1
      <4> QED BY <1>3, <3>2, <4>1, <4>2
    <3> QED BY <3>1, <3>2
  <2>3. a = [i \in 0 .. n |-> a[i]]
    BY <2>1
  <2> QED BY <2>2, <2>3
<1>6. Solves(chosen)
  <2> HIDE DEF Solves
  <2> QED BY <1>5
<1> HIDE DEF chosen
<1>7. chosen = [i \in 0 .. n |-> chosen[i]] /\ chosen[0] = <<>>
  <2>1. 0 \in 0 .. n
    BY <1>0
  <2>2. chosen[0] = <<>>
    BY <1>6, <2>1
  <2>3. chosen = [i \in 0 .. n |-> chosen[i]]
    BY <1>6
  <2> QED BY <2>2, <2>3
<1>8. ASSUME NEW i \in 1 .. n, chosen[i - 1] \in S
      PROVE  chosen[i] = step[i][chosen[i - 1]]
  <2>1. i \in 0 .. n /\ i # 0
    BY <1>0
  <2>2. chosen[i] = Taken(batch, sources, chosen[i - 1], i)
    BY <1>6, <2>1
  <2> QED BY <1>3, <1>8, <2>2
<1>9. IsRun(chosen, n, S, <<>>, step)
  BY <1>0, <1>1, <1>7, <1>8, SolvedIsRun
<1>10. n \in 0 .. n
  BY <1>0
<1> QED BY <1>2, <1>9, <1>10 DEF IsRun, S

\* A batch in the order of its merge is a sequence of windows.
LEMMA CacheFirstTyped ==
    ASSUME NEW batch \in Batch
    PROVE  CacheFirst(batch) \in Seq(Observation)
<1>1. batch \in Seq(Observation)
  BY ObservationAssumption
<1>2. /\ From(batch, CacheSource) \in Seq(Observation)
      /\ From(batch, Source \ CacheSource) \in Seq(Observation)
  BY <1>1, FromTyped
<1> QED BY <1>2 DEF CacheFirst

\* Every version the coverage c counts is in the ledger l.
Covers(c, l) ==
    \A m \in Message : \A v \in c.versions[m] :
        \E i \in DOMAIN l : l[i].msg = m /\ l[i].ver = v

\* Both files together: t has what s has.
Extends(s, t) ==
    /\ Begins(s.events, t.events)
    /\ Begins(s.coverage.windows, t.coverage.windows)
    /\ s.coverage.blockers \ {"window_overlap_gap"} \subseteq t.coverage.blockers
    /\ s.coverage = t.coverage \/ Size(s.coverage) < Size(t.coverage)

\* Nothing is recorded twice, and the ledger covers the coverage.
Sound(s) ==
    /\ WindowIdsDiffer(s.coverage.windows)
    /\ IsInjective(s.events)
    /\ Covers(s.coverage, s.events)

\* The size of a coverage is a number.
LEMMA SizeTyped ==
    ASSUME NEW c \in Coverage
    PROVE  Size(c) \in Nat /\ c.windows \in Seq(Window)
BY DEF Coverage, Size

\* Evidence extends itself.
LEMMA ExtendsReflexive ==
    ASSUME NEW s, s.coverage \in Coverage, s.events \in Log
    PROVE  Extends(s, s)
BY SizeTyped DEF Extends, Begins, Log

\* Evidence that grows twice has grown.
LEMMA ExtendsTransitive ==
    ASSUME NEW s, s.coverage \in Coverage, s.events \in Log,
           NEW t, t.coverage \in Coverage, t.events \in Log,
           NEW u, u.coverage \in Coverage, u.events \in Log,
           Extends(s, t), Extends(t, u)
    PROVE  Extends(s, u)
<1>1. Begins(s.events, u.events)
  BY BeginsTransitive DEF Extends, Log
<1>2. Begins(s.coverage.windows, u.coverage.windows)
  BY BeginsTransitive, SizeTyped DEF Extends
<1>3. s.coverage = u.coverage \/ Size(s.coverage) < Size(u.coverage)
  BY SizeTyped DEF Extends
<1> QED BY <1>1, <1>2, <1>3 DEF Extends

\* What the coverage counts stays covered when the ledger grows.
LEMMA CoversGrows ==
    ASSUME NEW c, NEW l \in Log, NEW k \in Log, Covers(c, l), Begins(l, k)
    PROVE  Covers(c, k)
<1>1. \A i \in DOMAIN l : i \in DOMAIN k /\ k[i] = l[i]
  BY DEF Begins, Log
<1> QED BY <1>1 DEF Covers

\* One window: both files grow and stay sound.
LEMMA MergeStepGrows ==
    ASSUME NEW s \in MergeState, NEW obs \in Observation
    PROVE  /\ Extends(s, MergeStep(s, obs))
           /\ Sound(s) => Sound(MergeStep(s, obs))
<1> DEFINE c == s.coverage
           d == MergeCaptureWindow(s.coverage, obs)
           l == s.events
           k == AppendWindowEvents(s.events, obs)
<1>1. c \in Coverage /\ l \in Log
  BY DEF MergeState
<1>2. MergeStep(s, obs).coverage = d /\ MergeStep(s, obs).events = k
  BY DEF MergeStep
<1>3. Grown(c, obs, d)
  BY <1>1, MergeGrows
<1>4. /\ k \in Log /\ Begins(l, k)
      /\ \A i \in 1 .. Len(obs.rows) : RowEvent(obs, i) \in ToSet(k)
      /\ IsInjective(l) => IsInjective(k)
  BY <1>1, AppendAdds
<1> HIDE DEF d, k
<1>5. Extends(s, MergeStep(s, obs))
  BY <1>2, <1>3, <1>4 DEF Extends, Grown
<1>6. ASSUME Covers(c, l)
      PROVE  Covers(d, k)
  <2> SUFFICES ASSUME NEW m \in Message, NEW v \in d.versions[m]
               PROVE  \E i \in DOMAIN k : k[i].msg = m /\ k[i].ver = v
    BY DEF Covers
  <2>1. CASE v \in c.versions[m]
    <3>1. Covers(c, k)
      BY <1>1, <1>4, <1>6, CoversGrows
    <3> QED BY <2>1, <3>1 DEF Covers
  <2>2. CASE v \in Shows(obs, m)
    <3>1. DOMAIN obs.rows = 1 .. Len(obs.rows)
      BY SubmittedTyped
    <3>2. PICK j \in 1 .. Len(obs.rows) : obs.rows[j].msg = m /\ obs.rows[j].ver = v
      BY <2>2, <3>1 DEF Shows
    <3>3. PICK i \in DOMAIN k : k[i] = RowEvent(obs, j)
      BY <1>4 DEF ToSet
    <3> QED BY <3>2, <3>3 DEF RowEvent
  <2> QED BY <1>3, <2>1, <2>2 DEF Grown
<1>7. Sound(s) => Sound(MergeStep(s, obs))
  BY <1>2, <1>3, <1>4, <1>6 DEF Sound, Grown
<1> QED BY <1>5, <1>7

\* A sequence of windows: what a merge is about to save extends what is on disk.
LEMMA MergedGrows ==
    ASSUME coverage \in Coverage, events \in Log, NEW sequence \in Seq(Observation)
    PROVE  /\ Merged(sequence) \in MergeState
           /\ Extends(Evidence, Merged(sequence))
           /\ Sound(Evidence) => Sound(Merged(sequence))
<1> DEFINE n == Len(sequence)
<1>0. n \in Nat
  OBVIOUS
<1>1. PICK a \in [0 .. n -> MergeState] :
          /\ a[0] = [ok |-> TRUE, coverage |-> coverage, events |-> events]
          /\ \A i \in 1 .. n : a[i] = MergeStep(a[i - 1], sequence[i])
          /\ Merged(sequence) = a[n]
  BY MergedIsRun
<1>2. Evidence.coverage = coverage /\ Evidence.events = events
  BY DEF Evidence
<1> DEFINE Good(t) == Extends(Evidence, t) /\ (Sound(Evidence) => Sound(t))
           G == {j \in 0 .. n : Good(a[j])}
<1>3. 0 \in G
  <2>1. a[0].coverage = coverage /\ a[0].events = events
    BY <1>1
  <2>2. Extends(Evidence, a[0])
    BY <1>2, <2>1, ExtendsReflexive DEF Extends
  <2>3. Sound(Evidence) => Sound(a[0])
    BY <1>2, <2>1 DEF Sound
  <2> QED BY <1>0, <2>2, <2>3
<1>4. ASSUME NEW j \in G, j < n
      PROVE  j + 1 \in G
  <2>1. j + 1 \in 1 .. n /\ j + 1 \in 0 .. n /\ (j + 1) - 1 = j
        /\ a[j] \in MergeState /\ a[j + 1] \in MergeState
    BY <1>0, <1>4
  <2>2. a[j + 1] = MergeStep(a[j], sequence[j + 1]) /\ sequence[j + 1] \in Observation
    BY <1>1, <2>1, ElementIn
  <2>3. Extends(a[j], a[j + 1]) /\ (Sound(a[j]) => Sound(a[j + 1]))
    BY <2>1, <2>2, MergeStepGrows
  <2>4. /\ a[j].coverage \in Coverage /\ a[j].events \in Log
        /\ a[j + 1].coverage \in Coverage /\ a[j + 1].events \in Log
    BY <2>1 DEF MergeState
  <2>5. Good(a[j])
    OBVIOUS
  <2>6. Good(a[j + 1])
    BY <1>2, <2>3, <2>4, <2>5, ExtendsTransitive
  <2> HIDE DEF Good
  <2> QED BY <2>1, <2>6
<1>5. n \in G
  <2>1. G \subseteq 0 .. n
    OBVIOUS
  <2> HIDE DEF G
  <2> QED BY <1>0, <1>3, <1>4, <2>1, ReachesTop
<1> QED BY <1>0, <1>1, <1>5

(***************************************************************************)
(* The invariant.  What a merge is about to save extends what is on disk;  *)
(* a coverage that a load outlives never comes back, since coverage only   *)
(* changes by growing.                                                     *)
(***************************************************************************)
MergeLeads ==
    merge # Nothing =>
        /\ receipt = Nothing
        /\ Extends(Evidence, merge) /\ Sound(merge)
        /\ ledgerSaved => events = merge.events

Outgrown(c) == Size(c) < Size(coverage)

LoadIsBehind ==
    load # Nothing =>
        /\ coverage = load.bound.coverage \/ Outgrown(load.bound.coverage)
        /\ (load.read = "ledger" /\ ~load.stood) => Outgrown(load.bound.coverage)

Inv ==
    /\ TypeOK
    /\ Sound(Evidence)
    /\ MergeLeads
    /\ ReceiptOnDiskBinds
    /\ LoadIsBehind

\* Evidence that a receipt binds is made of a coverage and a ledger.
LEMMA BoundFields ==
    ASSUME NEW b \in Bound
    PROVE  /\ b.coverage \in Coverage /\ b.events \in Log
           /\ b = [coverage |-> b.coverage, events |-> b.events]
BY DEF Bound, Log

\* The evidence on disk is the coverage and the ledger.
LEMMA EvidenceFields ==
    Evidence.coverage = coverage /\ Evidence.events = events
BY DEF Evidence

\* The evidence on disk may be bound by a receipt.
LEMMA EvidenceTyped ==
    ASSUME coverage \in Coverage, events \in Log
    PROVE  Evidence \in Bound
BY DEF Evidence, Bound, Log

\* The invariant holds of an empty store.
LEMMA InvInitially == Init => Inv
<1> SUFFICES ASSUME Init PROVE Inv
  OBVIOUS
<1> USE DEF Init
<1>1. coverage \in Coverage /\ coverage.windows = <<>>
      /\ \A m \in Message : coverage.versions[m] = {}
  BY DEF NewCoverage, Coverage
<1>2. events \in Seq(EventRow) /\ DOMAIN events = {}
  OBVIOUS
<1>3. TypeOK
  BY <1>1, <1>2, EvidenceBoundsAssumption DEF TypeOK
<1>4. Sound(Evidence)
  BY <1>1, <1>2, EvidenceFields DEF Sound, WindowIdsDiffer, IsInjective, Covers
<1> QED BY <1>3, <1>4 DEF Inv, MergeLeads, ReceiptOnDiskBinds, LoadIsBehind

\* Every change of the two files keeps the invariant when they grow.
LEMMA BeginMergeKeeps ==
    ASSUME Inv, NEW sequence \in Seq(Observation), BeginMerge(sequence)
    PROVE  Inv'
<1> DEFINE result == Merged(sequence)
<1>1. coverage \in Coverage /\ events \in Log /\ Sound(Evidence)
  BY DEF Inv, TypeOK, Log
<1>2. result \in MergeState /\ Extends(Evidence, result) /\ Sound(result)
  BY <1>1, MergedGrows
<1>3. /\ merge' = [coverage |-> result.coverage, events |-> result.events]
      /\ receipt' = Nothing /\ ledgerSaved' = FALSE
      /\ UNCHANGED <<coverage, events, waiting, load, failures>>
  BY DEF BeginMerge
<1> HIDE DEF result
<1>4. merge' \in Bound /\ Extends(Evidence, merge') /\ Sound(merge')
  BY <1>2, <1>3 DEF MergeState, Bound, Log, Extends, Sound
<1>5. Evidence' = Evidence
  BY <1>3 DEF Evidence
<1>6. TypeOK'
  BY <1>3, <1>4 DEF Inv, TypeOK
<1>7. MergeLeads'
  BY <1>3, <1>4, <1>5 DEF MergeLeads
<1>8. ReceiptOnDiskBinds'
  BY <1>3 DEF ReceiptOnDiskBinds
<1>9. LoadIsBehind'
  BY <1>3 DEF Inv, LoadIsBehind, Outgrown
<1> QED BY <1>1, <1>5, <1>6, <1>7, <1>8, <1>9 DEF Inv

\* A merge saves its ledger.
LEMMA SaveLedgerKeeps ==
    ASSUME Inv, SaveLedger
    PROVE  Inv'
<1>1. /\ merge # Nothing /\ events' = merge.events /\ ledgerSaved' = TRUE
      /\ UNCHANGED <<coverage, receipt, waiting, merge, load, failures>>
  BY DEF SaveLedger
<1>2. merge \in Bound /\ coverage \in Coverage /\ events \in Log
  BY <1>1 DEF Inv, TypeOK, Log
<1>3. merge.coverage \in Coverage /\ merge.events \in Log
  BY <1>2, BoundFields
<1>4. Extends(Evidence, merge) /\ Sound(merge) /\ receipt = Nothing /\ Sound(Evidence)
  BY <1>1 DEF Inv, MergeLeads
<1>5. Evidence'.coverage = coverage /\ Evidence'.events = merge.events
  BY <1>1 DEF Evidence
<1>6. TypeOK'
  BY <1>1, <1>3 DEF Inv, TypeOK, Log
<1>7. Sound(Evidence')
  <2>1. Covers(coverage, merge.events)
    BY <1>2, <1>3, <1>4, EvidenceFields, CoversGrows DEF Sound, Extends
  <2> QED BY <1>4, <1>5, <2>1, EvidenceFields DEF Sound
<1>8. MergeLeads'
  <2>1. Begins(merge.events, merge.events)
    BY <1>3 DEF Begins, Log
  <2>2. Extends(Evidence', merge)
    BY <1>4, <1>5, <2>1, EvidenceFields DEF Extends
  <2> QED BY <1>1, <1>4, <2>2 DEF MergeLeads
<1>9. ReceiptOnDiskBinds'
  BY <1>1, <1>4 DEF ReceiptOnDiskBinds
<1>10. LoadIsBehind'
  BY <1>1 DEF Inv, LoadIsBehind, Outgrown
<1> QED BY <1>6, <1>7, <1>8, <1>9, <1>10 DEF Inv

\* A merge saves its coverage, after its ledger.
LEMMA SaveCoverageKeeps ==
    ASSUME Inv, SaveCoverage
    PROVE  Inv'
<1>1. /\ merge # Nothing /\ ledgerSaved
      /\ coverage' = merge.coverage /\ merge' = Nothing /\ ledgerSaved' = FALSE
      /\ UNCHANGED <<events, receipt, waiting, load, failures>>
  BY DEF SaveCoverage
<1>2. merge \in Bound /\ coverage \in Coverage /\ events \in Log
  BY <1>1 DEF Inv, TypeOK, Log
<1>3. merge.coverage \in Coverage /\ merge.events \in Log
  BY <1>2, BoundFields
<1>4. /\ Extends(Evidence, merge) /\ Sound(merge) /\ receipt = Nothing
      /\ events = merge.events
  BY <1>1 DEF Inv, MergeLeads
<1>5. Evidence'.coverage = merge.coverage /\ Evidence'.events = merge.events
  BY <1>1, <1>4 DEF Evidence
<1>6. TypeOK'
  BY <1>1, <1>3 DEF Inv, TypeOK
<1>7. Sound(Evidence')
  BY <1>4, <1>5 DEF Sound
<1>8. coverage = coverage' \/ Size(coverage) < Size(coverage')
  BY <1>1, <1>4, EvidenceFields DEF Extends
<1>9. LoadIsBehind'
  <2> SUFFICES ASSUME load # Nothing
               PROVE  /\ coverage' = load.bound.coverage
                         \/ Size(load.bound.coverage) < Size(coverage')
                      /\ (load.read = "ledger" /\ ~load.stood)
                         => Size(load.bound.coverage) < Size(coverage')
    BY <1>1 DEF LoadIsBehind, Outgrown
  <2>1. load.bound.coverage \in Coverage
    BY BoundFields DEF Inv, TypeOK, Load
  <2>2. /\ Size(load.bound.coverage) \in Nat /\ Size(coverage) \in Nat
        /\ Size(coverage') \in Nat
    BY <1>1, <1>2, <1>3, <2>1, SizeTyped
  <2>3. /\ coverage = load.bound.coverage \/ Size(load.bound.coverage) < Size(coverage)
        /\ (load.read = "ledger" /\ ~load.stood)
           => Size(load.bound.coverage) < Size(coverage)
    BY DEF Inv, LoadIsBehind, Outgrown
  <2> QED BY <1>8, <2>2, <2>3
<1> QED BY <1>1, <1>4, <1>6, <1>7, <1>9 DEF Inv, MergeLeads, ReceiptOnDiskBinds

\* The steps that leave both files alone.
LEMMA OthersKeep ==
    ASSUME Inv,
           \/ MergeDies \/ Reconcile \/ AdvanceCheckpoint
           \/ ReadReceipt \/ ReadCheckpoint \/ ReadLedger \/ ReadCoverage
    PROVE  Inv'
<1>1. UNCHANGED <<coverage, events>>
  BY DEF MergeDies, Reconcile, AdvanceCheckpoint,
         ReadReceipt, ReadCheckpoint, ReadLedger, ReadCoverage
<1>2. Evidence' = Evidence /\ Sound(Evidence) /\ coverage \in Coverage /\ events \in Log
  BY <1>1 DEF Evidence, Inv, TypeOK, Log
<1>3. \/ merge' = merge /\ ledgerSaved' = ledgerSaved
      \/ merge' = Nothing /\ ledgerSaved' = FALSE
  <2>1. CASE MergeDies
    BY <2>1 DEF MergeDies
  <2>2. CASE Reconcile \/ AdvanceCheckpoint
    BY <2>2 DEF Reconcile, AdvanceCheckpoint
  <2>3. CASE ReadReceipt \/ ReadCheckpoint \/ ReadLedger \/ ReadCoverage
    BY <2>3 DEF ReadReceipt, ReadCheckpoint, ReadLedger, ReadCoverage
  <2> QED BY <2>1, <2>2, <2>3
<1>4. \/ receipt' \in {receipt, Nothing}
      \/ receipt' = Evidence /\ merge = Nothing
  <2>1. CASE MergeDies
    BY <2>1 DEF MergeDies
  <2>2. CASE Reconcile \/ AdvanceCheckpoint
    BY <2>2 DEF Reconcile, AdvanceCheckpoint
  <2>3. CASE ReadReceipt \/ ReadCheckpoint \/ ReadLedger \/ ReadCoverage
    BY <2>3 DEF ReadReceipt, ReadCheckpoint, ReadLedger, ReadCoverage
  <2> QED BY <2>1, <2>2, <2>3
<1>5. waiting' \in BOOLEAN /\ failures' \in Nat
  <2>1. waiting' = waiting \/ waiting' \in BOOLEAN
    BY DEF MergeDies, Reconcile, AdvanceCheckpoint,
           ReadReceipt, ReadCheckpoint, ReadLedger, ReadCoverage
  <2>2. failures' = failures \/ failures' = failures + 1
    BY DEF MergeDies, Reconcile, AdvanceCheckpoint,
           ReadReceipt, ReadCheckpoint, ReadLedger, ReadCoverage
  <2> QED BY <2>1, <2>2 DEF Inv, TypeOK
<1>6. receipt' \in Bound \cup {Nothing}
  BY <1>2, <1>4, EvidenceTyped DEF Inv, TypeOK
<1>7. merge' \in Bound \cup {Nothing} /\ ledgerSaved' \in BOOLEAN
  BY <1>3 DEF Inv, TypeOK
<1>8. ReceiptOnDiskBinds'
  BY <1>2, <1>4 DEF Inv, ReceiptOnDiskBinds
<1>9. MergeLeads'
  <2> SUFFICES ASSUME merge' # Nothing
               PROVE  MergeLeads'
    BY DEF MergeLeads
  <2>1. merge' = merge /\ ledgerSaved' = ledgerSaved /\ merge # Nothing
    BY <1>3
  <2>2. receipt' = Nothing
    BY <1>4, <2>1 DEF Inv, MergeLeads
  <2> QED BY <1>1, <1>2, <2>1, <2>2 DEF Inv, MergeLeads
<1>10. load' \in Load \cup {Nothing} /\ LoadIsBehind'
  <2>1. CASE load' = Nothing
    BY <2>1 DEF LoadIsBehind
  <2>2. CASE load' = load
    BY <1>1, <2>2 DEF Inv, TypeOK, LoadIsBehind, Outgrown
  <2>3. CASE ReadReceipt
    <3>1. receipt \in Bound /\ receipt = Evidence
      BY <2>3 DEF ReadReceipt, Inv, TypeOK, ReceiptOnDiskBinds
    <3>2. load' = [bound |-> receipt, read |-> "receipt", current |-> TRUE, stood |-> FALSE]
      BY <2>3 DEF ReadReceipt
    <3>3. load' \in Load /\ load'.bound = Evidence /\ load'.read = "receipt"
      BY <3>1, <3>2 DEF Load
    <3> QED BY <1>1, <3>3, EvidenceFields DEF LoadIsBehind
  <2>4. CASE load # Nothing /\ AdvanceCheckpoint
    <3>1. load \in Load /\ load' = [load EXCEPT !.current = FALSE]
      BY <2>4 DEF AdvanceCheckpoint, Inv, TypeOK
    <3>2. load' \in Load /\ load'.bound = load.bound /\ load'.read = load.read
          /\ load'.stood = load.stood
      BY <3>1 DEF Load
    <3> QED BY <1>1, <2>4, <3>2 DEF Inv, LoadIsBehind, Outgrown
  <2>5. CASE ReadCheckpoint /\ load' # Nothing
    <3>1. load \in Load /\ load' = [load EXCEPT !.read = "checkpoint"]
      BY <2>5 DEF ReadCheckpoint, Inv, TypeOK
    <3>2. load' \in Load /\ load'.bound = load.bound /\ load'.read = "checkpoint"
      BY <3>1 DEF Load
    <3> QED BY <1>1, <2>5, <3>2 DEF ReadCheckpoint, Inv, LoadIsBehind, Outgrown
  <2>6. CASE ReadLedger /\ load' # Nothing
    <3>1. /\ load \in Load /\ events = load.bound.events /\ load # Nothing
          /\ load' = [load EXCEPT !.read = "ledger", !.stood = Evidence = load.bound]
      BY <2>6 DEF ReadLedger, Inv, TypeOK
    <3>2. load.bound \in Bound
      BY <3>1 DEF Load
    <3>3. coverage = load.bound.coverage \/ Outgrown(load.bound.coverage)
      BY <3>1 DEF Inv, LoadIsBehind
    <3>4. CASE Evidence = load.bound
      <4>1. load' = [load EXCEPT !.read = "ledger", !.stood = TRUE]
        BY <3>1, <3>4, Zenon
      <4>2. load' \in Load /\ load'.bound = load.bound /\ load'.stood = TRUE
        BY <3>1, <4>1 DEF Load
      <4> QED BY <1>1, <3>3, <4>2 DEF LoadIsBehind, Outgrown
    <3>5. CASE Evidence # load.bound
      <4>1. load' = [load EXCEPT !.read = "ledger", !.stood = FALSE]
        <5>1. (Evidence = load.bound) = FALSE
          BY <3>5, Zenon
        <5> QED BY <3>1, <5>1, Zenon
      <4>2. load' \in Load /\ load'.bound = load.bound
        BY <3>1, <4>1 DEF Load
      <4>3. coverage # load.bound.coverage
        BY <3>1, <3>2, <3>5, BoundFields DEF Evidence
      <4> QED BY <1>1, <3>3, <4>2, <4>3 DEF LoadIsBehind, Outgrown
    <3> QED BY <3>4, <3>5
  <2>7. \/ load' = Nothing
        \/ load' = load
        \/ ReadReceipt
        \/ load # Nothing /\ AdvanceCheckpoint
        \/ ReadCheckpoint /\ load' # Nothing
        \/ ReadLedger /\ load' # Nothing
    BY DEF MergeDies, Reconcile, AdvanceCheckpoint,
           ReadReceipt, ReadCheckpoint, ReadLedger, ReadCoverage
  <2> QED BY <2>1, <2>2, <2>3, <2>4, <2>5, <2>6, <2>7
<1>11. TypeOK'
  BY <1>1, <1>5, <1>6, <1>7, <1>10 DEF Inv, TypeOK
<1> QED BY <1>2, <1>8, <1>9, <1>10, <1>11 DEF Inv

\* Every step keeps the invariant.
LEMMA InvKept == Inv /\ [Next]_vars => Inv'
<1> SUFFICES ASSUME Inv, [Next]_vars PROVE Inv'
  OBVIOUS
<1>1. CASE MergeWindow
  <2>1. PICK obs \in Observation : BeginMerge(<<obs>>)
    BY <1>1 DEF MergeWindow
  <2>2. <<obs>> \in Seq(Observation)
    OBVIOUS
  <2> QED BY <2>1, <2>2, BeginMergeKeeps
<1>2. CASE MergeCacheFirst
  BY <1>2, CacheFirstTyped, BeginMergeKeeps DEF MergeCacheFirst
<1>3. CASE SaveLedger
  BY <1>3, SaveLedgerKeeps
<1>4. CASE SaveCoverage
  BY <1>4, SaveCoverageKeeps
<1>5. CASE \/ MergeDies \/ Reconcile \/ AdvanceCheckpoint
           \/ ReadReceipt \/ ReadCheckpoint \/ ReadLedger \/ ReadCoverage
  BY <1>5, OthersKeep
<1>6. CASE UNCHANGED vars
  <2>1. Evidence' = Evidence
    BY <1>6 DEF vars, Evidence
  <2> QED BY <1>6, <2>1 DEF vars, Inv, TypeOK, MergeLeads, ReceiptOnDiskBinds,
                            LoadIsBehind, Outgrown
<1> QED BY <1>1, <1>2, <1>3, <1>4, <1>5, <1>6 DEF Next

\* The invariant, in every state.
LEMMA InvHolds == Spec => []Inv
BY InvInitially, InvKept, PTL DEF Spec

(***************************************************************************)
(* The theorems                                                            *)
(***************************************************************************)

\* Whatever windows are merged, whichever merge dies where and whatever a load
\* finds, both files, the receipt, the merge and the load keep their types.
THEOREM EvidenceTypeCorrect == Spec => []TypeOK
<1>1. Inv => TypeOK
  BY DEF Inv
<1> QED BY <1>1, InvHolds, PTL

\* The ledger can show all that the coverage counts, also after any number of
\* merges that died between saving the one and the other.
THEOREM CoverageIsShown == Spec => []LedgerCoversCoverage
<1>1. Inv => LedgerCoversCoverage
  BY EvidenceFields DEF Inv, Sound, Covers, LedgerCoversCoverage
<1> QED BY <1>1, InvHolds, PTL

\* Different window ids: there are as many as windows.
LEMMA IdsCounted ==
    ASSUME coverage \in Coverage, WindowIdsDiffer(coverage.windows)
    PROVE  Cardinality(CoverageWindows) = Len(coverage.windows)
<1> DEFINE ws == coverage.windows
           n == Len(ws)
           f == [i \in 1 .. n |-> ws[i].id]
<1>1. n \in Nat /\ DOMAIN ws = 1 .. n
  BY DEF Coverage
<1> HIDE DEF n
<1>2. f \in Bijection(1 .. n, CoverageWindows)
  <2>1. \A i, j \in 1 .. n : f[i] = f[j] => i = j
    BY <1>1 DEF WindowIdsDiffer
  <2>2. f \in [1 .. n -> CoverageWindows]
    BY <1>1 DEF CoverageWindows
  <2>3. \A w \in CoverageWindows : \E i \in 1 .. n : f[i] = w
    BY <1>1 DEF CoverageWindows
  <2> HIDE DEF f
  <2>4. IsInjective(f)
    BY <2>1, <2>2 DEF IsInjective
  <2> QED BY <2>2, <2>3, <2>4 DEF Bijection, Injection, Surjection
<1>3. IsFiniteSet(1 .. n) /\ Cardinality(1 .. n) = n
  BY <1>1, FS_Interval
<1>4. Cardinality(CoverageWindows) = Cardinality(1 .. n)
  <2> HIDE DEF f
  <2>1. ExistsBijection(1 .. n, CoverageWindows)
    BY <1>2 DEF ExistsBijection
  <2> QED BY <1>3, <2>1, FS_Bijection
<1> QED BY <1>3, <1>4 DEF n

\* However often a window is submitted, alone, in a batch or after a merge of it
\* has died, no row and no window is recorded twice.
THEOREM OnceEach == Spec => []NothingRecordedTwice
<1>1. Inv => NothingRecordedTwice
  BY EvidenceFields, IdsCounted DEF Inv, TypeOK, Sound, NothingRecordedTwice
<1> QED BY <1>1, InvHolds, PTL

\* A receipt on disk is bound to what is on disk, and a load that takes no lock
\* returns one moment: a coverage that was replaced since the receipt was read
\* never comes back.
THEOREM ReceiptsBind == Spec => []ReceiptBindsEvidence
<1>1. Inv => ReceiptBindsEvidence
  <2> SUFFICES ASSUME Inv, AboutToReturn PROVE load.stood
    BY DEF ReceiptBindsEvidence, Inv
  <2>1. load \in Load /\ load.read = "ledger" /\ coverage = load.bound.coverage
    BY DEF AboutToReturn, Inv, TypeOK
  <2>2. Size(coverage) \in Nat
    BY SizeTyped DEF Inv, TypeOK
  <2>3. ~Outgrown(load.bound.coverage)
    BY <2>1, <2>2 DEF Outgrown
  <2> QED BY <2>3, <2>1 DEF AboutToReturn, Inv, LoadIsBehind
<1> QED BY <1>1, InvHolds, PTL

\* No step takes evidence back: events, windows and blockers other than the gap
\* stay, in their order.
THEOREM EvidenceIsKept == Spec => EvidenceOnlyGrows
<1> DEFINE Kept == /\ IsPrefix(events, events')
                   /\ IsPrefix(coverage.windows, coverage.windows')
                   /\ coverage.blockers \ {"window_overlap_gap"} \subseteq coverage'.blockers
<1>1. ASSUME Inv, [Next]_vars PROVE Kept
  <2>1. Inv' /\ coverage \in Coverage /\ events \in Log
        /\ coverage' \in Coverage /\ events' \in Log
    BY <1>1, InvKept DEF Inv, TypeOK, Log
  <2>2. SUFFICES /\ Begins(events, events')
                 /\ Begins(coverage.windows, coverage'.windows)
                 /\ coverage.blockers \ {"window_overlap_gap"} \subseteq coverage'.blockers
    BY <2>1, SizeTyped, BeginsIsPrefix DEF Log
  <2>3. Begins(events, events) /\ Begins(coverage.windows, coverage.windows)
    BY <2>1, SizeTyped DEF Begins, Log
  <2>4. CASE SaveLedger
    <3>1. Begins(events, events') /\ coverage' = coverage
      BY <1>1, <2>4, EvidenceFields DEF SaveLedger, Inv, MergeLeads, Extends
    <3> QED BY <2>3, <3>1
  <2>5. CASE SaveCoverage
    BY <1>1, <2>3, <2>5, EvidenceFields DEF SaveCoverage, Inv, MergeLeads, Extends
  <2>6. CASE UNCHANGED <<coverage, events>>
    BY <2>3, <2>6
  <2>7. SaveLedger \/ SaveCoverage \/ UNCHANGED <<coverage, events>>
    BY <1>1 DEF Next, vars, MergeWindow, MergeCacheFirst, BeginMerge, MergeDies,
                Reconcile, AdvanceCheckpoint, ReadReceipt, ReadCheckpoint,
                ReadLedger, ReadCoverage
  <2> QED BY <2>4, <2>5, <2>6, <2>7
<1> QED BY <1>1, InvHolds, PTL DEF Spec, EvidenceOnlyGrows

(***************************************************************************)
(* The order of first sight                                                *)
(***************************************************************************)
SeenStep(seen, m) == IF m \in ToSet(seen) THEN seen ELSE Append(seen, m)

\* What was seen after each element: FirstSeen is the last of a run.
LEMMA FirstSeenIsRun ==
    ASSUME NEW M, NEW s \in Seq(M)
    PROVE  \E a \in [0 .. Len(s) -> Seq(M)] :
               /\ a[0] = <<>>
               /\ \A i \in 1 .. Len(s) : a[i] = SeenStep(a[i - 1], s[i])
               /\ FirstSeen(s) = a[Len(s)]
<1> DEFINE n == Len(s)
           step == [i \in 1 .. n |-> [q \in Seq(M) |-> SeenStep(q, s[i])]]
           Solves(a) == a = [i \in 0 .. n |->
                                IF i = 0 THEN <<>>
                                ELSE IF s[i] \in ToSet(a[i - 1]) THEN a[i - 1]
                                ELSE Append(a[i - 1], s[i])]
           chosen == CHOOSE a : Solves(a)
<1>0. n \in Nat /\ <<>> \in Seq(M)
  OBVIOUS
<1>1. step \in [1 .. n -> [Seq(M) -> Seq(M)]]
  BY ElementIn DEF SeenStep
<1>2. PICK a : IsRun(a, n, Seq(M), <<>>, step)
  <2> HIDE DEF step, n
  <2> QED BY <1>0, <1>1, RunExists
<1>3. Solves(a)
  <2>1. a \in [0 .. n -> Seq(M)] /\ a[0] = <<>>
    BY <1>2 DEF IsRun
  <2>2. ASSUME NEW i \in 1 .. n PROVE a[i] = SeenStep(a[i - 1], s[i])
    <3>1. a[i] = step[i][a[i - 1]]
      <4> HIDE DEF step, n
      <4> QED BY <1>2 DEF IsRun
    <3>2. a[i - 1] \in Seq(M)
      BY <2>1
    <3> QED BY <3>1, <3>2
  <2>3. ASSUME NEW i \in 0 .. n
        PROVE  a[i] = IF i = 0 THEN <<>>
                      ELSE IF s[i] \in ToSet(a[i - 1]) THEN a[i - 1]
                      ELSE Append(a[i - 1], s[i])
    <3>1. i = 0 \/ i \in 1 .. n
      OBVIOUS
    <3> QED BY <2>1, <2>2, <3>1 DEF SeenStep
  <2>4. a = [i \in 0 .. n |-> a[i]]
    BY <2>1
  <2> HIDE DEF n
  <2> QED BY <2>3, <2>4
<1>4. Solves(chosen)
  <2> HIDE DEF Solves
  <2> QED BY <1>3
<1>5. /\ chosen = [i \in 0 .. n |-> chosen[i]] /\ chosen[0] = <<>>
      /\ \A i \in 1 .. n : chosen[i] = SeenStep(chosen[i - 1], s[i])
  <2> HIDE DEF chosen
  <2>1. chosen = [i \in 0 .. n |-> chosen[i]] /\ chosen[0] = <<>>
    BY <1>4
  <2>2. \A i \in 1 .. n : i \in 0 .. n /\ i # 0
    OBVIOUS
  <2> HIDE DEF n
  <2> QED BY <1>4, <2>1, <2>2 DEF SeenStep
<1>6. IsRun(chosen, n, Seq(M), <<>>, step)
  <2>1. \A i \in 1 .. n : chosen[i - 1] \in Seq(M) => chosen[i] = step[i][chosen[i - 1]]
    <3> HIDE DEF chosen
    <3> QED BY <1>5
  <2> HIDE DEF chosen, step, n
  <2> QED BY <1>0, <1>1, <1>5, <2>1, SolvedIsRun
<1>7. FirstSeen(s) = chosen[n]
  BY DEF FirstSeen
<1> HIDE DEF chosen
<1> QED BY <1>5, <1>6, <1>7 DEF IsRun

\* One element more.
LEMMA FirstSeenAppend ==
    ASSUME NEW M, NEW s \in Seq(M), NEW m \in M
    PROVE  FirstSeen(Append(s, m)) = SeenStep(FirstSeen(s), m)
<1> DEFINE n == Len(s)
           t == Append(s, m)
<1>1. PICK a \in [0 .. n -> Seq(M)] :
          /\ a[0] = <<>> /\ \A i \in 1 .. n : a[i] = SeenStep(a[i - 1], s[i])
          /\ FirstSeen(s) = a[n]
  BY FirstSeenIsRun
<1>2. t \in Seq(M) /\ Len(t) = n + 1 /\ t[n + 1] = m /\ n \in Nat
      /\ \A i \in 1 .. n : t[i] = s[i]
  OBVIOUS
<1> HIDE DEF t, n
<1>3. PICK b \in [0 .. Len(t) -> Seq(M)] :
          /\ b[0] = <<>> /\ \A i \in 1 .. Len(t) : b[i] = SeenStep(b[i - 1], t[i])
          /\ FirstSeen(t) = b[Len(t)]
  BY <1>2, FirstSeenIsRun
<1> DEFINE G == {i \in 0 .. n : a[i] = b[i]}
<1>4. 0 \in G
  BY <1>1, <1>2, <1>3
<1>5. ASSUME NEW i \in G, i < n PROVE i + 1 \in G
  <2>1. i + 1 \in 1 .. n /\ i + 1 \in 1 .. n + 1 /\ (i + 1) - 1 = i /\ i + 1 \in 0 .. n
    BY <1>2, <1>5
  <2>2. a[i + 1] = SeenStep(a[i], s[i + 1]) /\ b[i + 1] = SeenStep(b[i], t[i + 1])
    BY <1>1, <1>2, <1>3, <2>1
  <2> QED BY <1>2, <2>1, <2>2
<1>6. n \in G
  <2>1. G \subseteq 0 .. n
    OBVIOUS
  <2> HIDE DEF G
  <2> QED BY <1>2, <1>4, <1>5, <2>1, ReachesTop
<1>7. n + 1 \in 1 .. n + 1 /\ (n + 1) - 1 = n
  BY <1>2
<1>8. b[n + 1] = SeenStep(b[n], m) /\ a[n] = b[n]
  BY <1>2, <1>3, <1>6, <1>7
<1> QED BY <1>1, <1>2, <1>3, <1>8 DEF t

\* Every element is seen, and once.
LEMMA FirstSeenSees ==
    ASSUME NEW M, NEW s \in Seq(M)
    PROVE  /\ FirstSeen(s) \in Seq(M) /\ ToSet(FirstSeen(s)) = ToSet(s)
           /\ IsInjective(FirstSeen(s))
<1> DEFINE n == Len(s)
           Good(j, q) == ToSet(q) = {s[i] : i \in 1 .. j} /\ IsInjective(q)
<1>1. PICK a \in [0 .. n -> Seq(M)] :
          /\ a[0] = <<>> /\ \A i \in 1 .. n : a[i] = SeenStep(a[i - 1], s[i])
          /\ FirstSeen(s) = a[n]
  BY FirstSeenIsRun
<1> DEFINE G == {j \in 0 .. n : Good(j, a[j])}
<1>2. 0 \in G
  BY <1>1 DEF ToSet, IsInjective
<1>3. ASSUME NEW j \in G, j < n PROVE j + 1 \in G
  <2>1. /\ j + 1 \in 1 .. n /\ (j + 1) - 1 = j /\ j + 1 \in 0 .. n /\ j \in Nat
        /\ a[j] \in Seq(M) /\ a[j + 1] \in Seq(M) /\ Good(j, a[j])
    BY <1>3
  <2> DEFINE q == a[j]
             r == a[j + 1]
             m == s[j + 1]
  <2>2. r = SeenStep(q, m) /\ q \in Seq(M) /\ m \in M
    BY <1>1, <2>1, ElementIn
  <2>3. {s[i] : i \in 1 .. j + 1} = {s[i] : i \in 1 .. j} \cup {m}
    <3>1. j \in Nat /\ \A i : i \in 1 .. j + 1 <=> i \in 1 .. j \/ i = j + 1
      BY <2>1
    <3> HIDE DEF G
    <3> QED BY <3>1
  <2>4. ToSet(q) = {s[i] : i \in 1 .. j} /\ IsInjective(q)
    BY <2>1
  <2> HIDE DEF q, r, m, G
  <2>5. ToSet(r) = ToSet(q) \cup {m} /\ IsInjective(r)
    <3>1. CASE m \in ToSet(q)
      BY <2>2, <2>4, <3>1 DEF SeenStep
    <3>2. CASE m \notin ToSet(q)
      <4>1. /\ r = Append(q, m) /\ Len(r) = Len(q) + 1 /\ Len(q) \in Nat
            /\ DOMAIN q = 1 .. Len(q) /\ DOMAIN r = 1 .. Len(q) + 1
            /\ \A i \in 1 .. Len(q) : r[i] = q[i] /\ q[i] # m
            /\ r[Len(q) + 1] = m
        BY <2>2, <3>2 DEF SeenStep, ToSet
      <4>2. ToSet(r) = ToSet(q) \cup {m}
        BY <4>1 DEF ToSet
      <4>3. IsInjective(r)
        BY <2>4, <4>1 DEF IsInjective
      <4> QED BY <4>2, <4>3
    <3> QED BY <3>1, <3>2
  <2> QED BY <2>1, <2>3, <2>4, <2>5 DEF G, q, r, m
<1>4. n \in G
  <2>1. G \subseteq 0 .. n /\ n \in Nat
    OBVIOUS
  <2> HIDE DEF G, n
  <2> QED BY <1>2, <1>3, <2>1, ReachesTop
<1>5. ToSet(s) = {s[i] : i \in 1 .. n}
  BY DEF ToSet
<1> QED BY <1>1, <1>4, <1>5

\* The elements before a place in a sequence that is put behind another one.
LEMMA ConcatStep ==
    ASSUME NEW M, NEW s \in Seq(M), NEW t \in Seq(M), NEW k \in 0 .. Len(t), k < Len(t)
    PROVE  /\ s \o SubSeq(t, 1, k + 1) = Append(s \o SubSeq(t, 1, k), t[k + 1])
           /\ s \o SubSeq(t, 1, k) \in Seq(M) /\ t[k + 1] \in M
<1> DEFINE q == SubSeq(t, 1, k)
           r == SubSeq(t, 1, k + 1)
<1>1. /\ k \in Nat /\ q \in Seq(M) /\ Len(q) = k /\ \A i \in 1 .. k : q[i] = t[i]
      /\ r \in Seq(M) /\ Len(r) = k + 1 /\ \A i \in 1 .. k + 1 : r[i] = t[i]
      /\ t[k + 1] \in M
  OBVIOUS
<1> HIDE DEF q, r
<1>2. s \o q \in Seq(M) /\ s \o r \in Seq(M)
  BY <1>1
<1>3. /\ Len(s \o r) = Len(s) + k + 1 /\ Len(Append(s \o q, t[k + 1])) = Len(s) + k + 1
      /\ Append(s \o q, t[k + 1]) \in Seq(M)
  BY <1>1, <1>2
<1>4. \A i \in 1 .. Len(s) + k + 1 : (s \o r)[i] = Append(s \o q, t[k + 1])[i]
  <2> TAKE i \in 1 .. Len(s) + k + 1
  <2>1. Len(s) \in Nat /\ Len(s \o q) = Len(s) + k
    BY <1>1
  <2>2. CASE i \in 1 .. Len(s)
    BY <1>1, <1>2, <2>1, <2>2
  <2>3. CASE i \in Len(s) + 1 .. Len(s) + k
    <3>1. i - Len(s) \in 1 .. k
      BY <1>1, <2>1, <2>3
    <3>2. (s \o r)[i] = r[i - Len(s)]
      BY <1>1, <2>1, <2>3
    <3>3. (s \o q)[i] = q[i - Len(s)]
      BY <1>1, <2>1, <2>3
    <3>4. Append(s \o q, t[k + 1])[i] = (s \o q)[i]
      BY <1>1, <1>2, <2>1, <2>3
    <3>5. q[i - Len(s)] = t[i - Len(s)]
      BY <1>1, <3>1
    <3>6. i - Len(s) \in 1 .. k + 1
      BY <1>1, <3>1
    <3>7. r[i - Len(s)] = t[i - Len(s)]
      BY <1>1, <3>6
    <3> QED BY <3>2, <3>3, <3>4, <3>5, <3>7
  <2>4. CASE i = Len(s) + k + 1
    <3>1. i - Len(s) = k + 1
      BY <1>1, <2>1, <2>4
    <3> QED BY <1>1, <1>2, <2>1, <2>4, <3>1
  <2> QED BY <1>1, <2>1, <2>2, <2>3, <2>4
<1>5. s \o r = Append(s \o q, t[k + 1])
  BY <1>2, <1>3, <1>4
<1> QED BY <1>1, <1>2, <1>5 DEF q, r

\* A sequence with nothing of another behind it, and with all of it.
LEMMA ConcatEnds ==
    ASSUME NEW M, NEW s \in Seq(M), NEW t \in Seq(M)
    PROVE  s \o SubSeq(t, 1, 0) = s /\ s \o SubSeq(t, 1, Len(t)) = s \o t
<1>1. SubSeq(t, 1, 0) = <<>> /\ SubSeq(t, 1, Len(t)) = t
  OBVIOUS
<1>2. s \o <<>> = s
  OBVIOUS
<1> QED BY <1>1, <1>2

\* What follows is seen alike when what was seen before is alike.
LEMMA FirstSeenConcat ==
    ASSUME NEW M, NEW s \in Seq(M), NEW u \in Seq(M), NEW t \in Seq(M),
           FirstSeen(s) = FirstSeen(u)
    PROVE  FirstSeen(s \o t) = FirstSeen(u \o t)
<1> DEFINE S(k) == s \o SubSeq(t, 1, k)
           U(k) == u \o SubSeq(t, 1, k)
           G == {k \in 0 .. Len(t) : FirstSeen(S(k)) = FirstSeen(U(k))}
<1>1. 0 \in G
  <2>1. S(0) = s /\ U(0) = u
    BY ConcatEnds
  <2>2. 0 \in 0 .. Len(t)
    OBVIOUS
  <2> HIDE DEF S, U
  <2> QED BY <2>1, <2>2
<1>2. ASSUME NEW k \in G, k < Len(t) PROVE k + 1 \in G
  <2>1. k \in 0 .. Len(t) /\ k + 1 \in 0 .. Len(t) /\ FirstSeen(S(k)) = FirstSeen(U(k))
    BY <1>2
  <2>2. /\ S(k + 1) = Append(S(k), t[k + 1]) /\ S(k) \in Seq(M) /\ t[k + 1] \in M
        /\ U(k + 1) = Append(U(k), t[k + 1]) /\ U(k) \in Seq(M)
    BY <1>2, <2>1, ConcatStep
  <2> HIDE DEF S, U
  <2>3. /\ FirstSeen(S(k + 1)) = SeenStep(FirstSeen(S(k)), t[k + 1])
        /\ FirstSeen(U(k + 1)) = SeenStep(FirstSeen(U(k)), t[k + 1])
    BY <2>2, FirstSeenAppend
  <2> QED BY <2>1, <2>3
<1>3. Len(t) \in G
  <2>1. G \subseteq 0 .. Len(t) /\ Len(t) \in Nat
    OBVIOUS
  <2> HIDE DEF G
  <2> QED BY <1>1, <1>2, <2>1, ReachesTop
<1> QED BY <1>3, ConcatEnds

\* What was all seen before adds nothing.
LEMMA FirstSeenOld ==
    ASSUME NEW M, NEW s \in Seq(M), NEW t \in Seq(M),
           \A k \in 1 .. Len(t) : t[k] \in ToSet(s)
    PROVE  FirstSeen(s \o t) = FirstSeen(s)
<1> DEFINE S(k) == s \o SubSeq(t, 1, k)
           G == {k \in 0 .. Len(t) : FirstSeen(S(k)) = FirstSeen(s)}
<1>1. 0 \in G
  <2>1. S(0) = s
    BY ConcatEnds
  <2>2. 0 \in 0 .. Len(t)
    OBVIOUS
  <2> HIDE DEF S
  <2> QED BY <2>1, <2>2
<1>2. ASSUME NEW k \in G, k < Len(t) PROVE k + 1 \in G
  <2>1. /\ k \in 0 .. Len(t) /\ k + 1 \in 0 .. Len(t) /\ k + 1 \in 1 .. Len(t)
        /\ FirstSeen(S(k)) = FirstSeen(s)
    BY <1>2
  <2>2. S(k + 1) = Append(S(k), t[k + 1]) /\ S(k) \in Seq(M) /\ t[k + 1] \in M
    BY <1>2, <2>1, ConcatStep
  <2> HIDE DEF S
  <2>3. FirstSeen(S(k + 1)) = SeenStep(FirstSeen(S(k)), t[k + 1])
    BY <2>2, FirstSeenAppend
  <2>4. t[k + 1] \in ToSet(FirstSeen(s))
    BY <2>1, FirstSeenSees
  <2> QED BY <2>1, <2>3, <2>4 DEF SeenStep
<1>3. Len(t) \in G
  <2>1. G \subseteq 0 .. Len(t) /\ Len(t) \in Nat
    OBVIOUS
  <2> HIDE DEF G
  <2> QED BY <1>1, <1>2, <2>1, ReachesTop
<1> QED BY <1>3, ConcatEnds

(***************************************************************************)
(* The messages of windows, one after the other                            *)
(***************************************************************************)
\* Sequences put together one after the other: FlattenSeq is the last of a run.
LEMMA FlattenIsRun ==
    ASSUME NEW M, NEW q \in Seq(Seq(M)), Len(q) > 0
    PROVE  \E a \in [0 .. Len(q) -> Seq(M)] :
               /\ a[0] = <<>>
               /\ \A i \in 1 .. Len(q) : a[i] = a[i - 1] \o q[i]
               /\ FlattenSeq(q) = a[Len(q)]
<1> DEFINE n == Len(q)
           step == [i \in 1 .. n |-> [s \in Seq(M) |-> s \o q[i]]]
           Solves(f) == f = [i \in 1 .. n |-> IF i = 1 THEN q[i] ELSE f[i - 1] \o q[i]]
           chosen == CHOOSE f : Solves(f)
           whole == [i \in 0 .. n |-> IF i = 0 THEN <<>> ELSE chosen[i]]
<1>0. n \in Nat /\ <<>> \in Seq(M) /\ \A i \in 1 .. n : q[i] \in Seq(M)
  BY ElementIn
<1>1. step \in [1 .. n -> [Seq(M) -> Seq(M)]]
  BY <1>0
<1>2. PICK a : IsRun(a, n, Seq(M), <<>>, step)
  <2> HIDE DEF step, n
  <2> QED BY <1>0, <1>1, RunExists
<1>3. /\ a \in [0 .. n -> Seq(M)] /\ a[0] = <<>>
      /\ \A i \in 1 .. n : a[i] = a[i - 1] \o q[i]
  <2>1. a \in [0 .. n -> Seq(M)] /\ a[0] = <<>>
    BY <1>2 DEF IsRun
  <2>2. ASSUME NEW i \in 1 .. n PROVE a[i] = a[i - 1] \o q[i]
    <3>1. a[i] = step[i][a[i - 1]]
      <4> HIDE DEF step, n
      <4> QED BY <1>2 DEF IsRun
    <3>2. i - 1 \in 0 .. n
      BY <1>0
    <3>3. a[i - 1] \in Seq(M)
      BY <2>1, <3>2
    <3> QED BY <3>1, <3>3
  <2> QED BY <2>1, <2>2
<1>4. Solves([i \in 1 .. n |-> a[i]])
  <2> DEFINE f == [i \in 1 .. n |-> a[i]]
  <2>1. ASSUME NEW i \in 1 .. n
        PROVE  f[i] = IF i = 1 THEN q[i] ELSE f[i - 1] \o q[i]
    <3>1. CASE i = 1
      <4>1. <<>> \o q[1] = q[1]
        BY <1>0, <3>1
      <4>2. a[1] = <<>> \o q[1]
        <5>1. 1 \in 1 .. n /\ 1 - 1 = 0
          BY <3>1
        <5> HIDE DEF n
        <5> QED BY <1>3, <5>1
      <4> QED BY <3>1, <4>1, <4>2
    <3>2. CASE i # 1
      <4>1. i - 1 \in 1 .. n
        BY <3>2
      <4> QED BY <1>3, <3>2, <4>1
    <3> QED BY <3>1, <3>2
  <2> HIDE DEF n
  <2> QED BY <2>1
<1>5. Solves(chosen)
  <2> HIDE DEF Solves
  <2> QED BY <1>4
<1>6. \A i \in 1 .. n : chosen[i] = IF i = 1 THEN q[i] ELSE chosen[i - 1] \o q[i]
  <2> HIDE DEF chosen, n
  <2> QED BY <1>5
<1> HIDE DEF chosen
<1>7. \A i \in 1 .. n : whole[i] = whole[i - 1] \o q[i]
  <2> TAKE i \in 1 .. n
  <2>1. whole[i] = chosen[i]
    OBVIOUS
  <2>2. CASE i = 1
    <3>1. whole[i - 1] = <<>> /\ <<>> \o q[i] = q[i]
      BY <1>0, <2>2
    <3> QED BY <1>6, <2>1, <2>2, <3>1
  <2>3. CASE i # 1
    <3>1. whole[i - 1] = chosen[i - 1]
      BY <2>3
    <3> QED BY <1>6, <2>1, <2>3, <3>1
  <2> QED BY <2>2, <2>3
<1>8. whole = [i \in 0 .. n |-> whole[i]] /\ whole[0] = <<>> /\ whole[n] = chosen[n]
  BY <1>0
<1>9. IsRun(whole, n, Seq(M), <<>>, step)
  <2> HIDE DEF whole
  <2>1. \A i \in 1 .. n : whole[i - 1] \in Seq(M) => whole[i] = step[i][whole[i - 1]]
    BY <1>7
  <2> HIDE DEF step, n
  <2> QED BY <1>0, <1>1, <1>8, <2>1, SolvedIsRun
<1>10. FlattenSeq(q) = chosen[n]
  BY DEF FlattenSeq, chosen
<1> HIDE DEF whole
<1>11. whole \in [0 .. n -> Seq(M)]
  BY <1>9 DEF IsRun
<1> QED BY <1>7, <1>8, <1>10, <1>11

\* The ids of the windows, in their order.
LEMMA WindowIds ==
    ASSUME NEW ws \in Seq(Window)
    PROVE  /\ [i \in DOMAIN ws |-> ws[i].ids] \in Seq(Seq(Message))
           /\ Len([i \in DOMAIN ws |-> ws[i].ids]) = Len(ws)
           /\ \A i \in 1 .. Len(ws) : ws[i].ids \in Seq(Message)
<1>1. DOMAIN ws = 1 .. Len(ws) /\ Len(ws) \in Nat
  OBVIOUS
<1>2. \A i \in 1 .. Len(ws) : ws[i].ids \in Seq(Message)
  <2> TAKE i \in 1 .. Len(ws)
  <2>1. ws[i] \in Window
    BY ElementIn
  <2> QED BY <2>1 DEF Window
<1> QED BY <1>1, <1>2

\* The messages after each window: IdsOf is the last of a run.
LEMMA IdsOfIsRun ==
    ASSUME NEW ws \in Seq(Window)
    PROVE  \E a \in [0 .. Len(ws) -> Seq(Message)] :
               /\ a[0] = <<>>
               /\ \A i \in 1 .. Len(ws) : a[i] = a[i - 1] \o ws[i].ids
               /\ IdsOf(ws) = a[Len(ws)]
<1> DEFINE q == [i \in DOMAIN ws |-> ws[i].ids]
<1>1. q \in Seq(Seq(Message)) /\ Len(q) = Len(ws) /\ Len(ws) \in Nat
  BY WindowIds
<1>2. \A i \in 1 .. Len(ws) : q[i] = ws[i].ids
  OBVIOUS
<1>3. IdsOf(ws) = FlattenSeq(q)
  BY DEF IdsOf
<1> HIDE DEF q
<1>4. CASE Len(ws) = 0
  <2>1. q = <<>>
    BY <1>1, <1>4
  <2>2. IdsOf(ws) = <<>>
    BY <1>3, <2>1 DEF FlattenSeq
  <2> DEFINE a == [i \in 0 .. 0 |-> <<>>]
  <2>3. a \in [0 .. Len(ws) -> Seq(Message)] /\ a[0] = <<>> /\ IdsOf(ws) = a[Len(ws)]
    BY <1>4, <2>2
  <2>4. \A i \in 1 .. Len(ws) : FALSE
    BY <1>4
  <2> HIDE DEF a
  <2> QED BY <2>3, <2>4
<1>5. CASE Len(ws) > 0
  <2>1. PICK a \in [0 .. Len(q) -> Seq(Message)] :
            /\ a[0] = <<>> /\ \A i \in 1 .. Len(q) : a[i] = a[i - 1] \o q[i]
            /\ FlattenSeq(q) = a[Len(q)]
    BY <1>1, <1>5, FlattenIsRun
  <2> QED BY <1>1, <1>2, <1>3, <2>1
<1>6. Len(ws) = 0 \/ Len(ws) > 0
  BY <1>1
<1> QED BY <1>4, <1>5, <1>6

\* One window more.
LEMMA IdsOfAppend ==
    ASSUME NEW ws \in Seq(Window), NEW w \in Window
    PROVE  IdsOf(Append(ws, w)) = IdsOf(ws) \o w.ids /\ IdsOf(ws) \in Seq(Message)
<1> DEFINE n == Len(ws)
           vs == Append(ws, w)
<1>1. PICK a \in [0 .. n -> Seq(Message)] :
          /\ a[0] = <<>> /\ \A i \in 1 .. n : a[i] = a[i - 1] \o ws[i].ids
          /\ IdsOf(ws) = a[n]
  BY IdsOfIsRun
<1>2. /\ vs \in Seq(Window) /\ Len(vs) = n + 1 /\ vs[n + 1] = w /\ n \in Nat
      /\ \A i \in 1 .. n : vs[i] = ws[i]
  OBVIOUS
<1> HIDE DEF vs, n
<1>3. PICK b \in [0 .. Len(vs) -> Seq(Message)] :
          /\ b[0] = <<>> /\ \A i \in 1 .. Len(vs) : b[i] = b[i - 1] \o vs[i].ids
          /\ IdsOf(vs) = b[Len(vs)]
  BY <1>2, IdsOfIsRun
<1> DEFINE G == {i \in 0 .. n : a[i] = b[i]}
<1>4. 0 \in G
  BY <1>1, <1>2, <1>3
<1>5. ASSUME NEW i \in G, i < n PROVE i + 1 \in G
  <2>1. i + 1 \in 1 .. n /\ i + 1 \in 1 .. n + 1 /\ (i + 1) - 1 = i /\ i + 1 \in 0 .. n
    BY <1>2, <1>5
  <2>2. a[i + 1] = a[i] \o ws[i + 1].ids /\ b[i + 1] = b[i] \o vs[i + 1].ids
    BY <1>1, <1>2, <1>3, <2>1
  <2> QED BY <1>2, <2>1, <2>2
<1>6. n \in G
  <2>1. G \subseteq 0 .. n
    OBVIOUS
  <2> HIDE DEF G
  <2> QED BY <1>2, <1>4, <1>5, <2>1, ReachesTop
<1>7. n + 1 \in 1 .. n + 1 /\ (n + 1) - 1 = n /\ n \in 0 .. n
  BY <1>2
<1>8. b[n + 1] = b[n] \o w.ids /\ a[n] = b[n] /\ a[n] \in Seq(Message)
  BY <1>2, <1>3, <1>6, <1>7
<1> QED BY <1>1, <1>2, <1>3, <1>8 DEF vs

\* Two sequences joined contain what either contains.
LEMMA ConcatSet ==
    ASSUME NEW M, NEW s \in Seq(M), NEW t \in Seq(M)
    PROVE  ToSet(s \o t) = ToSet(s) \cup ToSet(t)
<1>1. /\ Len(s) \in Nat /\ Len(t) \in Nat /\ Len(s \o t) = Len(s) + Len(t)
      /\ DOMAIN s = 1 .. Len(s) /\ DOMAIN t = 1 .. Len(t)
      /\ DOMAIN (s \o t) = 1 .. Len(s) + Len(t)
  OBVIOUS
<1>2. \A i \in 1 .. Len(s) : (s \o t)[i] = s[i]
  OBVIOUS
<1>3. \A i \in 1 .. Len(t) : (s \o t)[Len(s) + i] = t[i]
  OBVIOUS
<1> DEFINE u == s \o t
<1> HIDE DEF u
<1>4. ASSUME NEW x \in ToSet(u) PROVE x \in ToSet(s) \cup ToSet(t)
  <2>1. PICK i \in 1 .. Len(s) + Len(t) : x = u[i]
    BY <1>1 DEF ToSet, u
  <2>2. CASE i \in 1 .. Len(s)
    BY <1>1, <1>2, <2>1, <2>2 DEF ToSet, u
  <2>3. CASE i \notin 1 .. Len(s)
    <3>1. i - Len(s) \in 1 .. Len(t) /\ Len(s) + (i - Len(s)) = i
      BY <1>1, <2>3
    <3>2. x = t[i - Len(s)]
      BY <1>3, <2>1, <3>1 DEF u
    <3> QED BY <1>1, <3>1, <3>2 DEF ToSet
  <2> QED BY <2>2, <2>3
<1>5. ASSUME NEW x \in ToSet(s) PROVE x \in ToSet(u)
  <2>1. PICK i \in 1 .. Len(s) : x = s[i]
    BY <1>1 DEF ToSet
  <2>2. i \in 1 .. Len(s) + Len(t) /\ u[i] = x
    BY <1>1, <1>2, <2>1 DEF u
  <2> QED BY <1>1, <2>2 DEF ToSet, u
<1>6. ASSUME NEW x \in ToSet(t) PROVE x \in ToSet(u)
  <2>1. PICK i \in 1 .. Len(t) : x = t[i]
    BY <1>1 DEF ToSet
  <2>2. Len(s) + i \in 1 .. Len(s) + Len(t) /\ u[Len(s) + i] = x
    BY <1>1, <1>3, <2>1 DEF u
  <2> QED BY <1>1, <2>2 DEF ToSet, u
<1> QED BY <1>4, <1>5, <1>6 DEF u

\* A message is among those of windows when one of the windows shows it.
LEMMA IdsOfShows ==
    ASSUME NEW ws \in Seq(Window)
    PROVE  \A m : m \in ToSet(IdsOf(ws)) <=> \E i \in 1 .. Len(ws) : m \in ToSet(ws[i].ids)
<1> DEFINE n == Len(ws)
<1>1. PICK a \in [0 .. n -> Seq(Message)] :
          /\ a[0] = <<>> /\ \A i \in 1 .. n : a[i] = a[i - 1] \o ws[i].ids
          /\ IdsOf(ws) = a[n]
  BY IdsOfIsRun
<1> DEFINE Good(j) == \A m : m \in ToSet(a[j]) <=> \E i \in 1 .. j : m \in ToSet(ws[i].ids)
           G == {j \in 0 .. n : Good(j)}
<1>2. 0 \in G
  <2>1. ToSet(a[0]) = {} /\ 0 \in 0 .. n
    BY <1>1 DEF ToSet
  <2> QED BY <2>1
<1>3. ASSUME NEW j \in G, j < n PROVE j + 1 \in G
  <2>1. /\ j + 1 \in 1 .. n /\ (j + 1) - 1 = j /\ j + 1 \in 0 .. n /\ j \in Nat
        /\ a[j] \in Seq(Message) /\ Good(j)
    BY <1>3
  <2>2. ws[j + 1].ids \in Seq(Message) /\ a[j + 1] = a[j] \o ws[j + 1].ids
    BY <1>1, <2>1, WindowIds
  <2>3. ToSet(a[j + 1]) = ToSet(a[j]) \cup ToSet(ws[j + 1].ids)
    BY <2>1, <2>2, ConcatSet
  <2>4. \A i : i \in 1 .. j + 1 <=> i \in 1 .. j \/ i = j + 1
    BY <2>1
  <2>5. Good(j + 1)
    <3> HIDE DEF G
    <3> QED BY <2>1, <2>3, <2>4
  <2> HIDE DEF Good
  <2> QED BY <2>1, <2>5
<1>4. n \in G
  <2>1. G \subseteq 0 .. n /\ n \in Nat
    OBVIOUS
  <2> HIDE DEF G, n
  <2> QED BY <1>2, <1>3, <2>1, ReachesTop
<1> QED BY <1>1, <1>4

(***************************************************************************)
(* What the ledger has seen of a window                                    *)
(***************************************************************************)
Msgs(l) == [i \in DOMAIN l |-> l[i].msg]

\* The messages of a ledger, row by row.
LEMMA MsgsTyped ==
    ASSUME NEW l \in Log
    PROVE  /\ Msgs(l) \in Seq(Message) /\ Len(Msgs(l)) = Len(l)
           /\ DOMAIN Msgs(l) = 1 .. Len(l) /\ DOMAIN l = 1 .. Len(l) /\ Len(l) \in Nat
           /\ \A i \in 1 .. Len(l) : Msgs(l)[i] = l[i].msg
<1>1. DOMAIN l = 1 .. Len(l) /\ Len(l) \in Nat
  BY DEF Log
<1>2. \A i \in 1 .. Len(l) : l[i].msg \in Message
  <2> TAKE i \in 1 .. Len(l)
  <2>1. l[i] \in EventRow
    BY ElementIn DEF Log
  <2> QED BY <2>1 DEF EventRow
<1> QED BY <1>1, <1>2 DEF Msgs

\* A row adds its message to those of the ledger.
LEMMA MsgsAppend ==
    ASSUME NEW l \in Log, NEW e \in EventRow
    PROVE  Msgs(Append(l, e)) = Append(Msgs(l), e.msg) /\ Append(l, e) \in Log
<1> DEFINE k == Append(l, e)
<1>1. /\ k \in Log /\ Len(k) = Len(l) + 1 /\ k[Len(l) + 1] = e
      /\ \A i \in 1 .. Len(l) : k[i] = l[i]
  BY DEF Log
<1> HIDE DEF k
<1>2. /\ Msgs(k) \in Seq(Message) /\ Len(Msgs(k)) = Len(l) + 1
      /\ \A i \in 1 .. Len(l) + 1 : Msgs(k)[i] = k[i].msg
  BY <1>1, MsgsTyped
<1>3. /\ Msgs(l) \in Seq(Message) /\ Len(Msgs(l)) = Len(l) /\ Len(l) \in Nat
      /\ \A i \in 1 .. Len(l) : Msgs(l)[i] = l[i].msg
  BY MsgsTyped
<1>4. e.msg \in Message
  BY DEF EventRow
<1>5. \A i \in 1 .. Len(l) + 1 : Msgs(k)[i] = Append(Msgs(l), e.msg)[i]
  <2> TAKE i \in 1 .. Len(l) + 1
  <2>1. CASE i \in 1 .. Len(l)
    BY <1>1, <1>2, <1>3, <1>4, <2>1
  <2>2. CASE i = Len(l) + 1
    BY <1>1, <1>2, <1>3, <1>4, <2>2
  <2> QED BY <1>3, <2>1, <2>2
<1>6. Msgs(k) = Append(Msgs(l), e.msg)
  <2>1. Append(Msgs(l), e.msg) \in Seq(Message) /\ Len(Append(Msgs(l), e.msg)) = Len(l) + 1
    BY <1>3, <1>4
  <2> QED BY <1>2, <1>5, <2>1
<1> QED BY <1>1, <1>6 DEF k

\* A row that is in the ledger already has its message in it.
LEMMA RowSeen ==
    ASSUME NEW obs \in Observation, NEW i \in 1 .. Len(obs.rows), NEW log \in Log
    PROVE  FirstSeen(Msgs(RowStep(obs, log, i)))
               = SeenStep(FirstSeen(Msgs(log)), obs.rows[i].msg)
<1> DEFINE e == RowEvent(obs, i)
<1>1. e \in EventRow /\ e.msg = obs.rows[i].msg
  BY RowEventTyped DEF RowEvent
<1>2. e.msg \in Message /\ Msgs(log) \in Seq(Message)
  BY <1>1, MsgsTyped DEF EventRow
<1>3. RowStep(obs, log, i) = IF e \in ToSet(log) THEN log ELSE Append(log, e)
  BY DEF RowStep
<1> HIDE DEF e
<1>4. CASE e \in ToSet(log)
  <2>1. PICK k \in 1 .. Len(log) : log[k] = e
    BY <1>4, MsgsTyped DEF ToSet
  <2>2. e.msg \in ToSet(Msgs(log))
    BY <2>1, MsgsTyped DEF ToSet
  <2>3. e.msg \in ToSet(FirstSeen(Msgs(log)))
    BY <1>2, <2>2, FirstSeenSees
  <2> QED BY <1>1, <1>3, <1>4, <2>3 DEF SeenStep
<1>5. CASE e \notin ToSet(log)
  <2>1. Msgs(RowStep(obs, log, i)) = Append(Msgs(log), e.msg)
    BY <1>1, <1>3, <1>5, MsgsAppend
  <2> QED BY <1>1, <1>2, <2>1, FirstSeenAppend
<1> QED BY <1>4, <1>5

\* The messages of a window, row by row.
LEMMA RowIdsTyped ==
    ASSUME NEW obs \in Observation
    PROVE  /\ RowIds(obs) \in Seq(Message) /\ Len(RowIds(obs)) = Len(obs.rows)
           /\ Len(obs.rows) \in Nat /\ DOMAIN RowIds(obs) = 1 .. Len(obs.rows)
           /\ \A i \in 1 .. Len(obs.rows) : RowIds(obs)[i] = obs.rows[i].msg
<1>1. obs.rows \in Seq([msg : Message, ver : Version, at : Nat]) /\ RowIds(obs) \in Seq(Message)
  BY SubmittedTyped
<1>2. DOMAIN obs.rows = 1 .. Len(obs.rows) /\ Len(obs.rows) \in Nat
  BY <1>1
<1> QED BY <1>1, <1>2 DEF RowIds

\* The messages of a window are seen in its order, after those in the ledger.
LEMMA AppendSeen ==
    ASSUME NEW obs \in Observation, NEW log \in Log
    PROVE  FirstSeen(Msgs(AppendWindowEvents(log, obs)))
               = FirstSeen(Msgs(log) \o RowIds(obs))
<1> DEFINE n == Len(obs.rows)
           t == RowIds(obs)
           s == Msgs(log)
           S(k) == s \o SubSeq(t, 1, k)
<1>1. PICK a \in [0 .. n -> Log] :
          /\ a[0] = log /\ \A i \in 1 .. n : a[i] = RowStep(obs, a[i - 1], i)
          /\ AppendWindowEvents(log, obs) = a[n]
  BY AppendIsRun
<1>2. /\ t \in Seq(Message) /\ Len(t) = n /\ n \in Nat /\ s \in Seq(Message)
      /\ \A i \in 1 .. n : t[i] = obs.rows[i].msg
  BY RowIdsTyped, MsgsTyped
<1> HIDE DEF t
<1> DEFINE G == {j \in 0 .. n : FirstSeen(Msgs(a[j])) = FirstSeen(S(j))}
<1>3. 0 \in G
  <2>1. S(0) = s /\ Msgs(a[0]) = s /\ 0 \in 0 .. n
    BY <1>1, <1>2, ConcatEnds
  <2> HIDE DEF S, s
  <2> QED BY <2>1
<1>4. ASSUME NEW j \in G, j < n PROVE j + 1 \in G
  <2>1. /\ j + 1 \in 1 .. n /\ (j + 1) - 1 = j /\ j + 1 \in 0 .. n /\ j \in 0 .. Len(t)
        /\ j < Len(t) /\ a[j] \in Log /\ FirstSeen(Msgs(a[j])) = FirstSeen(S(j))
    BY <1>2, <1>4
  <2> HIDE DEF s
  <2>2. S(j + 1) = Append(S(j), t[j + 1]) /\ S(j) \in Seq(Message) /\ t[j + 1] \in Message
    BY <1>2, <2>1, ConcatStep
  <2> HIDE DEF S
  <2>3. FirstSeen(S(j + 1)) = SeenStep(FirstSeen(S(j)), t[j + 1])
    BY <2>2, FirstSeenAppend
  <2>4. a[j + 1] = RowStep(obs, a[j], j + 1) /\ t[j + 1] = obs.rows[j + 1].msg
    BY <1>1, <1>2, <2>1
  <2>5. FirstSeen(Msgs(a[j + 1])) = SeenStep(FirstSeen(Msgs(a[j])), t[j + 1])
    BY <2>1, <2>4, RowSeen
  <2> QED BY <2>1, <2>3, <2>5
<1>5. n \in G
  <2>1. G \subseteq 0 .. n
    OBVIOUS
  <2> HIDE DEF G, n
  <2> QED BY <1>2, <1>3, <1>4, <2>1, ReachesTop
<1>6. S(n) = s \o t
  BY <1>2, ConcatEnds
<1> HIDE DEF S, s, n
<1>7. FirstSeen(Msgs(AppendWindowEvents(log, obs))) = FirstSeen(s \o t)
  BY <1>1, <1>5, <1>6
<1> QED BY <1>7 DEF s, t

\* The rows of a window are all that merging it adds to the ledger.
LEMMA AppendHas ==
    ASSUME NEW obs \in Observation, NEW log \in Log
    PROVE  ToSet(AppendWindowEvents(log, obs))
               = ToSet(log) \cup {RowEvent(obs, i) : i \in 1 .. Len(obs.rows)}
<1> DEFINE n == Len(obs.rows)
           Has(j, l) == ToSet(l) = ToSet(log) \cup {RowEvent(obs, i) : i \in 1 .. j}
<1>1. PICK a \in [0 .. n -> Log] :
          /\ a[0] = log /\ \A i \in 1 .. n : a[i] = RowStep(obs, a[i - 1], i)
          /\ AppendWindowEvents(log, obs) = a[n]
  BY AppendIsRun
<1>2. n \in Nat
  BY RowIdsTyped
<1> DEFINE G == {j \in 0 .. n : Has(j, a[j])}
<1>3. 0 \in G
  BY <1>1, <1>2
<1>4. ASSUME NEW j \in G, j < n PROVE j + 1 \in G
  <2>1. /\ j + 1 \in 1 .. n /\ (j + 1) - 1 = j /\ j + 1 \in 0 .. n /\ j \in Nat
        /\ a[j] \in Log /\ Has(j, a[j])
    BY <1>2, <1>4
  <2> DEFINE e == RowEvent(obs, j + 1)
             l == a[j]
             k == a[j + 1]
  <2>2. k = IF e \in ToSet(l) THEN l ELSE Append(l, e)
    BY <1>1, <2>1 DEF RowStep
  <2>3. e \in EventRow
    BY <2>1, RowEventTyped
  <2>4. {RowEvent(obs, i) : i \in 1 .. j + 1} = {RowEvent(obs, i) : i \in 1 .. j} \cup {e}
    <3>1. \A i : i \in 1 .. j + 1 <=> i \in 1 .. j \/ i = j + 1
      BY <2>1
    <3> HIDE DEF G
    <3> QED BY <3>1
  <2>5. l \in Log
    BY <2>1
  <2> HIDE DEF e, l, k
  <2>6. ToSet(k) = ToSet(l) \cup {e}
    <3>1. CASE e \in ToSet(l)
      BY <2>2, <3>1
    <3>2. CASE e \notin ToSet(l)
      <4>1. /\ k = Append(l, e) /\ l \in Seq(EventRow) /\ Len(l) \in Nat
            /\ DOMAIN l = 1 .. Len(l)
        BY <2>2, <2>5, <3>2 DEF Log
      <4>2. /\ DOMAIN k = 1 .. Len(l) + 1 /\ k[Len(l) + 1] = e
            /\ \A i \in 1 .. Len(l) : k[i] = l[i]
        BY <2>3, <4>1
      <4>3. \A i : i \in 1 .. Len(l) + 1 <=> i \in 1 .. Len(l) \/ i = Len(l) + 1
        BY <4>1
      <4> HIDE DEF Has, n, G
      <4> QED BY <4>1, <4>2, <4>3 DEF ToSet
    <3> QED BY <3>1, <3>2
  <2>7. Has(j + 1, k)
    BY <2>1, <2>4, <2>6 DEF l
  <2> QED BY <2>1, <2>7 DEF k
<1>5. n \in G
  <2>1. G \subseteq 0 .. n
    OBVIOUS
  <2> HIDE DEF G, n
  <2> QED BY <1>2, <1>3, <1>4, <2>1, ReachesTop
<1> QED BY <1>1, <1>5

\* The new window goes behind the others.
LEMMA AddWindowAdds ==
    ASSUME NEW c \in Coverage, NEW obs \in Observation
    PROVE  /\ \E w \in Window : /\ AddWindow(c, obs).windows = Append(c.windows, w)
                                /\ w.id = obs.id /\ w.ids = RowIds(obs)
           /\ AddWindow(c, obs).versions = [m \in Message |-> c.versions[m] \cup Shows(obs, m)]
<1> DEFINE w == [id |-> obs.id, source |-> obs.source, ids |-> RowIds(obs),
                 pass |-> obs.pass, oldest |-> obs.oldest, latest |-> obs.latest,
                 new |-> Cardinality(ToSet(RowIds(obs)) \ Known(c))]
           versions == [m \in Message |-> c.versions[m] \cup Shows(obs, m)]
           invalid == c.invalid + obs.invalid
           windows == Append(c.windows, w)
           added == [c EXCEPT !.invalid = @ + obs.invalid,
                              !.versions = [m \in Message |-> @[m] \cup Shows(obs, m)],
                              !.windows = Append(@, w)]
<1>1. AddWindow(c, obs) = [added EXCEPT !.blockers = Blockers(added)]
  BY DEF AddWindow, Shows
<1>2. w \in Window /\ w.id = obs.id /\ w.ids = RowIds(obs)
  BY WindowTyped
<1>3. DOMAIN c = {"windows", "versions", "invalid", "blockers"}
  BY DEF Coverage
<1>4. added = [c EXCEPT !.invalid = invalid, !.versions = versions, !.windows = windows]
  OBVIOUS
<1> HIDE DEF w, versions, invalid, windows, added
<1>5. added = [windows |-> windows, versions |-> versions,
               invalid |-> invalid, blockers |-> c.blockers]
  BY <1>3, <1>4
<1>6. AddWindow(c, obs).windows = windows /\ AddWindow(c, obs).versions = versions
  BY <1>1, <1>5
<1> QED BY <1>2, <1>6 DEF windows, versions

\* The ledger l shows the messages ids in window w, one place after the other.
Logged(l, w, x, m) == \E e \in ToSet(l) : e.win = w /\ e.index = x /\ e.msg = m

Ascending(p, n) == \A i, j \in 1 .. n : i < j => p[i] < p[j]

LoggedAs(l, w, ids) ==
    \E p \in [1 .. Len(ids) -> Nat] :
        /\ Ascending(p, Len(ids))
        /\ \A i \in 1 .. Len(ids) : Logged(l, w, p[i], ids[i])

\* The coverage c and the ledger l tell the same of the messages.
Agree(c, l) ==
    /\ FirstSeen(IdsOf(c.windows)) = FirstSeen(Msgs(l))
    /\ \A i \in 1 .. Len(c.windows) : LoggedAs(l, c.windows[i].id, c.windows[i].ids)
    /\ \A e \in ToSet(l) : \E i \in 1 .. Len(c.windows) : c.windows[i].id = e.win

\* The rows of a window are in the ledger at the places they were submitted with.
LEMMA RowsLogged ==
    ASSUME NEW obs \in Observation, NEW log \in Log
    PROVE  LoggedAs(AppendWindowEvents(log, obs), obs.id, RowIds(obs))
<1> DEFINE n == Len(obs.rows)
           p == [i \in 1 .. n |-> obs.rows[i].at]
           k == AppendWindowEvents(log, obs)
<1>1. n \in Nat /\ Len(RowIds(obs)) = n /\ \A i \in 1 .. n : RowIds(obs)[i] = obs.rows[i].msg
  BY RowIdsTyped
<1>2. /\ obs.rows \in Seq([msg : Message, ver : Version, at : Nat])
      /\ \A i, j \in DOMAIN obs.rows : i < j => obs.rows[i].at < obs.rows[j].at
  BY ObservationAssumption DEF Submitted
<1>3. \A i \in 1 .. n : obs.rows[i] \in [msg : Message, ver : Version, at : Nat]
  BY <1>2, ElementIn
<1>4. p \in [1 .. n -> Nat]
  BY <1>3
<1>5. Ascending(p, n)
  BY <1>2 DEF Ascending
<1>6. \A i \in 1 .. n : RowEvent(obs, i) \in ToSet(k)
  BY AppendAdds
<1>7. \A i \in 1 .. n : Logged(k, obs.id, p[i], RowIds(obs)[i])
  <2> TAKE i \in 1 .. n
  <2> DEFINE e == RowEvent(obs, i)
  <2>1. e.win = obs.id /\ e.index = obs.rows[i].at /\ e.msg = obs.rows[i].msg
    BY DEF RowEvent
  <2>2. p[i] = obs.rows[i].at
    OBVIOUS
  <2> HIDE DEF e, p, k
  <2> QED BY <1>1, <1>6, <2>1, <2>2 DEF Logged, e
<1> HIDE DEF p, k, n
<1> QED BY <1>1, <1>4, <1>5, <1>7 DEF LoggedAs, k

\* A ledger that has more shows what it showed before.
LEMMA LoggedStays ==
    ASSUME NEW l, NEW k, ToSet(l) \subseteq ToSet(k), NEW w, NEW ids, LoggedAs(l, w, ids)
    PROVE  LoggedAs(k, w, ids)
<1>1. PICK p \in [1 .. Len(ids) -> Nat] :
          /\ Ascending(p, Len(ids))
          /\ \A i \in 1 .. Len(ids) : Logged(l, w, p[i], ids[i])
  BY DEF LoggedAs
<1>2. \A i \in 1 .. Len(ids) : Logged(k, w, p[i], ids[i])
  BY <1>1 DEF Logged
<1> QED BY <1>1, <1>2 DEF LoggedAs

\* One window keeps them together.
LEMMA MergeAgrees ==
    ASSUME NEW c \in Coverage, NEW l \in Log, NEW obs \in Observation,
           Mergeable(c, obs), Agree(c, l)
    PROVE  Agree(MergeCaptureWindow(c, obs), AppendWindowEvents(l, obs))
<1> DEFINE ws == c.windows
           t == RowIds(obs)
           k == AppendWindowEvents(l, obs)
           d == MergeCaptureWindow(c, obs)
<1>1. ws \in Seq(Window) /\ DOMAIN ws = 1 .. Len(ws) /\ Len(ws) \in Nat
  BY DEF Coverage
<1>2. t \in Seq(Message) /\ Msgs(l) \in Seq(Message)
  BY RowIdsTyped, MsgsTyped
<1>3. FirstSeen(Msgs(k)) = FirstSeen(Msgs(l) \o t)
  BY AppendSeen
<1>4. /\ ToSet(l) \subseteq ToSet(k) /\ LoggedAs(k, obs.id, t)
      /\ \A e \in ToSet(k) : e \in ToSet(l) \/ e.win = obs.id
  <2>1. LoggedAs(k, obs.id, t)
    BY RowsLogged
  <2>2. ToSet(k) = ToSet(l) \cup {RowEvent(obs, i) : i \in 1 .. Len(obs.rows)}
    BY AppendHas
  <2>3. \A i \in 1 .. Len(obs.rows) : RowEvent(obs, i).win = obs.id
    BY DEF RowEvent
  <2> HIDE DEF k, t
  <2> QED BY <2>1, <2>2, <2>3
<1>5. IdsOf(ws) \in Seq(Message)
  <2>1. PICK a \in [0 .. Len(ws) -> Seq(Message)] : IdsOf(ws) = a[Len(ws)]
    BY <1>1, IdsOfIsRun
  <2> QED BY <1>1, <2>1
<1>6. /\ FirstSeen(IdsOf(ws)) = FirstSeen(Msgs(l))
      /\ \A i \in 1 .. Len(ws) : LoggedAs(l, ws[i].id, ws[i].ids)
      /\ \A e \in ToSet(l) : \E i \in 1 .. Len(ws) : ws[i].id = e.win
  BY DEF Agree
<1>9. \A i \in 1 .. Len(ws) : LoggedAs(k, ws[i].id, ws[i].ids)
  <2> HIDE DEF k, ws
  <2> QED BY <1>4, <1>6, LoggedStays
<1> SUFFICES /\ FirstSeen(IdsOf(d.windows)) = FirstSeen(Msgs(k))
             /\ \A i \in 1 .. Len(d.windows) :
                    LoggedAs(k, d.windows[i].id, d.windows[i].ids)
             /\ \A e \in ToSet(k) :
                    \E i \in 1 .. Len(d.windows) : d.windows[i].id = e.win
  BY DEF Agree
<1> HIDE DEF k, t
<1>7. CASE WindowOf(c, obs) # {}
  <2>1. d = [c EXCEPT !.invalid = @ + obs.invalid]
    BY <1>7 DEF MergeCaptureWindow
  <2>2. d.windows = ws
    BY <2>1 DEF Coverage
  <2>3. PICK i \in 1 .. Len(ws) : ws[i].id = obs.id /\ ws[i].ids = t
    BY <1>1, <1>7 DEF WindowOf, Mergeable, t
  <2> HIDE DEF d, ws
  <2>4. \A j \in 1 .. Len(t) : t[j] \in ToSet(Msgs(l))
    <3> TAKE j \in 1 .. Len(t)
    <3>1. t[j] \in ToSet(ws[i].ids)
      BY <1>2, <2>3 DEF ToSet
    <3>2. t[j] \in ToSet(IdsOf(ws))
      BY <1>1, <3>1, IdsOfShows
    <3>3. ToSet(FirstSeen(IdsOf(ws))) = ToSet(IdsOf(ws))
          /\ ToSet(FirstSeen(Msgs(l))) = ToSet(Msgs(l))
      BY <1>2, <1>5, FirstSeenSees
    <3> QED BY <1>6, <3>2, <3>3
  <2>5. FirstSeen(Msgs(l) \o t) = FirstSeen(Msgs(l))
    BY <1>2, <2>4, FirstSeenOld
  <2>6. \A e \in ToSet(k) : \E j \in 1 .. Len(ws) : ws[j].id = e.win
    BY <1>4, <1>6, <2>3
  <2> QED BY <1>3, <1>6, <1>9, <2>2, <2>5, <2>6
<1>8. CASE WindowOf(c, obs) = {}
  <2>1. d = AddWindow(c, obs)
    BY <1>8 DEF MergeCaptureWindow
  <2>2. PICK W \in Window : d.windows = Append(ws, W) /\ W.id = obs.id /\ W.ids = t
    <3>1. PICK W \in Window : /\ AddWindow(c, obs).windows = Append(c.windows, W)
                              /\ W.id = obs.id /\ W.ids = RowIds(obs)
      BY AddWindowAdds
    <3> HIDE DEF d
    <3> QED BY <2>1, <3>1 DEF t
  <2> HIDE DEF d, ws
  <2>3. IdsOf(d.windows) = IdsOf(ws) \o t
    BY <1>1, <2>2, IdsOfAppend
  <2>4. FirstSeen(IdsOf(ws) \o t) = FirstSeen(Msgs(l) \o t)
    BY <1>2, <1>5, <1>6, FirstSeenConcat
  <2>5. /\ Len(d.windows) = Len(ws) + 1 /\ d.windows[Len(ws) + 1] = W
        /\ \A i \in 1 .. Len(ws) : d.windows[i] = ws[i]
        /\ \A i : i \in 1 .. Len(ws) + 1 <=> i \in 1 .. Len(ws) \/ i = Len(ws) + 1
    BY <1>1, <2>2
  <2>6. \A i \in 1 .. Len(d.windows) : LoggedAs(k, d.windows[i].id, d.windows[i].ids)
    <3> SUFFICES ASSUME NEW i \in 1 .. Len(ws) + 1
                 PROVE  LoggedAs(k, d.windows[i].id, d.windows[i].ids)
      BY <2>5
    <3>1. CASE i \in 1 .. Len(ws)
      BY <1>9, <2>5, <3>1
    <3>2. CASE i = Len(ws) + 1
      BY <1>4, <2>2, <2>5, <3>2
    <3> QED BY <2>5, <3>1, <3>2
  <2>7. \A e \in ToSet(k) : \E i \in 1 .. Len(d.windows) : d.windows[i].id = e.win
    <3> TAKE e \in ToSet(k)
    <3>1. CASE e \in ToSet(l)
      BY <1>6, <2>5, <3>1
    <3>2. CASE e.win = obs.id
      BY <2>2, <2>5, <3>2
    <3> QED BY <1>4, <3>1, <3>2
  <2> QED BY <1>3, <2>3, <2>4, <2>6, <2>7
<1> QED BY <1>7, <1>8

\* Coverage and ledger still agree after a merge.
LEMMA MergedAgrees ==
    ASSUME coverage \in Coverage, events \in Log, NEW sequence \in Seq(Observation),
           Agree(coverage, events), Merged(sequence).ok
    PROVE  Agree(Merged(sequence).coverage, Merged(sequence).events)
<1> DEFINE n == Len(sequence)
<1>0. n \in Nat
  OBVIOUS
<1>1. PICK a \in [0 .. n -> MergeState] :
          /\ a[0] = [ok |-> TRUE, coverage |-> coverage, events |-> events]
          /\ \A i \in 1 .. n : a[i] = MergeStep(a[i - 1], sequence[i])
          /\ Merged(sequence) = a[n]
  BY MergedIsRun
<1> DEFINE Good(t) == t.ok => Agree(t.coverage, t.events)
           G == {j \in 0 .. n : Good(a[j])}
<1>3. 0 \in G
  <2>1. a[0].coverage = coverage /\ a[0].events = events
    BY <1>1
  <2> QED BY <1>0, <2>1
<1>4. ASSUME NEW j \in G, j < n
      PROVE  j + 1 \in G
  <2>1. j + 1 \in 1 .. n /\ j + 1 \in 0 .. n /\ (j + 1) - 1 = j
        /\ a[j] \in MergeState
    BY <1>0, <1>4
  <2>2. a[j + 1] = MergeStep(a[j], sequence[j + 1]) /\ sequence[j + 1] \in Observation
    BY <1>1, <2>1, ElementIn
  <2>3. a[j].coverage \in Coverage /\ a[j].events \in Log /\ Good(a[j])
    BY <2>1 DEF MergeState
  <2>4. /\ a[j + 1].ok => a[j].ok /\ Mergeable(a[j].coverage, sequence[j + 1])
        /\ a[j + 1].coverage = MergeCaptureWindow(a[j].coverage, sequence[j + 1])
        /\ a[j + 1].events = AppendWindowEvents(a[j].events, sequence[j + 1])
    <3> DEFINE before == a[j]
               obs == sequence[j + 1]
    <3>1. a[j + 1] = MergeStep(before, obs)
      BY <2>2
    <3> HIDE DEF before, obs
    <3>2. MergeStep(before, obs).ok = (before.ok /\ Mergeable(before.coverage, obs))
      BY Zenon DEF MergeStep
    <3>3. /\ MergeStep(before, obs).coverage = MergeCaptureWindow(before.coverage, obs)
          /\ MergeStep(before, obs).events = AppendWindowEvents(before.events, obs)
      BY Zenon DEF MergeStep
    <3>4. a[j + 1].ok => before.ok /\ Mergeable(before.coverage, obs)
      BY <3>1, <3>2, Zenon
    <3>5. /\ a[j + 1].coverage = MergeCaptureWindow(before.coverage, obs)
          /\ a[j + 1].events = AppendWindowEvents(before.events, obs)
      BY <3>1, <3>3
    <3> QED BY <3>4, <3>5 DEF before, obs
  <2>5. Good(a[j + 1])
    BY <2>2, <2>3, <2>4, MergeAgrees
  <2> HIDE DEF Good
  <2> QED BY <2>1, <2>5
<1>5. n \in G
  <2>1. G \subseteq 0 .. n
    OBVIOUS
  <2> HIDE DEF G
  <2> QED BY <1>0, <1>3, <1>4, <2>1, ReachesTop
<1> QED BY <1>0, <1>1, <1>5

\* Until a merge dies, the ledger and the coverage on disk agree between merges,
\* and what a merge is about to save agrees.
Agreed ==
    failures = 0 => IF merge = Nothing THEN Agree(coverage, events)
                    ELSE Agree(merge.coverage, merge.events)

\* Nothing is recorded in either, so they agree.
LEMMA AgreedInitially == Init => Agreed
<1> SUFFICES ASSUME Init PROVE Agree(coverage, events)
  BY DEF Agreed, Init
<1>1. coverage.windows = <<>> /\ events = <<>>
  BY DEF Init, NewCoverage
<1>2. IdsOf(<<>>) = <<>>
  BY DEF IdsOf, FlattenSeq
<1>3. Msgs(<<>>) = <<>>
  BY DEF Msgs
<1>4. ToSet(<<>>) = {} /\ Len(<<>>) = 0
  BY DEF ToSet
<1>5. ToSet(events) = {} /\ 1 .. Len(coverage.windows) = {}
  BY <1>1, <1>4
<1> QED BY <1>1, <1>2, <1>3, <1>5 DEF Agree

\* Every step keeps the agreement of coverage and ledger.
LEMMA AgreedKept == Inv /\ Agreed /\ [Next]_vars => Agreed'
<1> SUFFICES ASSUME Inv, Agreed, [Next]_vars, failures' = 0
             PROVE  IF merge' = Nothing THEN Agree(coverage', events')
                    ELSE Agree(merge'.coverage, merge'.events)
  BY DEF Agreed
<1>1. coverage \in Coverage /\ events \in Log /\ failures \in Nat
  BY DEF Inv, TypeOK, Log
<1>2. ASSUME NEW sequence \in Seq(Observation), BeginMerge(sequence)
      PROVE  Agree(merge'.coverage, merge'.events) /\ merge' # Nothing
  <2> DEFINE result == Merged(sequence)
  <2>1. result.ok /\ merge' = [coverage |-> result.coverage, events |-> result.events]
    BY <1>2 DEF BeginMerge
  <2>2. merge = Nothing /\ failures = 0
    BY <1>2 DEF BeginMerge
  <2>3. Agree(coverage, events)
    BY <2>2 DEF Agreed
  <2>4. result \in MergeState
    BY <1>1, MergedGrows
  <2>5. Agree(result.coverage, result.events)
    BY <1>1, <2>1, <2>3, MergedAgrees
  <2> HIDE DEF result
  <2>6. merge' \in Bound
    BY <2>1, <2>4 DEF MergeState, Bound, Log
  <2> QED BY <2>1, <2>5, <2>6, EvidenceNothingAssumption
<1>3. CASE MergeWindow
  <2>1. PICK obs \in Observation : BeginMerge(<<obs>>)
    BY <1>3 DEF MergeWindow
  <2>2. <<obs>> \in Seq(Observation)
    OBVIOUS
  <2> QED BY <1>2, <2>1, <2>2
<1>4. CASE MergeCacheFirst
  BY <1>2, <1>4, CacheFirstTyped DEF MergeCacheFirst
<1>5. CASE SaveLedger
  BY <1>5 DEF SaveLedger, Agreed
<1>6. CASE SaveCoverage
  <2>1. coverage' = merge.coverage /\ events' = merge.events /\ merge' = Nothing
        /\ merge # Nothing /\ failures = 0
    BY <1>6 DEF SaveCoverage, Inv, MergeLeads
  <2> QED BY <2>1 DEF Agreed
<1>7. CASE MergeDies
  BY <1>1, <1>7 DEF MergeDies
<1>8. CASE UNCHANGED <<coverage, events, merge, failures>>
  BY <1>8 DEF Agreed
<1>9. \/ MergeWindow \/ MergeCacheFirst \/ SaveLedger \/ SaveCoverage \/ MergeDies
      \/ UNCHANGED <<coverage, events, merge, failures>>
  BY DEF Next, vars, Reconcile, AdvanceCheckpoint, ReadReceipt, ReadCheckpoint,
         ReadLedger, ReadCoverage
<1> QED BY <1>3, <1>4, <1>5, <1>6, <1>7, <1>8, <1>9

(***************************************************************************)
(* Sorting the rows of a window                                            *)
(***************************************************************************)

\* A function that only goes up stays at or above where it is, and so does one
\* that is turned around.
LEMMA UpwardIsAbove ==
    ASSUME NEW n \in Nat, NEW h \in [1 .. n -> 1 .. n],
           \A i, j \in 1 .. n : i < j => h[i] < h[j]
    PROVE  \A i \in 1 .. n : h[i] >= i
<1> DEFINE G == {i \in 0 .. n : i = 0 \/ h[i] >= i}
<1>1. 0 \in G
  OBVIOUS
<1>2. ASSUME NEW k \in 0 .. n PROVE k \in G
  <2> DEFINE H == {i \in 0 .. k : i \in G}
  <2>1. 0 \in H
    BY <1>1
  <2>2. ASSUME NEW i \in H, i < k PROVE i + 1 \in H
    <3>1. i + 1 \in 1 .. n /\ i + 1 \in 0 .. k /\ (i = 0 \/ h[i] >= i) /\ i \in 0 .. n
      BY <2>2
    <3>2. h[i + 1] \in 1 .. n
      BY <3>1
    <3>3. CASE i = 0
      BY <3>1, <3>2, <3>3
    <3>4. CASE i # 0
      <4>1. i \in 1 .. n /\ h[i] \in 1 .. n
        BY <3>1, <3>4
      <4>2. h[i] < h[i + 1]
        BY <3>1, <4>1
      <4> QED BY <3>1, <3>2, <3>4, <4>1, <4>2
    <3> QED BY <3>3, <3>4
  <2>3. H \subseteq 0 .. k /\ k \in Nat
    OBVIOUS
  <2> HIDE DEF H, G
  <2>4. k \in H
    BY <2>1, <2>2, <2>3, ReachesTop
  <2> QED BY <2>4 DEF H
<1> QED BY <1>2

\* A map of an interval to itself that keeps the order is the identity.
LEMMA UpwardIsIdentity ==
    ASSUME NEW n \in Nat, NEW h \in [1 .. n -> 1 .. n],
           \A i, j \in 1 .. n : i < j => h[i] < h[j]
    PROVE  \A i \in 1 .. n : h[i] = i
<1> DEFINE k == [i \in 1 .. n |-> (n + 1) - h[(n + 1) - i]]
<1>0. \A i \in 1 .. n : (n + 1) - i \in 1 .. n /\ h[(n + 1) - i] \in 1 .. n
  OBVIOUS
<1>1. k \in [1 .. n -> 1 .. n]
  BY <1>0
<1>2. \A i, j \in 1 .. n : i < j => k[i] < k[j]
  <2> SUFFICES ASSUME NEW i \in 1 .. n, NEW j \in 1 .. n, i < j PROVE k[i] < k[j]
    OBVIOUS
  <2>1. (n + 1) - j < (n + 1) - i
    OBVIOUS
  <2>2. h[(n + 1) - j] < h[(n + 1) - i]
    BY <1>0, <2>1
  <2> QED BY <1>0, <2>2
<1>3. \A i \in 1 .. n : h[i] >= i
  BY UpwardIsAbove
<1>4. \A i \in 1 .. n : k[i] >= i
  <2> HIDE DEF k
  <2> QED BY <1>1, <1>2, UpwardIsAbove
<1> TAKE i \in 1 .. n
<1>5. k[(n + 1) - i] >= (n + 1) - i /\ (n + 1) - ((n + 1) - i) = i
  BY <1>0, <1>4
<1>6. k[(n + 1) - i] = (n + 1) - h[i]
  BY <1>0, <1>5
<1>7. h[i] \in 1 .. n /\ h[i] >= i
  BY <1>3
<1> QED BY <1>5, <1>6, <1>7

\* The rows of a window, in the order of their places and then of the messages.
Row(p, t, i) == <<p[i], t[i]>>
Earlier(r, q) == r[1] < q[1] \/ (r[1] = q[1] /\ r[2] < q[2])
InOrder(s) == \A i, j \in DOMAIN s : i < j => Earlier(s[i], s[j])
SortedRows(rows) == CHOOSE s \in SetToSeqs(rows) : InOrder(s)

\* Rows with one message at each place are sorted into the messages' sequence.
LEMMA SortedIsSequence ==
    ASSUME NEW t \in Seq(Message),
           NEW p \in [1 .. Len(t) -> Nat], Ascending(p, Len(t)),
           NEW rows, rows = {Row(p, t, i) : i \in 1 .. Len(t)}
    PROVE  /\ LET s == SortedRows(rows) IN [i \in DOMAIN s |-> s[i][2]] = t
           /\ IsFiniteSet(rows) /\ Cardinality(rows) = Len(t)
<1> DEFINE n == Len(t)
           g == [i \in 1 .. n |-> Row(p, t, i)]
           s == SortedRows(rows)
<1>1. n \in Nat /\ DOMAIN t = 1 .. n /\ \A i \in 1 .. n : t[i] \in Message /\ t[i] \in Nat
  <2>1. \A i \in 1 .. n : t[i] \in Message
    BY ElementIn
  <2>2. \A m \in Message : m \in Nat
    BY MessageAssumption
  <2>3. n \in Nat /\ DOMAIN t = 1 .. n
    OBVIOUS
  <2> HIDE DEF s, g, n
  <2> QED BY <2>1, <2>2, <2>3
<1>0. /\ \A i \in 1 .. n : p[i] \in Nat
      /\ \A i, j \in 1 .. n : i < j => p[i] < p[j]
  BY DEF Ascending
<1> HIDE DEF n
<1>2. \A i \in 1 .. n :
          Row(p, t, i)[1] = p[i] /\ Row(p, t, i)[2] = t[i] /\ Row(p, t, i) \in rows
  BY DEF Row, n
<1>3. Cardinality(rows) = n /\ IsFiniteSet(rows)
  <2>1. \A i, j \in 1 .. n : g[i] = g[j] => i = j
    <3> SUFFICES ASSUME NEW i \in 1 .. n, NEW j \in 1 .. n, Row(p, t, i) = Row(p, t, j)
                 PROVE  i = j
      OBVIOUS
    <3>1. p[i] = p[j]
      BY <1>2
    <3>2. i < j \/ j < i \/ i = j
      BY <1>1
    <3>3. p[i] \in Nat /\ p[j] \in Nat
      BY <1>0
    <3> QED BY <1>0, <3>1, <3>2, <3>3
  <2>2. g \in [1 .. n -> rows]
    BY <1>2
  <2>3. \A r \in rows : \E i \in 1 .. n : g[i] = r
    BY DEF n
  <2> HIDE DEF g
  <2>4. g \in Bijection(1 .. n, rows)
    BY <2>1, <2>2, <2>3 DEF Bijection, Injection, Surjection, IsInjective
  <2>5. ExistsBijection(1 .. n, rows)
    BY <2>4 DEF ExistsBijection
  <2>6. IsFiniteSet(1 .. n) /\ Cardinality(1 .. n) = n
    BY <1>1, FS_Interval
  <2> QED BY <2>5, <2>6, FS_Bijection
<1>4. g \in SetToSeqs(rows) /\ InOrder(g)
  <2>1. g \in [1 .. n -> rows]
    BY <1>2
  <2>2. \A i, j \in 1 .. n : i < j => g[i][1] < g[j][1]
    <3> SUFFICES ASSUME NEW i \in 1 .. n, NEW j \in 1 .. n, i < j
                 PROVE  Row(p, t, i)[1] < Row(p, t, j)[1]
      OBVIOUS
    <3> QED BY <1>0, <1>2
  <2> HIDE DEF g
  <2>3. \A i, j \in 1 .. n : i # j => g[i] # g[j]
    <3> TAKE i, j \in 1 .. n
    <3>1. g[i][1] \in Nat /\ g[j][1] \in Nat
      <4>1. g[i] = Row(p, t, i) /\ g[j] = Row(p, t, j) /\ p[i] \in Nat /\ p[j] \in Nat
        BY <1>0 DEF g
      <4> QED BY <1>2, <4>1
    <3>2. i < j \/ j < i \/ i = j
      BY <1>1
    <3> QED BY <2>2, <3>1, <3>2
  <2>4. g \in SetToSeqs(rows)
    BY <1>3, <2>1, <2>3 DEF SetToSeqs
  <2> QED BY <2>1, <2>2, <2>4 DEF InOrder, Earlier
<1>5. s \in SetToSeqs(rows) /\ InOrder(s)
  <2> HIDE DEF g
  <2> QED BY <1>4 DEF SortedRows
<1> HIDE DEF s
<1>6. s \in [1 .. n -> rows] /\ DOMAIN s = 1 .. n
      /\ \A i, j \in 1 .. n : i < j => Earlier(s[i], s[j])
  BY <1>3, <1>5 DEF SetToSeqs, InOrder
<1>7. ASSUME NEW i \in 1 .. n
      PROVE  \E k \in 1 .. n : s[i] = Row(p, t, k)
  <2>1. s[i] \in rows
    BY <1>6
  <2> QED BY <2>1 DEF n
<1> DEFINE h == [i \in 1 .. n |-> CHOOSE k \in 1 .. n : s[i] = Row(p, t, k)]
<1>8. \A i \in 1 .. n : h[i] \in 1 .. n /\ s[i] = Row(p, t, h[i])
  <2> TAKE i \in 1 .. n
  <2>1. h[i] = CHOOSE k \in 1 .. n : s[i] = Row(p, t, k)
    OBVIOUS
  <2> HIDE DEF h
  <2> QED BY <1>7, <2>1
<1>9. \A i, j \in 1 .. n : i < j => h[i] < h[j]
  <2> SUFFICES ASSUME NEW i \in 1 .. n, NEW j \in 1 .. n, i < j PROVE h[i] < h[j]
    OBVIOUS
  <2> HIDE DEF h
  <2>1. h[i] \in 1 .. n /\ h[j] \in 1 .. n /\ s[i] = Row(p, t, h[i]) /\ s[j] = Row(p, t, h[j])
    BY <1>8
  <2>2. Earlier(s[i], s[j])
    BY <1>6
  <2>3. p[h[i]] < p[h[j]] \/ (p[h[i]] = p[h[j]] /\ t[h[i]] < t[h[j]])
    BY <1>2, <2>1, <2>2 DEF Earlier
  <2>4. h[i] < h[j] \/ h[i] = h[j] \/ h[j] < h[i]
    BY <1>1, <2>1
  <2>5. p[h[i]] \in Nat /\ p[h[j]] \in Nat /\ t[h[i]] \in Nat
    BY <1>0, <1>1, <2>1
  <2>6. h[i] # h[j]
    BY <2>3, <2>5
  <2>7. ~(h[j] < h[i])
    <3>1. h[j] < h[i] => p[h[j]] < p[h[i]]
      BY <1>0, <2>1
    <3> QED BY <2>3, <2>5, <3>1
  <2> QED BY <2>4, <2>6, <2>7
<1>10. \A i \in 1 .. n : h[i] = i
  <2>1. h \in [1 .. n -> 1 .. n]
    BY <1>8
  <2> HIDE DEF h
  <2> QED BY <1>1, <1>9, <2>1, UpwardIsIdentity
<1>11. \A i \in 1 .. n : s[i][2] = t[i]
  <2> HIDE DEF h
  <2> QED BY <1>2, <1>8, <1>10
<1>12. [i \in DOMAIN s |-> s[i][2]] = t
  <2>1. t = [i \in 1 .. n |-> t[i]]
    BY <1>1
  <2> HIDE DEF g, h
  <2> QED BY <1>6, <1>11, <2>1
<1> QED BY <1>3, <1>12 DEF s, n

\* In the ledger's order a window's messages are as the coverage has them, when the
\* ledger has one place for each row.
LEMMA LedgerWindowIs ==
    ASSUME coverage \in Coverage, events \in Log, Agree(coverage, events), PlacesKept,
           NEW i \in 1 .. Len(coverage.windows)
    PROVE  /\ LedgerWindow(coverage.windows[i].id) = coverage.windows[i].ids
           /\ Cardinality(LedgerRows(coverage.windows[i].id)) = Len(coverage.windows[i].ids)
<1> DEFINE ws == coverage.windows
           win == ws[i].id
           t == ws[i].ids
           rows == LedgerRows(win)
<1>1. /\ ws \in Seq(Window) /\ DOMAIN ws = 1 .. Len(ws)
      /\ t \in Seq(Message) /\ Len(t) \in Nat
  <2>1. ws \in Seq(Window) /\ DOMAIN ws = 1 .. Len(ws)
    BY DEF Coverage
  <2>2. t \in Seq(Message)
    <3> HIDE DEF ws
    <3> QED BY <2>1, WindowIds DEF ws
  <2> HIDE DEF t, ws, rows, win
  <2> QED BY <2>1, <2>2
<1>2. LoggedAs(events, win, t) /\ Cardinality(rows) = Len(t)
  BY <1>1 DEF Agree, PlacesKept
<1> HIDE DEF ws, win, t
<1>3. PICK p \in [1 .. Len(t) -> Nat] :
          Ascending(p, Len(t)) /\ \A k \in 1 .. Len(t) : Logged(events, win, p[k], t[k])
  BY <1>2 DEF LoggedAs
<1> DEFINE mine == {Row(p, t, k) : k \in 1 .. Len(t)}
<1>4. mine \subseteq rows
  <2> SUFFICES ASSUME NEW k \in 1 .. Len(t) PROVE Row(p, t, k) \in rows
    OBVIOUS
  <2>1. PICK e \in ToSet(events) : e.win = win /\ e.index = p[k] /\ e.msg = t[k]
    BY <1>3 DEF Logged
  <2> QED BY <2>1 DEF Row, LedgerRows
<1>5. /\ LET s == SortedRows(mine) IN [k \in DOMAIN s |-> s[k][2]] = t
      /\ IsFiniteSet(mine) /\ Cardinality(mine) = Len(t)
  BY <1>1, <1>3, SortedIsSequence
<1>6. IsFiniteSet(rows)
  <2>1. DOMAIN events = 1 .. Len(events) /\ Len(events) \in Nat
    BY DEF Log
  <2>2. IsFiniteSet(DOMAIN events)
    BY <2>1, FS_Interval
  <2> DEFINE pair == [k \in DOMAIN events |-> <<events[k].index, events[k].msg>>]
             all == {<<events[k].index, events[k].msg>> : k \in DOMAIN events}
  <2>3. pair \in Surjection(DOMAIN events, all)
    BY DEF Surjection
  <2>4. IsFiniteSet(all)
    <3> HIDE DEF pair, all
    <3> QED BY <2>2, <2>3, FS_Surjection
  <2>5. rows \subseteq all
    BY DEF LedgerRows, ToSet
  <2> HIDE DEF all, rows
  <2> QED BY <2>4, <2>5, FS_Subset
<1> HIDE DEF rows, mine
<1>7. rows = mine
  BY <1>2, <1>4, <1>5, <1>6, FS_Subset
<1>8. LedgerWindow(win) = LET s == SortedRows(rows) IN [k \in DOMAIN s |-> s[k][2]]
  BY DEF LedgerWindow, SortedRows, InOrder, Earlier, rows
<1> QED BY <1>2, <1>5, <1>7, <1>8 DEF ws, win, t, rows

\* So the neighbours are the same, and with them the order.
LEMMA SameEdges ==
    ASSUME coverage \in Coverage, events \in Log, Agree(coverage, events),
           PlacesKept
    PROVE  LedgerEdges = WindowEdges(coverage.windows)
<1> DEFINE ws == coverage.windows
<1>1. ws \in Seq(Window) /\ DOMAIN ws = 1 .. Len(ws)
  BY DEF Coverage
<1>2. \A i \in 1 .. Len(ws) : LedgerWindow(ws[i].id) = ws[i].ids /\ ws[i].ids \in Seq(Message)
  BY <1>1, LedgerWindowIs, WindowIds
<1>3. ASSUME NEW win \in LedgerWindows
      PROVE  \E i \in 1 .. Len(ws) : ws[i].id = win
  <2>1. PICK e \in ToSet(events) : e.win = win
    BY DEF LedgerWindows
  <2> QED BY <2>1 DEF Agree
<1>4. ASSUME NEW i \in 1 .. Len(ws), ws[i].id \notin LedgerWindows
      PROVE  Edges(ws[i].ids) = {}
  <2> DEFINE t == ws[i].ids
  <2>1. Len(t) = 0
    <3> SUFFICES ASSUME Len(t) # 0 PROVE FALSE
      OBVIOUS
    <3>1. 1 \in 1 .. Len(t)
      BY <1>2
    <3>2. LoggedAs(events, ws[i].id, t)
      BY DEF Agree
    <3>3. PICK e \in ToSet(events) : e.win = ws[i].id
      BY <3>1, <3>2 DEF LoggedAs, Logged
    <3> QED BY <1>4, <3>3 DEF LedgerWindows
  <2> HIDE DEF t
  <2>2. 1 .. Len(t) - 1 = {}
    BY <2>1
  <2> QED BY <2>2 DEF Edges, t
<1>5. ASSUME NEW e \in LedgerEdges PROVE e \in WindowEdges(ws)
  <2>1. PICK win \in LedgerWindows : e \in Edges(LedgerWindow(win))
    BY DEF LedgerEdges
  <2>2. PICK i \in 1 .. Len(ws) : ws[i].id = win
    BY <1>3
  <2> QED BY <1>1, <1>2, <2>1, <2>2 DEF WindowEdges
<1>6. ASSUME NEW e \in WindowEdges(ws) PROVE e \in LedgerEdges
  <2>1. PICK i \in 1 .. Len(ws) : e \in Edges(ws[i].ids)
    BY <1>1 DEF WindowEdges
  <2>2. ws[i].id \in LedgerWindows
    BY <1>4, <2>1
  <2> QED BY <1>2, <2>1, <2>2 DEF LedgerEdges
<1> QED BY <1>5, <1>6

\* While no merge has died, the coverage and the ledger, saved one after the other
\* and ordered on their own, have seen the messages in one order; and unless a window
\* was submitted again with its rows moved, they put the messages in the same order and
\* find the same contradictions, whatever windows were merged and merged again.
THEOREM OrdersAreOne == Spec => []OrdersAgree
<1>1. Init => Inv /\ Agreed
  BY InvInitially, AgreedInitially
<1>2. Inv /\ Agreed /\ [Next]_vars => (Inv /\ Agreed)'
  BY InvKept, AgreedKept
<1>3. Inv /\ Agreed => OrdersAgree
  <2> SUFFICES ASSUME Inv, Agreed, merge = Nothing, failures = 0
               PROVE  /\ FirstSeen(IdsOf(coverage.windows)) = LedgerFirstSeen
                      /\ PlacesKept =>
                            /\ OrderedIds(coverage.windows) = LedgerOrder
                            /\ OrderConflict(LedgerFirstSeen, LedgerEdges)
                                  <=> OrderConflict(FirstSeen(IdsOf(coverage.windows)),
                                                    WindowEdges(coverage.windows))
    BY DEF OrdersAgree
  <2>1. coverage \in Coverage /\ events \in Log /\ Agree(coverage, events)
    BY DEF Inv, TypeOK, Log, Agreed
  <2>2. PlacesKept => LedgerEdges = WindowEdges(coverage.windows)
    BY <2>1, SameEdges
  <2>3. LedgerFirstSeen = FirstSeen(IdsOf(coverage.windows))
    BY <2>1 DEF LedgerFirstSeen, Agree, Msgs
  <2> QED BY <2>2, <2>3 DEF OrderedIds, LedgerOrder
<1> QED BY <1>1, <1>2, <1>3, PTL DEF Spec

(***************************************************************************)
(* Placing messages one after the other                                    *)
(***************************************************************************)
LEMMA LeastIndex ==
    ASSUME NEW n \in Nat, NEW P, P \subseteq 1 .. n, P # {}
    PROVE  \E i \in P : \A j \in 1 .. i - 1 : j \notin P
<1> SUFFICES ASSUME \A i \in P : \E j \in 1 .. i - 1 : j \in P PROVE FALSE
  OBVIOUS
<1> DEFINE G == {k \in 0 .. n : \A j \in 1 .. k : j \notin P}
<1>1. 0 \in G
  OBVIOUS
<1>2. ASSUME NEW k \in G, k < n PROVE k + 1 \in G
  <2>1. k \in Nat /\ k + 1 \in 0 .. n /\ (k + 1) - 1 = k /\ \A j \in 1 .. k : j \notin P
    BY <1>2
  <2>2. k + 1 \notin P
    BY <2>1
  <2>3. \A j : j \in 1 .. k + 1 <=> j \in 1 .. k \/ j = k + 1
    BY <2>1
  <2> QED BY <2>1, <2>2, <2>3
<1>3. n \in G
  <2>1. G \subseteq 0 .. n
    OBVIOUS
  <2> HIDE DEF G
  <2> QED BY <1>1, <1>2, <2>1, ReachesTop
<1> QED BY <1>3

\* As many elements as places.
LEMMA InjectiveCount ==
    ASSUME NEW M, NEW s \in Seq(M), IsInjective(s)
    PROVE  IsFiniteSet(ToSet(s)) /\ Cardinality(ToSet(s)) = Len(s)
<1>1. DOMAIN s = 1 .. Len(s) /\ Len(s) \in Nat /\ s \in [1 .. Len(s) -> ToSet(s)]
  BY DEF ToSet
<1>2. s \in Bijection(1 .. Len(s), ToSet(s))
  BY <1>1 DEF Bijection, Injection, Surjection, ToSet
<1>3. ExistsBijection(1 .. Len(s), ToSet(s))
  BY <1>2 DEF ExistsBijection
<1>4. IsFiniteSet(1 .. Len(s)) /\ Cardinality(1 .. Len(s)) = Len(s)
  BY <1>1, FS_Interval
<1> QED BY <1>3, <1>4, FS_Bijection

\* Each element of a sequence without repetitions has one position.
LEMMA PositionIs ==
    ASSUME NEW s, IsInjective(s), NEW i \in DOMAIN s
    PROVE  Position(s, s[i]) = i
<1>1. Position(s, s[i]) \in DOMAIN s /\ s[Position(s, s[i])] = s[i]
  BY DEF Position
<1> QED BY <1>1 DEF IsInjective

\* An arrangement of a finite set has each of its elements.
LEMMA Arranged ==
    ASSUME NEW S, IsFiniteSet(S), NEW t \in SetToSeqs(S)
    PROVE  /\ IsInjective(t) /\ DOMAIN t = 1 .. Cardinality(S) /\ Cardinality(S) \in Nat
           /\ \A m \in S : \E i \in DOMAIN t : t[i] = m
<1> DEFINE n == Cardinality(S)
<1>1. n \in Nat
  BY FS_CardinalityType
<1>2. t \in [1 .. n -> S] /\ \A i, j \in 1 .. n : i # j => t[i] # t[j]
  BY DEF SetToSeqs
<1> HIDE DEF n
<1>3. t \in Seq(S) /\ Len(t) = n /\ IsInjective(t)
  BY <1>1, <1>2 DEF IsInjective
<1>4. Cardinality(ToSet(t)) = n
  BY <1>3, InjectiveCount
<1>5. ToSet(t) \in SUBSET S
  BY <1>2 DEF ToSet
<1>6. ToSet(t) = S
  BY <1>4, <1>5, FS_Subset DEF n
<1> QED BY <1>1, <1>2, <1>3, <1>6 DEF ToSet, n

PlaceStep(f, edges, done) ==
    LET ready == TakeReady(f, edges, done)
    IN IF ready = {} THEN done
       ELSE Append(done, f[CHOOSE i \in DOMAIN f :
                /\ f[i] \in ready
                /\ \A j \in 1 .. i - 1 : f[j] \notin ready])

\* A step of the sorting places a message that is ready, or does nothing.
LEMMA Places ==
    ASSUME NEW M, NEW f \in Seq(M), NEW edges, NEW done \in Seq(M)
    PROVE  /\ TakeReady(f, edges, done) = {} => PlaceStep(f, edges, done) = done
           /\ TakeReady(f, edges, done) # {} =>
                  \E m \in TakeReady(f, edges, done) : PlaceStep(f, edges, done) = Append(done, m)
           /\ PlaceStep(f, edges, done) \in Seq(M)
           /\ TakeReady(f, edges, done) \subseteq M
<1> DEFINE ready == TakeReady(f, edges, done)
           First(i) == f[i] \in ready /\ \A j \in 1 .. i - 1 : f[j] \notin ready
           place == CHOOSE i \in DOMAIN f : First(i)
<1>1. ready \subseteq ToSet(f) /\ ToSet(f) \subseteq M
  BY DEF TakeReady, ToSet
<1>2. PlaceStep(f, edges, done) = IF ready = {} THEN done ELSE Append(done, f[place])
  BY DEF PlaceStep
<1>3. ASSUME ready # {} PROVE f[place] \in ready
  <2> DEFINE P == {i \in 1 .. Len(f) : f[i] \in ready}
  <2>1. P # {} /\ P \subseteq 1 .. Len(f) /\ Len(f) \in Nat /\ DOMAIN f = 1 .. Len(f)
    BY <1>1, <1>3 DEF ToSet
  <2> HIDE DEF ready
  <2>2. PICK i \in P : \A j \in 1 .. i - 1 : j \notin P
    <3> HIDE DEF P
    <3> QED BY <2>1, LeastIndex
  <2>3. \A j \in 1 .. i - 1 : j \in 1 .. Len(f)
    BY <2>1
  <2>4. First(i) /\ i \in DOMAIN f
    BY <2>1, <2>2, <2>3
  <2>5. First(place)
    <3> HIDE DEF First
    <3> QED BY <2>4
  <2> HIDE DEF place
  <2> QED BY <2>5
<1> HIDE DEF ready, place
<1> QED BY <1>1, <1>2, <1>3 DEF ready

\* What is placed after each step: Sorted is the last of a run.
PlacesInTurn(f, edges, a) ==
    a[0] = <<>> /\ \A i \in 1 .. Len(f) : a[i] = PlaceStep(f, edges, a[i - 1])

\* The sorted order is where the steps of the sorting end.
LEMMA SortedIsRun ==
    ASSUME NEW M, NEW f \in Seq(M), NEW edges
    PROVE  \E a \in [0 .. Len(f) -> Seq(M)] :
               PlacesInTurn(f, edges, a) /\ Sorted(f, edges) = a[Len(f)]
<1> DEFINE n == Len(f)
           step == [i \in 1 .. n |-> [q \in Seq(M) |-> PlaceStep(f, edges, q)]]
           Solves(a) == a = [i \in 0 .. n |->
                                IF i = 0 THEN <<>> ELSE PlaceStep(f, edges, a[i - 1])]
           chosen == CHOOSE a : Solves(a)
<1>0. n \in Nat /\ <<>> \in Seq(M)
  OBVIOUS
<1>1. step \in [1 .. n -> [Seq(M) -> Seq(M)]]
  BY Places
<1>2. PICK a : IsRun(a, n, Seq(M), <<>>, step)
  <2> HIDE DEF step, n
  <2> QED BY <1>0, <1>1, RunExists
<1>3. Solves(a)
  <2>1. a \in [0 .. n -> Seq(M)] /\ a[0] = <<>>
    BY <1>2 DEF IsRun
  <2>2. ASSUME NEW i \in 1 .. n PROVE a[i] = PlaceStep(f, edges, a[i - 1])
    <3>1. a[i] = step[i][a[i - 1]]
      <4> HIDE DEF step, n
      <4> QED BY <1>2 DEF IsRun
    <3>2. a[i - 1] \in Seq(M)
      BY <2>1
    <3> QED BY <3>1, <3>2
  <2>3. ASSUME NEW i \in 0 .. n
        PROVE  a[i] = IF i = 0 THEN <<>> ELSE PlaceStep(f, edges, a[i - 1])
    <3>1. i = 0 \/ i \in 1 .. n
      OBVIOUS
    <3> QED BY <2>1, <2>2, <3>1
  <2>4. a = [i \in 0 .. n |-> a[i]]
    BY <2>1
  <2> HIDE DEF n
  <2> QED BY <2>3, <2>4
<1>4. Solves(chosen)
  <2> HIDE DEF Solves
  <2> QED BY <1>3
<1>5. /\ chosen = [i \in 0 .. n |-> chosen[i]] /\ chosen[0] = <<>>
      /\ \A i \in 1 .. n : chosen[i] = PlaceStep(f, edges, chosen[i - 1])
  <2> HIDE DEF chosen
  <2>1. chosen = [i \in 0 .. n |-> chosen[i]] /\ chosen[0] = <<>>
    BY <1>4
  <2>2. \A i \in 1 .. n : i \in 0 .. n /\ i # 0
    OBVIOUS
  <2> HIDE DEF n
  <2> QED BY <1>4, <2>1, <2>2
<1>6. IsRun(chosen, n, Seq(M), <<>>, step)
  <2>1. \A i \in 1 .. n : chosen[i - 1] \in Seq(M) => chosen[i] = step[i][chosen[i - 1]]
    <3> HIDE DEF chosen
    <3> QED BY <1>5
  <2> HIDE DEF chosen, step, n
  <2> QED BY <1>0, <1>1, <1>5, <2>1, SolvedIsRun
<1>7. Sorted(f, edges) = chosen[n]
  BY DEF Sorted, PlaceStep
<1> HIDE DEF chosen
<1> QED BY <1>5, <1>6, <1>7 DEF IsRun, PlacesInTurn

\* What is placed is in an order that every edge agrees with.
Ordered(s, edges) ==
    \A e \in edges : e[2] \in ToSet(s) =>
        \E i, j \in 1 .. Len(s) : i < j /\ s[i] = e[1] /\ s[j] = e[2]

\* While an arrangement agrees with the edges, something more can be placed.
LEMMA SomeReady ==
    ASSUME NEW S, IsFiniteSet(S), NEW t \in SetToSeqs(S), NEW f, ToSet(f) = S,
           NEW edges, \A e \in edges : e[1] \in S /\ e[2] \in S,
           \A e \in edges : Position(t, e[1]) < Position(t, e[2]),
           NEW done, S \ ToSet(done) # {}
    PROVE  TakeReady(f, edges, done) # {}
<1> DEFINE n == Cardinality(S)
           rest == S \ ToSet(done)
           P == {i \in 1 .. n : t[i] \in rest}
<1>1. IsInjective(t) /\ DOMAIN t = 1 .. n /\ n \in Nat
      /\ \A m \in S : \E i \in DOMAIN t : t[i] = m
  BY Arranged
<1> HIDE DEF n
<1>2. P # {} /\ P \subseteq 1 .. n
  BY <1>1
<1>3. PICK i \in P : \A j \in 1 .. i - 1 : j \notin P
  <2> HIDE DEF P
  <2> QED BY <1>1, <1>2, LeastIndex
<1>4. \A e \in edges : e[2] = t[i] => e[1] \in ToSet(done)
  <2> SUFFICES ASSUME NEW e \in edges, e[2] = t[i], e[1] \notin ToSet(done) PROVE FALSE
    OBVIOUS
  <2>1. PICK k \in 1 .. n : t[k] = e[1]
    BY <1>1
  <2>2. Position(t, e[1]) = k /\ Position(t, e[2]) = i
    BY <1>1, <2>1, PositionIs
  <2>3. k < i /\ k \in P
    BY <2>1, <2>2
  <2> QED BY <1>1, <1>3, <2>3
<1>5. t[i] \in TakeReady(f, edges, done)
  BY <1>4 DEF TakeReady
<1> QED BY <1>5

\* If there is an arrangement that agrees with the edges, placing one ready message
\* after the other places all, in an order that agrees with them.
LEMMA SortedFinds ==
    ASSUME NEW M, NEW f \in Seq(M), IsInjective(f), NEW t \in SetToSeqs(ToSet(f)),
           NEW edges, \A e \in edges : e[1] \in ToSet(f) /\ e[2] \in ToSet(f),
           \A e \in edges : Position(t, e[1]) < Position(t, e[2])
    PROVE  /\ Len(Sorted(f, edges)) = Len(f)
           /\ \A e \in edges :
                  Position(Sorted(f, edges), e[1]) < Position(Sorted(f, edges), e[2])
<1> DEFINE n == Len(f)
           S == ToSet(f)
           Good(k, s) == /\ Len(s) = k /\ ToSet(s) \subseteq S /\ IsInjective(s)
                         /\ Ordered(s, edges)
<1>1. PICK a \in [0 .. n -> Seq(M)] :
          /\ a[0] = <<>> /\ \A i \in 1 .. n : a[i] = PlaceStep(f, edges, a[i - 1])
          /\ Sorted(f, edges) = a[n]
  <2>1. PICK a \in [0 .. n -> Seq(M)] :
            PlacesInTurn(f, edges, a) /\ Sorted(f, edges) = a[n]
    BY SortedIsRun
  <2>2. a[0] = <<>> /\ \A i \in 1 .. n : a[i] = PlaceStep(f, edges, a[i - 1])
    BY <2>1 DEF PlacesInTurn
  <2> QED BY <2>1, <2>2
<1>2. n \in Nat /\ IsFiniteSet(S) /\ Cardinality(S) = n /\ S \subseteq M
  BY InjectiveCount DEF ToSet
<1> HIDE DEF n, S
<1> DEFINE G == {k \in 0 .. n : Good(k, a[k])}
<1>3. 0 \in G
  <2>1. Good(0, <<>>)
    BY DEF ToSet, IsInjective, Ordered
  <2> QED BY <1>1, <1>2, <2>1
<1>4. ASSUME NEW k \in G, k < n PROVE k + 1 \in G
  <2>1. /\ k + 1 \in 1 .. n /\ (k + 1) - 1 = k /\ k + 1 \in 0 .. n /\ k \in Nat
        /\ a[k] \in Seq(M) /\ Good(k, a[k])
    BY <1>2, <1>4
  <2> DEFINE done == a[k]
             next == a[k + 1]
  <2>2. next = PlaceStep(f, edges, done) /\ done \in Seq(M) /\ Good(k, done)
    BY <1>1, <2>1
  <2> HIDE DEF done, next
  <2>3. S \ ToSet(done) # {}
    <3>1. Cardinality(ToSet(done)) = k
      BY <2>2, InjectiveCount
    <3>2. ToSet(done) # S
      BY <1>2, <1>4, <2>1, <3>1
    <3> QED BY <2>2, <3>2
  <2>4. TakeReady(f, edges, done) # {}
    BY <1>2, <2>3, SomeReady DEF S
  <2>5. PICK m \in TakeReady(f, edges, done) : next = Append(done, m)
    BY <2>2, <2>4, Places
  <2>6. m \in S \ ToSet(done) /\ m \in M /\ \A e \in edges : e[2] = m => e[1] \in ToSet(done)
    BY <1>2, <2>5 DEF TakeReady, S
  <2>7. /\ Len(next) = k + 1 /\ next[k + 1] = m /\ \A i \in 1 .. k : next[i] = done[i]
        /\ DOMAIN next = 1 .. k + 1 /\ DOMAIN done = 1 .. k /\ Len(done) = k
        /\ \A i : i \in 1 .. k + 1 <=> i \in 1 .. k \/ i = k + 1
    BY <2>1, <2>2, <2>5, <2>6
  <2>8. ToSet(next) = ToSet(done) \cup {m}
    BY <2>7 DEF ToSet
  <2>9. IsInjective(next)
    BY <2>2, <2>6, <2>7 DEF IsInjective, ToSet
  <2>10. Ordered(next, edges)
    <3> SUFFICES ASSUME NEW e \in edges, e[2] \in ToSet(next)
                 PROVE  \E i, j \in 1 .. k + 1 : i < j /\ next[i] = e[1] /\ next[j] = e[2]
      BY <2>7 DEF Ordered
    <3>1. CASE e[2] \in ToSet(done)
      <4>1. PICK i \in 1 .. k, j \in 1 .. k : i < j /\ done[i] = e[1] /\ done[j] = e[2]
        BY <2>2, <2>7, <3>1 DEF Ordered
      <4> QED BY <2>7, <4>1
    <3>2. CASE e[2] = m
      <4>1. PICK i \in 1 .. k : done[i] = e[1]
        BY <2>6, <2>7, <3>2 DEF ToSet
      <4>2. i < k + 1 /\ i \in 1 .. k + 1 /\ k + 1 \in 1 .. k + 1
        BY <2>1
      <4> QED BY <2>7, <3>2, <4>1, <4>2
    <3> QED BY <2>8, <3>1, <3>2
  <2>11. Good(k + 1, next)
    BY <2>2, <2>6, <2>7, <2>8, <2>9, <2>10
  <2> QED BY <2>1, <2>11 DEF next
<1>5. n \in G
  <2>1. G \subseteq 0 .. n
    OBVIOUS
  <2> HIDE DEF G
  <2> QED BY <1>2, <1>3, <1>4, <2>1, ReachesTop
<1> DEFINE s == a[n]
<1>6. Good(n, s) /\ s \in Seq(M)
  BY <1>2, <1>5
<1> HIDE DEF s
<1>7. ToSet(s) = S
  <2>1. Cardinality(ToSet(s)) = n
    BY <1>6, InjectiveCount
  <2>2. ToSet(s) \in SUBSET S
    BY <1>6
  <2> QED BY <1>2, <2>1, <2>2, FS_Subset
<1>8. ASSUME NEW e \in edges PROVE Position(s, e[1]) < Position(s, e[2])
  <2>1. PICK i \in 1 .. Len(s), j \in 1 .. Len(s) : i < j /\ s[i] = e[1] /\ s[j] = e[2]
    BY <1>6, <1>7 DEF Ordered, S
  <2>2. DOMAIN s = 1 .. Len(s)
    BY <1>6
  <2>3. Position(s, e[1]) = i /\ Position(s, e[2]) = j
    BY <1>6, <2>1, <2>2, PositionIs
  <2> QED BY <2>1, <2>3
<1> QED BY <1>1, <1>6, <1>8 DEF s, n

(***************************************************************************)
(* The known messages are those the windows show                           *)
(***************************************************************************)
KnownShown(c) ==
    \A m \in Message : c.versions[m] # {} <=> \E i \in 1 .. Len(c.windows) :
                                                  m \in ToSet(c.windows[i].ids)

\* After a window is merged, just what windows show has a version.
LEMMA MergeKnows ==
    ASSUME NEW c \in Coverage, NEW obs \in Observation, KnownShown(c)
    PROVE  KnownShown(MergeCaptureWindow(c, obs))
<1> DEFINE ws == c.windows
           d == MergeCaptureWindow(c, obs)
<1>1. ws \in Seq(Window) /\ Len(ws) \in Nat
  BY DEF Coverage
<1>2. CASE WindowOf(c, obs) # {}
  <2>1. d = [c EXCEPT !.invalid = @ + obs.invalid]
    BY <1>2 DEF MergeCaptureWindow
  <2>2. d.windows = ws /\ d.versions = c.versions
    BY <2>1 DEF Coverage
  <2> HIDE DEF d
  <2> QED BY <2>2 DEF KnownShown, d
<1>3. CASE WindowOf(c, obs) = {}
  <2>1. d = AddWindow(c, obs)
    BY <1>3 DEF MergeCaptureWindow
  <2> HIDE DEF d
  <2>2. PICK w \in Window : /\ d.windows = Append(ws, w) /\ w.ids = RowIds(obs)
                            /\ d.versions = [m \in Message |-> c.versions[m] \cup Shows(obs, m)]
    BY <2>1, AddWindowAdds
  <2> HIDE DEF ws
  <2>3. /\ Len(d.windows) = Len(ws) + 1 /\ d.windows[Len(ws) + 1] = w
        /\ \A i \in 1 .. Len(ws) : d.windows[i] = ws[i]
        /\ \A i : i \in 1 .. Len(ws) + 1 <=> i \in 1 .. Len(ws) \/ i = Len(ws) + 1
    BY <1>1, <2>2
  <2>4. \A m \in Message : Shows(obs, m) # {} <=> m \in ToSet(RowIds(obs))
    <3> TAKE m \in Message
    <3>1. DOMAIN obs.rows = 1 .. Len(obs.rows) /\ DOMAIN RowIds(obs) = 1 .. Len(obs.rows)
          /\ \A i \in 1 .. Len(obs.rows) : RowIds(obs)[i] = obs.rows[i].msg
      BY RowIdsTyped, SubmittedTyped
    <3>2. Shows(obs, m) # {} <=> \E i \in 1 .. Len(obs.rows) : obs.rows[i].msg = m
      BY <3>1 DEF Shows
    <3>3. m \in ToSet(RowIds(obs)) <=> \E i \in 1 .. Len(obs.rows) : obs.rows[i].msg = m
      BY <3>1 DEF ToSet
    <3> QED BY <3>2, <3>3
  <2>5. \A m \in Message : d.versions[m] # {} <=> \E i \in 1 .. Len(d.windows) :
                                                      m \in ToSet(d.windows[i].ids)
    <3> TAKE m \in Message
    <3>1. d.versions[m] = c.versions[m] \cup Shows(obs, m)
      BY <2>2
    <3>2. (\E i \in 1 .. Len(d.windows) : m \in ToSet(d.windows[i].ids))
            <=> \/ \E i \in 1 .. Len(ws) : m \in ToSet(ws[i].ids)
                \/ m \in ToSet(RowIds(obs))
      BY <2>2, <2>3
    <3>3. c.versions[m] # {} <=> \E i \in 1 .. Len(ws) : m \in ToSet(ws[i].ids)
      BY DEF KnownShown, ws
    <3> QED BY <2>4, <3>1, <3>2, <3>3
  <2> QED BY <2>5 DEF KnownShown, d
<1> QED BY <1>2, <1>3

\* After a batch is merged, just what windows show has a version.
LEMMA MergedKnows ==
    ASSUME coverage \in Coverage, events \in Log, NEW sequence \in Seq(Observation),
           KnownShown(coverage)
    PROVE  KnownShown(Merged(sequence).coverage)
<1> DEFINE n == Len(sequence)
<1>0. n \in Nat
  OBVIOUS
<1>1. PICK a \in [0 .. n -> MergeState] :
          /\ a[0] = [ok |-> TRUE, coverage |-> coverage, events |-> events]
          /\ \A i \in 1 .. n : a[i] = MergeStep(a[i - 1], sequence[i])
          /\ Merged(sequence) = a[n]
  BY MergedIsRun
<1> DEFINE G == {j \in 0 .. n : KnownShown(a[j].coverage)}
<1>3. 0 \in G
  <2>1. a[0].coverage = coverage
    BY <1>1
  <2> QED BY <1>0, <2>1
<1>4. ASSUME NEW j \in G, j < n
      PROVE  j + 1 \in G
  <2>1. j + 1 \in 1 .. n /\ j + 1 \in 0 .. n /\ (j + 1) - 1 = j /\ a[j] \in MergeState
    BY <1>0, <1>4
  <2>2. a[j + 1] = MergeStep(a[j], sequence[j + 1]) /\ sequence[j + 1] \in Observation
    BY <1>1, <2>1, ElementIn
  <2>3. a[j].coverage \in Coverage /\ KnownShown(a[j].coverage)
    BY <2>1 DEF MergeState
  <2>4. a[j + 1].coverage = MergeCaptureWindow(a[j].coverage, sequence[j + 1])
    BY <2>2 DEF MergeStep
  <2>5. KnownShown(a[j + 1].coverage)
    BY <2>2, <2>3, <2>4, MergeKnows
  <2> QED BY <2>1, <2>5
<1>5. n \in G
  <2>1. G \subseteq 0 .. n
    OBVIOUS
  <2> HIDE DEF G
  <2> QED BY <1>0, <1>3, <1>4, <2>1, ReachesTop
<1> QED BY <1>0, <1>1, <1>5

KnownAll == KnownShown(coverage) /\ (merge # Nothing => KnownShown(merge.coverage))

\* Nothing is shown at first.
LEMMA KnownInitially == Init => KnownAll
BY DEF Init, NewCoverage, KnownAll, KnownShown

\* Every step keeps it that just what windows show has a version.
LEMMA KnownKept == Inv /\ KnownAll /\ [Next]_vars => KnownAll'
<1> SUFFICES ASSUME Inv, KnownAll, [Next]_vars PROVE KnownAll'
  OBVIOUS
<1>1. coverage \in Coverage /\ events \in Log
  BY DEF Inv, TypeOK, Log
<1>2. ASSUME NEW sequence \in Seq(Observation), BeginMerge(sequence)
      PROVE  KnownAll'
  <2>1. coverage' = coverage /\ merge'.coverage = Merged(sequence).coverage
    BY <1>2 DEF BeginMerge
  <2>2. KnownShown(Merged(sequence).coverage)
    BY <1>1, MergedKnows DEF KnownAll
  <2> QED BY <2>1, <2>2 DEF KnownAll
<1>3. CASE MergeWindow
  <2>1. PICK obs \in Observation : BeginMerge(<<obs>>)
    BY <1>3 DEF MergeWindow
  <2>2. <<obs>> \in Seq(Observation)
    OBVIOUS
  <2> QED BY <1>2, <2>1, <2>2
<1>4. CASE MergeCacheFirst
  BY <1>2, <1>4, CacheFirstTyped DEF MergeCacheFirst
<1>5. CASE SaveCoverage
  BY <1>5 DEF SaveCoverage, KnownAll
<1>6. CASE coverage' = coverage /\ merge' \in {merge, Nothing}
  BY <1>6 DEF KnownAll
<1>7. \/ MergeWindow \/ MergeCacheFirst \/ SaveCoverage
      \/ coverage' = coverage /\ merge' \in {merge, Nothing}
  BY DEF Next, vars, SaveLedger, MergeDies, Reconcile, AdvanceCheckpoint, ReadReceipt,
         ReadCheckpoint, ReadLedger, ReadCoverage
<1> QED BY <1>3, <1>4, <1>5, <1>6, <1>7

\* Whenever the messages of the windows can be arranged so that each window's
\* neighbours keep their order, the order that is computed is such a one.
THEOREM OrdersAreFound == Spec => []OrderIsFound
<1>1. Init => Inv /\ KnownAll
  BY InvInitially, KnownInitially
<1>2. Inv /\ KnownAll /\ [Next]_vars => (Inv /\ KnownAll)'
  BY InvKept, KnownKept
<1>3. Inv /\ KnownAll => OrderIsFound
  <2> DEFINE ws == coverage.windows
             f == FirstSeen(IdsOf(ws))
             edges == WindowEdges(ws)
  <2> SUFFICES ASSUME Inv, KnownAll, NEW t \in SetToSeqs(Known(coverage)),
                      \A e \in edges : Position(t, e[1]) < Position(t, e[2])
               PROVE  \A e \in edges :
                          Position(OrderedIds(ws), e[1]) < Position(OrderedIds(ws), e[2])
    BY DEF OrderIsFound
  <2>1. ws \in Seq(Window) /\ DOMAIN ws = 1 .. Len(ws)
    BY DEF Inv, TypeOK, Coverage
  <2>2. IdsOf(ws) \in Seq(Message)
    <3>1. PICK a \in [0 .. Len(ws) -> Seq(Message)] : IdsOf(ws) = a[Len(ws)]
      BY <2>1, IdsOfIsRun
    <3> QED BY <2>1, <3>1
  <2>3. f \in Seq(Message) /\ ToSet(f) = ToSet(IdsOf(ws)) /\ IsInjective(f)
    BY <2>2, FirstSeenSees
  <2>4. \A m : m \in ToSet(f) <=> \E i \in 1 .. Len(ws) : m \in ToSet(ws[i].ids)
    BY <2>1, <2>3, IdsOfShows
  <2>5. ToSet(f) \subseteq Message
    BY <2>3 DEF ToSet
  <2> HIDE DEF f
  <2>6. Known(coverage) = ToSet(f)
    BY <2>4, <2>5 DEF Known, KnownAll, KnownShown
  <2>7. \A e \in edges : e[1] \in ToSet(f) /\ e[2] \in ToSet(f)
    <3> TAKE e \in edges
    <3>1. PICK i \in 1 .. Len(ws) : e \in Edges(ws[i].ids)
      BY <2>1 DEF WindowEdges
    <3> DEFINE s == ws[i].ids
    <3>2. s \in Seq(Message)
      BY <2>1, WindowIds
    <3>3. PICK k \in 1 .. Len(s) - 1 : e = <<s[k], s[k + 1]>>
      BY <3>1 DEF Edges
    <3> HIDE DEF s
    <3>4. k \in DOMAIN s /\ k + 1 \in DOMAIN s
      BY <3>2
    <3>5. e[1] \in ToSet(s) /\ e[2] \in ToSet(s)
      BY <3>3, <3>4 DEF ToSet
    <3> QED BY <2>4, <3>5 DEF s
  <2> HIDE DEF edges
  <2>8. /\ Len(Sorted(f, edges)) = Len(f)
        /\ \A e \in edges :
               Position(Sorted(f, edges), e[1]) < Position(Sorted(f, edges), e[2])
    BY <2>3, <2>6, <2>7, SortedFinds
  <2>9. OrderedIds(ws) = Sorted(f, edges)
    BY <2>8 DEF OrderedIds, Ordering, OrderConflict, f, edges
  <2> QED BY <2>8, <2>9
<1> QED BY <1>1, <1>2, <1>3, PTL DEF Spec

(***************************************************************************)
(* Components                                                              *)
(***************************************************************************)
ShownBy(ws, T) == UNION {ToSet(ws[j].ids) : j \in T}

\* The windows that overlap some of those in T.
Overlapping(ws, T) == {j \in Shown(ws) : ToSet(ws[j].ids) \cap ShownBy(ws, T) # {}}

\* Taking overlapping windows in loses none.
LEMMA OverlappingGrows ==
    ASSUME NEW ws \in Seq(Window), NEW T, T \subseteq Shown(ws)
    PROVE  T \subseteq Overlapping(ws, T) /\ Overlapping(ws, T) \subseteq Shown(ws)
<1> SUFFICES ASSUME NEW j \in T
             PROVE  j \in Shown(ws) /\ ToSet(ws[j].ids) \cap ShownBy(ws, T) # {}
  BY DEF Overlapping
<1>1. j \in Shown(ws) /\ j \in 1 .. Len(ws) /\ ws[j].ids # <<>>
  BY DEF Shown
<1>2. ws[j].ids \in Seq(Message)
  BY <1>1, WindowIds
<1>3. ToSet(ws[j].ids) # {}
  <2> DEFINE s == ws[j].ids
  <2> HIDE DEF s
  <2>1. s \in Seq(Message) /\ s # <<>>
    BY <1>1, <1>2 DEF s
  <2>2. 1 \in DOMAIN s
    BY <2>1
  <2>3. s[1] \in ToSet(s)
    BY <2>2 DEF ToSet
  <2> QED BY <2>3 DEF s
<1> QED BY <1>1, <1>3 DEF ShownBy

\* More windows are overlapped by no fewer.
LEMMA OverlappingMonotone ==
    ASSUME NEW ws, NEW T, NEW U, T \subseteq U
    PROVE  Overlapping(ws, T) \subseteq Overlapping(ws, U)
<1>1. ShownBy(ws, T) \subseteq ShownBy(ws, U)
  BY DEF ShownBy
<1> QED BY <1>1 DEF Overlapping

\* What a component takes in, round after round.
TakesIn(ws, i, a) ==
    a[0] = {i} /\ \A n \in 1 .. Len(ws) : a[n] = Overlapping(ws, a[n - 1])

\* A component is where the steps of taking windows in end.
LEMMA FrontierIsRun ==
    ASSUME NEW ws \in Seq(Window), NEW i \in Shown(ws)
    PROVE  \E a \in [0 .. Len(ws) -> SUBSET Shown(ws)] :
               TakesIn(ws, i, a) /\ Frontier(ws, i) = a[Len(ws)]
<1> DEFINE n == Len(ws)
           S == SUBSET Shown(ws)
           step == [k \in 1 .. n |-> [T \in S |-> Overlapping(ws, T)]]
           Solves(a) == a = [k \in 0 .. n |->
               IF k = 0 THEN {i}
               ELSE LET ids == UNION {ToSet(ws[j].ids) : j \in a[k - 1]}
                    IN {j \in Shown(ws) : ToSet(ws[j].ids) \cap ids # {}}]
           chosen == CHOOSE a : Solves(a)
<1>0. n \in Nat /\ {i} \in S
  OBVIOUS
<1>1. step \in [1 .. n -> [S -> S]]
  BY OverlappingGrows
<1>2. PICK a : IsRun(a, n, S, {i}, step)
  <2> HIDE DEF step, n, S
  <2> QED BY <1>0, <1>1, RunExists
<1>3. Solves(a)
  <2>1. a \in [0 .. n -> S] /\ a[0] = {i}
    BY <1>2 DEF IsRun
  <2>2. ASSUME NEW k \in 1 .. n PROVE a[k] = Overlapping(ws, a[k - 1])
    <3>1. a[k] = step[k][a[k - 1]]
      <4> HIDE DEF step, n, S
      <4> QED BY <1>2 DEF IsRun
    <3>2. k - 1 \in 0 .. n
      OBVIOUS
    <3>3. a[k - 1] \in S
      <4> HIDE DEF S, n
      <4> QED BY <2>1, <3>2
    <3> HIDE DEF S, n
    <3> QED BY <3>1, <3>3
  <2>3. ASSUME NEW k \in 0 .. n
        PROVE  a[k] = IF k = 0 THEN {i}
                      ELSE LET ids == UNION {ToSet(ws[j].ids) : j \in a[k - 1]}
                           IN {j \in Shown(ws) : ToSet(ws[j].ids) \cap ids # {}}
    <3>1. k = 0 \/ k \in 1 .. n
      OBVIOUS
    <3> HIDE DEF n
    <3> QED BY <2>1, <2>2, <3>1 DEF Overlapping, ShownBy
  <2>4. a = [k \in 0 .. n |-> a[k]]
    BY <2>1
  <2> HIDE DEF n
  <2> QED BY <2>3, <2>4
<1>4. Solves(chosen)
  <2> HIDE DEF Solves
  <2> QED BY <1>3
<1>5. /\ chosen = [k \in 0 .. n |-> chosen[k]] /\ chosen[0] = {i}
      /\ \A k \in 1 .. n : chosen[k] = Overlapping(ws, chosen[k - 1])
  <2> HIDE DEF chosen
  <2>1. chosen = [k \in 0 .. n |-> chosen[k]]
    BY <1>4
  <2>2. 0 \in 0 .. n /\ \A k \in 1 .. n : k \in 0 .. n /\ k # 0
    BY <1>0
  <2> HIDE DEF n
  <2>3. chosen[0] = {i}
    BY <1>4, <2>2
  <2>4. \A k \in 1 .. n : chosen[k] = Overlapping(ws, chosen[k - 1])
    BY <1>4, <2>2 DEF Overlapping, ShownBy
  <2> QED BY <2>1, <2>3, <2>4
<1>6. IsRun(chosen, n, S, {i}, step)
  <2>1. \A k \in 1 .. n : chosen[k - 1] \in S => chosen[k] = step[k][chosen[k - 1]]
    <3> HIDE DEF chosen, S, n
    <3> QED BY <1>5
  <2> HIDE DEF chosen, step, n, S
  <2> QED BY <1>0, <1>1, <1>5, <2>1, SolvedIsRun
<1>7. Frontier(ws, i) = chosen[n]
  BY DEF Frontier
<1> HIDE DEF chosen
<1> QED BY <1>5, <1>6, <1>7 DEF IsRun, TakesIn

\* A component is the least set of windows that has its first one and all that
\* overlap it: after as many rounds as there are windows nothing is left to take in.
LEMMA FrontierCloses ==
    ASSUME NEW ws \in Seq(Window), NEW i \in Shown(ws)
    PROVE  /\ Frontier(ws, i) \subseteq Shown(ws) /\ i \in Frontier(ws, i)
           /\ Overlapping(ws, Frontier(ws, i)) = Frontier(ws, i)
           /\ \A T \in SUBSET Shown(ws) :
                  i \in T /\ Overlapping(ws, T) \subseteq T => Frontier(ws, i) \subseteq T
<1> DEFINE n == Len(ws)
           S == Shown(ws)
<1>1. PICK a \in [0 .. n -> SUBSET S] : TakesIn(ws, i, a) /\ Frontier(ws, i) = a[n]
  BY FrontierIsRun
<1>2. n \in Nat /\ IsFiniteSet(S) /\ Cardinality(S) <= n
  <2>1. S \in SUBSET (1 .. n)
    BY DEF Shown
  <2>2. IsFiniteSet(1 .. n) /\ Cardinality(1 .. n) = n
    <3>1. n \in Nat
      OBVIOUS
    <3> HIDE DEF n
    <3> QED BY <3>1, FS_Interval
  <2> HIDE DEF S
  <2> QED BY <2>1, <2>2, FS_Subset
<1>3. a[0] = {i} /\ \A k \in 1 .. n : a[k] = Overlapping(ws, a[k - 1])
  BY <1>1 DEF TakesIn
<1> HIDE DEF n
<1>4. \A k \in 0 .. n : a[k] \subseteq S /\ IsFiniteSet(a[k]) /\ Cardinality(a[k]) \in Nat
                        /\ Cardinality(a[k]) <= n
  <2> TAKE k \in 0 .. n
  <2>1. a[k] \in SUBSET S
    BY <1>1
  <2> HIDE DEF S
  <2>2. Cardinality(S) \in Nat
    BY <1>2, FS_CardinalityType
  <2> QED BY <1>2, <2>1, <2>2, FS_Subset, FS_CardinalityType
<1> DEFINE Closed(T) == Overlapping(ws, T) = T
           G == {k \in 0 .. n : i \in a[k] /\ (Closed(a[k]) \/ Cardinality(a[k]) >= k + 1)}
<1>5. 0 \in G
  <2>1. Cardinality({i}) = 1 /\ 0 \in 0 .. n
    BY <1>2, FS_Singleton
  <2>2. a[0] = {i}
    BY <1>3
  <2>3. i \in a[0] /\ Cardinality(a[0]) >= 0 + 1
    BY <2>1, <2>2
  <2> HIDE DEF Closed
  <2> QED BY <2>1, <2>3
<1>6. ASSUME NEW k \in G, k < n PROVE k + 1 \in G
  <2>1. /\ k \in 0 .. n /\ k + 1 \in 0 .. n /\ k + 1 \in 1 .. n /\ (k + 1) - 1 = k
        /\ i \in a[k] /\ (Closed(a[k]) \/ Cardinality(a[k]) >= k + 1)
    BY <1>2, <1>6
  <2> DEFINE T == a[k]
             U == a[k + 1]
  <2>2. U = Overlapping(ws, T) /\ T \subseteq S
    BY <1>3, <1>4, <2>1
  <2>3. T \subseteq U
    BY <2>2, OverlappingGrows
  <2>4. /\ IsFiniteSet(U) /\ IsFiniteSet(T) /\ Cardinality(U) \in Nat /\ Cardinality(T) \in Nat
    BY <1>4, <2>1
  <2>5. i \in T /\ (Closed(T) \/ Cardinality(T) >= k + 1)
    BY <2>1
  <2> HIDE DEF T, U, S
  <2>6. CASE T = U
    BY <2>1, <2>2, <2>3, <2>5, <2>6 DEF U
  <2>7. CASE T # U
    <3>1. Cardinality(T) >= k + 1
      BY <2>2, <2>5, <2>7
    <3>2. T \in SUBSET U
      BY <2>3
    <3>3. Cardinality(T) <= Cardinality(U) /\ Cardinality(U) # Cardinality(T)
      BY <2>4, <2>7, <3>2, FS_Subset
    <3>4. Cardinality(U) >= (k + 1) + 1
      BY <2>1, <2>4, <3>1, <3>3
    <3> QED BY <2>1, <2>3, <2>5, <3>4 DEF U
  <2> QED BY <2>6, <2>7
<1>7. n \in G
  <2>1. G \subseteq 0 .. n
    OBVIOUS
  <2> HIDE DEF G
  <2> QED BY <1>2, <1>5, <1>6, <2>1, ReachesTop
<1>8. i \in a[n] /\ Closed(a[n]) /\ a[n] \subseteq S
  <2>1. n \in 0 .. n
    BY <1>2
  <2>2. Cardinality(a[n]) \in Nat /\ Cardinality(a[n]) <= n
    BY <1>4, <2>1
  <2> QED BY <1>2, <1>4, <1>7, <2>1, <2>2
<1>9. ASSUME NEW T \in SUBSET S, i \in T, Overlapping(ws, T) \subseteq T
      PROVE  a[n] \subseteq T
  <2> DEFINE H == {k \in 0 .. n : a[k] \subseteq T}
  <2>1. 0 \in H
    BY <1>2, <1>3, <1>9
  <2>2. ASSUME NEW k \in H, k < n PROVE k + 1 \in H
    <3>1. k + 1 \in 0 .. n /\ k + 1 \in 1 .. n /\ (k + 1) - 1 = k /\ a[k] \subseteq T
      BY <1>2, <2>2
    <3>2. a[k + 1] = Overlapping(ws, a[k])
      BY <1>3, <3>1
    <3>3. a[k + 1] \subseteq Overlapping(ws, T)
      BY <3>1, <3>2, OverlappingMonotone
    <3> QED BY <1>9, <3>1, <3>3
  <2>3. n \in H
    <3>1. H \subseteq 0 .. n
      OBVIOUS
    <3> HIDE DEF H
    <3> QED BY <1>2, <2>1, <2>2, <3>1, ReachesTop
  <2> QED BY <2>3
<1> QED BY <1>1, <1>8, <1>9

\* A set of windows takes in no other exactly when it shares nothing with the others.
LEMMA ClosedIsApart ==
    ASSUME NEW ws \in Seq(Window), NEW T \in SUBSET Shown(ws)
    PROVE  Overlapping(ws, T) = T <=> ShownBy(ws, T) \cap ShownBy(ws, Shown(ws) \ T) = {}
<1>1. ASSUME Overlapping(ws, T) = T, NEW m \in ShownBy(ws, T) \cap ShownBy(ws, Shown(ws) \ T)
      PROVE  FALSE
  <2>1. PICK j \in Shown(ws) \ T : m \in ToSet(ws[j].ids)
    BY DEF ShownBy
  <2>2. j \in Overlapping(ws, T)
    BY <2>1 DEF Overlapping
  <2> QED BY <1>1, <2>1, <2>2
<1>2. ASSUME ShownBy(ws, T) \cap ShownBy(ws, Shown(ws) \ T) = {},
             NEW j \in Overlapping(ws, T), j \notin T
      PROVE  FALSE
  <2>1. PICK m \in ToSet(ws[j].ids) : m \in ShownBy(ws, T)
    BY DEF Overlapping
  <2>2. m \in ShownBy(ws, Shown(ws) \ T)
    BY <1>2, <2>1 DEF ShownBy, Overlapping
  <2> QED BY <1>2, <2>1, <2>2
<1>3. T \subseteq Overlapping(ws, T)
  BY OverlappingGrows
<1> QED BY <1>1, <1>2, <1>3

\* The coverage is called connected exactly when the windows that show something
\* cannot be divided into two groups without a message in common.
THEOREM ConnectedIsWhole == Spec => []ConnectedMeansNoGap
<1>1. Inv => ConnectedMeansNoGap
  <2> SUFFICES ASSUME Inv PROVE ConnectedMeansNoGap
    OBVIOUS
  <2> DEFINE ws == coverage.windows
             S == Shown(ws)
             parts == {Frontier(ws, i) : i \in S}
             Whole == \A G \in (SUBSET S) \ {{}, S} : ShownBy(ws, G) \cap ShownBy(ws, S \ G) # {}
  <2>1. ws \in Seq(Window) /\ DOMAIN ws = 1 .. Len(ws) /\ Len(ws) \in Nat
    BY DEF Inv, TypeOK, Coverage
  <2>2. ConnectedMeansNoGap <=> (CoverageConnected(ws) <=> S # {} /\ Whole)
    BY DEF ConnectedMeansNoGap, ShownBy
  <2>3. CoverageConnected(ws) <=> ws # <<>> /\ Cardinality(parts) = 1
    BY DEF CoverageConnected, WindowComponents
  <2>4. IsFiniteSet(S)
    <3>1. S \in SUBSET (1 .. Len(ws))
      BY <2>1 DEF Shown
    <3>2. IsFiniteSet(1 .. Len(ws))
      <4> HIDE DEF ws
      <4> QED BY <2>1, FS_Interval
    <3> HIDE DEF S, ws
    <3> QED BY <3>1, <3>2, FS_Subset
  <2>5. IsFiniteSet(parts)
    <3> DEFINE f == [i \in S |-> Frontier(ws, i)]
    <3>1. f \in Surjection(S, parts)
      BY DEF Surjection
    <3> HIDE DEF f, parts, S
    <3> QED BY <2>4, <3>1, FS_Surjection
  <2> HIDE DEF ws
  <2>6. ASSUME Cardinality(parts) = 1 PROVE S # {} /\ Whole
    <3>1. PICK x : parts = {x}
      <4> HIDE DEF parts
      <4> QED BY <2>5, <2>6, FS_Singleton
    <3>2. S # {}
      BY <3>1
    <3>3. ASSUME NEW G \in (SUBSET S) \ {{}, S}, ShownBy(ws, G) \cap ShownBy(ws, S \ G) = {}
          PROVE  FALSE
      <4>1. PICK i \in G, j \in S \ G : TRUE
        OBVIOUS
      <4>2. Overlapping(ws, G) = G
        BY <2>1, <3>3, ClosedIsApart
      <4>3. Frontier(ws, i) \subseteq G
        BY <2>1, <4>1, <4>2, FrontierCloses
      <4>4. j \in Frontier(ws, j)
        BY <2>1, FrontierCloses
      <4>5. Frontier(ws, i) = Frontier(ws, j)
        BY <3>1
      <4> QED BY <4>3, <4>4, <4>5
    <3> QED BY <3>2, <3>3
  <2>7. ASSUME S # {}, Whole PROVE ws # <<>> /\ Cardinality(parts) = 1
    <3>1. ASSUME NEW i \in S PROVE Frontier(ws, i) = S
      <4>1. /\ Frontier(ws, i) \in SUBSET S /\ i \in Frontier(ws, i)
            /\ Overlapping(ws, Frontier(ws, i)) = Frontier(ws, i)
        BY <2>1, FrontierCloses
      <4>2. ShownBy(ws, Frontier(ws, i)) \cap ShownBy(ws, S \ Frontier(ws, i)) = {}
        BY <2>1, <4>1, ClosedIsApart
      <4> QED BY <2>7, <4>1, <4>2
    <3>2. parts = {S}
      BY <2>7, <3>1
    <3>3. Cardinality(parts) = 1
      <4> HIDE DEF parts, S
      <4> QED BY <3>2, FS_Singleton
    <3>4. ws # <<>>
      BY <2>7 DEF Shown
    <3> QED BY <3>3, <3>4
  <2> HIDE DEF parts, S, Whole
  <2> QED BY <2>2, <2>3, <2>6, <2>7 DEF ws
<1> QED BY <1>1, InvHolds, PTL
==============================================================================
