----------------------------- MODULE ToolsProofs -----------------------------
(***************************************************************************)
(* Proofs about what an operator calls: for every child process, quota and *)
(* pipe, every thread of replies, every set of drafts, every parent        *)
(* channel and every channel that is read.  Each part has its inductive    *)
(* invariant; a behaviour is one of one part, and the last theorem puts    *)
(* them together.                                                          *)
(***************************************************************************)
EXTENDS Tools, TLAPS, FiniteSetTheorems, WellFoundedInduction

------------------------------------------------------------------------------
(***************************************************************************)
(* Finite sets with an order                                               *)
(***************************************************************************)
\* A finite set that is not empty has a first element in every strict order: of the sets
\* of those before an element, one has no other of them in it.
LEMMA HasFirst ==
    ASSUME NEW S, IsFiniteSet(S), S # {}, NEW R,
           \A x \in S : <<x, x>> \notin R,
           \A x, y, z \in S : <<x, y>> \in R /\ <<y, z>> \in R => <<x, z>> \in R
    PROVE  \E x \in S : \A y \in S : <<y, x>> \notin R
<1> DEFINE below(x) == {y \in S : <<y, x>> \in R}
           C == {below(x) : x \in S}
<1>1. C \subseteq FiniteSubsetsOf(S) /\ C # {}
  <2>1. \A x \in S : below(x) \in FiniteSubsetsOf(S)
    BY FS_Subset DEF FiniteSubsetsOf
  <2> HIDE DEF below
  <2> QED BY <2>1
<1>2. \E d \in C : \A e \in C : <<e, d>> \notin StrictSubsetOrdering(S)
  <2>1. IsWellFoundedOn(StrictSubsetOrdering(S), FiniteSubsetsOf(S))
    BY FS_StrictSubsetOrderingWellFounded
  <2> HIDE DEF C
  <2> QED BY <1>1, <2>1, WFMin
<1>3. PICK x \in S : \A y \in S : <<below(y), below(x)>> \notin StrictSubsetOrdering(S)
  <2> HIDE DEF below
  <2> QED BY <1>2
<1>4. ASSUME NEW y \in S, <<y, x>> \in R PROVE FALSE
  <2>1. below(y) \subseteq below(x) /\ y \in below(x) /\ y \notin below(y)
    BY <1>4
  <2>2. <<below(y), below(x)>> \in StrictSubsetOrdering(S)
    BY <2>1 DEF StrictSubsetOrdering
  <2> QED BY <1>3, <2>2
<1> QED BY <1>4

\* Of integers it has a least one.
LEMMA HasLeast ==
    ASSUME NEW S, \A x \in S : x \in Int, IsFiniteSet(S), S # {}
    PROVE  \E x \in S : \A y \in S : x <= y
<1> DEFINE R == {p \in S \X S : p[1] < p[2]}
<1>1. \A x, y \in S : <<x, y>> \in R <=> x < y
  OBVIOUS
<1>2. \A x \in S : <<x, x>> \notin R
  BY <1>1
<1>3. \A x, y, z \in S : <<x, y>> \in R /\ <<y, z>> \in R => <<x, z>> \in R
  <2> HIDE DEF R
  <2> QED BY <1>1
<1> HIDE DEF R
<1>4. PICK x \in S : \A y \in S : <<y, x>> \notin R
  BY <1>2, <1>3, HasFirst
<1>5. ASSUME NEW y \in S PROVE x <= y
  <2>1. <<y, x>> \notin R
    BY <1>4
  <2>2. ~(y < x)
    BY <1>1, <2>1
  <2>3. x \in Int /\ y \in Int
    OBVIOUS
  <2> QED BY <2>2, <2>3
<1> QED BY <1>5

\* It has a greatest one.
LEMMA HasGreatest ==
    ASSUME NEW S, \A x \in S : x \in Int, IsFiniteSet(S), S # {}
    PROVE  \E x \in S : \A y \in S : y <= x
<1> DEFINE R == {p \in S \X S : p[2] < p[1]}
<1>1. \A x, y \in S : <<x, y>> \in R <=> y < x
  OBVIOUS
<1>2. \A x \in S : <<x, x>> \notin R
  BY <1>1
<1>3. \A x, y, z \in S : <<x, y>> \in R /\ <<y, z>> \in R => <<x, z>> \in R
  <2> HIDE DEF R
  <2> QED BY <1>1
<1> HIDE DEF R
<1>4. PICK x \in S : \A y \in S : <<y, x>> \notin R
  BY <1>2, <1>3, HasFirst
<1>5. ASSUME NEW y \in S PROVE y <= x
  <2>1. <<y, x>> \notin R
    BY <1>4
  <2>2. ~(x < y)
    BY <1>1, <2>1
  <2>3. x \in Int /\ y \in Int
    OBVIOUS
  <2> QED BY <2>2, <2>3
<1> QED BY <1>5

------------------------------------------------------------------------------
(***************************************************************************)
(* The process runner                                                      *)
(***************************************************************************)
\* The run begins with nothing written, nothing read and nobody orphaned.
LEMMA RunnerBegins == Process!Init => Process!RunnerInv
<1> SUFFICES ASSUME Process!Init PROVE Process!RunnerInv
  OBVIOUS
<1>1. Process!RunnerAssumption
  BY ToolsAssumption
<1>2. Process!TypeOK
  <2>1. orphaned \in BOOLEAN /\ limit_reached \in BOOLEAN /\ expired \in BOOLEAN
    BY Zenon DEF Process!Init
  <2> QED BY <1>1, <2>1 DEF Process!Init, Process!TypeOK, Process!RunnerAssumption, Process!Stream
<1>3. Process!ChunksAreAccounted
  BY <1>1 DEF Process!Init, Process!ChunksAreAccounted, Process!RunnerAssumption,
              Process!Stream
<1> QED BY <1>2, <1>3 DEF Process!RunnerInv

\* Every step of the child, of its descendant, of a thread and of the caller accounts for
\* every chunk.
LEMMA RunnerStep == Process!RunnerInv /\ Process!Next => Process!RunnerInv'
<1> USE DEF Process!Stream
<1> SUFFICES ASSUME Process!RunnerInv, Process!Next PROVE Process!RunnerInv'
  OBVIOUS
<1>0. /\ OutputLimit \in Nat /\ PipeSize \in Nat /\ MaxOutput \in Nat
      /\ Nothing \notin Process!Stream \cup {"group", "escaped"}
  BY ToolsAssumption DEF Process!RunnerAssumption
<1> USE <1>0 DEF Process!RunnerInv, Process!TypeOK, Process!ChunksAreAccounted
<1>1. ASSUME NEW s \in Process!Stream, Process!WantToWrite(s) PROVE Process!RunnerInv'
  BY <1>1 DEF Process!WantToWrite, Process!threads, Process!caller, Process!Open
<1>2. ASSUME NEW s \in Process!Stream, Process!Emit(s), Process!Open,
             UNCHANGED <<child, heir, orphaned>>, writing' \in Process!Stream \cup {Nothing},
             UNCHANGED <<Process!threads, Process!caller>>
      PROVE  Process!RunnerInv'
  <2>1. reader[s] = "done" => limit_reached
    BY <1>2
  <2>2. /\ written[s] + 1 \in 0..MaxOutput /\ pipe[s] + 1 \in 0..PipeSize
        /\ written' = [written EXCEPT ![s] = written[s] + 1]
        /\ pipe' = [pipe EXCEPT ![s] = pipe[s] + 1]
    BY <1>2 DEF Process!Emit
  <2>3. Process!TypeOK'
    BY <1>2, <2>2 DEF Process!threads, Process!caller
  <2>4. \A r \in Process!Stream : written'[r] = size'[r] + pipe'[r]
    BY <1>2, <2>2 DEF Process!threads
  <2>5. \A r \in Process!Stream :
            reader'[r] = "done" => limit_reached' \/ (pipe'[r] = 0 /\ ~Process!Open')
    BY <1>2, <2>1, <2>2 DEF Process!threads
  <2> QED BY <1>2, <2>3, <2>4, <2>5 DEF Process!threads, Process!caller
<1>3. CASE Process!ChildWrites
  BY <1>2, <1>3 DEF Process!ChildWrites, Process!Open
<1>4. CASE Process!ChildExits
  BY <1>4 DEF Process!ChildExits, Process!threads, Process!caller, Process!Open
<1>5. ASSUME NEW group \in {"group", "escaped"}, Process!Fork(group)
      PROVE  Process!RunnerInv'
  BY <1>5 DEF Process!Fork, Process!threads, Process!caller, Process!Open
<1>6. ASSUME NEW s \in Process!Stream, Process!HeirWrites(s) PROVE Process!RunnerInv'
  BY <1>2, <1>6 DEF Process!HeirWrites, Process!Open
<1>7. CASE Process!HeirExits
  BY <1>7 DEF Process!HeirExits, Process!threads, Process!caller, Process!Open
<1>8. ASSUME NEW s \in Process!Stream, Process!EnterRead(s) PROVE Process!RunnerInv'
  BY <1>8 DEF Process!EnterRead, Process!processes, Process!caller, Process!Open
<1>9. ASSUME NEW s \in Process!Stream, Process!ReturnRead(s) PROVE Process!RunnerInv'
  <2>1. CASE pipe[s] > 0 /\ Process!TakeChunk(s)
    <3>1. /\ size[s] + 1 \in 0..MaxOutput /\ pipe[s] - 1 \in 0..PipeSize
          /\ size' = [size EXCEPT ![s] = size[s] + 1]
          /\ pipe' = [pipe EXCEPT ![s] = pipe[s] - 1]
          /\ limit_reached' = (limit_reached \/ size[s] + 1 > OutputLimit)
          /\ reader' = [reader EXCEPT ![s] =
                           IF size[s] + 1 > OutputLimit /\ size[s] + 1 >= DrainLimit
                           THEN "done" ELSE "ready"]
      BY <2>1 DEF Process!TakeChunk
    <3>2. UNCHANGED <<Process!processes, Process!caller>> /\ reader[s] = "inside"
      BY <1>9 DEF Process!ReturnRead
    <3>3. Process!TypeOK'
      <4>1. limit_reached' \in BOOLEAN
        BY <3>1
      <4> QED BY <3>1, <3>2, <4>1 DEF Process!processes, Process!caller
    <3>4. /\ limit_reached => limit_reached'
          /\ size[s] + 1 > OutputLimit => limit_reached'
      BY <3>1
    <3>5. \A r \in Process!Stream :
              /\ written'[r] = size'[r] + pipe'[r]
              /\ size'[r] > OutputLimit => limit_reached'
      BY <3>1, <3>2, <3>4 DEF Process!processes
    <3>6. \A r \in Process!Stream :
              /\ reader'[r] = "done" => limit_reached' \/ (pipe'[r] = 0 /\ ~Process!Open')
              /\ reader'[r] = "broken" => step' = "return"
      BY <3>1, <3>2, <3>4 DEF Process!processes, Process!caller, Process!Open
    <3> QED BY <3>1, <3>2, <3>3, <3>5, <3>6 DEF Process!processes, Process!caller
  <2>2. CASE /\ pipe[s] = 0 /\ ~Process!Open
             /\ reader' = [reader EXCEPT ![s] = "done"]
             /\ UNCHANGED <<pipe, size, limit_reached>>
    BY <1>9, <2>2 DEF Process!ReturnRead, Process!processes, Process!caller, Process!Open
  <2> QED BY <1>9, <2>1, <2>2 DEF Process!ReturnRead
<1>10. CASE Process!DeadlinePasses
  BY <1>10 DEF Process!DeadlinePasses, Process!processes, Process!threads, Process!Open
<1>11. CASE Process!Poll
  BY <1>11 DEF Process!Poll, Process!Stops, Process!Terminate, Process!processes,
               Process!threads, Process!Open
<1>12. ASSUME NEW s \in Process!Stream, NEW this, NEW next, Process!Join(s, this, next),
              \/ s = "stdout" /\ this = "join_stdout" /\ next = "join_stderr"
              \/ s = "stderr" /\ this = "join_stderr" /\ next = "check"
       PROVE  Process!RunnerInv'
  BY <1>12 DEF Process!Join, Process!Over, Process!Stuck, Process!processes,
               Process!threads, Process!Open
<1>13. CASE Process!CheckQuota
  BY <1>13 DEF Process!CheckQuota, Process!processes, Process!threads, Process!Open
<1>14. CASE Process!ClosePipes
  BY <1>14 DEF Process!ClosePipes, Process!processes, Process!Open
<1> QED
  BY <1>1, <1>3, <1>4, <1>5, <1>6, <1>7, <1>8, <1>9, <1>10, <1>11, <1>12, <1>13, <1>14
  DEF Process!Next, Process!Child, Process!Thread, Process!Caller

\* What is returned without a failure is whole.
LEMMA RunnerPromise == Process!RunnerInv => Process!SuccessIsWhole
  BY ToolsAssumption DEF Process!RunnerAssumption, Process!RunnerInv, Process!TypeOK,
     Process!ChunksAreAccounted, Process!SuccessIsWhole, Process!Observed, Process!Stream

------------------------------------------------------------------------------
(***************************************************************************)
(* The gate of a reply's context                                           *)
(***************************************************************************)
\* The inductive invariant of the context gate is its promise: an answer keeps what it
\* was given for.
ContextInv == Context!TypeOK /\ Context!ReadyMeansContext

\* An instance counts as every module does.
LEMMA ContextCounts == \A S : Context!Cardinality(S) = Cardinality(S)
  BY DEF Context!Cardinality, Cardinality

\* Before the first fetch nothing is answered.
LEMMA ContextBegins == Context!Init => ContextInv
<1> SUFFICES ASSUME Context!Init PROVE ContextInv
  OBVIOUS
<1>1. Step \in Nat \ {0} /\ MaxThread \in Nat
  BY ToolsAssumption DEF Context!ContextAssumption
<1> QED BY <1>1 DEF Context!Init, ContextInv, Context!TypeOK, Context!ReadyMeansContext

\* A fetch brings finitely many messages of the thread, the last one among them.
LEMMA FetchIsFinite ==
    ASSUME Context!TypeOK
    PROVE  LET loaded == Context!Fetched(limit) IN
           /\ loaded \subseteq 1..length /\ IsFiniteSet(loaded)
           /\ Cardinality(loaded) \in Nat \ {0}
<1> DEFINE loaded == Context!Fetched(limit)
<1>1. length \in Nat /\ length \in 1..length /\ limit \in Nat \ {0} /\ length - limit < length
  BY ToolsAssumption DEF Context!TypeOK, Context!ContextAssumption
<1>2. loaded \subseteq 1..length /\ length \in loaded
  BY <1>1 DEF Context!Fetched
<1>3. IsFiniteSet(1..length)
  BY <1>1, FS_Interval
<1>4. IsFiniteSet(loaded)
  BY <1>2, <1>3, FS_Subset
<1>5. Cardinality(loaded) \in Nat /\ (Cardinality(loaded) = 0 <=> loaded = {})
  BY <1>4, FS_CardinalityType, FS_EmptySet
<1> QED BY <1>2, <1>4, <1>5

\* The gate answers with a record; it lets through only what is ready.
LEMMA GateAnswers ==
    ASSUME NEW root \in BOOLEAN, NEW found \in BOOLEAN, NEW prior \in Nat,
           NEW exhausted \in BOOLEAN, NEW unresolved \in Nat, NEW fetched \in Nat \ {0}
    PROVE  LET gate == Context!Gate(root, found, prior, exhausted, unresolved, fetched) IN
           /\ gate \in [state : {"ready", "blocked", "expand_required"},
                        allowed : BOOLEAN, next : Nat \ {0}]
           /\ gate.allowed => /\ root /\ found /\ (prior >= Minimum \/ exhausted)
                              /\ unresolved = 0
<1> DEFINE ready == /\ root /\ found /\ (prior >= Minimum \/ exhausted)
                    /\ unresolved = 0
           reached == ~ready /\ fetched >= Maximum
           gate == Context!Gate(root, found, prior, exhausted, unresolved, fetched)
<1>1. Maximum \in Nat \ {0} /\ Context!Least(Maximum, fetched + Step) \in Nat \ {0}
  BY ToolsAssumption DEF Context!ContextAssumption, Context!Least
<1>2. CASE ready
  BY <1>2 DEF Context!Gate
<1>3. CASE ~ready /\ exhausted
  BY <1>1, <1>3 DEF Context!Gate
<1>4. CASE reached /\ ~exhausted
  BY <1>1, <1>4 DEF Context!Gate
<1>5. CASE ~ready /\ ~exhausted /\ ~reached
  BY <1>1, <1>5 DEF Context!Gate
<1> QED BY <1>2, <1>3, <1>4, <1>5

\* What is let through has its two anchors, in an order somebody vouches for, enough
\* before the target or everything, and nothing unresolved among that.
LEMMA OpenGate ==
    ASSUME Context!TypeOK, NEW exhausted \in BOOLEAN
    PROVE  LET loaded == Context!Fetched(limit)
               prior == {m \in loaded : target \in loaded /\ Context!Before(m, target)}
               gate == Context!GateOf(loaded, exhausted)
           IN  /\ gate \in [state : {"ready", "blocked", "expand_required"},
                            allowed : BOOLEAN, next : Nat \ {0}]
               /\ gate.allowed =>
                     /\ target \in loaded /\ 1 \in prior \cup {target}
                     /\ Cardinality(loaded) > 1 => keyed # "unknown"
                     /\ Cardinality(prior) >= Minimum \/ exhausted
                     /\ (prior \cup {target}) \cap open = {}
<1> DEFINE loaded == Context!Fetched(limit)
           prior == {m \in loaded : target \in loaded /\ Context!Before(m, target)}
           upto == IF target \in loaded THEN prior \cup {target} ELSE loaded
           root == 1 \in upto /\ target \in loaded
           found == target \in loaded
           gate == Context!Gate(root, found, Context!Cardinality(prior), exhausted,
                                Context!Cardinality(upto \cap open),
                                Context!Cardinality(loaded))
           misplaced == \/ Context!Cardinality(loaded) > 1 /\ keyed = "unknown"
                        \/ 1 \in loaded \ upto
           answered == IF misplaced
                       THEN [gate EXCEPT !.state = "blocked", !.allowed = FALSE] ELSE gate
<1>1. IsFiniteSet(loaded) /\ Cardinality(loaded) \in Nat \ {0}
  BY FetchIsFinite
<1>2. prior \subseteq loaded /\ upto \cap open \subseteq loaded
  OBVIOUS
<1>3. IsFiniteSet(prior) /\ IsFiniteSet(upto \cap open)
  BY <1>1, <1>2, FS_Subset
<1>4. Cardinality(prior) \in Nat /\ Cardinality(upto \cap open) \in Nat
  BY <1>3, FS_CardinalityType
<1>5. Cardinality(upto \cap open) = 0 => upto \cap open = {}
  BY <1>3, FS_EmptySet
<1>6. root \in BOOLEAN /\ found \in BOOLEAN
  OBVIOUS
<1> HIDE DEF loaded, prior, upto, root, found
<1>7. /\ gate \in [state : {"ready", "blocked", "expand_required"},
                   allowed : BOOLEAN, next : Nat \ {0}]
      /\ gate.allowed => /\ root /\ found /\ (Cardinality(prior) >= Minimum \/ exhausted)
                         /\ Cardinality(upto \cap open) = 0
  BY <1>1, <1>4, <1>6, GateAnswers, ContextCounts
<1> HIDE DEF gate
<1>8. /\ answered \in [state : {"ready", "blocked", "expand_required"},
                       allowed : BOOLEAN, next : Nat \ {0}]
      /\ answered.allowed => ~misplaced /\ gate.allowed
  BY <1>7
<1>9. answered = Context!GateOf(loaded, exhausted)
  BY Zenon DEF Context!GateOf, gate, prior, upto, root, found
<1>10. answered.allowed => /\ target \in loaded /\ 1 \in prior \cup {target}
                           /\ Cardinality(loaded) > 1 => keyed # "unknown"
                           /\ Cardinality(prior) >= Minimum \/ exhausted
                           /\ (prior \cup {target}) \cap open = {}
  BY <1>5, <1>7, <1>8, ContextCounts DEF root, found, upto
<1> QED BY <1>8, <1>9, <1>10 DEF loaded, prior

\* A fetch that is let through holds what the promise says.
LEMMA GateKeepsPromise ==
    ASSUME Context!TypeOK, ContextInv, Context!FetchAndAsk PROVE ContextInv'
<1> DEFINE loaded == Context!Fetched(limit)
           exhausted == limit >= length
           prior == {m \in loaded : target \in loaded /\ Context!Before(m, target)}
           gate == Context!GateOf(loaded, exhausted)
<1>1. /\ answer' = [state |-> gate.state, allowed |-> gate.allowed,
                    seen |-> loaded, whole |-> exhausted, unresolved |-> open]
      /\ limit' = gate.next
      /\ UNCHANGED <<length, target, open, keyed, newest_first, rooted>>
  BY DEF Context!FetchAndAsk, Context!thread
<1>2. /\ gate \in [state : {"ready", "blocked", "expand_required"},
                   allowed : BOOLEAN, next : Nat \ {0}]
      /\ gate.allowed =>
            /\ target \in loaded /\ 1 \in prior \cup {target}
            /\ Cardinality(loaded) > 1 => keyed # "unknown"
            /\ Cardinality(prior) >= Minimum \/ exhausted
            /\ (prior \cup {target}) \cap open = {}
  BY OpenGate, exhausted \in BOOLEAN
<1>3. Context!TypeOK'
  BY <1>1, <1>2 DEF Context!TypeOK
<1>4. ASSUME gate.allowed PROVE Context!ReadyMeansContext'
  <2> DEFINE near == {m \in loaded \ {target} : Context!Time(m) <= Context!Time(target)}
  <2>1. loaded \subseteq 1..length /\ IsFiniteSet(loaded) /\ Cardinality(loaded) \in Nat
    BY FetchIsFinite
  <2>2. \A m \in loaded : m \in Int /\ m \div 2 \in Int
    BY <2>1 DEF Context!TypeOK
  <2>3. target \in Int /\ target \in loaded
    BY <1>2, <1>4 DEF Context!TypeOK
  <2> HIDE DEF loaded
  <2>4. CASE keyed = "unknown"
    <3>1. Cardinality(loaded) <= 1
      BY <1>2, <1>4, <2>1, <2>4
    <3>2. {target} \in SUBSET loaded /\ IsFiniteSet({target}) /\ Cardinality({target}) = 1
      BY <2>3, FS_Singleton
    <3>3. Cardinality({target}) <= Cardinality(loaded)
      BY <2>1, <3>2, FS_Subset
    <3>4. Cardinality(loaded) = Cardinality({target})
      BY <2>1, <3>1, <3>2, <3>3
    <3>5. loaded = {target}
      BY <2>1, <3>2, <3>4, FS_Subset
    <3>6. \A m \in loaded : ~Context!Before(m, target)
      BY <2>3, <2>4, <3>5 DEF Context!Before, Context!Listed, Context!TypeOK
    <3>7. prior = {}
      BY <3>6
    <3>8. exhausted /\ 1 = target
      BY <1>2, <1>4, <3>7, FS_EmptySet, ToolsAssumption DEF Context!ContextAssumption
    <3> QED BY <1>1, <1>2, <1>4, <3>5, <3>8 DEF Context!ReadyMeansContext
  <2>5. CASE keyed # "unknown"
    <3>1. keyed \in {"sequence", "timestamp"}
      BY <2>5 DEF Context!TypeOK
    <3>2. \A m \in loaded : Context!Before(m, target) =>
              m # target /\ Context!Time(m) <= Context!Time(target)
      BY <2>2, <2>3, <3>1 DEF Context!Before, Context!Listed, Context!Time, Context!TypeOK
    <3>3. \A m \in loaded \ {target} : ~Context!Before(m, target) =>
              Context!Time(m) >= Context!Time(target)
      BY <2>2, <2>3, <3>1 DEF Context!Before, Context!Listed, Context!Time, Context!TypeOK
    <3>4. prior \in SUBSET near /\ near \in SUBSET loaded
      BY <3>2
    <3>5. Cardinality(prior) <= Cardinality(near) /\ Cardinality(near) \in Nat
      BY <2>1, <3>4, FS_Subset, FS_CardinalityType
    <3>6. Cardinality(near) >= Minimum \/ exhausted
      BY <1>2, <1>4, <2>1, <3>4, <3>5, FS_Subset, FS_CardinalityType, ToolsAssumption
      DEF Context!ContextAssumption
    <3> QED BY <1>1, <1>2, <1>4, <3>3, <3>6, ContextCounts DEF Context!ReadyMeansContext
  <2> QED BY <2>4, <2>5
<1>5. ASSUME ~gate.allowed PROVE Context!ReadyMeansContext'
  BY <1>1, <1>5 DEF Context!ReadyMeansContext
<1> QED BY <1>3, <1>4, <1>5 DEF ContextInv

\* Whoever writes, and whatever is looked up or asked again, an answer stays true of what
\* it was given for.
LEMMA ContextStep == ContextInv /\ Context!Next => ContextInv'
<1> SUFFICES ASSUME ContextInv, Context!Next PROVE ContextInv'
  OBVIOUS
<1> USE DEF ContextInv
<1>1. CASE Context!FetchAndAsk
  BY <1>1, GateKeepsPromise
<1>2. CASE Context!NewMessage
  <2>1. MaxThread \in Nat
    BY ToolsAssumption DEF Context!ContextAssumption
  <2>2. /\ length' = length + 1 /\ length < MaxThread
        /\ UNCHANGED <<target, keyed, newest_first, rooted, limit, answer>>
        /\ open' = open \/ open' = {length + 1}
    BY <1>2 DEF Context!NewMessage
  <2>3. length' \in 1..MaxThread /\ target \in 1..length' /\ open' \subseteq 1..length'
    <3>1. /\ length \in Nat \ {0} /\ length + 1 <= MaxThread /\ target \in 1..length
          /\ \A m \in open : m \in 1..length
      BY <2>1, <2>2 DEF Context!TypeOK
    <3>2. \A m \in open' : m \in open \/ m = length + 1
      BY <2>2
    <3> QED BY <2>1, <2>2, <3>1, <3>2
  <2>4. Context!ReadyMeansContext'
    BY <2>2 DEF Context!ReadyMeansContext, Context!Time
  <2> QED BY <2>2, <2>3, <2>4 DEF Context!TypeOK
<1>3. CASE Context!StartOver
  BY <1>3, ToolsAssumption
  DEF Context!StartOver, Context!thread, Context!TypeOK, Context!ReadyMeansContext,
      Context!ContextAssumption
<1>4. ASSUME NEW m \in open, Context!Resolve(m) PROVE ContextInv'
  BY <1>4 DEF Context!Resolve, Context!TypeOK, Context!ReadyMeansContext, Context!Time
<1> QED BY <1>1, <1>2, <1>3, <1>4 DEF Context!Next

------------------------------------------------------------------------------
(***************************************************************************)
(* The pipeline from draft to closeout                                     *)
(***************************************************************************)
Assumptions == SendAssumption /\ SendNothingAssumption

\* A packet that may be put into the message box.
Cleared(packet) ==
    /\ packet.understood /\ (packet.mode = "reply" => packet.context)
    /\ LET extra == IF packet.content.notice THEN Notice ELSE 0 IN
       Length[packet.content.text] + extra <= 2 * MaxChars
    /\ packet.content.text \in Risky => packet.content.notice

\* A report that is ready stands for what happened, however old it is.
ReportsAreTrue ==
    /\ staging # Nothing /\ staging.ready => Cleared(staging) /\ "cleared" \in facts
    /\ dry_run # Nothing /\ dry_run.ready =>
           Cleared(dry_run.packet) /\ {"cleared", "fillable"} \subseteq facts
    /\ box # Nothing => Cleared(box)
    /\ sent # Nothing => "sent" \in facts
    /\ ReportedSent => {"sent", "finished"} \subseteq facts

\* The types of the pipeline are kept.
LEMMA TypesKept == Assumptions /\ TypeOK /\ [Next]_vars => TypeOK'
<1> SUFFICES ASSUME Assumptions, TypeOK, [Next]_vars PROVE TypeOK'
  OBVIOUS
<1>1. CASE UNCHANGED vars
  BY <1>1 DEF vars, TypeOK
<1>2. ASSUME NEW mode, NEW url, NEW mention, Stage(mode, url, mention) PROVE TypeOK'
  BY <1>2 DEF Stage, TypeOK
<1>3. ASSUME NEW observed, NEW candidates, DryRun(observed, candidates) PROVE TypeOK'
  BY <1>3 DEF DryRun, TypeOK
<1>4. ASSUME NEW provided, NEW environment, NEW runbook,
             AutoPreflight(provided, environment, runbook)
      PROVE  TypeOK'
  BY <1>4 DEF AutoPreflight, TypeOK
<1>5. ASSUME NEW given, NEW state, NEW reviewed, NEW compared, NEW looked, NEW learning,
             Closeout(given, state, reviewed, compared, looked, learning)
      PROVE  TypeOK'
  BY <1>5 DEF Closeout, TypeOK
<1>6. ASSUME NEW provided, NEW environment, NEW retrospective,
             OperationStatus(environment, provided, retrospective)
      PROVE  TypeOK'
  BY <1>6 DEF OperationStatus, TypeOK
<1>7. ASSUME NEW text \in Draft, EditDraft(text) \/ HumanSends(text) PROVE TypeOK'
  <2>1. CASE EditDraft(text)
    BY <2>1 DEF EditDraft, reports, TypeOK
  <2>2. CASE HumanSends(text)
    BY <2>2 DEF HumanSends, reports, TypeOK
  <2> QED BY <1>7, <2>1, <2>2
<1>8. ASSUME NEW confirmed \in BOOLEAN, NEW allowed \in BOOLEAN,
             ReadThread(confirmed, allowed)
      PROVE  TypeOK'
  BY <1>8 DEF ReadThread, reports, TypeOK
<1>9. CASE OthersWrite
  <2>1. news' \in 0..MaxNews
    BY <1>9 DEF OthersWrite, TypeOK, Assumptions, SendAssumption
  <2>2. UNCHANGED <<draft, verdict, facts>> /\ understood' = FALSE /\ context' = FALSE
    BY <1>9 DEF OthersWrite, reports
  <2> QED BY <2>1, <2>2 DEF TypeOK
<1>10. CASE Fill
  BY <1>10 DEF Fill, reports, TypeOK
<1>11. CASE Printed
  BY <1>11 DEF Printed, TypeOK
<1> QED BY <1>1, <1>2, <1>3, <1>4, <1>5, <1>6, <1>7, <1>8, <1>9, <1>10, <1>11
        DEF Next, Command

------------------------------------------------------------------------------
\* A packet that is staged as ready is cleared.
LEMMA StagedIsCleared ==
    ASSUME Assumptions, TypeOK, NEW mode, NEW url, NEW mention,
           Stage(mode, url, mention), staging'.ready
    PROVE  Cleared(staging') /\ "cleared" \in facts'
<1> DEFINE gate == IF mode = "mention" \/ context THEN "passed" ELSE "blocked"
           review == Review(draft, gate, understood)
           aimed == \/ mode = "reply" /\ url = "message"
                    \/ mode = "mention" /\ url \in {"message", "channel"} /\ mention
           ready == understood /\ aimed /\ review.copy \in {"ready", "split"}
<1>1. /\ ready /\ "cleared" \in facts'
      /\ staging' = [ready |-> TRUE, mode |-> mode, content |-> Candidate(draft),
                    understood |-> understood, context |-> context]
  BY DEF Stage
<1>2. gate # "blocked" /\ Parts(Length[draft] + IF Verdict(draft) = "risky" THEN Notice
                                                ELSE 0) \in {"ready", "split"}
  BY <1>1 DEF Review
<1>3. mode = "reply" => context
  BY <1>2
<1>4. Length[draft] \in Nat /\ Notice \in Nat /\ MaxChars \in Nat
  BY DEF TypeOK, Assumptions, SendAssumption
<1>5. Length[draft] + (IF Verdict(draft) = "risky" THEN Notice ELSE 0) <= 2 * MaxChars
  BY <1>2, <1>4 DEF Parts
<1>6. draft \in Risky => Verdict(draft) = "risky"
  BY DEF Verdict
<1> QED BY <1>1, <1>3, <1>5, <1>6 DEF Cleared, Candidate

\* A closeout of a message that was sent is done when nothing is left to do.
LEMMA DoneIsFinished ==
    ASSUME ReportsAreTrue,
           NEW given, NEW reviewed \in BOOLEAN, NEW compared \in BOOLEAN,
           NEW looked \in BOOLEAN, NEW state, NEW learning,
           Closeout(given, state, reviewed, compared, looked, learning),
           closeout'.done, closeout'.state = "human_sent"
    PROVE  {"sent", "finished"} \subseteq facts'
<1> DEFINE observed == state = "human_sent" /\ sent # Nothing
           blockers == CloseoutBlockers(given, state, observed, reviewed, Seen(compared),
                                        looked)
<1>1. state = "human_sent" /\ CloseoutNext(state, blockers, learning) = "done"
  BY DEF Closeout
<1>2. blockers = {} /\ learning \in {"completed", "held"}
  BY <1>1 DEF CloseoutNext
<1>3. "human_send_not_observed" \notin blockers /\ "human_review_not_confirmed" \notin blockers
      /\ "observed_text_not_checked" \notin blockers /\ "unread_not_checked" \notin blockers
      /\ "unread_items_remaining" \notin blockers
  BY <1>2
<1>4. observed /\ reviewed /\ Seen(compared) # "not_checked" /\ looked /\ ~unread
  BY <1>1, <1>3 DEF CloseoutBlockers
<1>5. compared
  BY <1>4 DEF Seen
<1>6. "sent" \in facts
  BY <1>4 DEF ReportsAreTrue
<1> QED BY <1>2, <1>4, <1>5, <1>6 DEF Closeout

\* No command makes a report of what did not happen.
LEMMA ReportsStayTrue ==
    Assumptions /\ TypeOK /\ ReportsAreTrue /\ [Next]_vars => ReportsAreTrue'
<1> SUFFICES ASSUME Assumptions, TypeOK, ReportsAreTrue, [Next]_vars
             PROVE  ReportsAreTrue'
  OBVIOUS
<1>1. CASE UNCHANGED <<staging, dry_run, box, sent, closeout, facts>>
  BY <1>1 DEF ReportsAreTrue, ReportedSent, ReportedDone, Cleared
<1>2. ASSUME NEW mode, NEW url, NEW mention \in BOOLEAN,
             Stage(mode, url, mention)
      PROVE  ReportsAreTrue'
  <2>1. staging'.ready => Cleared(staging') /\ "cleared" \in facts'
    BY <1>2, StagedIsCleared
  <2>2. UNCHANGED <<dry_run, box, sent, closeout>> /\ facts \subseteq facts'
    BY <1>2 DEF Stage
  <2> QED BY <2>1, <2>2 DEF ReportsAreTrue, ReportedSent, ReportedDone, Cleared
<1>3. ASSUME NEW observed \in BOOLEAN, NEW candidates,
             DryRun(observed, candidates)
      PROVE  ReportsAreTrue'
  <2>1. UNCHANGED <<staging, box, sent, closeout>> /\ facts \subseteq facts'
    BY <1>3 DEF DryRun
  <2>2. dry_run'.ready => /\ dry_run'.packet = staging /\ staging # Nothing
                          /\ staging.ready /\ "fillable" \in facts'
    BY <1>3 DEF DryRun, Fillable
  <2> QED BY <2>1, <2>2 DEF ReportsAreTrue, ReportedSent, ReportedDone, Cleared
<1>4. ASSUME NEW given \in BOOLEAN, NEW state,
             NEW reviewed \in BOOLEAN, NEW compared \in BOOLEAN, NEW looked \in BOOLEAN,
             NEW learning,
             Closeout(given, state, reviewed, compared, looked, learning)
      PROVE  ReportsAreTrue'
  <2>1. UNCHANGED <<staging, dry_run, box, sent>> /\ facts \subseteq facts'
    BY <1>4 DEF Closeout
  <2>2. ReportedSent' => {"sent", "finished"} \subseteq facts'
    BY <1>4, DoneIsFinished DEF ReportedSent, ReportedDone
  <2> QED BY <2>1, <2>2 DEF ReportsAreTrue, Cleared
<1>5. CASE Fill
  BY <1>5 DEF Fill, reports, ReportsAreTrue, ReportedSent, ReportedDone, Cleared
<1>6. ASSUME NEW text \in Draft, HumanSends(text) PROVE ReportsAreTrue'
  BY <1>6 DEF HumanSends, reports, ReportsAreTrue, ReportedSent, ReportedDone, Cleared
<1>7. ASSUME NEW provided \in BOOLEAN, NEW environment, NEW runbook \in BOOLEAN,
             AutoPreflight(provided, environment, runbook)
      PROVE  ReportsAreTrue'
  BY <1>1, <1>7 DEF AutoPreflight
<1>8. ASSUME NEW provided \in BOOLEAN, NEW environment, NEW retrospective \in BOOLEAN,
             OperationStatus(environment, provided, retrospective)
      PROVE  ReportsAreTrue'
  BY <1>1, <1>8 DEF OperationStatus
<1>9. ASSUME NEW text \in Draft, EditDraft(text) PROVE ReportsAreTrue'
  BY <1>1, <1>9 DEF EditDraft, reports
<1>10. ASSUME NEW confirmed \in BOOLEAN, NEW allowed \in BOOLEAN,
              ReadThread(confirmed, allowed)
       PROVE  ReportsAreTrue'
  BY <1>1, <1>10 DEF ReadThread, reports
<1>11. CASE OthersWrite
  BY <1>1, <1>11 DEF OthersWrite, reports
<1>12. CASE Printed \/ UNCHANGED vars
  BY <1>1, <1>12 DEF Printed, vars
<1>13. ASSUME Command PROVE ReportsAreTrue'
  <2>1. CASE \E mode \in {"reply", "mention"}, url \in {"message", "channel", "other"},
                mention \in BOOLEAN : Stage(mode, url, mention)
    BY <1>2, <2>1
  <2>2. CASE \E observed \in BOOLEAN, candidates \in 0..2 : DryRun(observed, candidates)
    BY <1>3, <2>2
  <2>3. CASE \E provided, runbook \in BOOLEAN,
                environment \in {"test", "production", "unknown"} :
                AutoPreflight(provided, environment, runbook)
    BY <1>7, <2>3
  <2>4. CASE \E given, reviewed, compared, looked \in BOOLEAN,
                state \in {"human_sent", "not_sent"}, learning \in {"", "held"} :
                Closeout(given, state, reviewed, compared, looked, learning)
    <3>1. PICK given, reviewed, compared, looked \in BOOLEAN,
               state \in {"human_sent", "not_sent"}, learning \in {"", "held"} :
               Closeout(given, state, reviewed, compared, looked, learning)
      BY <2>4
    <3> QED BY <1>4, <3>1
  <2>5. CASE \E provided, retrospective \in BOOLEAN,
                environment \in {"test", "production"} :
                OperationStatus(environment, provided, retrospective)
    BY <1>8, <2>5
  <2>6. CASE \E text \in Draft : EditDraft(text) \/ HumanSends(text)
    BY <1>6, <1>9, <2>6
  <2>7. CASE \E confirmed, allowed \in BOOLEAN : ReadThread(confirmed, allowed)
    BY <1>10, <2>7
  <2> QED BY <1>5, <1>11, <1>13, <2>1, <2>2, <2>3, <2>4, <2>5, <2>6, <2>7 DEF Command
<1> QED BY <1>12, <1>13 DEF Next

\* What a preflight or status said is about the reports as they are.
LEMMA VerdictsStayTrue ==
    ASSUME TypeOK, TypeOK', ReportsAreTrue, ReadyRestsOnEveryStage, [Next]_vars,
           Assumptions
    PROVE  ReadyRestsOnEveryStage'
<1>1. CASE UNCHANGED <<verdict, facts>>
  BY <1>1 DEF ReadyRestsOnEveryStage
<1>2. CASE verdict' = Nothing
  BY <1>2 DEF ReadyRestsOnEveryStage, Assumptions, SendNothingAssumption
<1>3. ASSUME NEW provided, NEW environment, NEW runbook,
             AutoPreflight(provided, environment, runbook)
      PROVE  ReadyRestsOnEveryStage'
  BY <1>3 DEF AutoPreflight, ReadyRestsOnEveryStage, ReportsAreTrue
<1>4. ASSUME NEW provided, NEW environment, NEW retrospective,
             OperationStatus(environment, provided, retrospective)
      PROVE  ReadyRestsOnEveryStage'
  <2>1. /\ facts' = facts /\ verdict' # "ready_for_adapter"
        /\ verdict' = "ready_for_production" =>
               ProductionChecks(environment, provided)
    BY <1>4 DEF OperationStatus
  <2>2. ASSUME ProductionChecks(environment, provided)
        PROVE  facts = {"cleared", "fillable", "sent", "finished"}
    <3>1. {"cleared", "fillable"} \subseteq facts /\ {"sent", "finished"} \subseteq facts
      BY <2>2 DEF ProductionChecks, ReportsAreTrue
    <3> QED BY <3>1 DEF TypeOK
  <2> QED BY <2>1, <2>2 DEF ReadyRestsOnEveryStage
<1>5. CASE Printed
  BY <1>2, <1>5 DEF Printed
<1>6. ASSUME verdict = Nothing,
             \/ \E mode \in {"reply", "mention"}, url \in {"message", "channel", "other"},
                   mention \in BOOLEAN : Stage(mode, url, mention)
             \/ \E observed \in BOOLEAN, candidates \in 0..2 :
                   DryRun(observed, candidates)
             \/ \E given, reviewed, compared, looked \in BOOLEAN,
                   state \in {"human_sent", "not_sent"}, learning \in {"", "held"} :
                   Closeout(given, state, reviewed, compared, looked, learning)
             \/ \E text \in Draft : EditDraft(text) \/ HumanSends(text)
             \/ \E confirmed, allowed \in BOOLEAN : ReadThread(confirmed, allowed)
             \/ OthersWrite \/ Fill
      PROVE  verdict' = Nothing
  BY <1>6 DEF Stage, DryRun, Closeout, EditDraft, HumanSends, ReadThread, OthersWrite,
              Fill, reports
<1>7. CASE UNCHANGED vars
  BY <1>1, <1>7 DEF vars
<1> QED BY <1>1, <1>2, <1>3, <1>4, <1>5, <1>6, <1>7 DEF Next, Command

\* The invariant of the pipeline.
SendInv == TypeOK /\ ReportsAreTrue /\ ReadyRestsOnEveryStage

\* Before the first command no report stands for anything.
LEMMA SendBegins == Assumptions /\ Init => SendInv
<1> SUFFICES ASSUME Assumptions, Init PROVE SendInv
  OBVIOUS
<1>1. TypeOK
  <2>1. understood \in BOOLEAN /\ context \in BOOLEAN
    BY Zenon DEF Init
  <2> QED BY <2>1 DEF Init, TypeOK, Assumptions, SendAssumption
<1>2. ReportsAreTrue
  BY DEF Init, ReportsAreTrue, ReportedSent, ReportedDone
<1>3. ReadyRestsOnEveryStage
  BY DEF Init, ReadyRestsOnEveryStage, Assumptions, SendNothingAssumption
<1> QED BY <1>1, <1>2, <1>3 DEF SendInv

\* Every command keeps it.
LEMMA SendStep == Assumptions /\ SendInv /\ [Next]_vars => SendInv'
  BY TypesKept, ReportsStayTrue, VerdictsStayTrue DEF SendInv

\* It is what is promised: what was filled was cleared, and "ready" was earned.
LEMMA SendPromise == SendInv => SendsAreCleared
  BY DEF SendInv, ReportsAreTrue, FilledWasCleared, Cleared, SendsAreCleared

\* What is put before a human to send was cleared, and "ready" is said only after every
\* stage, for every set of drafts, whatever reports the commands are given.
THEOREM SendsRestOnReports == Assumptions => (Spec => []SendsAreCleared)
<1> SUFFICES ASSUME Assumptions PROVE Spec => []SendsAreCleared
  OBVIOUS
<1>1. Init => SendInv
  BY SendBegins
<1>2. SendInv /\ [Next]_vars => SendInv'
  BY SendStep
<1> QED BY <1>1, <1>2, SendPromise, PTL DEF Spec

------------------------------------------------------------------------------
(***************************************************************************)
(* The listings of archived threads                                        *)
(***************************************************************************)
\* What the constants of a listing are.
LEMMA ListingConstants ==
    ASSUME NEW k \in DOMAIN Listings
    PROVE  /\ Listings[k].threads \subseteq Nat /\ IsFiniteSet(Listings[k].threads)
           /\ Listings[k].own \subseteq Listings[k].threads
           /\ Listings[k].joined \subseteq Listings[k].private
           /\ Listings[k].private \subseteq Listings[k].own
           /\ Listings[k].page_size \in Nat \ {0} /\ Listings[k].max_pages \in Nat \ {0}
           /\ Listings[k].max_retries \in Nat /\ Listings[k].stamps \subseteq Nat
<1>1. \A S : Listing(k)!IsFiniteSet(S) = IsFiniteSet(S)
  BY DEF Listing!IsFiniteSet, IsFiniteSet
<1> QED BY <1>1, ToolsAssumption DEF Listing!ListingAssumption

\* An instance counts as every module does.
LEMMA ListingCounts == \A k, S : Listing(k)!Cardinality(S) = Cardinality(S)
  BY DEF Listing!Cardinality, Cardinality

\* The server's order of the archived threads is strict and total.
LEMMA AheadIsTotal ==
    ASSUME NEW k \in DOMAIN Listings, stamp \in [Listings[k].own -> Listings[k].stamps], NEW s
    PROVE  \A t, u, v \in Listings[k].own :
              /\ Listing(k)!CursorFor(s, t) \in Nat
              /\ ~Listing(k)!Ahead(s, t, t)
              /\ t # u => Listing(k)!Ahead(s, t, u) \/ Listing(k)!Ahead(s, u, t)
              /\ Listing(k)!Ahead(s, t, u) /\ Listing(k)!Ahead(s, u, v) =>
                     Listing(k)!Ahead(s, t, v)
<1> TAKE t, u, v \in Listings[k].own
<1>1. /\ t \in Nat /\ u \in Nat /\ v \in Nat
      /\ stamp[t] \in Nat /\ stamp[u] \in Nat /\ stamp[v] \in Nat
  BY ListingConstants
<1> QED BY <1>1 DEF Listing!CursorFor, Listing!Ahead

\* A page has the first of what remains, and a last one if it has any.
LEMMA PageIsFirst ==
    ASSUME NEW k \in DOMAIN Listings, Listing(k)!TypeOK, NEW s, NEW c
    PROVE  LET all == Listing(k)!Remaining(s, c)
               page == Listing(k)!Page(s, c)
           IN  /\ page \subseteq all /\ all \subseteq archived
               /\ \A t \in all \ page, p \in page : Listing(k)!Ahead(s, p, t)
               /\ page # {} => \E t \in page : \A u \in page \ {t} : Listing(k)!Ahead(s, u, t)
<1> DEFINE all == Listing(k)!Remaining(s, c)
           over(t) == {u \in all : Listing(k)!Ahead(s, u, t)}
           page == {t \in all : Cardinality(over(t)) < Listings[k].page_size}
           own == Listings[k].own
<1>1. page = Listing(k)!Page(s, c)
  BY ListingCounts DEF Listing!Page
<1>2. archived \subseteq own /\ stamp \in [own -> Listings[k].stamps]
  BY DEF Listing!TypeOK
<1>3. all \subseteq archived
  BY DEF Listing!Remaining
<1>4. IsFiniteSet(all)
  <2>1. IsFiniteSet(Listings[k].threads) /\ own \subseteq Listings[k].threads
    BY ListingConstants
  <2>2. all \in SUBSET Listings[k].threads
    BY <1>2, <1>3, <2>1
  <2> QED BY <2>1, <2>2, FS_Subset
<1> HIDE DEF all
<1>5. \A t \in all : IsFiniteSet(over(t)) /\ Cardinality(over(t)) \in Nat
  BY <1>4, FS_Subset, FS_CardinalityType
<1>6. Listings[k].page_size \in Nat
  BY ListingConstants
<1>7. ASSUME NEW t \in all \ page, NEW p \in page PROVE Listing(k)!Ahead(s, p, t)
  <2> SUFFICES ASSUME Listing(k)!Ahead(s, t, p) PROVE FALSE
    BY <1>2, <1>3, AheadIsTotal
  <2>1. over(t) \in SUBSET over(p)
    BY <1>2, <1>3, AheadIsTotal
  <2>2. Cardinality(over(t)) <= Cardinality(over(p)) /\ Cardinality(over(p)) < Listings[k].page_size
    BY <1>5, <2>1, FS_Subset
  <2>3. Cardinality(over(t)) \in Nat /\ Cardinality(over(p)) \in Nat
    BY <1>5
  <2> HIDE DEF over
  <2> QED BY <1>6, <2>2, <2>3
<1>8. ASSUME page # {}
      PROVE  \E t \in page : \A u \in page \ {t} : Listing(k)!Ahead(s, u, t)
  <2> DEFINE R == {x \in page \X page : Listing(k)!Ahead(s, x[2], x[1])}
  <2>1. \A x, y \in page : <<x, y>> \in R <=> Listing(k)!Ahead(s, y, x)
    OBVIOUS
  <2>2. IsFiniteSet(page) /\ page \subseteq own
    BY <1>2, <1>3, <1>4, FS_Subset
  <2> HIDE DEF page, R
  <2>3. \A x \in page : <<x, x>> \notin R
    BY <1>2, <2>1, <2>2, AheadIsTotal
  <2>4. \A x, y, z \in page : <<x, y>> \in R /\ <<y, z>> \in R => <<x, z>> \in R
    BY <1>2, <2>1, <2>2, AheadIsTotal
  <2>5. PICK t \in page : \A y \in page : <<y, t>> \notin R
    BY <1>8, <2>2, <2>3, <2>4, HasFirst
  <2>6. ASSUME NEW u \in page \ {t} PROVE Listing(k)!Ahead(s, u, t)
    <3>1. ~Listing(k)!Ahead(s, t, u)
      BY <2>1, <2>5
    <3> QED BY <1>2, <2>2, <3>1, AheadIsTotal
  <2> QED BY <2>6
<1>9. page \subseteq all
  OBVIOUS
<1> HIDE DEF page
<1> QED BY <1>1, <1>3, <1>7, <1>8, <1>9 DEF all

\* Before the call nothing is found, and nothing is claimed.
LEMMA ListingBegins ==
    ASSUME NEW k \in DOMAIN Listings, Listing(k)!Init PROVE Listing(k)!ListingInv
<1>1. Listing(k)!Idle \in Listing(k)!Calls
  BY ListingConstants DEF Listing!Idle, Listing!Calls, Listing!Scopes, Listing!NoCursor
<1>2. /\ call.phase = "idle" /\ call.result = "none" /\ call.left = {} /\ call.scopes = {}
      /\ call.partial = {}
  BY DEF Listing!Init, Listing!Idle
<1>3. Listing(k)!TypeOK
  BY <1>1, <1>2 DEF Listing!Init, Listing!TypeOK
<1> QED BY <1>2, <1>3 DEF Listing!ListingInv, Listing!ScopesInOrder, Listing!FoundSoFar,
                          Listing!CompleteListsEverything

\* A thread moves once in a call, and a tie of one that stands still stays one.
LEMMA ListingMoves ==
    ASSUME NEW k \in DOMAIN Listings, Listing(k)!ListingInv, NEW t \in Listings[k].own,
           Listing(k)!Archive(t) \/ Listing(k)!Unarchive(t)
    PROVE  Listing(k)!ListingInv'
<1> DEFINE own == Listings[k].own
<1>1. /\ call.phase \notin {"idle", "done"} /\ t \notin moved
      /\ moved' = moved \union {t} /\ UNCHANGED <<call, file>>
      /\ t \in archived \/ t \notin archived
      /\ archived' = archived \union {t} \/ archived' = archived \ {t}
      /\ t \in archived => stamp' = stamp
  BY DEF Listing!Archive, Listing!Unarchive, Listing!Movable
<1>2. archived \subseteq own /\ moved \subseteq own /\ stamp \in [own -> Listings[k].stamps]
  BY DEF Listing!ListingInv, Listing!TypeOK
<1>3. stamp' \in [own -> Listings[k].stamps] /\ \A u \in own \ {t} : stamp'[u] = stamp[u]
  BY <1>2 DEF Listing!Archive, Listing!Unarchive
<1>4. Listing(k)!TypeOK'
  BY <1>1, <1>2, <1>3 DEF Listing!ListingInv, Listing!TypeOK
<1>5. ASSUME NEW u \in own \ moved'
      PROVE  /\ u \in own \ moved /\ u # t /\ (u \in archived' <=> u \in archived)
             /\ \A s : Listing(k)!PlaceOf(s, u)' <=> Listing(k)!PlaceOf(s, u)
             /\ \A s : Listing(k)!CursorFor(s, u)' = Listing(k)!CursorFor(s, u)
             /\ Listing(k)!Tied(u) => Listing(k)!Tied(u)'
  <2>1. u \in own \ moved /\ u # t /\ (u \in archived' <=> u \in archived)
    BY <1>1, <1>5
  <2>2. \A s : Listing(k)!PlaceOf(s, u)' <=> Listing(k)!PlaceOf(s, u)
    BY <2>1 DEF Listing!PlaceOf, Listing!InScope
  <2>3. \A s : Listing(k)!CursorFor(s, u)' = Listing(k)!CursorFor(s, u)
    BY <1>3, <2>1 DEF Listing!CursorFor
  <2>4. ASSUME Listing(k)!Tied(u) PROVE Listing(k)!Tied(u)'
    <3>1. PICK v \in (archived \union moved) \ {u} : stamp[v] = stamp[u]
      BY <2>4 DEF Listing!Tied
    <3>2. v \in own /\ v \in (archived' \union moved') \ {u}
      BY <1>1, <1>2, <3>1
    <3>3. stamp'[v] = stamp[v] /\ stamp'[u] = stamp[u]
      BY <1>1, <1>3, <2>1, <3>1, <3>2
    <3> QED BY <3>1, <3>2, <3>3 DEF Listing!Tied
  <2> QED BY <2>1, <2>2, <2>3, <2>4
<1>6. Listing(k)!ScopesInOrder'
  BY <1>1 DEF Listing!ListingInv, Listing!ScopesInOrder
<1>7. Listing(k)!FoundSoFar'
  <2>1. \A s : Listing(k)!Whole(s) => Listing(k)!Whole(s)'
    BY <1>1, <1>5 DEF Listing!Whole
  <2>2. Listing(k)!Finished' = Listing(k)!Finished
    BY <1>1 DEF Listing!Finished
  <2>3. Listing(k)!FoundSoFar
    BY DEF Listing!ListingInv
  <2>4. \A s \in Listing(k)!Scopes \union {"active"}, u \in own \ moved' :
            <<s, u>> \in call'.found => Listing(k)!PlaceOf(s, u)'
    BY <1>1, <1>5, <2>3 DEF Listing!FoundSoFar
  <2>5. call.phase = "page" /\ call.cursor # Listing(k)!NoCursor =>
            \A u \in archived' \ moved' :
               Listing(k)!InScope(call.scope, u) /\ ~Listing(k)!Tied(u)' =>
                  \/ <<call.scope, u>> \in call.found
                  \/ Listing(k)!CursorFor(call.scope, u)' < call.cursor
    BY <1>1, <1>2, <1>5, <2>3 DEF Listing!FoundSoFar
  <2> QED BY <1>1, <2>1, <2>2, <2>3, <2>4, <2>5 DEF Listing!FoundSoFar, Listing!InScope,
             Listing!NoCursor
<1>8. Listing(k)!CompleteListsEverything'
  BY <1>1 DEF Listing!ListingInv, Listing!TypeOK, Listing!CompleteListsEverything
<1> QED BY <1>4, <1>6, <1>7, <1>8 DEF Listing!ListingInv

\* An answer ends the call; one that is not complete promises nothing.
LEMMA ListingAnswers ==
    ASSUME NEW k \in DOMAIN Listings, Listing(k)!TypeOK, UNCHANGED <<archived, stamp, moved>>,
           file'.listed \subseteq (Listing(k)!Scopes \union {"active"}) \X Listings[k].own,
           NEW result \in {"partial", "blocked", "died"},
           Listing(k)!Answer(result) \/
               call' = [Listing(k)!Idle EXCEPT !.phase = "done", !.result = result]
    PROVE  Listing(k)!ListingInv'
<1>1. Listing(k)!Idle \in Listing(k)!Calls /\ call \in Listing(k)!Calls
  BY ListingConstants DEF Listing!Idle, Listing!Calls, Listing!Scopes, Listing!NoCursor,
     Listing!TypeOK
<1>2. /\ call' \in Listing(k)!Calls /\ call'.phase = "done" /\ call'.result = result
      /\ call'.left = {} /\ call'.partial = {}
  <2>1. CASE Listing(k)!Answer(result)
    <3>1. /\ call'.phase = "done" /\ call'.result = result /\ call'.left = {}
          /\ call'.partial = {}
      BY <2>1 DEF Listing!Answer, Listing!Idle
    <3>2. call' \in Listing(k)!Calls
      BY <1>1, <2>1 DEF Listing!Answer, Listing!Calls
    <3> QED BY <3>1, <3>2
  <2>2. CASE call' = [Listing(k)!Idle EXCEPT !.phase = "done", !.result = result]
    <3>1. /\ call'.phase = "done" /\ call'.result = result /\ call'.left = {}
          /\ call'.partial = {}
      BY <2>2 DEF Listing!Idle
    <3>2. call' \in Listing(k)!Calls
      BY <1>1, <2>2 DEF Listing!Calls
    <3> QED BY <3>1, <3>2
  <2> QED BY <2>1, <2>2
<1>3. Listing(k)!TypeOK'
  BY <1>2 DEF Listing!TypeOK, Listing!Scopes
<1> QED BY <1>2, <1>3 DEF Listing!ListingInv, Listing!ScopesInOrder, Listing!FoundSoFar,
                          Listing!CompleteListsEverything

\* The call goes on, and what was found and finished stays as it is.
LEMMA ListingGoesOn ==
    ASSUME NEW k \in DOMAIN Listings, Listing(k)!ListingInv,
           UNCHANGED <<archived, stamp, moved, file>>, call' \in Listing(k)!Calls,
           call'.phase \notin {"idle", "done"}, call'.result = "none",
           call'.left \subseteq call'.scopes, call'.partial \subseteq call'.scopes \ call'.left,
           Listing(k)!ScopesInOrder', Listing(k)!FoundSoFar'
    PROVE  Listing(k)!ListingInv'
<1>1. Listing(k)!TypeOK'
  BY DEF Listing!ListingInv, Listing!TypeOK
<1> QED BY <1>1 DEF Listing!ListingInv, Listing!CompleteListsEverything

\* A call begins with every scope left.
LEMMA ListingStarts ==
    ASSUME NEW k \in DOMAIN Listings, Listing(k)!ListingInv,
           NEW asked \in {"text", "forum", "none"}, NEW scopes \in SUBSET Listing(k)!Scopes,
           Listing(k)!Start(asked, scopes)
    PROVE  Listing(k)!ListingInv'
<1>1. Listing(k)!Idle \in Listing(k)!Calls
  BY ListingConstants DEF Listing!Idle, Listing!Calls, Listing!Scopes, Listing!NoCursor
<1>2. /\ UNCHANGED <<archived, stamp, moved, file>>
      /\ call' = [Listing(k)!Idle EXCEPT !.phase = IF asked = "none" THEN "scope" ELSE "kind",
                                         !.asked = asked, !.scopes = scopes, !.left = scopes]
  BY DEF Listing!Start
<1>3. call' \in Listing(k)!Calls
  BY <1>1, <1>2 DEF Listing!Calls
<1>4. /\ call'.phase \in {"scope", "kind"} /\ call'.result = "none" /\ call'.asked = asked
      /\ call'.left = scopes /\ call'.scopes = scopes /\ call'.partial = {}
      /\ call'.found = {}
      /\ asked # "none" => call'.phase = "kind"
  BY <1>2 DEF Listing!Idle
<1>5. Listing(k)!ScopesInOrder' /\ Listing(k)!FoundSoFar'
  BY <1>4 DEF Listing!ScopesInOrder, Listing!FoundSoFar, Listing!Finished
<1> QED BY <1>2, <1>3, <1>4, <1>5, ListingGoesOn

\* A request is repeated, or ends the call.
LEMMA ListingThrottled ==
    ASSUME NEW k \in DOMAIN Listings, Listing(k)!ListingInv,
           Listing(k)!Throttled \/ Listing(k)!Refused \/ Listing(k)!Die
    PROVE  Listing(k)!ListingInv'
<1>1. /\ UNCHANGED <<archived, stamp, moved, file>> /\ call.phase \notin {"idle", "done"}
      /\ file.listed \subseteq (Listing(k)!Scopes \union {"active"}) \X Listings[k].own
      /\ call \in Listing(k)!Calls
  BY DEF Listing!Throttled, Listing!Refused, Listing!Die, Listing!ListingInv, Listing!TypeOK
<1>2. CASE /\ call.retries < Listings[k].max_retries
           /\ call' = [call EXCEPT !.retries = call.retries + 1]
  <2>1. call.retries + 1 \in 0..Listings[k].max_retries
    BY <1>1, <1>2, ListingConstants DEF Listing!Calls
  <2>2. call' \in Listing(k)!Calls
    BY <1>1, <1>2, <2>1 DEF Listing!Calls
  <2>3. /\ call'.phase = call.phase /\ call'.result = call.result /\ call'.left = call.left
        /\ call'.scopes = call.scopes /\ call'.partial = call.partial
        /\ call'.found = call.found /\ call'.asked = call.asked /\ call'.pages = call.pages
        /\ call'.cursor = call.cursor /\ call'.scope = call.scope
    BY <1>1, <1>2 DEF Listing!Calls
  <2>4. Listing(k)!ScopesInOrder'
    BY <2>3 DEF Listing!ListingInv, Listing!ScopesInOrder
  <2>5. Listing(k)!FoundSoFar'
    BY <1>1, <2>3 DEF Listing!ListingInv, Listing!FoundSoFar, Listing!Finished, Listing!Whole,
       Listing!PlaceOf, Listing!InScope, Listing!CursorFor, Listing!Tied, Listing!NoCursor
  <2>6. call.result = "none"
    BY <1>1 DEF Listing!ListingInv, Listing!TypeOK, Listing!Calls
  <2>7. call.left \subseteq call.scopes /\ call.partial \subseteq call.scopes \ call.left
    BY DEF Listing!ListingInv, Listing!TypeOK
  <2> QED BY <1>1, <2>2, <2>3, <2>4, <2>5, <2>6, <2>7, ListingGoesOn
<1>3. CASE \E result \in {"blocked", "died"} :
              \/ Listing(k)!Answer(result)
              \/ call' = [Listing(k)!Idle EXCEPT !.phase = "done", !.result = result]
  <2>1. Listing(k)!TypeOK
    BY DEF Listing!ListingInv
  <2>2. file'.listed \subseteq (Listing(k)!Scopes \union {"active"}) \X Listings[k].own
    BY <1>1
  <2> QED BY <1>1, <1>3, <2>1, <2>2, ListingAnswers
<1> QED BY <1>2, <1>3 DEF Listing!Throttled, Listing!Refused, Listing!Die

\* A channel of another kind ends the call.
LEMMA ListingChecksKind ==
    ASSUME NEW k \in DOMAIN Listings, Listing(k)!ListingInv, Listing(k)!CheckKind
    PROVE  Listing(k)!ListingInv'
<1>1. /\ UNCHANGED <<archived, stamp, moved, file>> /\ call.phase = "kind"
      /\ file.listed \subseteq (Listing(k)!Scopes \union {"active"}) \X Listings[k].own
      /\ call \in Listing(k)!Calls /\ call.result = "none" /\ call.left = call.scopes
      /\ call.partial = {}
  BY DEF Listing!CheckKind, Listing!ListingInv, Listing!TypeOK, Listing!ScopesInOrder,
         Listing!Calls
<1>2. CASE call' = [call EXCEPT !.phase = "active", !.retries = 0]
  <2>1. call' \in Listing(k)!Calls
    <3>1. 0 \in 0..Listings[k].max_retries
      BY ListingConstants
    <3> QED BY <1>1, <1>2, <3>1 DEF Listing!Calls
  <2>2. /\ call'.phase = "active" /\ call'.result = "none" /\ call'.left = call.left
        /\ call'.scopes = call.scopes /\ call'.partial = {} /\ call'.found = call.found
    BY <1>1, <1>2 DEF Listing!Calls
  <2>3. Listing(k)!ScopesInOrder'
    BY <1>1, <2>2 DEF Listing!ScopesInOrder
  <2>4. Listing(k)!FoundSoFar'
    BY <1>1, <2>2 DEF Listing!ListingInv, Listing!FoundSoFar, Listing!Finished,
       Listing!PlaceOf, Listing!InScope
  <2> QED BY <1>1, <2>1, <2>2, <2>3, <2>4, ListingGoesOn
<1>3. CASE Listing(k)!Answer("blocked")
  <2>1. Listing(k)!TypeOK
    BY DEF Listing!ListingInv
  <2>2. file'.listed \subseteq (Listing(k)!Scopes \union {"active"}) \X Listings[k].own
    BY <1>1
  <2> QED BY <1>1, <1>3, <2>1, <2>2, ListingAnswers
<1> QED BY <1>2, <1>3 DEF Listing!CheckKind

\* Every thread of the parent that is active is found at once.
LEMMA ListingFetchesActive ==
    ASSUME NEW k \in DOMAIN Listings, Listing(k)!ListingInv, Listing(k)!FetchActive
    PROVE  Listing(k)!ListingInv'
<1> DEFINE active == {t \in Listings[k].threads \ archived : t \in Listings[k].own}
<1>1. /\ UNCHANGED <<archived, stamp, moved, file>> /\ call.phase = "active"
      /\ call \in Listing(k)!Calls /\ call.result = "none" /\ call.left = call.scopes
      /\ call.partial = {}
      /\ call' = [call EXCEPT !.phase = "scope", !.retries = 0,
                              !.found = {<<"active", t>> : t \in active}]
  BY DEF Listing!FetchActive, Listing!ListingInv, Listing!TypeOK, Listing!ScopesInOrder,
         Listing!Calls
<1>2. call' \in Listing(k)!Calls
  <2>1. {<<"active", t>> : t \in active} \in
            SUBSET ((Listing(k)!Scopes \union {"active"}) \X Listings[k].own)
    OBVIOUS
  <2> HIDE DEF active
  <2>2. 0 \in 0..Listings[k].max_retries
    BY ListingConstants
  <2> QED BY <1>1, <2>1, <2>2 DEF Listing!Calls
<1>3. /\ call'.phase = "scope" /\ call'.result = "none" /\ call'.left = call.left
      /\ call'.scopes = call.scopes /\ call'.partial = {}
      /\ call'.found = {<<"active", t>> : t \in active}
  BY <1>1 DEF Listing!Calls
<1>4. \A s, t : <<s, t>> \in call'.found <=> s = "active" /\ t \in active
  BY <1>3
<1>5. \A t : t \in active <=> t \in Listings[k].own \ archived
  BY ListingConstants
<1>6. Listing(k)!ScopesInOrder'
  BY <1>3 DEF Listing!ScopesInOrder
<1>7. Listing(k)!FoundSoFar'
  BY <1>1, <1>3, <1>4, <1>5 DEF Listing!FoundSoFar, Listing!Finished, Listing!Whole,
     Listing!PlaceOf, Listing!InScope
<1> QED BY <1>1, <1>2, <1>3, <1>6, <1>7, ListingGoesOn

\* A scope begins without a cursor, which leaves nothing out.
LEMMA ListingNextScope ==
    ASSUME NEW k \in DOMAIN Listings, Listing(k)!ListingInv, Listing(k)!NextScope
    PROVE  Listing(k)!ListingInv'
<1>1. /\ UNCHANGED <<archived, stamp, moved, file>> /\ call.phase = "scope"
      /\ call \in Listing(k)!Calls /\ call.result = "none"
      /\ call.left \subseteq call.scopes /\ call.partial \subseteq call.scopes \ call.left
  BY DEF Listing!NextScope, Listing!ListingInv, Listing!TypeOK
<1>2. Listing(k)!FoundSoFar
  BY DEF Listing!ListingInv
<1>3. CASE call.left = {} /\ call' = [call EXCEPT !.phase = "write"]
  <2>1. call' \in Listing(k)!Calls
    BY <1>1, <1>3 DEF Listing!Calls
  <2>2. /\ call'.phase = "write" /\ call'.result = "none" /\ call'.left = {}
        /\ call'.scopes = call.scopes /\ call'.partial = call.partial
        /\ call'.found = call.found /\ call'.asked = call.asked
    BY <1>1, <1>3 DEF Listing!Calls
  <2>3. Listing(k)!ScopesInOrder'
    BY <2>2 DEF Listing!ScopesInOrder
  <2>4. Listing(k)!Finished' = Listing(k)!Finished
    BY <1>1, <1>3, <2>2 DEF Listing!Finished
  <2>5. \A s : (Listing(k)!Whole(s)' <=> Listing(k)!Whole(s))
    BY <1>1, <2>2 DEF Listing!Whole, Listing!PlaceOf, Listing!InScope, Listing!Tied
  <2>6. Listing(k)!FoundSoFar'
    BY <1>1, <1>2, <2>2, <2>4, <2>5 DEF Listing!FoundSoFar, Listing!PlaceOf, Listing!InScope
  <2> QED BY <1>1, <2>1, <2>2, <2>3, <2>6, ListingGoesOn
<1>4. ASSUME NEW s \in call.left,
             call' = [call EXCEPT !.phase = "page", !.scope = s, !.left = call.left \ {s},
                                  !.cursor = Listing(k)!NoCursor, !.seen = {}, !.pages = 0]
      PROVE  Listing(k)!ListingInv'
  <2>1. call' \in Listing(k)!Calls
    <3>1. s \in Listing(k)!Scopes /\ call.left \ {s} \in SUBSET Listing(k)!Scopes
      BY <1>1 DEF Listing!Calls
    <3>2. 0 \in 0..Listings[k].max_pages /\ Listing(k)!NoCursor \in Nat
      BY ListingConstants DEF Listing!NoCursor
    <3> QED BY <1>1, <1>4, <3>1, <3>2 DEF Listing!Calls
  <2>2. /\ call'.phase = "page" /\ call'.result = "none" /\ call'.left = call.left \ {s}
        /\ call'.scopes = call.scopes /\ call'.partial = call.partial /\ call'.scope = s
        /\ call'.found = call.found /\ call'.asked = call.asked /\ call'.pages = 0
        /\ call'.cursor = Listing(k)!NoCursor
    BY <1>1, <1>4 DEF Listing!Calls
  <2>3. Listing(k)!ScopesInOrder'
    <3>1. 0 < Listings[k].max_pages
      BY ListingConstants
    <3> QED BY <1>1, <1>4, <2>2, <3>1 DEF Listing!ScopesInOrder
  <2>4. Listing(k)!Finished' = Listing(k)!Finished
    BY <1>1, <1>4, <2>2 DEF Listing!Finished
  <2>5. \A r : (Listing(k)!Whole(r)' <=> Listing(k)!Whole(r))
    BY <1>1, <2>2 DEF Listing!Whole, Listing!PlaceOf, Listing!InScope, Listing!Tied
  <2>6. Listing(k)!FoundSoFar'
    BY <1>1, <1>2, <2>2, <2>4, <2>5
    DEF Listing!FoundSoFar, Listing!PlaceOf, Listing!InScope, Listing!NoCursor
  <2> QED BY <1>1, <2>1, <2>2, <2>3, <2>6, ListingGoesOn
<1> QED BY <1>3, <1>4 DEF Listing!NextScope

\* What a page adds to what was found: the threads at the places they have, and every one
\* that lies behind the cursor and is not in the page lies behind the page.
LEMMA PageAdds ==
    ASSUME NEW k \in DOMAIN Listings, Listing(k)!ListingInv, call.phase = "page",
           NEW deaf \in BOOLEAN
    PROVE  LET s == call.scope
               asked == IF deaf THEN Listing(k)!NoCursor ELSE call.cursor
               page == Listing(k)!Page(s, asked)
               found == call.found \union {<<s, t>> : t \in page}
           IN  /\ page \subseteq archived /\ s \in Listing(k)!Scopes
               /\ found \in SUBSET ((Listing(k)!Scopes \union {"active"}) \X Listings[k].own)
               /\ \A r \in Listing(k)!Scopes \union {"active"}, t \in Listings[k].own \ moved :
                     <<r, t>> \in found => Listing(k)!PlaceOf(r, t)
               /\ \A t \in archived \ moved :
                     Listing(k)!InScope(s, t) /\ ~Listing(k)!Tied(t) =>
                        \/ <<s, t>> \in found
                        \/ /\ page # Listing(k)!Remaining(s, asked)
                           /\ \A p \in page : Listing(k)!CursorFor(s, t) < Listing(k)!CursorFor(s, p)
<1> DEFINE s == call.scope
           own == Listings[k].own
           asked == IF deaf THEN Listing(k)!NoCursor ELSE call.cursor
           all == Listing(k)!Remaining(s, asked)
           page == Listing(k)!Page(s, asked)
           new == {<<s, t>> : t \in page}
<1>1. /\ archived \subseteq own /\ moved \subseteq own
      /\ stamp \in [own -> Listings[k].stamps] /\ call \in Listing(k)!Calls
      /\ s \in Listing(k)!Scopes /\ s # "active" /\ Listing(k)!TypeOK
  BY DEF Listing!ListingInv, Listing!TypeOK, Listing!ScopesInOrder, Listing!Calls,
         Listing!Scopes
<1>2. /\ page \subseteq all /\ all \subseteq archived
      /\ \A t \in all \ page, p \in page : Listing(k)!Ahead(s, p, t)
  BY <1>1, PageIsFirst
<1>3. \A t \in page : Listing(k)!InScope(s, t)
  BY <1>2 DEF Listing!Remaining
<1>4. /\ \A r \in Listing(k)!Scopes \union {"active"}, t \in own \ moved :
            <<r, t>> \in call.found => Listing(k)!PlaceOf(r, t)
      /\ call.cursor # Listing(k)!NoCursor =>
            \A t \in archived \ moved :
                Listing(k)!InScope(s, t) /\ ~Listing(k)!Tied(t) =>
                   <<s, t>> \in call.found \/ Listing(k)!CursorFor(s, t) < call.cursor
  BY DEF Listing!ListingInv, Listing!FoundSoFar, Listing!InScope, Listing!NoCursor
<1>5. \A t \in archived : t \in all <=>
          /\ Listing(k)!InScope(s, t)
          /\ asked = Listing(k)!NoCursor \/ Listing(k)!CursorFor(s, t) < asked
  BY DEF Listing!Remaining, Listing!NoCursor
<1> HIDE DEF page, all
<1>6. \A r, t : <<r, t>> \in new <=> r = s /\ t \in page
  OBVIOUS
<1>7. new \in SUBSET ((Listing(k)!Scopes \union {"active"}) \X own)
  BY <1>1, <1>2
<1> HIDE DEF new
<1>8. ASSUME NEW r \in Listing(k)!Scopes \union {"active"}, NEW t \in own \ moved,
             <<r, t>> \in call.found \union new
      PROVE  Listing(k)!PlaceOf(r, t)
  BY <1>1, <1>2, <1>3, <1>4, <1>6, <1>8 DEF Listing!PlaceOf
<1>9. ASSUME NEW t \in archived \ moved, Listing(k)!InScope(s, t), ~Listing(k)!Tied(t),
             <<s, t>> \notin call.found \union new
      PROVE  page # all /\ \A p \in page : Listing(k)!CursorFor(s, t) < Listing(k)!CursorFor(s, p)
  <2>1. t \in all
    BY <1>4, <1>5, <1>9
  <2>2. t \notin page
    BY <1>6, <1>9
  <2>3. ASSUME NEW p \in page
        PROVE  Listing(k)!CursorFor(s, t) < Listing(k)!CursorFor(s, p)
    <3>1. Listing(k)!Ahead(s, p, t) /\ p # t /\ p \in archived /\ p \in own /\ t \in own
      BY <1>1, <1>2, <2>1, <2>2
    <3>2. Listing(k)!CursorFor(s, p) # Listing(k)!CursorFor(s, t)
      BY <1>9, <3>1 DEF Listing!CursorFor, Listing!Tied
    <3>3. Listing(k)!CursorFor(s, p) \in Nat /\ Listing(k)!CursorFor(s, t) \in Nat
      BY <1>1, <3>1, AheadIsTotal
    <3> QED BY <3>1, <3>2, <3>3 DEF Listing!Ahead
  <2> QED BY <2>1, <2>2, <2>3
<1>10. page \subseteq archived
  BY <1>2
<1>11. call.found \union new \in SUBSET ((Listing(k)!Scopes \union {"active"}) \X own)
  BY <1>1, <1>7 DEF Listing!Calls
<1> QED BY <1>1, <1>8, <1>9, <1>10, <1>11 DEF page, all, new

\* A page goes on to the next, or ends its scope: whole when nothing more follows.
LEMMA ListingFetchesPage ==
    ASSUME NEW k \in DOMAIN Listings, Listing(k)!ListingInv,
           NEW deaf \in BOOLEAN, NEW claims \in BOOLEAN, Listing(k)!FetchPage(deaf, claims)
    PROVE  Listing(k)!ListingInv'
<1> DEFINE s == call.scope
           own == Listings[k].own
           asked == IF deaf THEN Listing(k)!NoCursor ELSE call.cursor
           all == Listing(k)!Remaining(s, asked)
           page == Listing(k)!Page(s, asked)
           more == claims \/ page # all
           last == CHOOSE t \in page : \A u \in page \ {t} : Listing(k)!Ahead(s, u, t)
           pages == call.pages + 1
           found == call.found \union {<<s, t>> : t \in page}
           got == [call EXCEPT !.found = found, !.pages = pages, !.retries = 0]
           low == Listing(k)!CursorFor(s, last)
<1>1. /\ call.phase = "page" /\ UNCHANGED <<archived, stamp, moved, file>>
      /\ \/ Listing(k)!Answer("blocked")
         \/ /\ more /\ page # {} /\ low \notin call.seen /\ pages < Listings[k].max_pages
            /\ call' = [got EXCEPT !.cursor = low, !.seen = got.seen \union {low}]
         \/ call' = [got EXCEPT !.phase = "scope",
                                !.partial = IF Listing(k)!Exhausted(more, pages) THEN got.partial
                                            ELSE got.partial \union {s}]
  BY DEF Listing!FetchPage
<1>2. /\ page \subseteq archived /\ s \in Listing(k)!Scopes
      /\ found \in SUBSET ((Listing(k)!Scopes \union {"active"}) \X own)
      /\ \A r \in Listing(k)!Scopes \union {"active"}, t \in own \ moved :
            <<r, t>> \in found => Listing(k)!PlaceOf(r, t)
      /\ \A t \in archived \ moved :
            Listing(k)!InScope(s, t) /\ ~Listing(k)!Tied(t) =>
               \/ <<s, t>> \in found
               \/ /\ page # all
                  /\ \A p \in page : Listing(k)!CursorFor(s, t) < Listing(k)!CursorFor(s, p)
  BY <1>1, PageAdds
<1>3. /\ Listing(k)!TypeOK /\ call \in Listing(k)!Calls /\ call.result = "none"
      /\ call.left \subseteq call.scopes /\ call.partial \subseteq call.scopes \ call.left
      /\ s \in call.scopes \ call.left /\ call.pages < Listings[k].max_pages
      /\ archived \subseteq own /\ stamp \in [own -> Listings[k].stamps]
      /\ file.listed \subseteq (Listing(k)!Scopes \union {"active"}) \X own
      /\ Listing(k)!FoundSoFar
  BY <1>1 DEF Listing!ListingInv, Listing!TypeOK, Listing!ScopesInOrder
<1>4. page # {} => last \in page /\ low \in Nat
  <2>1. page # {} => \E t \in page : \A u \in page \ {t} : Listing(k)!Ahead(s, u, t)
    BY <1>3, PageIsFirst
  <2>2. page # {} => last \in page
    <3> HIDE DEF page
    <3> QED BY <2>1
  <2> QED BY <1>2, <1>3, <2>2, AheadIsTotal
<1>5. /\ pages \in 0..Listings[k].max_pages /\ 0 \in 0..Listings[k].max_retries
      /\ Listings[k].max_pages \in Nat
  BY <1>3, ListingConstants DEF Listing!Calls
<1> HIDE DEF found, page, all, low, last, pages
<1>6. /\ got \in Listing(k)!Calls /\ got.phase = "page" /\ got.result = "none"
      /\ got.found = found /\ got.pages = pages /\ got.left = call.left
      /\ got.scopes = call.scopes /\ got.partial = call.partial /\ got.scope = s
      /\ got.asked = call.asked
  BY <1>1, <1>2, <1>3, <1>5 DEF Listing!Calls
<1> HIDE DEF got
\* What was whole stays so.
<1>7. \A r \in Listing(k)!Scopes \union {"active"} :
         call'.found = found => (Listing(k)!Whole(r) => Listing(k)!Whole(r)')
  <2>1. call.found \subseteq found
    BY DEF found
  <2> QED BY <1>1, <2>1 DEF Listing!Whole, Listing!PlaceOf, Listing!InScope, Listing!Tied
<1>8. CASE Listing(k)!Answer("blocked")
  <2>1. file'.listed \subseteq (Listing(k)!Scopes \union {"active"}) \X own
    BY <1>1, <1>3
  <2> QED BY <1>1, <1>3, <1>8, <2>1, ListingAnswers
<1>9. CASE /\ more /\ page # {} /\ low \notin call.seen /\ pages < Listings[k].max_pages
           /\ call' = [got EXCEPT !.cursor = low, !.seen = got.seen \union {low}]
  <2>1. /\ call' \in Listing(k)!Calls
        /\ call'.phase = "page" /\ call'.result = "none" /\ call'.found = found
        /\ call'.pages = pages /\ call'.left = call.left /\ call'.scopes = call.scopes
        /\ call'.partial = call.partial /\ call'.scope = s /\ call'.asked = call.asked
        /\ call'.cursor = low
    BY <1>4, <1>6, <1>9 DEF Listing!Calls
  <2>2. Listing(k)!ScopesInOrder'
    BY <1>3, <1>9, <2>1 DEF Listing!ScopesInOrder
  <2>3. Listing(k)!Finished' = Listing(k)!Finished
    BY <1>1, <2>1 DEF Listing!Finished
  <2>4. \A t \in archived \ moved :
           Listing(k)!InScope(s, t) /\ ~Listing(k)!Tied(t) =>
              <<s, t>> \in found \/ Listing(k)!CursorFor(s, t) < low
    BY <1>2, <1>4, <1>9 DEF low
  <2>5. Listing(k)!Finished \subseteq Listing(k)!Scopes
    BY <1>3 DEF Listing!Finished, Listing!Calls
  <2>6. /\ \A r \in Listing(k)!Finished' \ call'.partial : Listing(k)!Whole(r)'
        /\ call'.asked # "none" => Listing(k)!Whole("active")'
    BY <1>1, <1>3, <1>7, <2>1, <2>3, <2>5 DEF Listing!FoundSoFar
  <2>7. Listing(k)!FoundSoFar'
    BY <1>1, <1>2, <2>1, <2>4, <2>6
    DEF Listing!FoundSoFar, Listing!PlaceOf, Listing!InScope, Listing!CursorFor,
        Listing!Tied
  <2> QED BY <1>1, <1>3, <2>1, <2>2, <2>7, ListingGoesOn
<1>10. CASE call' = [got EXCEPT !.phase = "scope",
                                !.partial = IF Listing(k)!Exhausted(more, pages) THEN got.partial
                                            ELSE got.partial \union {s}]
  <2>1. /\ call' \in Listing(k)!Calls
        /\ call'.phase = "scope" /\ call'.result = "none" /\ call'.found = found
        /\ call'.left = call.left /\ call'.scopes = call.scopes /\ call'.asked = call.asked
        /\ call'.partial = IF more THEN call.partial \union {s} ELSE call.partial
    BY <1>2, <1>6, <1>10 DEF Listing!Calls, Listing!Exhausted
  <2>2. Listing(k)!ScopesInOrder'
    BY <2>1 DEF Listing!ScopesInOrder
  <2>3. /\ Listing(k)!Finished' \subseteq Listing(k)!Finished \union {s}
        /\ Listing(k)!Finished \subseteq Listing(k)!Scopes
    BY <1>1, <1>3, <2>1 DEF Listing!Finished, Listing!Calls
  <2>4. ASSUME ~more, NEW r, r = s PROVE Listing(k)!Whole(r)'
    <3> SUFFICES ASSUME NEW t \in own \ moved, Listing(k)!PlaceOf(s, t),
                        ~Listing(k)!Tied(t)
                 PROVE  <<s, t>> \in found
      BY <1>1, <2>1, <2>4 DEF Listing!Whole, Listing!PlaceOf, Listing!InScope, Listing!Tied
    <3>1. s # "active"
      BY <1>2 DEF Listing!Scopes
    <3>2. t \in archived /\ Listing(k)!InScope(s, t)
      BY <3>1 DEF Listing!PlaceOf
    <3>3. t \in archived \ moved /\ page = all
      BY <2>4, <3>2
    <3> HIDE DEF s
    <3> QED BY <1>2, <3>2, <3>3
  <2>5. /\ \A r \in Listing(k)!Finished' \ call'.partial : Listing(k)!Whole(r)'
        /\ call'.asked # "none" => Listing(k)!Whole("active")'
    <3>1. /\ \A r \in Listing(k)!Finished \ call.partial : Listing(k)!Whole(r)
          /\ call.asked # "none" => Listing(k)!Whole("active")
      BY <1>1, <1>3 DEF Listing!FoundSoFar
    <3>2. \A r \in Listing(k)!Scopes \union {"active"} :
             Listing(k)!Whole(r) => Listing(k)!Whole(r)'
      BY <1>7, <2>1
    <3>3. ASSUME NEW r \in Listing(k)!Finished' \ call'.partial PROVE Listing(k)!Whole(r)'
      <4>1. CASE r = s
        <5>1. ~more
          BY <2>1, <4>1
        <5> QED BY <2>4, <4>1, <5>1
      <4>2. CASE r # s
        <5>1. r \in Listing(k)!Finished \ call.partial /\ r \in Listing(k)!Scopes
          BY <2>1, <2>3, <4>2
        <5> QED BY <3>1, <3>2, <5>1
      <4> QED BY <4>1, <4>2
    <3> QED BY <2>1, <3>1, <3>2, <3>3
  <2>6. Listing(k)!FoundSoFar'
    BY <1>1, <1>2, <2>1, <2>5
    DEF Listing!FoundSoFar, Listing!PlaceOf, Listing!InScope
  <2>7. call'.partial \subseteq call'.scopes \ call'.left
    BY <1>3, <2>1
  <2> QED BY <1>1, <1>3, <2>1, <2>2, <2>6, <2>7, ListingGoesOn
<1> QED BY <1>1, <1>8, <1>9, <1>10

\* The file says complete when nothing was cut off, and then has every thread.
LEMMA ListingWrites ==
    ASSUME NEW k \in DOMAIN Listings, Listing(k)!ListingInv, Listing(k)!Write
    PROVE  Listing(k)!ListingInv'
<1> DEFINE own == Listings[k].own
<1>1. /\ UNCHANGED <<archived, stamp, moved>> /\ call.phase = "write" /\ call.left = {}
      /\ Listing(k)!TypeOK /\ call \in Listing(k)!Calls /\ Listing(k)!FoundSoFar
      /\ file.listed \subseteq (Listing(k)!Scopes \union {"active"}) \X own
      /\ call.found \subseteq (Listing(k)!Scopes \union {"active"}) \X own
      /\ call.scopes \subseteq Listing(k)!Scopes
  BY DEF Listing!Write, Listing!ListingInv, Listing!TypeOK, Listing!ScopesInOrder,
         Listing!Calls
<1>2. CASE Listing(k)!Answer("blocked") /\ UNCHANGED file
  <2>1. file'.listed \subseteq (Listing(k)!Scopes \union {"active"}) \X own
    BY <1>1, <1>2
  <2> QED BY <1>1, <1>2, <2>1, ListingAnswers
<1>3. CASE /\ call.asked = "none" \/ Listing(k)!Listable
           /\ file' = [listed |-> call.found, complete |-> call.partial = {}]
           /\ Listing(k)!Answer(IF call.partial = {} THEN "complete" ELSE "partial")
  <2>1. file'.listed = call.found /\ file'.complete = (call.partial = {})
    BY <1>3
  <2>2. CASE call.partial # {}
    <3>1. Listing(k)!Answer("partial")
      BY <1>3, <2>2
    <3>2. file'.listed \subseteq (Listing(k)!Scopes \union {"active"}) \X own
      BY <1>1, <2>1
    <3> QED BY <1>1, <3>1, <3>2, ListingAnswers
  <2>3. CASE call.partial = {}
    <3>1. call' = [Listing(k)!Idle EXCEPT !.phase = "done", !.result = "complete",
                                          !.asked = call.asked, !.scopes = call.scopes]
      BY <1>3, <2>3 DEF Listing!Answer
    <3>2. Listing(k)!Idle \in Listing(k)!Calls
      BY ListingConstants
      DEF Listing!Idle, Listing!Calls, Listing!Scopes, Listing!NoCursor
    <3>3. call' \in Listing(k)!Calls
      BY <1>1, <3>1, <3>2 DEF Listing!Calls
    <3>4. /\ call'.phase = "done" /\ call'.result = "complete" /\ call'.left = {}
          /\ call'.partial = {} /\ call'.asked = call.asked /\ call'.scopes = call.scopes
      BY <3>1 DEF Listing!Idle
    <3>5. Listing(k)!TypeOK'
      BY <1>1, <2>1, <3>3, <3>4 DEF Listing!TypeOK
    <3>6. Listing(k)!ScopesInOrder' /\ Listing(k)!FoundSoFar'
      BY <3>4 DEF Listing!ScopesInOrder, Listing!FoundSoFar
    <3>7. ASSUME NEW s \in call.scopes \union (IF call.asked = "none" THEN {} ELSE {"active"}),
                 NEW t \in own \ moved, Listing(k)!Untied(t)
          PROVE  <<s, t>> \in call.found <=> Listing(k)!PlaceOf(s, t)
      <4>1. Listing(k)!Whole(s)
        BY <1>1, <2>3 DEF Listing!FoundSoFar, Listing!Finished
      <4>2. ~Listing(k)!Tied(t)
        BY <1>1, <3>7 DEF Listing!Untied, Listing!Tied, Listing!TypeOK
      <4>3. <<s, t>> \in call.found => Listing(k)!PlaceOf(s, t)
        BY <1>1 DEF Listing!FoundSoFar
      <4> QED BY <4>1, <4>2, <4>3 DEF Listing!Whole
    <3>8. call.asked # "none" => \A x, y \in call.found : x[2] = y[2] => x = y
      BY <1>3 DEF Listing!Listable
    <3>9. Listing(k)!CompleteListsEverything'
      <4>1. /\ file'.complete
            /\ call'.asked # "none" =>
                  \A x, y \in file'.listed : x[2] = y[2] => x = y
        BY <2>1, <2>3, <3>4, <3>8
      <4>2. ASSUME NEW s \in call'.scopes \union
                              (IF call'.asked = "none" THEN {} ELSE {"active"}),
                   NEW t \in own \ moved', Listing(k)!Untied(t)'
            PROVE  <<s, t>> \in file'.listed <=> Listing(k)!PlaceOf(s, t)'
        <5>1. Listing(k)!Untied(t)
          BY <1>1, <4>2 DEF Listing!Untied
        <5>2. <<s, t>> \in call.found <=> Listing(k)!PlaceOf(s, t)
          BY <1>1, <3>4, <3>7, <4>2, <5>1
        <5>3. Listing(k)!PlaceOf(s, t)' <=> Listing(k)!PlaceOf(s, t)
          BY <1>1 DEF Listing!PlaceOf, Listing!InScope
        <5> QED BY <2>1, <5>2, <5>3
      <4>3. LET parts == call'.scopes \union (IF call'.asked = "none" THEN {} ELSE {"active"})
            IN  \A s \in parts, t \in own \ moved' : Listing(k)!Untied(t)' =>
                   (<<s, t>> \in file'.listed <=> Listing(k)!PlaceOf(s, t)')
        BY <4>2
      <4> QED BY <4>1, <4>3 DEF Listing!CompleteListsEverything
    <3> QED BY <3>5, <3>6, <3>9 DEF Listing!ListingInv
  <2> QED BY <2>2, <2>3
<1> QED BY <1>2, <1>3 DEF Listing!Write

\* Every step of the call, and of the threads meanwhile.
LEMMA ListingStep ==
    ASSUME NEW k \in DOMAIN Listings, Listing(k)!ListingInv, Listing(k)!Next
    PROVE  Listing(k)!ListingInv'
<1>1. ASSUME NEW t \in Listings[k].own, Listing(k)!Archive(t) \/ Listing(k)!Unarchive(t)
      PROVE  Listing(k)!ListingInv'
  BY <1>1, ListingMoves
<1>2. ASSUME NEW asked \in {"text", "forum", "none"}, NEW scopes \in SUBSET Listing(k)!Scopes,
             Listing(k)!Start(asked, scopes)
      PROVE  Listing(k)!ListingInv'
  BY <1>2, ListingStarts
<1>3. CASE Listing(k)!Throttled \/ Listing(k)!Refused \/ Listing(k)!Die
  BY <1>3, ListingThrottled
<1>4. CASE Listing(k)!CheckKind
  BY <1>4, ListingChecksKind
<1>5. CASE Listing(k)!FetchActive
  BY <1>5, ListingFetchesActive
<1>6. CASE Listing(k)!NextScope
  BY <1>6, ListingNextScope
<1>7. ASSUME NEW deaf \in BOOLEAN, NEW claims \in BOOLEAN, Listing(k)!FetchPage(deaf, claims)
      PROVE  Listing(k)!ListingInv'
  BY <1>7, ListingFetchesPage
<1>8. CASE Listing(k)!Write
  BY <1>8, ListingWrites
<1> QED BY <1>1, <1>2, <1>3, <1>4, <1>5, <1>6, <1>7, <1>8 DEF Listing!Next, Listing!Query

------------------------------------------------------------------------------
(***************************************************************************)
(* The read routes                                                         *)
(***************************************************************************)
LEMMA RoutesCounts == \A S : Routes!Cardinality(S) = Cardinality(S)
  BY DEF Routes!Cardinality, Cardinality

\* The newest n of some messages: no more than n, all of them if fewer, and none that is
\* newer is left out.
LEMMA NewestOf ==
    ASSUME NEW n \in Nat, NEW S, \A m \in S : m \in Int, IsFiniteSet(S)
    PROVE  LET T == Routes!Newest(n, S) IN
           /\ T \subseteq S /\ IsFiniteSet(T)
           /\ Cardinality(T) \in Nat /\ Cardinality(T) <= n
           /\ Cardinality(T) < n => T = S
           /\ \A m \in S, t \in T : m > t => m \in T
<1> DEFINE over(m) == {o \in S : o > m}
           T == {m \in S : Cardinality(over(m)) < n}
<1>1. T = Routes!Newest(n, S)
  BY RoutesCounts DEF Routes!Newest
<1>2. \A m \in S : over(m) \in SUBSET S /\ IsFiniteSet(over(m)) /\ Cardinality(over(m)) \in Nat
  BY FS_Subset, FS_CardinalityType
<1>3. IsFiniteSet(T) /\ Cardinality(T) \in Nat
  BY FS_Subset, FS_CardinalityType
<1>4. \A m \in S, t \in T : m > t => m \in T
  <2> SUFFICES ASSUME NEW m \in S, NEW t \in T, m > t PROVE m \in T
    OBVIOUS
  <2>1. over(m) \in SUBSET over(t)
    OBVIOUS
  <2>2. Cardinality(over(m)) <= Cardinality(over(t)) /\ Cardinality(over(t)) < n
    BY <1>2, <2>1, FS_Subset
  <2> HIDE DEF over
  <2> QED BY <1>2, <2>2
<1>5. Cardinality(T) <= n
  <2>1. CASE T = {}
    <3> HIDE DEF T
    <3>1. Cardinality(T) = 0
      BY <1>3, <2>1, FS_EmptySet
    <3> QED BY <3>1
  <2>2. CASE T # {}
    <3>1. PICK t \in T : \A u \in T : t <= u
      <4> HIDE DEF T
      <4>1. \A u \in T : u \in Int
        BY DEF T
      <4> QED BY <1>3, <2>2, <4>1, HasLeast
    <3>2. T \ {t} \in SUBSET over(t)
      BY <3>1
    <3>3. Cardinality(T \ {t}) <= Cardinality(over(t)) /\ Cardinality(over(t)) < n
      BY <1>2, <3>1, <3>2, FS_Subset
    <3>4. Cardinality(T \ {t}) = Cardinality(T) - 1
      BY <1>3, <3>1, FS_RemoveElement
    <3> HIDE DEF T, over
    <3>5. Cardinality(over(t)) \in Nat
      BY <1>2, <3>1 DEF T
    <3> QED BY <1>3, <3>3, <3>4, <3>5
  <2> QED BY <2>1, <2>2
<1>6. ASSUME Cardinality(T) < n PROVE T = S
  <2> SUFFICES ASSUME S \ T # {} PROVE FALSE
    OBVIOUS
  <2>1. PICK m \in S \ T : \A u \in S \ T : u <= m
    <3> HIDE DEF T
    <3>1. IsFiniteSet(S \ T) /\ \A u \in S \ T : u \in Int
      BY FS_Subset
    <3> QED BY <3>1, HasGreatest
  <2>2. over(m) \in SUBSET T
    BY <2>1
  <2>3. Cardinality(over(m)) <= Cardinality(T) /\ Cardinality(over(m)) \in Nat
    <3> HIDE DEF T, over
    <3> QED BY <1>2, <1>3, <2>1, <2>2, FS_Subset
  <2>4. Cardinality(over(m)) < n
    BY <1>3, <1>6, <2>3
  <2> QED BY <2>1, <2>4
<1>7. T \subseteq S
  OBVIOUS
<1> HIDE DEF T
<1> QED BY <1>1, <1>3, <1>4, <1>5, <1>6, <1>7

\* The decider begins with the gateway.
LEMMA RoutesBegin == Routes!Init => Routes!RoutesInv
<1> SUFFICES ASSUME Routes!Init PROVE Routes!RoutesInv
  OBVIOUS
<1>1. /\ Limit \in Nat /\ MaxMessage \in Nat /\ Routes!Budget \in Nat \ {0}
      /\ Nothing \notin {"gateway", "rest", "inbox", "ask_browser_fallback"}
  BY ToolsAssumption DEF Routes!RoutesAssumption, Routes!Budget
<1> QED BY <1>1 DEF Routes!Init, Routes!RoutesInv, Routes!TypeOK, Routes!RoutesInOrder,
                    Routes!FetchedSoFar, Routes!BrowserIsLast

\* A page takes the cursor on, and leaves nothing behind that stands.
LEMMA PageTakesNewest ==
    ASSUME Routes!RoutesInv, Routes!FetchPage
    PROVE  Routes!RoutesInv'
<1> DEFINE asked == Routes!Least(RestPage, fetch.left)
           older == Routes!Older
           page == Routes!Newest(asked, older)
           now == [fetch EXCEPT !.got = @ \union page, !.left = @ - Routes!Cardinality(page)]
           whole == page = {} \/ Routes!LastPage(page, asked)
<1>1. /\ fetch # Nothing /\ fetch.phase = "page" /\ fetch.left > 0
      /\ fetch' = IF whole THEN [now EXCEPT !.phase = "fetched"]
                  ELSE [now EXCEPT !.before = Routes!Min(page)]
      /\ UNCHANGED <<channel, newest, route, raw, manifest, tab>>
  BY DEF Routes!FetchPage, Routes!files
<1>2. /\ fetch \in Routes!RestCommand /\ fetch.left <= Limit /\ Limit \in Nat
      /\ fetch.got \subseteq 1..newest /\ fetch.stood \subseteq channel
      /\ channel \subseteq 1..newest /\ newest \in 0..MaxMessage
  BY <1>1, ToolsAssumption DEF Routes!RoutesAssumption, Routes!RoutesInv, Routes!TypeOK
<1>3. /\ newest \in Nat /\ channel \subseteq Nat \ {0}
      /\ fetch.left \in Nat /\ fetch.before \in Nat /\ fetch.got \subseteq Nat
      /\ fetch.stood \subseteq Nat /\ fetch.run \in Nat
  BY <1>2, ToolsAssumption DEF Routes!RoutesAssumption, Routes!RestCommand
<1>4. /\ Cardinality(fetch.got) = Limit - fetch.left
      /\ fetch.before = 0 => fetch.got = {}
      /\ fetch.before # 0 => \A m \in fetch.got : fetch.before <= m
      /\ fetch.before # 0 => \A m \in fetch.stood : m \in fetch.got \/ m < fetch.before
  BY <1>1, RoutesCounts DEF Routes!RoutesInv, Routes!FetchedSoFar
<1>5. asked \in Nat \ {0} /\ asked <= fetch.left
  BY <1>1, <1>3, ToolsAssumption DEF Routes!RoutesAssumption, Routes!Least
<1>6. older \subseteq channel /\ IsFiniteSet(older) /\ IsFiniteSet(fetch.got)
      /\ \A m \in older : m \in Int
  <2>1. newest \in Nat /\ IsFiniteSet(1..newest)
    BY <1>2, FS_Interval, ToolsAssumption DEF Routes!RoutesAssumption
  <2>2. older \subseteq channel
    BY DEF Routes!Older
  <2> HIDE DEF older
  <2>3. older \in SUBSET (1..newest) /\ fetch.got \in SUBSET (1..newest)
    BY <1>2, <2>2
  <2>4. IsFiniteSet(older) /\ IsFiniteSet(fetch.got)
    BY <2>1, <2>3, FS_Subset
  <2> QED BY <2>1, <2>2, <2>3, <2>4
<1>7. \A m \in channel : m \in older <=> fetch.before = 0 \/ m < fetch.before
  BY DEF Routes!Older
<1> HIDE DEF older, asked
<1>8. /\ page \subseteq older /\ IsFiniteSet(page)
      /\ Cardinality(page) \in Nat /\ Cardinality(page) <= asked
      /\ Cardinality(page) < asked => page = older
      /\ \A m \in older, t \in page : m > t => m \in page
  BY <1>5, <1>6, NewestOf
<1> HIDE DEF page
<1>9. fetch.got \cap page = {}
  BY <1>3, <1>4, <1>6, <1>7, <1>8
<1>10. /\ IsFiniteSet(fetch.got \union page)
       /\ Cardinality(fetch.got \union page) = Limit - (fetch.left - Cardinality(page))
  <2>1. Cardinality(fetch.got) \in Nat /\ Cardinality(fetch.got \cap page) = 0
    BY <1>6, <1>9, FS_EmptySet, FS_CardinalityType
  <2>2. /\ IsFiniteSet(fetch.got \union page)
        /\ Cardinality(fetch.got \union page) =
              Cardinality(fetch.got) + Cardinality(page) - Cardinality(fetch.got \cap page)
    BY <1>6, <1>8, FS_Union
  <2> QED BY <1>2, <1>3, <1>4, <1>8, <2>1, <2>2
<1>11. /\ now \in Routes!RestCommand
       /\ now.got = fetch.got \union page /\ now.left = fetch.left - Cardinality(page)
       /\ now.stood = fetch.stood /\ now.run = fetch.run /\ now.phase = fetch.phase
       /\ now.left <= Limit /\ now.got \subseteq 1..newest
  <2>1. /\ fetch.got \union page \in SUBSET Nat /\ fetch.got \union page \subseteq 1..newest
        /\ fetch.left - Cardinality(page) \in Nat
        /\ fetch.left - Cardinality(page) <= Limit
    <3>1. fetch.got \union page \subseteq Nat /\ fetch.got \union page \subseteq 1..newest
      BY <1>2, <1>3, <1>6, <1>8
    <3>2. fetch.left - Cardinality(page) \in Nat /\ fetch.left - Cardinality(page) <= Limit
      BY <1>2, <1>3, <1>5, <1>8
    <3> QED BY <3>1, <3>2
  <2>2. now = [fetch EXCEPT !.got = fetch.got \union page,
                            !.left = fetch.left - Cardinality(page)]
    BY RoutesCounts
  <2> HIDE DEF now
  <2>3. /\ now \in Routes!RestCommand
        /\ now.got = fetch.got \union page /\ now.left = fetch.left - Cardinality(page)
        /\ now.stood = fetch.stood /\ now.run = fetch.run /\ now.phase = fetch.phase
    BY <1>2, <2>1, <2>2 DEF Routes!RestCommand
  <2> QED BY <2>1, <2>3
<1> HIDE DEF now
<1>12. Routes!TypeOK' /\ Routes!FetchedSoFar' => Routes!RoutesInv'
  <2>1. route.at = "rest" /\ route.decision = Nothing
    BY <1>1 DEF Routes!RoutesInv, Routes!TypeOK, Routes!RoutesInOrder
  <2>2. Nothing # "rest"
    BY ToolsAssumption DEF Routes!RoutesAssumption
  <2>3. Routes!RoutesInOrder'
    BY <1>1, <2>1, <2>2 DEF Routes!RoutesInv, Routes!RoutesInOrder
  <2>4. Routes!BrowserIsLast'
    BY <1>1 DEF Routes!RoutesInv, Routes!BrowserIsLast
  <2> QED BY <2>3, <2>4 DEF Routes!RoutesInv
<1>13. CASE whole
  <2>1. page = older
    BY <1>5, <1>8, <1>13, FS_EmptySet, RoutesCounts DEF Routes!LastPage
  <2>2. fetch.stood \subseteq fetch.got \union page
    BY <1>2, <1>3, <1>4, <1>7, <2>1
  <2>3. fetch' = [now EXCEPT !.phase = "fetched"]
    BY <1>1, <1>13
  <2>4. /\ fetch' \in Routes!RestCommand /\ fetch'.phase = "fetched"
        /\ fetch'.got = now.got /\ fetch'.left = now.left /\ fetch'.stood = now.stood
    BY <1>11, <2>3 DEF Routes!RestCommand
  <2>5. Routes!TypeOK'
    BY <1>1, <1>2, <1>11, <2>4 DEF Routes!RoutesInv, Routes!TypeOK
  <2>6. Routes!FetchedSoFar'
    BY <1>10, <1>11, <2>2, <2>4, RoutesCounts DEF Routes!FetchedSoFar
  <2> QED BY <1>12, <2>5, <2>6
<1>14. CASE ~whole
  <2>1. Routes!Min(page) \in page /\ \A m \in page : Routes!Min(page) <= m
    <3>1. page # {} /\ \A m \in page : m \in Int
      BY <1>6, <1>8, <1>14
    <3>2. \E m \in page : \A o \in page : m <= o
      BY <1>8, <3>1, HasLeast
    <3> QED BY <3>2 DEF Routes!Min
  <2> DEFINE low == Routes!Min(page)
  <2> HIDE DEF low
  <2>2. low \in page /\ low \in Nat \ {0} /\ \A m \in page : low <= m
    BY <1>3, <1>6, <1>8, <2>1 DEF low
  <2>3. \A m \in fetch.got \union page : low <= m
    <3>1. \A m \in fetch.got : low <= m
      <4>1. low \in older /\ low \in channel
        BY <1>6, <1>8, <2>2
      <4> QED BY <1>3, <1>4, <1>7, <2>2, <4>1
    <3> QED BY <2>2, <3>1
  <2>4. \A m \in fetch.stood : m \in fetch.got \union page \/ m < low
    <3> SUFFICES ASSUME NEW m \in fetch.stood, m \notin fetch.got PROVE m \in page \/ m < low
      OBVIOUS
    <3>1. m \in older /\ m \in Nat
      BY <1>2, <1>3, <1>4, <1>7
    <3> QED BY <1>8, <2>2, <3>1
  <2>5. fetch' = [now EXCEPT !.before = low]
    BY <1>1, <1>14 DEF low
  <2>6. /\ fetch' \in Routes!RestCommand /\ fetch'.phase = "page" /\ fetch'.before = low
        /\ fetch'.got = now.got /\ fetch'.left = now.left /\ fetch'.stood = now.stood
    <3>1. low \in Nat /\ now.phase = "page"
      BY <1>1, <1>11, <2>2
    <3> QED BY <1>11, <2>5, <3>1 DEF Routes!RestCommand
  <2>7. Routes!TypeOK'
    BY <1>1, <1>2, <1>11, <2>6 DEF Routes!RoutesInv, Routes!TypeOK
  <2>8. Routes!FetchedSoFar'
    BY <1>10, <1>11, <2>2, <2>3, <2>4, <2>6, RoutesCounts DEF Routes!FetchedSoFar
  <2> QED BY <1>12, <2>7, <2>8
<1> QED BY <1>13, <1>14

\* An answer that is no page of messages ends the fetching, with what there is of it.
LEMMA OddAnswerStops ==
    ASSUME Routes!RoutesInv, Routes!OddAnswer
    PROVE  Routes!RoutesInv'
<1> DEFINE asked == Routes!Least(RestPage, fetch.left)
           older == Routes!Older
           page == Routes!Newest(asked, older)
<1>1. /\ fetch # Nothing /\ fetch.phase = "page" /\ fetch.left > 0
      /\ UNCHANGED <<channel, newest, route, raw, manifest, tab>>
  BY DEF Routes!OddAnswer, Routes!files
<1>2. PICK some \in SUBSET page :
         fetch' = [fetch EXCEPT !.phase = "fetched", !.odd = TRUE,
                                !.got = @ \union some,
                                !.left = @ - Routes!Cardinality(some)]
  BY DEF Routes!OddAnswer
<1>3. /\ fetch \in Routes!RestCommand /\ fetch.left <= Limit /\ Limit \in Nat
      /\ fetch.got \subseteq 1..newest /\ fetch.stood \subseteq channel
      /\ channel \subseteq 1..newest /\ newest \in 0..MaxMessage /\ MaxMessage \in Nat
      /\ RestPage \in Nat \ {0}
  BY <1>1, ToolsAssumption DEF Routes!RoutesAssumption, Routes!RoutesInv, Routes!TypeOK
<1>4. /\ newest \in Nat /\ channel \subseteq Nat \ {0}
      /\ fetch.left \in Nat /\ fetch.before \in Nat /\ fetch.got \subseteq Nat
  BY <1>3 DEF Routes!RestCommand
<1>5. /\ Cardinality(fetch.got) = Limit - fetch.left
      /\ fetch.before = 0 => fetch.got = {}
      /\ fetch.before # 0 => \A m \in fetch.got : fetch.before <= m
  BY <1>1, RoutesCounts DEF Routes!RoutesInv, Routes!FetchedSoFar
<1>6. asked \in Nat \ {0} /\ asked <= fetch.left
  BY <1>1, <1>3, <1>4 DEF Routes!Least
<1>7. /\ older \subseteq channel
      /\ \A m \in older : fetch.before = 0 \/ m < fetch.before
  BY DEF Routes!Older
<1> HIDE DEF older, asked
<1>8. /\ older \in SUBSET (1..newest) /\ fetch.got \in SUBSET (1..newest)
      /\ IsFiniteSet(older) /\ IsFiniteSet(fetch.got) /\ \A m \in older : m \in Int
  <2>1. IsFiniteSet(1..newest)
    BY <1>4, FS_Interval
  <2>2. older \in SUBSET (1..newest) /\ fetch.got \in SUBSET (1..newest)
    BY <1>3, <1>7
  <2>3. IsFiniteSet(older) /\ IsFiniteSet(fetch.got)
    BY <2>1, <2>2, FS_Subset
  <2>4. \A m \in older : m \in Int
    BY <2>2
  <2> QED BY <2>2, <2>3, <2>4
<1>9. /\ page \subseteq older /\ IsFiniteSet(page)
      /\ Cardinality(page) \in Nat /\ Cardinality(page) <= asked
  BY <1>6, <1>8, NewestOf
<1> HIDE DEF page
<1>10. /\ IsFiniteSet(some) /\ Cardinality(some) \in Nat /\ Cardinality(some) <= fetch.left
  <2>1. Cardinality(some) <= Cardinality(page) /\ IsFiniteSet(some) /\ Cardinality(some) \in Nat
    BY <1>2, <1>9, FS_Subset, FS_CardinalityType
  <2> QED BY <1>4, <1>6, <1>9, <2>1
<1>11. fetch.got \cap some = {}
  BY <1>2, <1>4, <1>5, <1>7, <1>9
<1>12. Cardinality(fetch.got \union some) = Limit - (fetch.left - Cardinality(some))
  <2>1. Cardinality(fetch.got) \in Nat /\ Cardinality(fetch.got \cap some) = 0
    BY <1>8, <1>11, FS_EmptySet, FS_CardinalityType
  <2>2. Cardinality(fetch.got \union some) =
           Cardinality(fetch.got) + Cardinality(some) - Cardinality(fetch.got \cap some)
    BY <1>8, <1>10, FS_Union
  <2> QED BY <1>3, <1>4, <1>5, <1>10, <2>1, <2>2
<1>13. /\ fetch' \in Routes!RestCommand /\ fetch'.phase = "fetched" /\ fetch'.odd
       /\ fetch'.got = fetch.got \union some /\ fetch'.stood = fetch.stood
       /\ fetch'.left = fetch.left - Cardinality(some) /\ fetch'.left <= Limit
       /\ fetch'.got \subseteq 1..newest
  <2>1. /\ fetch.got \union some \in SUBSET Nat /\ fetch.got \union some \subseteq 1..newest
        /\ fetch.left - Cardinality(some) \in Nat
        /\ fetch.left - Cardinality(some) <= Limit
    <3>1. some \subseteq 1..newest /\ some \subseteq Nat
      BY <1>2, <1>4, <1>8, <1>9
    <3>2. fetch.got \union some \subseteq Nat /\ fetch.got \union some \subseteq 1..newest
      BY <1>3, <1>4, <3>1
    <3>3. fetch.left - Cardinality(some) \in Nat /\ fetch.left - Cardinality(some) <= Limit
      BY <1>3, <1>4, <1>10
    <3> QED BY <3>2, <3>3
  <2>2. fetch' = [fetch EXCEPT !.phase = "fetched", !.odd = TRUE,
                               !.got = fetch.got \union some,
                               !.left = fetch.left - Cardinality(some)]
    BY <1>2, RoutesCounts
  <2>3. /\ fetch' \in Routes!RestCommand /\ fetch'.phase = "fetched" /\ fetch'.odd
        /\ fetch'.got = fetch.got \union some /\ fetch'.stood = fetch.stood
        /\ fetch'.left = fetch.left - Cardinality(some)
    BY <1>3, <2>1, <2>2 DEF Routes!RestCommand
  <2> QED BY <2>1, <2>3
<1>14. Routes!TypeOK'
  BY <1>1, <1>3, <1>13 DEF Routes!RoutesInv, Routes!TypeOK
<1>15. Routes!FetchedSoFar'
  BY <1>12, <1>13, RoutesCounts DEF Routes!FetchedSoFar
<1>16. Routes!RoutesInOrder'
  <2>1. route.at = "rest" /\ route.decision = Nothing
    BY <1>1 DEF Routes!RoutesInv, Routes!TypeOK, Routes!RoutesInOrder
  <2>2. Nothing # "rest"
    BY ToolsAssumption DEF Routes!RoutesAssumption
  <2> QED BY <1>1, <2>1, <2>2 DEF Routes!RoutesInv, Routes!RoutesInOrder
<1>17. Routes!BrowserIsLast'
  BY <1>1 DEF Routes!RoutesInv, Routes!BrowserIsLast
<1> QED BY <1>14, <1>15, <1>16, <1>17 DEF Routes!RoutesInv

\* A failed attempt is repeated, or the next route's turn comes; no command runs then.
LEMMA RouteFails ==
    ASSUME Routes!RoutesInv, route.at \in {"gateway", "rest"},
           \/ route' = Routes!AfterFailure(route)
           \/ route' = [route EXCEPT !.failed = @ \union {route.at},
                                     !.at = IF @ = "gateway" THEN "rest" ELSE "inbox"],
           fetch' = Nothing, UNCHANGED <<channel, newest, raw, manifest, tab>>
    PROVE  Routes!RoutesInv'
<1>1. Routes!Budget \in Nat \ {0} /\ Nothing # "rest"
  BY ToolsAssumption DEF Routes!RoutesAssumption, Routes!Budget
<1>2. /\ route \in [at : {"gateway", "rest", "inbox", "done"}, tried : 0..(Routes!Budget - 1),
                   failed : SUBSET {"gateway", "rest"},
                   decision : {Nothing, "gateway", "rest", "inbox", "ask_browser_fallback"}]
      /\ route.decision = Nothing
      /\ route.at = "gateway" => route.failed = {}
      /\ route.at = "rest" => route.failed = {"gateway"}
  BY DEF Routes!RoutesInv, Routes!TypeOK, Routes!RoutesInOrder
<1>3. /\ route' \in [at : {"gateway", "rest", "inbox", "done"},
                    tried : 0..(Routes!Budget - 1), failed : SUBSET {"gateway", "rest"},
                    decision : {Nothing, "gateway", "rest", "inbox",
                                "ask_browser_fallback"}]
      /\ route'.decision = Nothing /\ route'.at \in {"gateway", "rest", "inbox"}
      /\ route'.at = "gateway" => route'.failed = {}
      /\ route'.at = "rest" => route'.failed = {"gateway"}
      /\ route'.at = "inbox" => route'.failed = {"gateway", "rest"}
  <2>1. CASE route' = [route EXCEPT !.failed = @ \union {route.at},
                                    !.at = IF @ = "gateway" THEN "rest" ELSE "inbox"]
    BY <1>2, <2>1
  <2>2. CASE /\ route' = Routes!AfterFailure(route)
             /\ route.tried + 1 < Routes!Budget
    BY <1>1, <1>2, <2>2 DEF Routes!AfterFailure
  <2>3. CASE /\ route' = Routes!AfterFailure(route)
             /\ ~(route.tried + 1 < Routes!Budget)
    <3>1. /\ route' = [route EXCEPT !.tried = 0, !.failed = @ \union {route.at},
                                    !.at = IF @ = "gateway" THEN "rest" ELSE "inbox"]
          /\ 0 \in 0..(Routes!Budget - 1)
      BY <1>1, <2>3 DEF Routes!AfterFailure
    <3> QED BY <1>2, <3>1
  <2> QED BY <2>1, <2>2, <2>3
<1>4. Routes!TypeOK'
  BY <1>3 DEF Routes!RoutesInv, Routes!TypeOK
<1>5. Routes!RoutesInOrder' /\ Routes!FetchedSoFar'
  BY <1>1, <1>3 DEF Routes!RoutesInOrder, Routes!FetchedSoFar
<1>6. Routes!BrowserIsLast'
  BY <1>3, ToolsAssumption
  DEF Routes!RoutesAssumption, Routes!RoutesInv, Routes!BrowserIsLast
<1> QED BY <1>4, <1>5, <1>6 DEF Routes!RoutesInv

\* A decision is taken where the decider is.
LEMMA RouteDecides ==
    ASSUME Routes!RoutesInv, NEW d \in {"gateway", "rest", "inbox", "ask_browser_fallback"},
           Routes!Decide(d),
           d = "rest" => fetch # Nothing /\ fetch.phase = "answer",
           d # "rest" => route.at \in {"gateway", "inbox"},
           d = "ask_browser_fallback" => route.at = "inbox",
           UNCHANGED <<channel, newest, fetch, raw, manifest, tab>>
    PROVE  Routes!RoutesInv'
<1>1. d # Nothing
  BY ToolsAssumption DEF Routes!RoutesAssumption
<1>2. /\ route \in [at : {"gateway", "rest", "inbox", "done"}, tried : 0..(Routes!Budget - 1),
                   failed : SUBSET {"gateway", "rest"},
                   decision : {Nothing, "gateway", "rest", "inbox", "ask_browser_fallback"}]
      /\ route.at = "inbox" => route.failed = {"gateway", "rest"}
      /\ d # "rest" => fetch = Nothing
  BY DEF Routes!RoutesInv, Routes!TypeOK, Routes!RoutesInOrder
<1>3. /\ route' \in [at : {"gateway", "rest", "inbox", "done"},
                    tried : 0..(Routes!Budget - 1), failed : SUBSET {"gateway", "rest"},
                    decision : {Nothing, "gateway", "rest", "inbox",
                                "ask_browser_fallback"}]
      /\ route'.decision = d /\ route'.at = "done" /\ route'.failed = route.failed
  BY <1>2 DEF Routes!Decide
<1>4. Routes!TypeOK'
  BY <1>1, <1>3 DEF Routes!RoutesInv, Routes!TypeOK
<1>5. Routes!RoutesInOrder' /\ Routes!FetchedSoFar'
  BY <1>2, <1>3 DEF Routes!RoutesInv, Routes!RoutesInOrder, Routes!FetchedSoFar
<1>6. Routes!BrowserIsLast'
  BY <1>2, <1>3 DEF Routes!RoutesInv, Routes!BrowserIsLast
<1> QED BY <1>4, <1>5, <1>6 DEF Routes!RoutesInv

\* The command goes from one phase to the next, once it has done with fetching.
LEMMA CommandGoesOn ==
    ASSUME Routes!RoutesInv, fetch # Nothing,
           NEW p \in {"raw", "manifest", "write", "answer"},
           fetch' = [fetch EXCEPT !.phase = p], fetch.phase # "answer",
           fetch.phase = "page" => fetch.left <= 0, fetch.got # {},
           raw'.ids \subseteq 1..newest, manifest'.count \in 0..Limit,
           p \in {"manifest", "write", "answer"} =>
               raw' = [run |-> fetch.run, ids |-> fetch.got, whole |-> TRUE],
           p = "answer" =>
               manifest' = [run |-> fetch.run, count |-> Cardinality(fetch.got),
                            whole |-> TRUE],
           UNCHANGED <<channel, newest, route, tab>>
    PROVE  Routes!RoutesInv'
<1>1. /\ fetch \in Routes!RestCommand /\ fetch.left <= Limit /\ fetch.left \in Nat
      /\ fetch.got \subseteq 1..newest /\ fetch.stood \subseteq channel /\ Limit \in Nat
  BY ToolsAssumption
  DEF Routes!RoutesAssumption, Routes!RoutesInv, Routes!TypeOK, Routes!RestCommand
<1>2. /\ fetch' \in Routes!RestCommand /\ fetch'.phase = p /\ fetch'.run = fetch.run
      /\ fetch'.left = fetch.left /\ fetch'.got = fetch.got /\ fetch'.stood = fetch.stood
      /\ fetch'.odd = fetch.odd
  BY <1>1 DEF Routes!RestCommand
<1>3. route.at = "rest" /\ route.decision = Nothing /\ Nothing # "rest"
  BY ToolsAssumption
  DEF Routes!RoutesAssumption, Routes!RoutesInv, Routes!TypeOK, Routes!RoutesInOrder
<1>4. Routes!TypeOK'
  BY <1>1, <1>2 DEF Routes!RoutesInv, Routes!TypeOK
<1>5. Routes!RoutesInOrder'
  BY <1>3 DEF Routes!RoutesInv, Routes!RoutesInOrder
<1>6. /\ Cardinality(fetch.got) = Limit - fetch.left
      /\ fetch.stood \subseteq fetch.got \/ Cardinality(fetch.got) >= Limit \/ fetch.odd
  BY <1>1, RoutesCounts DEF Routes!RoutesInv, Routes!FetchedSoFar
<1>7. Routes!FetchedSoFar'
  BY <1>2, <1>6, RoutesCounts DEF Routes!FetchedSoFar
<1>8. Routes!BrowserIsLast'
  BY DEF Routes!RoutesInv, Routes!BrowserIsLast
<1> QED BY <1>4, <1>5, <1>7, <1>8 DEF Routes!RoutesInv

\* Every step of the decider, of the command it runs, of those who post and delete, and of
\* the user keeps what it knows true.
LEMMA RoutesStep == Routes!RoutesInv /\ Routes!Next => Routes!RoutesInv'
<1> SUFFICES ASSUME Routes!RoutesInv, Routes!Next PROVE Routes!RoutesInv'
  OBVIOUS
<1>0. /\ Limit \in Nat /\ MaxMessage \in Nat
      /\ Nothing \notin {"gateway", "rest", "inbox", "ask_browser_fallback"}
                        \cup Routes!RestCommand
  BY ToolsAssumption DEF Routes!RoutesAssumption
<1>1. CASE Routes!Post
  <2>1. /\ newest' = newest + 1 /\ newest < MaxMessage /\ channel' = channel \union {newest'}
        /\ UNCHANGED <<route, fetch, raw, manifest, tab>>
    BY <1>1 DEF Routes!Post, Routes!files
  <2>2. newest \in Nat /\ channel \subseteq 1..newest /\ 1..newest \subseteq 1..newest'
    BY <1>0, <2>1 DEF Routes!RoutesInv, Routes!TypeOK
  <2>3. newest' \in 0..MaxMessage /\ channel' \subseteq 1..newest' /\ channel \subseteq channel'
    BY <1>0, <2>1, <2>2
  <2>4. Routes!TypeOK'
    BY <2>1, <2>2, <2>3 DEF Routes!RoutesInv, Routes!TypeOK
  <2> QED BY <2>1, <2>4 DEF Routes!RoutesInv, Routes!RoutesInOrder, Routes!FetchedSoFar,
                            Routes!BrowserIsLast
<1>2. ASSUME NEW m \in channel, Routes!Delete(m) PROVE Routes!RoutesInv'
  <2>1. /\ channel' = channel \ {m} /\ UNCHANGED <<newest, route, raw, manifest, tab>>
        /\ fetch' = IF fetch = Nothing THEN Nothing
                    ELSE [fetch EXCEPT !.stood = fetch.stood \ {m}]
    BY <1>2 DEF Routes!Delete, Routes!files
  <2>2. CASE fetch = Nothing
    BY <2>1, <2>2 DEF Routes!RoutesInv, Routes!TypeOK, Routes!RoutesInOrder,
                      Routes!FetchedSoFar, Routes!BrowserIsLast
  <2>3. CASE fetch # Nothing
    <3>1. /\ fetch \in Routes!RestCommand /\ fetch.left <= Limit
          /\ fetch.got \subseteq 1..newest /\ fetch.stood \subseteq channel
      BY <2>3 DEF Routes!RoutesInv, Routes!TypeOK
    <3>2. /\ fetch' \in Routes!RestCommand /\ fetch'.stood = fetch.stood \ {m}
          /\ fetch'.phase = fetch.phase /\ fetch'.run = fetch.run
          /\ fetch'.before = fetch.before /\ fetch'.left = fetch.left
          /\ fetch'.got = fetch.got /\ fetch'.odd = fetch.odd
      <4>1. fetch.stood \ {m} \in SUBSET Nat
        BY <3>1 DEF Routes!RestCommand
      <4> QED BY <2>1, <2>3, <3>1, <4>1 DEF Routes!RestCommand
    <3>3. fetch' # Nothing
      BY <1>0, <3>2
    <3>4. Routes!TypeOK'
      BY <2>1, <2>3, <3>1, <3>2 DEF Routes!RoutesInv, Routes!TypeOK
    <3>5. Routes!RoutesInOrder'
      BY <2>1, <2>3, <3>2, <3>3 DEF Routes!RoutesInv, Routes!RoutesInOrder
    <3>6. Routes!FetchedSoFar'
      BY <2>1, <2>3, <3>2 DEF Routes!RoutesInv, Routes!FetchedSoFar
    <3> QED BY <2>1, <3>4, <3>5, <3>6 DEF Routes!RoutesInv, Routes!BrowserIsLast
  <2> QED BY <2>2, <2>3
<1>3. CASE Routes!NotConfigured
  BY <1>3, RouteFails DEF Routes!NotConfigured, Routes!files
<1>4. ASSUME NEW ok \in BOOLEAN, Routes!Gateway(ok) PROVE Routes!RoutesInv'
  <2>1. /\ route.at = "gateway" /\ fetch = Nothing
        /\ UNCHANGED <<channel, newest, fetch, raw, manifest, tab>>
        /\ Routes!Decide("gateway") \/ route' = Routes!AfterFailure(route)
    BY <1>4 DEF Routes!Gateway, Routes!files, Routes!RoutesInv, Routes!RoutesInOrder
  <2> QED BY <2>1, RouteFails, RouteDecides
<1>5. ASSUME NEW ok \in BOOLEAN, Routes!Inbox(ok) PROVE Routes!RoutesInv'
  <2>1. /\ route.at = "inbox" /\ UNCHANGED <<channel, newest, fetch, raw, manifest, tab>>
        /\ Routes!Decide("inbox") \/ Routes!Decide("ask_browser_fallback")
    BY <1>5 DEF Routes!Inbox, Routes!files
  <2> QED BY <2>1, RouteDecides
<1>6. CASE Routes!Run
  <2>1. /\ route.at = "rest" /\ UNCHANGED <<channel, newest, route, raw, manifest, tab>>
        /\ fetch' = [phase |-> "page", run |-> route.tried + 1, before |-> 0,
                     left |-> Limit, got |-> {}, stood |-> channel, odd |-> FALSE]
    BY <1>6 DEF Routes!Run, Routes!files
  <2>2. route.tried + 1 \in Nat /\ newest \in Nat /\ channel \in SUBSET Nat
        /\ route.decision = Nothing
    BY <1>0, <2>1 DEF Routes!RoutesInv, Routes!TypeOK
  <2>3. Cardinality({}) = 0
    BY FS_EmptySet
  <2>4. Routes!TypeOK'
    BY <1>0, <2>1, <2>2 DEF Routes!RoutesInv, Routes!TypeOK, Routes!RestCommand
  <2>5. Routes!RoutesInOrder'
    BY <1>0, <2>1, <2>2 DEF Routes!RoutesInv, Routes!RoutesInOrder
  <2>6. Routes!FetchedSoFar'
    BY <1>0, <2>1, <2>3, RoutesCounts DEF Routes!FetchedSoFar
  <2> QED BY <2>1, <2>4, <2>5, <2>6 DEF Routes!RoutesInv, Routes!BrowserIsLast
<1>7. CASE Routes!Timeout \/ Routes!RequestFails
           \/ (Routes!OpenRaw /\ fetch.got = {})
  <2>1. /\ fetch # Nothing /\ fetch' = Nothing /\ route' = Routes!AfterFailure(route)
        /\ UNCHANGED <<channel, newest, raw, manifest, tab>>
        /\ Routes!Timeout \/ fetch.phase # "answer"
    BY <1>7 DEF Routes!Timeout, Routes!RequestFails, Routes!OpenRaw, Routes!Fails,
                Routes!files
  <2>2. route.at = "rest"
    BY <2>1 DEF Routes!Timeout, Routes!RoutesInv, Routes!RoutesInOrder
  <2> QED BY <2>1, <2>2, RouteFails
<1>8. CASE Routes!FetchPage \/ Routes!OddAnswer
  BY <1>8, PageTakesNewest, OddAnswerStops
<1>9. CASE Routes!OpenRaw /\ fetch.got # {}
  BY <1>9, CommandGoesOn DEF Routes!OpenRaw, Routes!RoutesInv, Routes!TypeOK
<1>10. CASE Routes!WriteRaw
  BY <1>10, CommandGoesOn
  DEF Routes!WriteRaw, Routes!RoutesInv, Routes!TypeOK, Routes!FetchedSoFar
<1>11. CASE Routes!OpenManifest
  BY <1>0, <1>11, CommandGoesOn
  DEF Routes!OpenManifest, Routes!RoutesInv, Routes!TypeOK, Routes!FetchedSoFar
<1>12. CASE Routes!WriteManifest
  <2>1. Cardinality(fetch.got) \in 0..Limit
    BY <1>0, <1>12, RoutesCounts
    DEF Routes!WriteManifest, Routes!RoutesInv, Routes!TypeOK, Routes!FetchedSoFar,
        Routes!RestCommand
  <2> QED BY <1>12, <2>1, RoutesCounts, CommandGoesOn
          DEF Routes!WriteManifest, Routes!RoutesInv, Routes!TypeOK, Routes!FetchedSoFar
<1>13. CASE Routes!Succeed
  BY <1>13, RouteDecides DEF Routes!Succeed, Routes!files
<1>14. ASSUME NEW open_tabs \in SUBSET Tabs, Routes!Agree(open_tabs) PROVE Routes!RoutesInv'
  <2>1. /\ tab' = [open |-> open_tabs, says |-> Routes!Guard(open_tabs)]
        /\ UNCHANGED <<channel, newest, route, fetch, raw, manifest>>
    BY <1>14 DEF Routes!Agree, Routes!files
  <2>2. Routes!Guard(open_tabs) = "open_new_tab_in_existing_window" => open_tabs = {}
    <3>1. CASE Routes!Place(open_tabs, "target") # {}
      BY <3>1 DEF Routes!Guard
    <3>2. CASE /\ Routes!Place(open_tabs, "target") = {}
               /\ \E t \in open_tabs : t.handle
      BY <3>2 DEF Routes!Guard
    <3>3. CASE open_tabs # {} /\ \A t \in open_tabs : ~t.handle
      BY <3>3 DEF Routes!Guard, Routes!Place
    <3> QED BY <3>1, <3>2, <3>3
  <2> QED BY <2>1, <2>2
          DEF Routes!RoutesInv, Routes!TypeOK, Routes!RoutesInOrder, Routes!FetchedSoFar,
              Routes!BrowserIsLast
<1> QED
  BY <1>1, <1>2, <1>3, <1>4, <1>5, <1>6, <1>7, <1>8, <1>9, <1>10, <1>11, <1>12, <1>13, <1>14
  DEF Routes!Next, Routes!Decider

------------------------------------------------------------------------------
(***************************************************************************)
(* All parts                                                               *)
(***************************************************************************)
\* The pair of files is whole once the answer of the command is there.
LEMMA RoutesPromise == Routes!RoutesInv => Routes!RestPairIsWhole /\ Routes!BrowserIsLast
<1> SUFFICES ASSUME Routes!RoutesInv PROVE Routes!RestPairIsWhole
  BY DEF Routes!RoutesInv
<1>1. ASSUME route.decision = "rest"
      PROVE  /\ fetch # Nothing /\ fetch.phase = "answer" /\ "rest" # Nothing
  <2>1. "rest" # Nothing
    BY ToolsAssumption DEF Routes!RoutesAssumption
  <2> QED BY <1>1, <2>1 DEF Routes!RoutesInv, Routes!TypeOK, Routes!RoutesInOrder
<1>2. ASSUME route.decision = "rest"
      PROVE  /\ raw = [run |-> fetch.run, ids |-> fetch.got, whole |-> TRUE]
             /\ manifest = [run |-> fetch.run, count |-> Routes!Cardinality(fetch.got),
                            whole |-> TRUE]
             /\ fetch.got # {}
             /\ \/ fetch.stood \subseteq fetch.got
                \/ Routes!Cardinality(fetch.got) >= Limit
                \/ fetch.odd
             /\ Routes!Cardinality(fetch.got) \in Int
  <2>1. Routes!Cardinality(fetch.got) = Limit - fetch.left /\ fetch \in Routes!RestCommand
    BY <1>1, <1>2 DEF Routes!RoutesInv, Routes!FetchedSoFar, Routes!TypeOK
  <2>2. Limit \in Nat /\ fetch.left \in Int
    BY <2>1, ToolsAssumption DEF Routes!RoutesAssumption, Routes!RestCommand
  <2> QED BY <1>1, <1>2, <2>1, <2>2 DEF Routes!RoutesInv, Routes!FetchedSoFar
<1>3. Limit \in Nat
  BY ToolsAssumption DEF Routes!RoutesAssumption
<1> QED BY <1>2, <1>3 DEF Routes!RestPairIsWhole

\* The invariants of all parts.
ToolsInv ==
    /\ SendInv
    /\ part = "process" => Process!RunnerInv
    /\ part = "context" => ContextInv
    /\ \A k \in DOMAIN Listings : part = k => Listing(k)!ListingInv
    /\ part = "routes" => Routes!RoutesInv

\* A step of another part, and one in which nothing happens, keeps an invariant.
LEMMA RunnerStands == Process!RunnerInv /\ UNCHANGED processVars => Process!RunnerInv'
  BY DEF processVars, Process!RunnerInv, Process!TypeOK, Process!ChunksAreAccounted,
         Process!Open

\* The same for the gate.
LEMMA ContextStands ==
    ContextInv /\ UNCHANGED <<contextVars, target, answer>> => ContextInv'
  BY DEF contextVars, ContextInv, Context!TypeOK, Context!ReadyMeansContext, Context!Time

\* The same for a listing.
LEMMA ListingStands ==
    ASSUME NEW k \in DOMAIN Listings, Listing(k)!ListingInv, UNCHANGED listingVars
    PROVE  Listing(k)!ListingInv'
<1> USE DEF listingVars
<1>1. Listing(k)!TypeOK' /\ Listing(k)!ScopesInOrder'
  BY DEF Listing!ListingInv, Listing!TypeOK, Listing!ScopesInOrder
<1>2. Listing(k)!FoundSoFar'
  <2>1. \A s : Listing(k)!Whole(s)' <=> Listing(k)!Whole(s)
    BY DEF Listing!Whole, Listing!PlaceOf, Listing!InScope, Listing!Tied
  <2>2. Listing(k)!Finished' = Listing(k)!Finished
    BY DEF Listing!Finished
  <2> QED BY <2>1, <2>2 DEF Listing!ListingInv, Listing!FoundSoFar, Listing!PlaceOf,
             Listing!InScope, Listing!Tied, Listing!CursorFor, Listing!NoCursor
<1>3. Listing(k)!CompleteListsEverything'
  BY DEF Listing!ListingInv, Listing!CompleteListsEverything, Listing!Untied,
         Listing!PlaceOf, Listing!InScope
<1> QED BY <1>1, <1>2, <1>3 DEF Listing!ListingInv

\* The same for the read routes.
LEMMA RoutesStand == Routes!RoutesInv /\ UNCHANGED routesVars => Routes!RoutesInv'
  BY DEF routesVars, Routes!RoutesInv, Routes!TypeOK, Routes!RoutesInOrder,
         Routes!FetchedSoFar, Routes!BrowserIsLast

\* Every behaviour begins as its part does.
LEMMA ToolsBegin == AnyInit => ToolsInv
<1> SUFFICES ASSUME AnyInit PROVE ToolsInv
  OBVIOUS
<1>1. SendInv
  BY SendBegins, ToolsAssumption DEF AnyInit, NoSend, Assumptions
<1>2. part = "process" => Process!RunnerInv
  BY RunnerBegins, ToolsAssumption DEF AnyInit
<1>3. part = "context" => ContextInv
  BY ContextBegins, ToolsAssumption DEF AnyInit
<1>4. \A k \in DOMAIN Listings : part = k => Listing(k)!ListingInv
  BY ListingBegins, ToolsAssumption DEF AnyInit
<1>5. part = "routes" => Routes!RoutesInv
  BY RoutesBegin, ToolsAssumption DEF AnyInit
<1> QED BY <1>1, <1>2, <1>3, <1>4, <1>5 DEF ToolsInv

\* A step is one of the part's own, and all others stand.
LEMMA ToolsStep == ToolsInv /\ [AnyNext]_allVars => ToolsInv'
<1> SUFFICES ASSUME ToolsInv, [AnyNext]_allVars PROVE ToolsInv'
  OBVIOUS
<1>0. /\ Assumptions /\ part' = part
      /\ \A k \in DOMAIN Listings :
            k \notin {"process", "context", "send", "preflight", "routes"}
  BY ToolsAssumption DEF Assumptions, AnyNext, allVars, BesideProcess, BesideContext,
     BesideSend, BesidePreflight, BesideListing, BesideRoutes
<1>1. SendInv'
  <2>1. [Next]_vars
    BY DEF AnyNext, allVars, BesideProcess, BesideContext, BesideSend, BesidePreflight,
           BesideListing, BesideRoutes
  <2> QED BY <1>0, <2>1, SendStep DEF ToolsInv
<1>2. ASSUME part = "process" PROVE Process!RunnerInv'
  <2>1. Process!Next \/ UNCHANGED processVars
    BY <1>0, <1>2 DEF AnyNext, allVars
  <2> QED BY <1>2, <2>1, RunnerStep, RunnerStands DEF ToolsInv
<1>3. ASSUME part = "context" PROVE ContextInv'
  <2>1. Context!Next \/ UNCHANGED <<contextVars, target, answer>>
    BY <1>0, <1>3 DEF AnyNext, allVars
  <2> QED BY <1>3, <2>1, ContextStep, ContextStands DEF ToolsInv
<1>4. ASSUME NEW k \in DOMAIN Listings, part = k PROVE Listing(k)!ListingInv'
  <2>1. Listing(k)!Next \/ UNCHANGED listingVars
    BY <1>0, <1>4 DEF AnyNext, allVars
  <2> QED BY <1>4, <2>1, ListingStep, ListingStands DEF ToolsInv
<1>5. ASSUME part = "routes" PROVE Routes!RoutesInv'
  <2>1. Routes!Next \/ UNCHANGED routesVars
    BY <1>0, <1>5 DEF AnyNext, allVars
  <2> QED BY <1>5, <2>1, RoutesStep, RoutesStand DEF ToolsInv
<1> QED BY <1>0, <1>1, <1>2, <1>3, <1>4, <1>5 DEF ToolsInv

\* The invariants of all parts hold throughout.
LEMMA ToolsInvariant == AnySpec => []ToolsInv
<1> QED BY ToolsBegin, ToolsStep, PTL DEF AnySpec

\* What a call returns as whole is whole: for every child and quota, every thread of
\* replies, every parent channel and every channel read, whatever raced, was killed,
\* throttled, refused or moved meanwhile.
THEOREM CallsReturnWhole == AnySpec => []AnswersAreWhole
<1>1. ToolsInv => AnswersAreWhole
  <2> SUFFICES ASSUME ToolsInv PROVE AnswersAreWhole
    OBVIOUS
  <2>1. TypeOK
    BY DEF ToolsInv, SendInv
  <2>2. part = "process" => Process!TypeOK /\ Process!SuccessIsWhole
    BY RunnerPromise DEF ToolsInv, Process!RunnerInv
  <2>3. part = "context" => Context!TypeOK /\ Context!ReadyMeansContext
    BY DEF ToolsInv, ContextInv
  <2>4. \A k \in DOMAIN Listings :
           part = k => Listing(k)!TypeOK /\ Listing(k)!CompleteListsEverything
    BY DEF ToolsInv, Listing!ListingInv
  <2>5. part = "routes" => Routes!TypeOK /\ Routes!RestPairIsWhole /\ Routes!BrowserIsLast
    BY RoutesPromise DEF ToolsInv, Routes!RoutesInv
  <2> QED BY <2>1, <2>2, <2>3, <2>4, <2>5 DEF AnswersAreWhole
<1> QED BY <1>1, ToolsInvariant, PTL

\* The pipeline's promise stands among the other parts.
THEOREM SendsStayCleared == AnySpec => []SendsAreCleared
  BY SendPromise, ToolsInvariant, PTL DEF ToolsInv

==============================================================================
