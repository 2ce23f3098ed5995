--------------------------- MODULE ParentsProofs ---------------------------
(***************************************************************************)
(* Proofs about the parts of MCParents: the completeness store, which      *)
(* ParentCompleteness models, and a run directory, which ParallelCloseout  *)
(* models and which is the instance Dir here.  They hold for every set of  *)
(* threads, captures and scans, any number of processes, workers, items    *)
(* and closeouts and every bound.                                          *)
(***************************************************************************)
EXTENDS ParentCompleteness, FiniteSetTheorems, TLAPS

CONSTANTS Worker, Importer, Item, Owner, Closer, Request, ParentInit, ClosersWait,
          MaxDeaths, MaxTampering, MaxAudits

VARIABLES ready, receipt, rows, torn, drained, stop, closeout, metadata, parent,
          router, closing, deaths, tampered, audits

Dir == INSTANCE ParallelCloseout

Assumptions == OfferedScanAssumption /\ ScanNothingAssumption

------------------------------------------------------------------------------
(***************************************************************************)
(* Types.                                                                  *)
(***************************************************************************)

\* Each scan was observed at some time.
LEMMA ScansHaveTime ==
    ASSUME Assumptions, TypeOK
    PROVE  \A i \in DOMAIN scans : scans[i].observed_at \in Nat /\ i \in 1 .. Len(scans)
<1>1. \A i \in DOMAIN scans : scans[i] \in OfferedScan /\ i \in 1 .. Len(scans)
  BY DEF TypeOK
<1> QED BY <1>1 DEF Assumptions, OfferedScanAssumption, LegacyScan, ReceiptScan

\* The threads a scan lists are threads.
LEMMA OfferedThreads ==
    ASSUME Assumptions, NEW scan \in OfferedScan
    PROVE  (IF scan.kind = "legacy" THEN scan.threads
            ELSE UNION {scan.receipts[scope].threads : scope \in DOMAIN scan.receipts})
               \in SUBSET Thread
<1>1. CASE LegacyScan(scan)
  BY <1>1 DEF LegacyScan
<1>2. CASE ReceiptScan(scan)
  <2>1. scan.kind # "legacy"
    BY <1>2 DEF ReceiptScan, Kind
  <2>2. \A scope \in DOMAIN scan.receipts : scan.receipts[scope].threads \in SUBSET Thread
    BY <1>2 DEF ReceiptScan, Receipt
  <2> QED BY <2>1, <2>2
<1> QED BY <1>1, <1>2 DEF Assumptions, OfferedScanAssumption

\* What an operation holds in each of its steps.
LEMMA OperationByStep ==
    ASSUME Assumptions, TypeOK, NEW p \in Proc, op[p] # Nothing
    PROVE  /\ op[p].step = "write_certificate" =>
                  op[p].thread \in Thread /\ op[p].certificate \in Certificate
           /\ op[p].step = "find_absent" => op[p].two \in SUBSET Nat
           /\ op[p].step = "conclude" =>
                  op[p].two \in SUBSET Nat /\ op[p].absent \in SUBSET Retired
<1>1. op[p] \in Operation
  BY DEF TypeOK
<1> QED BY <1>1 DEF Operation

\* Every step keeps the types.
LEMMA TypesKept == Assumptions /\ TypeOK /\ [Next]_vars => TypeOK'
<1> SUFFICES ASSUME Assumptions, TypeOK, [Next]_vars PROVE TypeOK'
  OBVIOUS
<1> DEFINE Tables == /\ scans \in Seq(OfferedScan)
                     /\ listed \in Seq(SUBSET Thread) /\ Len(listed) = Len(scans)
                     /\ certificates \in [Thread -> Certificate \cup {Nothing}]
                     /\ retirements \subseteq Retired
           Calls == /\ op \in [Proc -> Operation \cup {Nothing}]
                    /\ verdict \in [Proc -> {"none", "full", "incomplete"}]
<1>0. CASE Next
  <2>1. held' \in [Proc -> BOOLEAN] /\ overtaken' \in [Proc -> SUBSET {"scan", "certificate"}]
    <3>1. held' \in [Proc -> BOOLEAN]
      BY <1>0 DEF Next, Watch
    <3>2. \A p \in Proc : overtaken[p] \in SUBSET {"scan", "certificate"}
      BY DEF TypeOK
    <3>3. Committed \in SUBSET {"scan", "certificate"}
      BY DEF Committed
    <3>4. \A p \in Proc : overtaken'[p] \in {{}, overtaken[p], overtaken[p] \cup Committed}
      BY <1>0 DEF Next, Watch
    <3>5. \A p \in Proc : overtaken'[p] \in SUBSET {"scan", "certificate"}
      BY <3>2, <3>3, <3>4
    <3>6. overtaken' = [p \in Proc |-> overtaken'[p]]
      BY <1>0 DEF Next, Watch
    <3> QED BY <3>1, <3>5, <3>6
  <2>2. ASSUME NEW p \in Proc, NEW scan \in OfferedScan, RecordInventoryScan(p, scan)
        PROVE  Tables' /\ Calls'
    BY <2>2, OfferedThreads DEF RecordInventoryScan, TypeOK
  <2>3. ASSUME NEW p \in Proc, NEW t \in Thread, NEW capture \in Capture,
               NEW strict \in BOOLEAN, CheckCertificate(p, t, capture, strict)
        PROVE  Tables' /\ Calls'
    <3>1. [step |-> "write_certificate", thread |-> t,
           certificate |-> [capture |-> capture, strict |-> strict]] \in Operation
      BY DEF Operation, Certificate
    <3> QED BY <2>3, <3>1 DEF CheckCertificate, TypeOK
  <2>4. ASSUME NEW p \in Proc, WriteCertificate(p) PROVE Tables' /\ Calls'
    BY <2>4, OperationByStep DEF WriteCertificate, TypeOK
  <2>5. ASSUME NEW p \in Proc, BeginAudit(p) PROVE Tables' /\ Calls'
    <3>1. [step |-> "find_absent", two |-> LatestTwo] \in Operation
      BY DEF LatestTwo, Operation, TypeOK
    <3> QED BY <2>5, <3>1 DEF BeginAudit, TypeOK
  <2>6. ASSUME NEW p \in Proc, FindAbsent(p) PROVE Tables' /\ Calls'
    <3> DEFINE absent == {[thread |-> t, capture |-> certificates[t].capture] :
                          t \in Absent(op[p].two)}
    <3>1. absent \in SUBSET Retired
      BY DEF Absent, Certified, Certificate, Retired, TypeOK
    <3>2. [step |-> "conclude", two |-> op[p].two, absent |-> absent] \in Operation
      BY <2>6, <3>1, OperationByStep DEF FindAbsent, Operation
    <3> QED BY <2>6, <3>2 DEF FindAbsent, TypeOK
  <2>7. ASSUME NEW p \in Proc, ConcludeAudit(p) PROVE Tables' /\ Calls'
    BY <2>7, OperationByStep DEF ConcludeAudit, Status, TypeOK
  <2>8. ASSUME NEW p \in Proc, Abandon(p) PROVE Tables' /\ Calls'
    BY <2>8 DEF Abandon, TypeOK
  <2>9. ASSUME NEW i \in DOMAIN scans, NEW t \in Thread, LoseMembership(i, t)
        PROVE  Tables' /\ Calls'
    BY <2>9 DEF LoseMembership, TypeOK
  <2>10. Tables' /\ Calls'
    BY <1>0, <2>2, <2>3, <2>4, <2>5, <2>6, <2>7, <2>8, <2>9 DEF Next, Step
  <2> QED BY <2>1, <2>10 DEF TypeOK
<1>1. CASE UNCHANGED vars
  BY <1>1 DEF vars, history, TypeOK
<1> QED BY <1>0, <1>1

\* Tables and operations have their types in every state, with any number of
\* processes (record_inventory_scan, record_child_certificate, audit_parent).
THEOREM StoreTypeCorrect == Assumptions => (Spec => []TypeOK)
<1> SUFFICES ASSUME Assumptions PROVE Spec => []TypeOK
  OBVIOUS
<1>1. Init => TypeOK
  BY DEF Init, TypeOK
<1>2. TypeOK /\ [Next]_vars => TypeOK'
  BY TypesKept
<1> QED BY <1>1, <1>2, PTL DEF Spec

------------------------------------------------------------------------------
(***************************************************************************)
(* The two latest scans.                                                   *)
(***************************************************************************)

\* Scans are ordered by time and row id.
LEMMA LaterOrders ==
    ASSUME Assumptions, TypeOK
    PROVE  /\ \A i, j \in DOMAIN scans : i # j => Later(i, j) \/ Later(j, i)
           /\ \A i, j \in DOMAIN scans : ~(Later(i, j) /\ Later(j, i))
           /\ \A i, j, k \in DOMAIN scans : Later(i, j) /\ Later(j, k) => Later(i, k)
BY ScansHaveTime DEF Later

\* i is the latest scan and j the one before it.
LatestAre(i, j) ==
    /\ i \in DOMAIN scans /\ j \in DOMAIN scans
    /\ i # j /\ Later(i, j)
    /\ \A k \in DOMAIN scans \ {i, j} : Later(j, k)

\* A pair of two things has two elements.
LEMMA PairHasTwo ==
    ASSUME NEW a, NEW b, a # b
    PROVE  IsFiniteSet({a, b}) /\ Cardinality({a, b}) = 2
<1>1. IsFiniteSet({a}) /\ Cardinality({a}) = 1 /\ b \notin {a}
  BY FS_Singleton
<1>2. IsFiniteSet({a} \cup {b}) /\ Cardinality({a} \cup {b}) = 2
  BY <1>1, FS_AddElement
<1>3. {a, b} = {a} \cup {b}
  OBVIOUS
<1> QED BY <1>2, <1>3

\* A set with two things in it has two elements or more.
LEMMA AtLeastTwo ==
    ASSUME NEW S, IsFiniteSet(S), NEW a \in S, NEW b \in S, a # b
    PROVE  Cardinality(S) \in Nat /\ Cardinality(S) >= 2
<1>1. IsFiniteSet({a, b}) /\ Cardinality({a, b}) = 2
  BY PairHasTwo
<1>2. {a, b} \in SUBSET S
  OBVIOUS
<1> QED BY <1>1, <1>2, FS_Subset, FS_CardinalityType

\* A set of two elements is a pair.
LEMMA TwoElements ==
    ASSUME NEW S, IsFiniteSet(S), Cardinality(S) = 2
    PROVE  \E a, b \in S : a # b /\ S = {a, b}
<1>1. S # {}
  BY FS_EmptySet
<1>2. PICK a \in S : TRUE
  BY <1>1
<1>3. IsFiniteSet(S \ {a}) /\ Cardinality(S \ {a}) = 1
  BY FS_RemoveElement
<1>4. PICK b : S \ {a} = {b}
  BY <1>3, FS_Singleton
<1> QED BY <1>2, <1>4

\* Sets of scans are finite.
LEMMA ScansAreFinite ==
    ASSUME TypeOK
    PROVE  \A S \in SUBSET DOMAIN scans : IsFiniteSet(S)
<1>1. DOMAIN scans = 1 .. Len(scans) /\ Len(scans) \in Nat
  BY DEF TypeOK
<1>2. IsFiniteSet(DOMAIN scans)
  BY <1>1, FS_Interval
<1> QED BY <1>2, FS_Subset

\* The audit looks at these two.
LEMMA LatestTwoFound ==
    ASSUME Assumptions, TypeOK, NEW i, NEW j, LatestAre(i, j)
    PROVE  /\ LatestTwo = {i, j} /\ Cardinality(LatestTwo) = 2
           /\ LatestListed(LatestTwo) = listed[i]
<1> USE DEF LatestAre
<1> DEFINE Above(k) == {m \in DOMAIN scans \ {k} : Later(m, k)}
<1>1. Above(i) = {}
  <2>1. \A k \in DOMAIN scans \ {i, j} : Later(i, k)
    BY LaterOrders
  <2> QED BY <2>1, LaterOrders
<1>2. Above(j) = {i}
  BY LaterOrders
<1>3. ASSUME NEW k \in DOMAIN scans \ {i, j} PROVE i \in Above(k) /\ j \in Above(k)
  BY LaterOrders
<1>4. Cardinality(Above(i)) = 0 /\ Cardinality(Above(j)) = 1
  BY <1>1, <1>2, FS_EmptySet, FS_Singleton
<1>5. ASSUME NEW k \in DOMAIN scans \ {i, j} PROVE ~(Cardinality(Above(k)) < 2)
  <2>1. IsFiniteSet(Above(k))
    BY ScansAreFinite
  <2> QED BY <1>3, <2>1, AtLeastTwo
<1>6. LatestTwo = {i, j}
  BY <1>4, <1>5 DEF LatestTwo
<1>7. Cardinality(LatestTwo) = 2
  BY <1>6, PairHasTwo
<1>8. {k \in LatestTwo : \A m \in LatestTwo \ {k} : Later(k, m)} = {i}
  BY <1>6, LaterOrders
<1> QED BY <1>6, <1>7, <1>8 DEF LatestListed

\* The latest two scans, once there are two.
LEMMA LatestTwoAre ==
    ASSUME Assumptions, TypeOK, Cardinality(LatestTwo) = 2
    PROVE  \E i, j \in DOMAIN scans : LatestAre(i, j) /\ LatestTwo = {i, j}
<1> DEFINE Above(k) == {m \in DOMAIN scans \ {k} : Later(m, k)}
<1>1. PICK a, b \in LatestTwo : a # b /\ LatestTwo = {a, b}
  BY ScansAreFinite, TwoElements DEF LatestTwo
<1>2. a \in DOMAIN scans /\ b \in DOMAIN scans
  BY DEF LatestTwo
<1>3. ASSUME NEW i \in LatestTwo, NEW j \in LatestTwo, i # j, Later(i, j)
      PROVE  LatestAre(i, j)
  <2>1. i \in DOMAIN scans /\ j \in DOMAIN scans /\ Cardinality(Above(j)) < 2
    BY DEF LatestTwo
  <2>2. ASSUME NEW k \in DOMAIN scans \ {i, j} PROVE Later(j, k)
    <3>1. CASE Later(k, j)
      <4>1. i \in Above(j) /\ k \in Above(j) /\ IsFiniteSet(Above(j))
        BY <1>3, <2>1, <3>1, ScansAreFinite
      <4> QED BY <2>1, <2>2, <4>1, AtLeastTwo
    <3> QED BY <2>1, <3>1, LaterOrders
  <2> QED BY <1>3, <2>1, <2>2 DEF LatestAre
<1> QED BY <1>1, <1>2, <1>3, LaterOrders

------------------------------------------------------------------------------
(***************************************************************************)
(* What an audit and a certificate rest on.                                *)
(***************************************************************************)

\* Full is said of what is complete, and of nothing else while rows are whole.
LEMMA FullIsComplete ==
    ASSUME Assumptions, TypeOK
    PROVE  /\ ParentFull(LatestTwo, certificates) => Complete
           /\ /\ Complete /\ \A i \in DOMAIN scans : listed[i] = Scanned(i)
              => ParentFull(LatestTwo, certificates)
<1>1. ASSUME ParentFull(LatestTwo, certificates) PROVE Complete
  <2>1. PICK i, j \in DOMAIN scans : LatestAre(i, j) /\ LatestTwo = {i, j}
    BY <1>1, LatestTwoAre DEF ParentFull, Stable
  <2>2. /\ ScanComplete(i) /\ ScanComplete(j) /\ SameInventory(i, j)
    BY <1>1, <2>1 DEF ParentFull, Stable
  <2>3. LatestListed(LatestTwo) = Scanned(i)
    BY <2>1, <2>2, LatestTwoFound DEF ScanComplete, Reconciled
  <2>4. \A t \in Thread :
            IF t \in Scanned(i) THEN certificates[t] # Nothing /\ certificates[t].strict
            ELSE certificates[t] = Nothing
    BY <1>1, <2>3 DEF ParentFull, Certified
  <2> QED BY <2>1, <2>2, <2>4
          DEF Complete, LatestAre, ScanComplete, Reconciled, SameInventory, ListedWhole
<1>2. ASSUME Complete, \A i \in DOMAIN scans : listed[i] = Scanned(i)
      PROVE  ParentFull(LatestTwo, certificates)
  <2>1. PICK i, j \in DOMAIN scans :
            /\ LatestAre(i, j)
            /\ ~IsLegacy(i) /\ ~IsLegacy(j)
            /\ scans[i].kind = scans[j].kind
            /\ \A scope \in RequiredScopes(scans[i].kind) :
                   /\ ListedWhole(i, scope) /\ ListedWhole(j, scope)
                   /\ ScannedIn(i, scope) = ScannedIn(j, scope)
            /\ \A t \in Thread :
                   IF t \in Scanned(i)
                   THEN certificates[t] # Nothing /\ certificates[t].strict
                   ELSE certificates[t] = Nothing
    BY <1>2 DEF Complete, LatestAre
  <2>2. /\ LatestTwo = {i, j} /\ Cardinality(LatestTwo) = 2
        /\ LatestListed(LatestTwo) = Scanned(i)
    BY <1>2, <2>1, LatestTwoFound
  <2>3. ScanComplete(i) /\ ScanComplete(j)
    BY <1>2, <2>1 DEF ScanComplete, Reconciled, ListedWhole
  <2>4. Stable(LatestTwo)
    BY <2>1, <2>2, <2>3 DEF Stable, SameInventory
  <2>5. LatestListed(LatestTwo) \in SUBSET Thread
    <3>1. listed[i] \in SUBSET Thread
      BY DEF TypeOK
    <3> QED BY <1>2, <2>2, <3>1
  <2> QED BY <2>1, <2>2, <2>4, <2>5 DEF ParentFull, Certified
<1> QED BY <1>1, <1>2

\* What others do while an operation is under way is remembered.
LEMMA OvertakingShows ==
    ASSUME TypeOK, Watch, NEW p \in Proc, op[p] # Nothing
    PROVE  /\ op'[p] = op[p] =>
                  /\ overtaken[p] \subseteq overtaken'[p]
                  /\ "scan" \notin overtaken'[p] => UNCHANGED scans
                  /\ "certificate" \notin overtaken'[p] => UNCHANGED certificates
           /\ op'[p] # op[p] /\ ~Idle(p)' => overtaken'[p] = overtaken[p]
<1>1. /\ "scan" \notin Committed => UNCHANGED scans
      /\ "certificate" \notin Committed => UNCHANGED certificates
  BY DEF Committed
<1>2. ~Begins(p) /\ (op'[p] = op[p] => ~Idle(p)')
  BY DEF Begins, Idle
<1>3. overtaken'[p] = IF Begins(p) \/ Idle(p)' THEN {}
                      ELSE IF op'[p] # op[p] \/ op[p] = Nothing THEN overtaken[p]
                      ELSE overtaken[p] \cup Committed
  BY DEF Watch
<1>4. ASSUME op'[p] = op[p] PROVE overtaken'[p] = overtaken[p] \cup Committed
  BY <1>2, <1>3, <1>4
<1>5. ASSUME op'[p] # op[p], ~Idle(p)' PROVE overtaken'[p] = overtaken[p]
  BY <1>2, <1>3, <1>5
<1> QED BY <1>1, <1>4, <1>5

\* Operations end and go on by steps of their own process; while one is under way,
\* others add scans and take none back.
LEMMA StepsOfOthers ==
    ASSUME Assumptions, TypeOK, Step, NEW p \in Proc, op[p] # Nothing, op'[p] = op[p]
    PROVE  /\ verdict'[p] = verdict[p]
           /\ \A i \in DOMAIN scans : /\ i \in DOMAIN scans' /\ scans'[i] = scans[i]
                                      /\ listed'[i] = listed[i]
<1> DEFINE Others == /\ verdict'[p] = verdict[p]
                     /\ \A i \in DOMAIN scans : /\ i \in DOMAIN scans' /\ scans'[i] = scans[i]
                                                /\ listed'[i] = listed[i]
<1>1. ASSUME NEW q \in Proc, NEW scan \in OfferedScan, RecordInventoryScan(q, scan)
      PROVE  Others
  <2>1. q # p
    BY <1>1 DEF RecordInventoryScan
  <2>2. verdict'[p] = verdict[p]
    BY <1>1, <2>1 DEF RecordInventoryScan, TypeOK
  <2>3. PICK more \in SUBSET Thread : listed' = Append(listed, more)
    BY <1>1, OfferedThreads DEF RecordInventoryScan
  <2>4. scans' = Append(scans, scan)
    BY <1>1 DEF RecordInventoryScan
  <2> QED BY <2>2, <2>3, <2>4 DEF TypeOK
<1>2. ASSUME NEW q \in Proc, NEW t \in Thread, NEW capture \in Capture,
             NEW strict \in BOOLEAN, CheckCertificate(q, t, capture, strict)
      PROVE  Others
  BY <1>2 DEF CheckCertificate, TypeOK
<1>3. ASSUME NEW q \in Proc, BeginAudit(q) PROVE Others
  BY <1>3 DEF BeginAudit, TypeOK
<1>4. ASSUME NEW q \in Proc, ConcludeAudit(q) PROVE Others
  BY <1>4 DEF ConcludeAudit, TypeOK
<1>5. ASSUME NEW q \in Proc, WriteCertificate(q) \/ FindAbsent(q) \/ Abandon(q) PROVE Others
  BY <1>5 DEF WriteCertificate, FindAbsent, Abandon
<1>6. ASSUME NEW i \in DOMAIN scans, NEW t \in Thread, LoseMembership(i, t) PROVE Others
  BY <1>6 DEF LoseMembership
<1> QED BY <1>1, <1>2, <1>3, <1>4, <1>5, <1>6 DEF Step

\* Only its own steps change what a process is about to write.
LEMMA OwnSteps ==
    ASSUME TypeOK, Step, NEW p \in Proc, op'[p] # op[p]
    PROVE  \/ \E t \in Thread, capture \in Capture, strict \in BOOLEAN :
                  CheckCertificate(p, t, capture, strict)
           \/ BeginAudit(p) \/ FindAbsent(p)
           \/ WriteCertificate(p) \/ ConcludeAudit(p) \/ Abandon(p)
<1>1. ASSUME NEW q \in Proc, q # p,
             \/ \E scan \in OfferedScan : RecordInventoryScan(q, scan)
             \/ \E t \in Thread, capture \in Capture, strict \in BOOLEAN :
                    CheckCertificate(q, t, capture, strict)
             \/ WriteCertificate(q)
             \/ BeginAudit(q) \/ FindAbsent(q) \/ ConcludeAudit(q) \/ Abandon(q)
      PROVE  op'[p] = op[p]
  BY <1>1 DEF RecordInventoryScan, CheckCertificate, WriteCertificate, BeginAudit,
              FindAbsent, ConcludeAudit, Abandon, TypeOK
<1>2. ASSUME NEW scan \in OfferedScan, RecordInventoryScan(p, scan) PROVE op'[p] = op[p]
  BY <1>2 DEF RecordInventoryScan
<1>3. ASSUME NEW i \in DOMAIN scans, NEW t \in Thread, LoseMembership(i, t)
      PROVE  op'[p] = op[p]
  BY <1>3 DEF LoseMembership
<1> QED BY <1>1, <1>2, <1>3 DEF Step

\* Scans that an audit has read stay as they are.
LEMMA ReadScansStay ==
    ASSUME Assumptions, TypeOK, NEW two \in SUBSET DOMAIN scans,
           \A i \in DOMAIN scans : /\ i \in DOMAIN scans' /\ scans'[i] = scans[i]
                                   /\ listed'[i] = listed[i]
    PROVE  /\ Stable(two) => Stable(two)'
           /\ LatestListed(two)' = LatestListed(two)
<1>1. \A i, j \in two : Later(i, j)' <=> Later(i, j)
  BY DEF Later
<1>2. \A i \in two : ScanComplete(i)' <=> ScanComplete(i)
  <2> TAKE i \in two
  <2>1. scans'[i] = scans[i] /\ listed'[i] = listed[i]
    OBVIOUS
  <2>2. (IsLegacy(i)' <=> IsLegacy(i)) /\ \A scope : ScannedIn(i, scope)' = ScannedIn(i, scope)
    BY <2>1 DEF IsLegacy, ScannedIn
  <2>3. Scanned(i)' = Scanned(i)
    BY <2>1, <2>2 DEF Scanned
  <2> QED BY <2>1, <2>2, <2>3 DEF ScanComplete, Reconciled
<1>3. \A i, j \in two : SameInventory(i, j)' <=> SameInventory(i, j)
  BY DEF SameInventory, ScannedIn
<1>4. Stable(two) => Stable(two)'
  BY <1>2, <1>3 DEF Stable
<1>5. {i \in two : \A j \in two \ {i} : Later(i, j)'}
          = {i \in two : \A j \in two \ {i} : Later(i, j)}
  BY <1>1
<1> QED BY <1>4, <1>5 DEF LatestListed

Unbound(t, capture) ==
    \A other \in Thread \ {t} :
        certificates[other] # Nothing => certificates[other].capture # capture

\* What an operation under way has read is as it was read, unless it was overtaken.
ReadsAreCurrent ==
    \A p \in Proc : op[p] # Nothing =>
        /\ verdict[p] = "none"
        /\ op[p].step = "write_certificate" /\ "certificate" \notin overtaken[p] =>
               Unbound(op[p].thread, op[p].certificate.capture)
        /\ Auditing(p) => op[p].two \in SUBSET DOMAIN scans
        /\ Auditing(p) /\ "scan" \notin overtaken[p] => op[p].two = LatestTwo
        /\ op[p].step = "conclude" => \A row \in op[p].absent :
               /\ Stable(op[p].two) /\ row.thread \notin LatestListed(op[p].two)
               /\ "certificate" \notin overtaken[p] =>
                      row.capture = certificates[row.thread].capture

\* What an operation has read is current until it is overtaken.
LEMMA ReadsStayCurrent ==
    ASSUME Assumptions, TypeOK, ReadsAreCurrent, [Next]_vars
    PROVE  ReadsAreCurrent'
<1>1. CASE UNCHANGED vars
  <2>1. UNCHANGED <<scans, listed, certificates, op, verdict, overtaken>>
    BY <1>1 DEF vars, history
  <2>2. LatestTwo' = LatestTwo /\ \A p \in Proc : Auditing(p)' <=> Auditing(p)
    BY <2>1 DEF LatestTwo, Later, Auditing
  <2>3. \A p \in Proc : /\ Stable(op[p].two)' <=> Stable(op[p].two)
                        /\ LatestListed(op[p].two)' = LatestListed(op[p].two)
    BY <2>1 DEF LatestListed, Stable, ScanComplete, Reconciled,
                IsLegacy, Scanned, ScannedIn, SameInventory, Later
  <2>4. \A p \in Proc : Unbound(op[p].thread, op[p].certificate.capture)'
                            <=> Unbound(op[p].thread, op[p].certificate.capture)
    BY <2>1 DEF Unbound
  <2> QED BY <2>1, <2>2, <2>3, <2>4 DEF ReadsAreCurrent
<1>2. CASE Next
  <2> SUFFICES ASSUME NEW p \in Proc, op'[p] # Nothing
               PROVE  /\ verdict'[p] = "none"
                      /\ op'[p].step = "write_certificate"
                         /\ "certificate" \notin overtaken'[p] =>
                             Unbound(op[p].thread, op[p].certificate.capture)'
                      /\ Auditing(p)' => op'[p].two \in SUBSET DOMAIN scans'
                      /\ Auditing(p)' /\ "scan" \notin overtaken'[p] =>
                             op'[p].two = LatestTwo'
                      /\ op'[p].step = "conclude" => \A row \in op'[p].absent :
                             /\ Stable(op[p].two)'
                             /\ row.thread \notin LatestListed(op[p].two)'
                             /\ "certificate" \notin overtaken'[p] =>
                                    row.capture = certificates'[row.thread].capture
    BY DEF ReadsAreCurrent
  <2>0. Step /\ Watch
    BY <1>2 DEF Next
  <2>1. CASE op'[p] = op[p]
    <3>1. /\ overtaken[p] \subseteq overtaken'[p]
          /\ "scan" \notin overtaken'[p] => UNCHANGED scans
          /\ "certificate" \notin overtaken'[p] => UNCHANGED certificates
      BY <2>0, <2>1, OvertakingShows
    <3>2. /\ verdict'[p] = verdict[p]
          /\ \A i \in DOMAIN scans : /\ i \in DOMAIN scans' /\ scans'[i] = scans[i]
                                     /\ listed'[i] = listed[i]
      BY <2>0, <2>1, StepsOfOthers
    <3>3. Auditing(p)' <=> Auditing(p)
      BY <2>1 DEF Auditing
    <3>4. "certificate" \notin overtaken'[p] =>
              (Unbound(op[p].thread, op[p].certificate.capture) =>
                  Unbound(op[p].thread, op[p].certificate.capture)')
      BY <2>1, <3>1 DEF Unbound
    <3>5. "scan" \notin overtaken'[p] => LatestTwo' = LatestTwo
      BY <3>1 DEF LatestTwo, Later
    <3>6. ASSUME op[p].step = "conclude"
          PROVE  /\ Stable(op[p].two) => Stable(op[p].two)'
                 /\ LatestListed(op[p].two)' = LatestListed(op[p].two)
      <4>1. op[p].two \in SUBSET DOMAIN scans
        BY <2>1, <3>6 DEF ReadsAreCurrent, Auditing
      <4>2. PICK two \in SUBSET DOMAIN scans : two = op[p].two
        BY <4>1
      <4>3. /\ Stable(two) => Stable(two)'
            /\ LatestListed(two)' = LatestListed(two)
        BY <3>2, ReadScansStay
      <4>4. Stable(two)' <=> Stable(op[p].two)'
        BY <2>1, <4>2 DEF Stable, SameInventory, ScanComplete
      <4>5. LatestListed(two)' = LatestListed(op[p].two)'
        BY <2>1, <4>2 DEF LatestListed
      <4> QED BY <4>2, <4>3, <4>4, <4>5
    <3> QED BY <2>1, <3>1, <3>2, <3>3, <3>4, <3>5, <3>6 DEF ReadsAreCurrent
  <2>2. ASSUME NEW t \in Thread, NEW capture \in Capture, NEW strict \in BOOLEAN,
               CheckCertificate(p, t, capture, strict)
        PROVE  /\ op'[p].step = "write_certificate" /\ ~Auditing(p)' /\ verdict'[p] = "none"
               /\ Unbound(op[p].thread, op[p].certificate.capture)'
    <3>1. /\ op'[p] = [step |-> "write_certificate", thread |-> t,
                       certificate |-> [capture |-> capture, strict |-> strict]]
          /\ UNCHANGED certificates /\ Bindable(t, capture) /\ verdict'[p] = "none"
      BY <2>2 DEF CheckCertificate, TypeOK
    <3>2. op'[p].step = "write_certificate" /\ op'[p].thread = t
          /\ op'[p].certificate.capture = capture
      BY <3>1
    <3> QED BY <3>1, <3>2 DEF Auditing, Bindable, Unbound
  <2>3. ASSUME BeginAudit(p)
        PROVE  /\ op'[p].step = "find_absent" /\ verdict'[p] = "none"
               /\ op'[p].two = LatestTwo' /\ op'[p].two \in SUBSET DOMAIN scans'
    <3>1. /\ op'[p] = [step |-> "find_absent", two |-> LatestTwo]
          /\ UNCHANGED scans /\ verdict'[p] = "none"
      BY <2>3 DEF BeginAudit, TypeOK
    <3> QED BY <3>1 DEF LatestTwo, Later
  <2>4. CASE FindAbsent(p)
    <3> DEFINE found == {[thread |-> t, capture |-> certificates[t].capture] :
                         t \in Absent(op[p].two)}
    <3>1. /\ op'[p] = [step |-> "conclude", two |-> op[p].two, absent |-> found]
          /\ UNCHANGED <<scans, listed, certificates, verdict>>
          /\ op[p] # Nothing /\ op[p].step = "find_absent"
      BY <2>4 DEF FindAbsent, TypeOK
    <3>2. /\ op'[p].step = "conclude" /\ op'[p].two = op[p].two /\ op'[p].absent = found
          /\ op'[p] # op[p]
      BY <3>1
    <3>3. overtaken'[p] = overtaken[p]
      BY <2>0, <3>1, <3>2, OvertakingShows DEF Idle
    <3>4. LatestTwo' = LatestTwo
      BY <3>1 DEF LatestTwo, Later
    <3>5. Stable(op[p].two)' <=> Stable(op[p].two)
      BY <3>1, <3>2 DEF Stable, ScanComplete, Reconciled, IsLegacy, Scanned, ScannedIn,
                        SameInventory
    <3>6. LatestListed(op[p].two)' = LatestListed(op[p].two)
      BY <3>1, <3>2 DEF LatestListed, Later
    <3>7. /\ verdict[p] = "none" /\ op[p].two \in SUBSET DOMAIN scans
          /\ "scan" \notin overtaken[p] => op[p].two = LatestTwo
      BY <3>1 DEF ReadsAreCurrent, Auditing
    <3>8. \A row \in found : /\ Stable(op[p].two) /\ row.thread \notin LatestListed(op[p].two)
                             /\ row.capture = certificates[row.thread].capture
      BY DEF Absent
    <3> QED BY <3>1, <3>2, <3>3, <3>4, <3>5, <3>6, <3>7, <3>8
  <2>5. ASSUME WriteCertificate(p) \/ ConcludeAudit(p) \/ Abandon(p) PROVE FALSE
    BY <2>5 DEF WriteCertificate, ConcludeAudit, Abandon, TypeOK
  <2> QED BY <2>0, <2>1, <2>2, <2>3, <2>4, <2>5, OwnSteps
<1> QED BY <1>1, <1>2

RowsAreWhole == \A i \in DOMAIN scans : listed[i] = Scanned(i)

\* The code's test for full is what full stands for, while no row is lost.
LEMMA FullMeansComplete ==
    Assumptions /\ TypeOK =>
        /\ ParentFull(LatestTwo, certificates) => Complete
        /\ Complete /\ RowsAreWhole => ParentFull(LatestTwo, certificates)
BY FullIsComplete DEF RowsAreWhole

\* The verdict of an audit is about the store as the audit leaves it.
LEMMA VerdictIsCurrent ==
    ASSUME Assumptions, TypeOK, TypeOK', ReadsAreCurrent,
           NEW p \in Proc, ConcludeAudit(p), "scan" \notin overtaken[p]
    PROVE  /\ verdict'[p] = "full" => Complete'
           /\ verdict'[p] = "incomplete" => ~Complete' \/ ~RowsAreWhole'
           /\ ~RowsAreWhole' => \E i \in DOMAIN scans : listed[i] # Scanned(i)
<1>1. /\ UNCHANGED <<scans, listed>>
      /\ verdict'[p] = Status(op[p].two, certificates') /\ op[p].two = LatestTwo
  BY DEF ConcludeAudit, ReadsAreCurrent, Auditing, TypeOK
<1>2. ParentFull(LatestTwo, certificates') <=> ParentFull(LatestTwo, certificates)'
  BY <1>1 DEF ParentFull, Certified, LatestListed, Stable, ScanComplete, Reconciled,
              IsLegacy, Scanned, ScannedIn, SameInventory, LatestTwo, Later
<1>3. /\ ParentFull(LatestTwo, certificates)' => Complete'
      /\ Complete' /\ RowsAreWhole' => ParentFull(LatestTwo, certificates)'
  BY FullMeansComplete, PTL
<1>4. RowsAreWhole' <=> RowsAreWhole
  BY <1>1 DEF RowsAreWhole, Scanned, ScannedIn, IsLegacy
<1> QED BY <1>1, <1>2, <1>3, <1>4 DEF Status, RowsAreWhole

\* A verdict is said when an audit ends and forgotten when its process goes on.
LEMMA VerdictsEnd ==
    ASSUME Assumptions, TypeOK, Step, NEW p \in Proc, verdict'[p] # "none", ~ConcludeAudit(p),
           op[p] # Nothing => verdict[p] = "none"
    PROVE  verdict'[p] = verdict[p] /\ op[p] = Nothing /\ op'[p] = Nothing
<1>1. CASE op'[p] # op[p]
  <2>1. ASSUME NEW t \in Thread, NEW capture \in Capture, NEW strict \in BOOLEAN,
               CheckCertificate(p, t, capture, strict)
        PROVE  verdict'[p] = "none"
    BY <2>1 DEF CheckCertificate, TypeOK
  <2>2. BeginAudit(p) => verdict'[p] = "none"
    BY DEF BeginAudit, TypeOK
  <2>3. FindAbsent(p) \/ WriteCertificate(p) \/ Abandon(p) =>
            verdict'[p] = verdict[p] /\ op[p] # Nothing
    BY DEF FindAbsent, WriteCertificate, Abandon
  <2> QED BY <1>1, <2>1, <2>2, <2>3, OwnSteps
<1>2. CASE op'[p] = op[p] /\ op[p] # Nothing
  BY <1>2, StepsOfOthers
<1>3. CASE op'[p] = op[p] /\ op[p] = Nothing
  <2>1. ASSUME NEW q \in Proc, NEW scan \in OfferedScan, RecordInventoryScan(q, scan)
        PROVE  verdict'[p] \in {verdict[p], "none"}
    BY <2>1 DEF RecordInventoryScan, TypeOK
  <2>2. ASSUME NEW q \in Proc, NEW t \in Thread, NEW capture \in Capture,
               NEW strict \in BOOLEAN, CheckCertificate(q, t, capture, strict)
        PROVE  verdict'[p] \in {verdict[p], "none"}
    BY <2>2 DEF CheckCertificate, TypeOK
  <2>3. ASSUME NEW q \in Proc, BeginAudit(q) PROVE verdict'[p] \in {verdict[p], "none"}
    BY <2>3 DEF BeginAudit, TypeOK
  <2>4. ASSUME NEW q \in Proc, ConcludeAudit(q) PROVE verdict'[p] = verdict[p]
    BY <2>4 DEF ConcludeAudit, TypeOK
  <2>5. ASSUME NEW q \in Proc, WriteCertificate(q) \/ FindAbsent(q) \/ Abandon(q)
        PROVE  verdict'[p] = verdict[p]
    BY <2>5 DEF WriteCertificate, FindAbsent, Abandon
  <2>6. ASSUME NEW i \in DOMAIN scans, NEW t \in Thread, LoseMembership(i, t)
        PROVE  verdict'[p] = verdict[p]
    BY <2>6 DEF LoseMembership
  <2> QED BY <1>3, <2>1, <2>2, <2>3, <2>4, <2>5, <2>6 DEF Step
<1> QED BY <1>1, <1>2, <1>3

\* Every step keeps it that full was true at one moment.
LEMMA HeldKept ==
    ASSUME Assumptions, TypeOK, TypeOK', ReadsAreCurrent, FullHeldUnlessScanned, [Next]_vars
    PROVE  FullHeldUnlessScanned'
<1> SUFFICES ASSUME NEW p \in Proc, verdict'[p] = "full", "scan" \notin overtaken'[p]
             PROVE  held'[p]
  BY DEF FullHeldUnlessScanned
<1>1. CASE UNCHANGED vars
  BY <1>1 DEF vars, history, FullHeldUnlessScanned
<1>2. CASE Next
  <2>1. Step /\ Watch
    BY <1>2 DEF Next
  <2>2. held'[p] <=> \/ held[p] /\ (Auditing(p) \/ ~Auditing(p)')
                     \/ Complete' /\ (Auditing(p) \/ Auditing(p)')
    BY <2>1 DEF Watch
  <2>3. CASE ConcludeAudit(p)
    <3>1. op[p] # Nothing /\ op'[p] = Nothing /\ Auditing(p) /\ ~Idle(p)'
      BY <2>3 DEF ConcludeAudit, Auditing, Idle, TypeOK
    <3>2. overtaken'[p] = overtaken[p]
      BY <2>1, <3>1, OvertakingShows
    <3> QED BY <2>2, <2>3, <3>1, <3>2, VerdictIsCurrent
  <2>4. CASE ~ConcludeAudit(p)
    <3>1. verdict[p] = "full" /\ op[p] = Nothing /\ op'[p] = Nothing
      BY <2>1, <2>4, VerdictsEnd DEF ReadsAreCurrent
    <3>2. overtaken'[p] = overtaken[p]
      BY <2>1, <3>1 DEF Watch, Begins, Idle
    <3>3. ~Auditing(p)'
      BY <3>1 DEF Auditing
    <3> QED BY <2>2, <3>1, <3>2, <3>3 DEF FullHeldUnlessScanned
  <2> QED BY <2>3, <2>4
<1> QED BY <1>1, <1>2

\* The two invariants of audits, in every state.
LEMMA AuditInvariant == Assumptions => (Spec => [](ReadsAreCurrent /\ FullHeldUnlessScanned))
<1> SUFFICES ASSUME Assumptions PROVE Spec => [](ReadsAreCurrent /\ FullHeldUnlessScanned)
  OBVIOUS
<1>1. Init => ReadsAreCurrent /\ FullHeldUnlessScanned
  BY DEF Init, ReadsAreCurrent, FullHeldUnlessScanned
<1>2. /\ TypeOK /\ TypeOK' /\ [Next]_vars /\ ReadsAreCurrent /\ FullHeldUnlessScanned
      => (ReadsAreCurrent /\ FullHeldUnlessScanned)'
  BY ReadsStayCurrent, HeldKept
<1> QED BY <1>1, <1>2, StoreTypeCorrect, PTL DEF Spec

\* An audit that says full saw every condition true at one moment while it ran, with
\* any number of processes, unless one of the others recorded a scan meanwhile
\* (audit_parent; docs/parent-completeness-audit.md: "全条件が同時に成立した時だけ").
THEOREM FullIsOneMoment == Assumptions => (Spec => []FullHeldUnlessScanned)
BY AuditInvariant, PTL

\* A thread that stable scans do not list is in neither of them.
LEMMA AbsentFromBoth ==
    ASSUME Assumptions, TypeOK, NEW two \in SUBSET DOMAIN scans, Stable(two),
           NEW t, t \notin LatestListed(two)
    PROVE  \A i \in two : t \notin Scanned(i)
<1>1. PICK a, b \in two : a # b /\ two = {a, b}
  BY ScansAreFinite, TwoElements DEF Stable
<1>2. PICK i, j \in two : two = {i, j} /\ Later(i, j) /\ ~Later(j, i)
  BY <1>1, LaterOrders
<1>3. /\ ScanComplete(i) /\ ScanComplete(j) /\ SameInventory(i, j)
  BY DEF Stable
<1>4. LatestListed(two) = Scanned(i)
  <2>1. {k \in two : \A m \in two \ {k} : Later(k, m)} = {i}
    BY <1>2, LaterOrders
  <2> QED BY <1>3, <2>1 DEF LatestListed, ScanComplete, Reconciled
<1>5. \A k \in {i, j} : DOMAIN scans[k].receipts = RequiredScopes(scans[i].kind)
  <2> TAKE k \in {i, j}
  <2>1. scans[k] \in OfferedScan /\ scans[k].kind # "legacy"
    BY <1>3 DEF ScanComplete, Reconciled, IsLegacy, TypeOK
  <2>2. DOMAIN scans[k].receipts \subseteq RequiredScopes(scans[k].kind)
    BY <2>1 DEF Assumptions, OfferedScanAssumption, LegacyScan, ReceiptScan
  <2>3. RequiredScopes(scans[k].kind) \subseteq DOMAIN scans[k].receipts
    BY <1>3 DEF ScanComplete
  <2>4. scans[k].kind = scans[i].kind
    BY <1>3 DEF SameInventory
  <2> QED BY <2>2, <2>3, <2>4
<1>6. Scanned(j) = Scanned(i)
  BY <1>3, <1>5 DEF SameInventory, Scanned, ScanComplete, Reconciled
<1> QED BY <1>2, <1>4, <1>6

\* An audit retires what it found absent, and nothing else.
LEMMA RetiresWhatItFound ==
    ASSUME Assumptions, TypeOK, ReadsAreCurrent, NEW p \in Proc, ConcludeAudit(p)
    PROVE  RetiresOnlyAbsent
<1> SUFFICES ASSUME NEW t \in Thread, certificates[t] # Nothing, certificates'[t] = Nothing
             PROVE  /\ op[p] # Nothing /\ op[p].step = "conclude" /\ op'[p] = Nothing
                    /\ Stable(op[p].two) /\ \A i \in op[p].two : t \notin Scanned(i)
                    /\ op[p].two = LatestTwo \/ "scan" \in overtaken[p]
                    /\ \/ [thread |-> t, capture |-> certificates[t].capture] \in retirements'
                       \/ "certificate" \in overtaken[p]
  BY DEF RetiresOnlyAbsent
<1>1. /\ op[p] # Nothing /\ op[p].step = "conclude" /\ op'[p] = Nothing
      /\ Auditing(p) /\ op[p].absent \in SUBSET Retired
  BY OperationByStep DEF ConcludeAudit, Auditing, TypeOK
<1>2. t \in {row.thread : row \in op[p].absent}
  BY DEF ConcludeAudit
<1>3. PICK row \in op[p].absent : row.thread = t
  BY <1>2
<1>4. row = [thread |-> t, capture |-> row.capture]
  BY <1>1, <1>3 DEF Retired
<1>5. /\ Stable(op[p].two) /\ t \notin LatestListed(op[p].two)
      /\ "certificate" \notin overtaken[p] => row.capture = certificates[t].capture
      /\ op[p].two \in SUBSET DOMAIN scans
      /\ "scan" \notin overtaken[p] => op[p].two = LatestTwo
  BY <1>1, <1>3 DEF ReadsAreCurrent
<1>6. \A i \in op[p].two : t \notin Scanned(i)
  BY <1>5, AbsentFromBoth
<1>7. row \in retirements'
  BY <1>3 DEF ConcludeAudit
<1> QED BY <1>1, <1>4, <1>5, <1>6, <1>7

\* A certificate is written while its capture is bound to no other thread, unless the
\* call was overtaken.
LEMMA BindsWhatWasFree ==
    ASSUME Assumptions, TypeOK, ReadsAreCurrent, NEW p \in Proc, WriteCertificate(p)
    PROVE  SharesOnlyOvertaken
<1> SUFFICES ASSUME NEW capture \in Capture, ~Shared(capture), Shared(capture)'
             PROVE  /\ op[p] # Nothing /\ op[p].step = "write_certificate"
                    /\ op[p].certificate.capture = capture /\ op'[p] = Nothing
                    /\ "certificate" \in overtaken[p]
  BY DEF SharesOnlyOvertaken
<1>1. /\ op[p] # Nothing /\ op[p].step = "write_certificate" /\ op'[p] = Nothing
      /\ op[p].thread \in Thread /\ op[p].certificate \in Certificate
      /\ certificates' = [certificates EXCEPT ![op[p].thread] = op[p].certificate]
  BY OperationByStep DEF WriteCertificate, TypeOK
<1>2. certificates \in [Thread -> Certificate \cup {Nothing}]
  BY DEF TypeOK
<1>3. PICK u, v \in Certified(certificates)' :
          /\ u # v /\ certificates'[u].capture = capture /\ certificates'[v].capture = capture
  BY DEF Shared
<1>4. /\ u \in Thread /\ certificates'[u] # Nothing
      /\ v \in Thread /\ certificates'[v] # Nothing
  BY DEF Certified
<1>5. u = op[p].thread \/ v = op[p].thread
  BY <1>1, <1>2, <1>3, <1>4 DEF Shared, Certified
<1>6. op[p].certificate.capture = capture
  BY <1>1, <1>2, <1>3, <1>5
<1>7. ~Unbound(op[p].thread, op[p].certificate.capture)
  BY <1>1, <1>2, <1>3, <1>4, <1>5, <1>6 DEF Unbound
<1> QED BY <1>1, <1>6, <1>7 DEF ReadsAreCurrent

\* With any number of processes: a capture comes to vouch for two threads only by a
\* call that was overtaken (record_child_certificate), a certificate disappears only by
\* an audit that read two agreeing scans without its thread, and an audit that says
\* incomplete is right unless rows are damaged or a scan overtook it (audit_parent).
THEOREM CertificatesAreKept == Assumptions => (Spec => CertificatesFollowInventory)
<1> SUFFICES ASSUME Assumptions PROVE Spec => CertificatesFollowInventory
  OBVIOUS
<1>1. /\ TypeOK /\ TypeOK' /\ ReadsAreCurrent /\ [Next]_vars
      => [SharesOnlyOvertaken /\ RetiresOnlyAbsent /\ SaysIncompleteRightly]_vars
  <2> SUFFICES ASSUME TypeOK, TypeOK', ReadsAreCurrent, Next
               PROVE  SharesOnlyOvertaken /\ RetiresOnlyAbsent /\ SaysIncompleteRightly
    OBVIOUS
  <2>0. Step
    BY DEF Next
  <2>1. SaysIncompleteRightly
    <3> SUFFICES ASSUME NEW p \in Proc, verdict[p] = "none", verdict'[p] = "incomplete",
                        "scan" \notin overtaken[p]
                 PROVE  ~Complete' \/ \E i \in DOMAIN scans : listed[i] # Scanned(i)
      BY DEF SaysIncompleteRightly
    <3>1. ConcludeAudit(p)
      BY <2>0, VerdictsEnd
    <3> QED BY <3>1, VerdictIsCurrent
  <2>2. ASSUME NEW p \in Proc, ConcludeAudit(p)
        PROVE  SharesOnlyOvertaken /\ RetiresOnlyAbsent
    <3>1. \A t \in Thread : certificates'[t] \in {certificates[t], Nothing}
      BY <2>2 DEF ConcludeAudit
    <3>2. \A capture \in Capture : Shared(capture)' => Shared(capture)
      BY <3>1 DEF Shared, Certified
    <3> QED BY <2>2, <3>2, RetiresWhatItFound DEF SharesOnlyOvertaken
  <2>3. ASSUME NEW p \in Proc, WriteCertificate(p)
        PROVE  SharesOnlyOvertaken /\ RetiresOnlyAbsent
    <3>1. op[p].certificate # Nothing
      BY <2>3, OperationByStep DEF WriteCertificate, Assumptions, ScanNothingAssumption
    <3>2. \A t \in Thread : certificates'[t] \in {certificates[t], op[p].certificate}
      BY <2>3 DEF WriteCertificate, TypeOK
    <3> QED BY <2>3, <3>1, <3>2, BindsWhatWasFree DEF RetiresOnlyAbsent
  <2>4. ASSUME ~(\E p \in Proc : WriteCertificate(p) \/ ConcludeAudit(p))
        PROVE  UNCHANGED certificates
    BY <2>0, <2>4 DEF Step, RecordInventoryScan, CheckCertificate, BeginAudit, FindAbsent,
                      Abandon, LoseMembership
  <2>5. UNCHANGED certificates => SharesOnlyOvertaken /\ RetiresOnlyAbsent
    BY DEF SharesOnlyOvertaken, RetiresOnlyAbsent, Shared, Certified
  <2> QED BY <2>1, <2>2, <2>3, <2>4, <2>5
<1> QED BY <1>1, StoreTypeCorrect, AuditInvariant, PTL
        DEF Spec, CertificatesFollowInventory

------------------------------------------------------------------------------
RunAssumptions ==
    /\ IsFiniteSet(Item)
    /\ Dir!CloseoutAssumption /\ Dir!CloseoutNothingAssumption /\ Dir!CloseoutRecordsAssumption

------------------------------------------------------------------------------
(***************************************************************************)
(* Types of a run directory.                                               *)
(***************************************************************************)

\* A receipt is there before the next step relies on it: drains before the stop,
\* the stop before a closeout, the closeout before the metadata.
ReceiptsLead ==
    /\ stop # Nothing => drained = Dir!Producer
    /\ closeout # Nothing => stop # Nothing
    /\ router # Nothing /\ router.step = "publish" => drained = Dir!Producer
    /\ \A c \in Closer : /\ Dir!InStep(c, "publish") => stop # Nothing
                         /\ Dir!InStep(c, "project") => closeout # Nothing

\* The instance counts like the module it is an instance of.
LEMMA RunCounts == \A S : Dir!Cardinality(S) = Cardinality(S)
BY DEF Dir!Cardinality, Cardinality

\* What is read from the directory has the type of evidence.
LEMMA CountsTyped ==
    ASSUME RunAssumptions, NEW e \in Dir!EvidenceType
    PROVE  Dir!Counts(e) \in [ready : Dir!Count, receipts : Dir!Count, ledger : Dir!Count,
                          artifacts : Dir!Count, without_text : Dir!Count]
<1>1. \A S \in SUBSET Item : Cardinality(S) \in Dir!Count
  <2> TAKE S \in SUBSET Item
  <2>1. IsFiniteSet(S) /\ Cardinality(S) <= Cardinality(Item)
    BY FS_Subset DEF RunAssumptions
  <2>2. Cardinality(S) \in Nat /\ Cardinality(Item) \in Nat
    BY <2>1, FS_CardinalityType DEF RunAssumptions
  <2> QED BY <2>1, <2>2, RunCounts DEF Dir!Count
<1>2. /\ Dir!ReadyItems(e) \in SUBSET Item /\ Dir!ReceiptItems(e) \in SUBSET Item
      /\ Dir!LedgerItems(e) \in SUBSET Item /\ Dir!ArtifactItems(e) \in SUBSET Item
      /\ Dir!WithoutText(e) \in SUBSET Item
  BY DEF Dir!ReadyItems, Dir!ReceiptItems, Dir!LedgerItems, Dir!ArtifactItems,
         Dir!WithoutText
<1> QED BY <1>1, <1>2, RunCounts DEF Dir!Counts

\* A call of the closeout stays in its step's type.
LEMMA CallsStayTyped ==
    ASSUME Dir!TypeOK, NEW c \in Closer, NEW call \in Dir!Call \cup {Nothing},
           Dir!Goes(c, call)
    PROVE  closing' \in [Closer -> Dir!Call \cup {Nothing}]
BY DEF Dir!Goes, Dir!TypeOK

\* What a call carries in each of its steps.
LEMMA CallsByStep ==
    ASSUME Dir!TypeOK, NEW c \in Closer
    PROVE  /\ Dir!InStep(c, "snapshot") =>
                  closing[c] \in [step : {"snapshot"}, audit : Dir!Audit \cup {Nothing}]
           /\ Dir!InStep(c, "count") =>
                  closing[c] \in [step : {"count"}, audit : Dir!Audit \cup {Nothing},
                                  evidence : Dir!EvidenceType]
           /\ Dir!InStep(c, "quiescence") =>
                  closing[c] \in [step : {"quiescence"}, result : Dir!Result]
           /\ Dir!InStep(c, "publish") =>
                  closing[c] \in [step : {"publish"}, result : Dir!Result,
                                  state : Dir!ClosedState]
<1>1. closing[c] \in Dir!Call \cup {Nothing}
  BY DEF Dir!TypeOK
<1> QED BY <1>1 DEF Dir!InStep, Dir!Call

\* The closeout's types.
LEMMA RunTypesKept ==
    RunAssumptions /\ Dir!TypeOK /\ ReceiptsLead /\ [Dir!Next]_Dir!vars => Dir!TypeOK'
<1> SUFFICES ASSUME RunAssumptions, Dir!TypeOK, ReceiptsLead, [Dir!Next]_Dir!vars
             PROVE  Dir!TypeOK'
  OBVIOUS
<1> USE DEF Dir!StopReceipt, Dir!CloseoutReceipt, Dir!RouterCall
<1>0. Dir!Evidence \in Dir!EvidenceType
  BY DEF Dir!TypeOK
<1>1. /\ ready \in [Item -> Dir!Spooled] /\ receipt \in [Item -> Dir!Spooled]
      /\ rows \in SUBSET Item /\ torn \in BOOLEAN /\ drained \in SUBSET Dir!Producer
  BY <1>0 DEF Dir!Evidence, Dir!EvidenceType
<1>2. /\ ready' \in [Item -> Dir!Spooled] /\ receipt' \in [Item -> Dir!Spooled]
      /\ rows' \in SUBSET Item /\ torn' \in BOOLEAN /\ drained' \in SUBSET Dir!Producer
      => Dir!Evidence' \in Dir!EvidenceType
  BY DEF Dir!Evidence, Dir!EvidenceType
<1>3. ASSUME NEW i \in Item, Dir!WriteReady(i) PROVE Dir!TypeOK'
  BY <1>1, <1>2, <1>3 DEF Dir!WriteReady, Dir!counters, Dir!TypeOK, Dir!Spooled
<1>4. ASSUME NEW i \in Item, Dir!WriteReceipt(i) PROVE Dir!TypeOK'
  BY <1>1, <1>2, <1>4 DEF Dir!WriteReceipt, Dir!counters, Dir!TypeOK
<1>5. ASSUME NEW i \in Item, Dir!AppendRow(i) PROVE Dir!TypeOK'
  BY <1>1, <1>2, <1>5 DEF Dir!AppendRow, Dir!counters, Dir!TypeOK
<1>6. ASSUME NEW i \in Item, Dir!Tamper(i) PROVE Dir!TypeOK'
  BY <1>1, <1>2, <1>6 DEF Dir!Tamper, Dir!TypeOK, Dir!Spooled, RunAssumptions,
                          Dir!CloseoutAssumption
<1>7. ASSUME NEW p \in Dir!Producer, Dir!RecordDrain(p) PROVE Dir!TypeOK'
  BY <1>1, <1>2, <1>7 DEF Dir!RecordDrain, Dir!files, Dir!counters, Dir!TypeOK
<1>8. CASE Dir!ReadEvidence
  BY <1>0, <1>1, <1>2, <1>8 DEF Dir!ReadEvidence, Dir!files, Dir!counters, Dir!TypeOK
<1>9. CASE Dir!ConfirmDrains
  BY <1>1, <1>2, <1>9 DEF Dir!ConfirmDrains, Dir!files, Dir!counters, Dir!TypeOK
<1>10. CASE Dir!PublishStop
  BY <1>1, <1>2, <1>10 DEF Dir!PublishStop, Dir!files, Dir!counters, Dir!TypeOK
<1>11. CASE Dir!RouterDies
  BY <1>1, <1>2, <1>11
     DEF Dir!RouterDies, Dir!files, Dir!TypeOK, RunAssumptions, Dir!CloseoutAssumption
<1>12. ASSUME NEW c \in Closer, Dir!AuditParent(c) PROVE Dir!TypeOK'
  <2>1. parent' \in Dir!Audit
    BY <1>12 DEF Dir!AuditParent, Dir!TypeOK, Dir!Audit
  <2>2. closing' \in [Closer -> Dir!Call \cup {Nothing}]
    <3>1. [step |-> "snapshot", audit |-> parent] \in Dir!Call
          /\ [step |-> "snapshot", audit |-> Nothing] \in Dir!Call
      BY DEF Dir!TypeOK, Dir!Call
    <3> QED BY <1>12, <3>1, CallsStayTyped DEF Dir!AuditParent
  <2> QED BY <1>1, <1>2, <1>12, <2>1, <2>2 DEF Dir!AuditParent, Dir!files,
                                               Dir!counters, Dir!TypeOK
<1>13. ASSUME NEW c \in Closer, Dir!TakeSnapshot(c) PROVE Dir!TypeOK'
  <2>1. [step |-> "count", audit |-> closing[c].audit, evidence |-> Dir!Evidence] \in Dir!Call
    BY <1>0, <1>13, CallsByStep DEF Dir!TakeSnapshot, Dir!Call
  <2>2. closing' \in [Closer -> Dir!Call \cup {Nothing}]
    BY <1>13, <2>1, CallsStayTyped DEF Dir!TakeSnapshot
  <2> QED BY <1>1, <1>2, <1>13, <2>2 DEF Dir!TakeSnapshot, Dir!files, Dir!counters,
                                         Dir!TypeOK
<1>14. ASSUME NEW c \in Closer, Dir!CountEvidence(c) PROVE Dir!TypeOK'
  <2> DEFINE full == Dir!ParentIsFull(closing[c].audit)
             result == [evidence |-> closing[c].evidence,
                        parent |-> IF full THEN closing[c].audit ELSE Nothing,
                        counts |-> Dir!Counts(Dir!Evidence),
                        blockers |-> Dir!EvidenceBlockers(Dir!Evidence) \cup
                            (IF full THEN {} ELSE {"parent"})]
  <2>1. closing[c].audit \in Dir!Audit \cup {Nothing}
        /\ closing[c].evidence \in Dir!EvidenceType
    BY <1>14, CallsByStep DEF Dir!CountEvidence
  <2>2. result.blockers \in SUBSET Dir!Blocker
    BY DEF Dir!EvidenceBlockers, Dir!Blocker
  <2>3. result \in Dir!Result
    BY <1>0, <2>1, <2>2, CountsTyped DEF Dir!Result
  <2>4. [step |-> "quiescence", result |-> result] \in Dir!Call
    BY <2>3 DEF Dir!Call
  <2>5. closing' \in [Closer -> Dir!Call \cup {Nothing}]
    BY <1>14, <2>4, CallsStayTyped DEF Dir!CountEvidence
  <2> QED BY <1>1, <1>2, <1>14, <2>5 DEF Dir!CountEvidence, Dir!files, Dir!counters,
                                         Dir!TypeOK
<1>15. ASSUME NEW c \in Closer, Dir!CheckQuiescence(c) PROVE Dir!TypeOK'
  <2>1. closing[c].result \in Dir!Result
    BY <1>15, CallsByStep DEF Dir!CheckQuiescence
  <2>2. \A state \in Dir!ClosedState :
            [step |-> "publish", result |-> closing[c].result, state |-> state] \in Dir!Call
    BY <2>1 DEF Dir!Call
  <2>3. closing' \in [Closer -> Dir!Call \cup {Nothing}]
    BY <1>15, <2>2, CallsStayTyped DEF Dir!CheckQuiescence, Dir!ClosedState
  <2> QED BY <1>1, <1>2, <1>15, <2>3 DEF Dir!CheckQuiescence, Dir!files, Dir!counters,
                                         Dir!TypeOK
<1>16. ASSUME NEW c \in Closer, Dir!PublishCloseout(c) PROVE Dir!TypeOK'
  <2>1. closing[c].result \in Dir!Result /\ closing[c].state \in Dir!ClosedState
    BY <1>16, CallsByStep DEF Dir!PublishCloseout
  <2>2. [step |-> "project"] \in Dir!Call
    BY DEF Dir!Call
  <2>3. closing' \in [Closer -> Dir!Call \cup {Nothing}]
    BY <1>16, <2>2, CallsStayTyped DEF Dir!PublishCloseout
  <2>4. closeout' \in Dir!CloseoutReceipt \cup {Nothing}
    BY <1>16, <2>1 DEF Dir!PublishCloseout, Dir!TypeOK
  <2> QED BY <1>1, <1>2, <1>16, <2>3, <2>4 DEF Dir!PublishCloseout, Dir!files,
                                               Dir!counters, Dir!TypeOK
<1>17. ASSUME NEW c \in Closer, Dir!ProjectMetadata(c) PROVE Dir!TypeOK'
  <2>1. closing' \in [Closer -> Dir!Call \cup {Nothing}]
    BY <1>17, CallsStayTyped DEF Dir!ProjectMetadata
  <2>2. closeout # Nothing
    BY <1>17 DEF Dir!ProjectMetadata, ReceiptsLead
  <2>3. metadata' \in Dir!ClosedState
    BY <1>17, <2>2 DEF Dir!ProjectMetadata, Dir!TypeOK
  <2> QED BY <1>1, <1>2, <1>17, <2>1, <2>3 DEF Dir!ProjectMetadata, Dir!files,
                                               Dir!counters, Dir!TypeOK
<1>18. ASSUME NEW c \in Closer, Dir!CloserDies(c) PROVE Dir!TypeOK'
  <2>1. closing' \in [Closer -> Dir!Call \cup {Nothing}]
    BY <1>18, CallsStayTyped DEF Dir!CloserDies
  <2> QED BY <1>1, <1>2, <1>18, <2>1
          DEF Dir!CloserDies, Dir!files, Dir!TypeOK, RunAssumptions,
              Dir!CloseoutAssumption
<1>19. CASE Dir!ParentChanges
  BY <1>1, <1>2, <1>19
     DEF Dir!ParentChanges, Dir!files, Dir!TypeOK, Dir!Audit, RunAssumptions,
         Dir!CloseoutAssumption
<1>20. CASE UNCHANGED Dir!vars
  BY <1>1, <1>2, <1>20 DEF Dir!vars, Dir!TypeOK
<1> QED BY <1>3, <1>4, <1>5, <1>6, <1>7, <1>8, <1>9, <1>10, <1>11, <1>12, <1>13,
           <1>14, <1>15, <1>16, <1>17, <1>18, <1>19, <1>20 DEF Dir!Next, Dir!Close

\* Every step keeps it that a receipt comes before what relies on it.
LEMMA ReceiptsKept ==
    RunAssumptions /\ Dir!TypeOK /\ ReceiptsLead /\ [Dir!Next]_Dir!vars => ReceiptsLead'
<1> SUFFICES ASSUME RunAssumptions, Dir!TypeOK, ReceiptsLead, [Dir!Next]_Dir!vars 
             PROVE  ReceiptsLead'
  OBVIOUS
<1>0. closing \in [Closer -> Dir!Call \cup {Nothing}]
  BY DEF Dir!TypeOK
<1>1. CASE UNCHANGED <<drained, stop, closeout, router, closing>>
  BY <1>1 DEF ReceiptsLead, Dir!InStep
<1>2. ASSUME NEW i \in Item,
             Dir!WriteReady(i) \/ Dir!WriteReceipt(i) \/ Dir!AppendRow(i) \/ Dir!Tamper(i)
      PROVE  UNCHANGED <<drained, stop, closeout, router, closing>>
  BY <1>2 DEF Dir!WriteReady, Dir!WriteReceipt, Dir!AppendRow, Dir!Tamper
<1>3. ASSUME NEW p \in Dir!Producer, Dir!RecordDrain(p) PROVE ReceiptsLead'
  BY <1>3 DEF Dir!RecordDrain, ReceiptsLead, Dir!InStep
<1>4. CASE Dir!ReadEvidence
  BY <1>4 DEF Dir!ReadEvidence, ReceiptsLead, Dir!InStep
<1>5. CASE Dir!ConfirmDrains
  BY <1>5 DEF Dir!ConfirmDrains, ReceiptsLead, Dir!InStep
<1>6. CASE Dir!PublishStop
  BY <1>6 DEF Dir!PublishStop, ReceiptsLead, Dir!InStep
<1>7. CASE Dir!RouterDies
  BY <1>7 DEF Dir!RouterDies, ReceiptsLead, Dir!InStep
<1>8. CASE Dir!ParentChanges \/ UNCHANGED Dir!vars
  BY <1>1, <1>8 DEF Dir!ParentChanges, Dir!vars
<1>9. ASSUME NEW c \in Closer,
             \/ Dir!AuditParent(c) \/ Dir!TakeSnapshot(c) \/ Dir!CountEvidence(c)
             \/ Dir!CheckQuiescence(c) \/ Dir!ProjectMetadata(c) \/ Dir!CloserDies(c)
      PROVE  ReceiptsLead'
  BY <1>0, <1>9
  DEF Dir!AuditParent, Dir!TakeSnapshot, Dir!CountEvidence, Dir!CheckQuiescence,
      Dir!ProjectMetadata,
      Dir!CloserDies, Dir!Goes, Dir!InStep, Dir!Quiet, ReceiptsLead
<1>10. ASSUME NEW c \in Closer, Dir!PublishCloseout(c) PROVE ReceiptsLead'
  <2>1. closing[c].result \in Dir!Result /\ closing[c].state \in Dir!ClosedState
    BY <1>10, CallsByStep DEF Dir!PublishCloseout
  <2>2. stop # Nothing /\ UNCHANGED <<drained, stop, router>>
    BY <1>10 DEF Dir!PublishCloseout, ReceiptsLead
  <2>3. closeout' # Nothing
    BY <1>10, <2>1 DEF Dir!PublishCloseout, RunAssumptions,
                       Dir!CloseoutRecordsAssumption,
                       Dir!CloseoutReceipt
  <2>4. \A d \in Closer : Dir!InStep(d, "publish")' => Dir!InStep(d, "publish")
    BY <1>0, <1>10 DEF Dir!PublishCloseout, Dir!Goes, Dir!InStep
  <2> QED BY <2>2, <2>3, <2>4 DEF ReceiptsLead
<1> QED BY <1>1, <1>2, <1>3, <1>4, <1>5, <1>6, <1>7, <1>8, <1>9, <1>10
   DEF Dir!Next, Dir!Close

\* The files of a run and the calls of its router and closeouts have their types
\* (persist_parallel_producer_drain_receipt, persist_legacy_parallel_closeout).
LEMMA ReceiptsInvariant == RunAssumptions => (Dir!Spec => [](Dir!TypeOK /\ ReceiptsLead))
<1> SUFFICES ASSUME RunAssumptions PROVE Dir!Spec => [](Dir!TypeOK /\ ReceiptsLead)
  OBVIOUS
<1>1. Dir!Init => Dir!TypeOK /\ ReceiptsLead
  <2> SUFFICES ASSUME Dir!Init PROVE Dir!TypeOK /\ ReceiptsLead
    OBVIOUS
  <2>1. Dir!Evidence \in Dir!EvidenceType
    BY DEF Dir!Init, Dir!Evidence, Dir!EvidenceType, Dir!Spooled
  <2>2. parent \in Dir!Audit
    BY DEF Dir!Init, Dir!Audit, RunAssumptions, Dir!CloseoutAssumption
  <2> QED BY <2>1, <2>2 DEF Dir!Init, Dir!TypeOK, ReceiptsLead, Dir!InStep,
                            RunAssumptions,
                            Dir!CloseoutAssumption
<1>2. Dir!TypeOK /\ ReceiptsLead /\ [Dir!Next]_Dir!vars => (Dir!TypeOK /\ ReceiptsLead)'
  BY RunTypesKept, ReceiptsKept
<1> QED BY <1>1, <1>2, PTL DEF Dir!Spec

\* The files of a run and the calls of its router and closeouts have their types
\* (persist_parallel_producer_drain_receipt, persist_legacy_parallel_closeout).
THEOREM CloseoutTypeCorrect == RunAssumptions => (Dir!Spec => []Dir!TypeOK)
BY ReceiptsInvariant, PTL

------------------------------------------------------------------------------
(***************************************************************************)
(* What is full was captured.  Everything the stop receipt binds was       *)
(* written by producers, and an item whose text is there keeps its         *)
(* receipt, its row and a ready file, if a rewritten one.                  *)
(***************************************************************************)

StopIsOriginal ==
    /\ stop = Nothing =>
           \A i \in Item : /\ ready[i] # "changed"
                           /\ router # Nothing => router.evidence.ready[i] # "changed"
    /\ stop # Nothing => \A i \in Item : stop.evidence.ready[i] # "changed"

Captured ==
    /\ ~torn /\ rows = Item
    /\ \A i \in Item : receipt[i] = "ready" /\ ready[i] \in {"ready", "changed"}

FullIsCaptured ==
    \A c \in Closer :
        /\ Dir!InStep(c, "quiescence") /\ closing[c].result.blockers = {} => Captured
        /\ Dir!InStep(c, "publish") /\ closing[c].state = "full_closed" =>
               Dir!Whole(stop.evidence)

\* A closeout writes its receipt and the metadata, and nothing else of a run.
LEMMA ClosersOnlyClose ==
    ASSUME NEW c \in Closer, Dir!Close(c) \/ Dir!CloserDies(c)
    PROVE  UNCHANGED <<Dir!files, drained, stop, router>> /\ UNCHANGED tampered
<1>1. CASE Dir!AuditParent(c) \/ Dir!TakeSnapshot(c) \/ Dir!CountEvidence(c)
  BY <1>1 DEF Dir!AuditParent, Dir!TakeSnapshot, Dir!CountEvidence, Dir!counters
<1>2. CASE Dir!CheckQuiescence(c)
  BY <1>2 DEF Dir!CheckQuiescence, Dir!counters
<1>3. CASE Dir!PublishCloseout(c) \/ Dir!ProjectMetadata(c) \/ Dir!CloserDies(c)
  BY <1>3 DEF Dir!PublishCloseout, Dir!ProjectMetadata, Dir!CloserDies, Dir!counters
<1> QED BY <1>1, <1>2, <1>3 DEF Dir!Close

\* Only before the stop do files get a state other than "changed".
LEMMA OriginalKept ==
    RunAssumptions /\ Dir!TypeOK /\ StopIsOriginal /\ [Dir!Next]_Dir!vars => StopIsOriginal'
<1> SUFFICES ASSUME RunAssumptions, Dir!TypeOK, StopIsOriginal, [Dir!Next]_Dir!vars
             PROVE  StopIsOriginal'
  OBVIOUS
<1>0. ready \in [Item -> Dir!Spooled]
  BY DEF Dir!TypeOK, Dir!Evidence, Dir!EvidenceType
<1>1. CASE UNCHANGED <<ready, stop, router>>
  BY <1>1 DEF StopIsOriginal
<1>2. ASSUME NEW i \in Item, Dir!WriteReady(i) PROVE StopIsOriginal'
  BY <1>0, <1>2 DEF Dir!WriteReady, StopIsOriginal
<1>3. ASSUME NEW i \in Item, Dir!Tamper(i) PROVE StopIsOriginal'
  BY <1>3 DEF Dir!Tamper, StopIsOriginal
<1>4. CASE Dir!ReadEvidence
  BY <1>4 DEF Dir!ReadEvidence, Dir!files, Dir!Evidence, StopIsOriginal
<1>5. CASE Dir!ConfirmDrains
  BY <1>5 DEF Dir!ConfirmDrains, Dir!files, StopIsOriginal
<1>6. CASE Dir!PublishStop
  <2>1. CASE stop = Nothing
    <3>1. \A i \in Item : ready'[i] # "changed" /\ router.evidence.ready[i] # "changed"
      BY <1>6, <2>1 DEF Dir!PublishStop, Dir!files, StopIsOriginal
    <3>2. stop'.evidence = router.evidence /\ router' = Nothing
      BY <1>6, <2>1 DEF Dir!PublishStop
    <3> QED BY <3>1, <3>2 DEF StopIsOriginal
  <2>2. CASE stop # Nothing
    BY <1>6, <2>2 DEF Dir!PublishStop, StopIsOriginal
  <2> QED BY <2>1, <2>2
<1>7. CASE Dir!RouterDies
  BY <1>7 DEF Dir!RouterDies, Dir!files, StopIsOriginal
<1>8. ASSUME NEW i \in Item, Dir!WriteReceipt(i) \/ Dir!AppendRow(i)
      PROVE  UNCHANGED <<ready, stop, router>>
  BY <1>8 DEF Dir!WriteReceipt, Dir!AppendRow
<1>9. ASSUME NEW c \in Closer, Dir!Close(c) \/ Dir!CloserDies(c)
      PROVE  UNCHANGED <<ready, stop, router>>
  BY <1>9, ClosersOnlyClose DEF Dir!files
<1>10. CASE \/ \E p \in Dir!Producer : Dir!RecordDrain(p)
            \/ Dir!ParentChanges \/ UNCHANGED Dir!vars
  BY <1>1, <1>10 DEF Dir!RecordDrain, Dir!ParentChanges, Dir!vars, Dir!files
<1> QED BY <1>1, <1>2, <1>3, <1>4, <1>5, <1>6, <1>7, <1>8, <1>9, <1>10 DEF Dir!Next

\* A run that was captured stays captured, whoever writes.
LEMMA CapturedStays ==
    RunAssumptions /\ Dir!TypeOK /\ Captured /\ [Dir!Next]_Dir!vars => Captured'
<1> SUFFICES ASSUME RunAssumptions, Dir!TypeOK, Captured, [Dir!Next]_Dir!vars
             PROVE  Captured'
  OBVIOUS
<1>0. ready \in [Item -> Dir!Spooled]
  BY DEF Dir!TypeOK, Dir!Evidence, Dir!EvidenceType
<1>1. ASSUME NEW i \in Item, Dir!Tamper(i) PROVE Captured'
  BY <1>0, <1>1 DEF Dir!Tamper, Captured
<1>2. ASSUME NEW i \in Item, Dir!WriteReady(i) \/ Dir!WriteReceipt(i) \/ Dir!AppendRow(i)
      PROVE  FALSE
  <2>1. ready[i] # Nothing /\ receipt[i] # Nothing /\ i \in rows
    BY DEF Captured, RunAssumptions, Dir!CloseoutNothingAssumption
  <2> QED BY <1>2, <2>1 DEF Dir!WriteReady, Dir!WriteReceipt, Dir!AppendRow
<1>3. CASE UNCHANGED Dir!files
  BY <1>3 DEF Dir!files, Captured
<1>4. ASSUME NEW c \in Closer, Dir!Close(c) \/ Dir!CloserDies(c) PROVE UNCHANGED Dir!files
  BY <1>4, ClosersOnlyClose
<1>5. CASE \/ \E p \in Dir!Producer : Dir!RecordDrain(p)
           \/ Dir!ReadEvidence \/ Dir!ConfirmDrains \/ Dir!PublishStop \/ Dir!RouterDies
           \/ Dir!ParentChanges \/ UNCHANGED Dir!vars
  BY <1>3, <1>5 DEF Dir!RecordDrain, Dir!ReadEvidence, Dir!ConfirmDrains,
                    Dir!PublishStop, Dir!RouterDies,
                    Dir!ParentChanges, Dir!vars, Dir!files
<1> QED BY <1>1, <1>2, <1>3, <1>4, <1>5 DEF Dir!Next

\* Every step keeps it that a full closeout has every text.
LEMMA FullKept ==
    RunAssumptions /\ Dir!TypeOK /\ ReceiptsLead /\ StopIsOriginal /\ FullIsCaptured
    /\ [Dir!Next]_Dir!vars => FullIsCaptured'
<1> SUFFICES ASSUME RunAssumptions, Dir!TypeOK, ReceiptsLead, StopIsOriginal, FullIsCaptured,
                    [Dir!Next]_Dir!vars, NEW c \in Closer
             PROVE  /\ Dir!InStep(c, "quiescence")' /\ closing'[c].result.blockers = {} =>
                           Captured'
                    /\ Dir!InStep(c, "publish")' /\ closing'[c].state = "full_closed" =>
                           Dir!Whole(stop.evidence)'
  BY DEF FullIsCaptured
<1>0. closing \in [Closer -> Dir!Call \cup {Nothing}]
  BY DEF Dir!TypeOK
<1>1. stop # Nothing => stop' = stop
  <2>1. CASE UNCHANGED stop
    BY <2>1
  <2>2. CASE Dir!PublishStop
    BY <2>2 DEF Dir!PublishStop
  <2>3. ASSUME NEW d \in Closer, Dir!Close(d) \/ Dir!CloserDies(d) PROVE UNCHANGED stop
    BY <2>3, ClosersOnlyClose
  <2>4. ASSUME NEW i \in Item,
               Dir!WriteReady(i) \/ Dir!WriteReceipt(i) \/ Dir!AppendRow(i) \/ Dir!Tamper(i)
        PROVE  UNCHANGED stop
    BY <2>4 DEF Dir!WriteReady, Dir!WriteReceipt, Dir!AppendRow, Dir!Tamper
  <2>5. CASE \/ \E p \in Dir!Producer : Dir!RecordDrain(p)
             \/ Dir!ReadEvidence \/ Dir!ConfirmDrains \/ Dir!RouterDies
             \/ Dir!ParentChanges \/ UNCHANGED Dir!vars
    BY <2>5 DEF Dir!RecordDrain, Dir!ReadEvidence, Dir!ConfirmDrains, Dir!RouterDies,
                Dir!ParentChanges,
                Dir!vars
  <2> QED BY <2>1, <2>2, <2>3, <2>4, <2>5 DEF Dir!Next
<1>2. CASE closing'[c] = closing[c]
  <2>1. Dir!InStep(c, "publish") => stop # Nothing
    BY DEF ReceiptsLead
  <2> QED BY <1>1, <1>2, <2>1, CapturedStays DEF FullIsCaptured, Dir!InStep, Dir!Whole
<1>3. CASE Dir!CountEvidence(c)
  <2> DEFINE blockers == Dir!EvidenceBlockers(Dir!Evidence)
                 \cup (IF Dir!ParentIsFull(closing[c].audit) THEN {} ELSE {"parent"})
  <2>1. /\ ~Dir!InStep(c, "publish")' /\ closing'[c].result.blockers = blockers
        /\ UNCHANGED Dir!files
    BY <1>0, <1>3 DEF Dir!CountEvidence, Dir!Goes, Dir!InStep
  <2>2. ASSUME blockers = {} PROVE Captured
    <3>1. /\ Dir!ReadyItems(Dir!Evidence) = Item /\ Dir!ReceiptItems(Dir!Evidence) = Item
          /\ ~torn /\ Dir!LedgerItems(Dir!Evidence) = Item
          /\ Dir!ArtifactItems(Dir!Evidence) = Item /\ Dir!WithoutText(Dir!Evidence) = {}
      BY <2>2 DEF Dir!EvidenceBlockers, Dir!Evidence
    <3>2. rows = Item
      BY <3>1 DEF Dir!LedgerItems, Dir!Evidence, Dir!TypeOK, Dir!EvidenceType
    <3>3. \A i \in Item : /\ ready[i] \in {"ready", "no_text"} /\ ready[i] = receipt[i]
                          /\ receipt[i] # "no_text"
      BY <3>1 DEF Dir!ArtifactItems, Dir!ReadyItems, Dir!WithoutText, Dir!Evidence
    <3> QED BY <3>1, <3>2, <3>3 DEF Captured
  <2> QED BY <2>1, <2>2 DEF Captured, Dir!files
<1>4. CASE Dir!CheckQuiescence(c)
  <2>1. ~Dir!InStep(c, "quiescence")'
    BY <1>0, <1>4 DEF Dir!CheckQuiescence, Dir!Goes, Dir!InStep
  <2>2. ASSUME Dir!InStep(c, "publish")', closing'[c].state = "full_closed"
        PROVE  Dir!Whole(stop.evidence)'
    <3>1. Dir!Quiet /\ closing[c].result.blockers = {} /\ stop' = stop
      BY <1>0, <1>4, <2>2 DEF Dir!CheckQuiescence, Dir!Goes, Dir!InStep
    <3>2. Captured
      BY <1>4, <3>1 DEF Dir!CheckQuiescence, FullIsCaptured
    <3>3. stop.evidence = Dir!Evidence /\ \A i \in Item : stop.evidence.ready[i] # "changed"
      BY <3>1 DEF Dir!Quiet, StopIsOriginal
    <3> QED BY <3>1, <3>2, <3>3 DEF Captured, Dir!Whole, Dir!Evidence
  <2> QED BY <2>1, <2>2
<1>5. CASE \/ Dir!AuditParent(c) \/ Dir!TakeSnapshot(c) \/ Dir!PublishCloseout(c)
           \/ Dir!ProjectMetadata(c) \/ Dir!CloserDies(c)
  BY <1>0, <1>5 DEF Dir!AuditParent, Dir!TakeSnapshot, Dir!PublishCloseout,
                    Dir!ProjectMetadata,
                    Dir!CloserDies, Dir!Goes, Dir!InStep
<1>6. ASSUME NEW d \in Closer, d # c, Dir!Close(d) \/ Dir!CloserDies(d)
      PROVE  closing'[c] = closing[c]
  <2>1. PICK call : Dir!Goes(d, call)
    BY <1>6 DEF Dir!Close, Dir!AuditParent, Dir!TakeSnapshot, Dir!CountEvidence,
                Dir!CheckQuiescence,
                Dir!PublishCloseout, Dir!ProjectMetadata, Dir!CloserDies
  <2> QED BY <1>0, <1>6, <2>1 DEF Dir!Goes
<1>7. CASE \/ \E i \in Item : \/ Dir!WriteReady(i) \/ Dir!WriteReceipt(i) \/ Dir!AppendRow(i)
                              \/ Dir!Tamper(i)
           \/ \E p \in Dir!Producer : Dir!RecordDrain(p)
           \/ Dir!ReadEvidence \/ Dir!ConfirmDrains \/ Dir!PublishStop \/ Dir!RouterDies
           \/ Dir!ParentChanges \/ UNCHANGED Dir!vars
  <2>1. UNCHANGED closing
    BY <1>7 DEF Dir!WriteReady, Dir!WriteReceipt, Dir!AppendRow, Dir!Tamper,
                Dir!RecordDrain, Dir!ReadEvidence,
                Dir!ConfirmDrains, Dir!PublishStop, Dir!RouterDies, Dir!ParentChanges, Dir!vars
  <2> QED BY <1>2, <2>1
<1> QED BY <1>2, <1>3, <1>4, <1>5, <1>6, <1>7 DEF Dir!Next, Dir!Close

\* The invariants about what was stopped, in every state.
LEMMA CapturedInvariant ==
    RunAssumptions => (Dir!Spec => [](StopIsOriginal /\ FullIsCaptured))
<1> SUFFICES ASSUME RunAssumptions PROVE Dir!Spec => [](StopIsOriginal /\ FullIsCaptured)
  OBVIOUS
<1>1. Dir!Init => StopIsOriginal /\ FullIsCaptured
  BY DEF Dir!Init, StopIsOriginal, FullIsCaptured, Dir!InStep, RunAssumptions,
         Dir!CloseoutNothingAssumption
<1>2. /\ Dir!TypeOK /\ ReceiptsLead /\ StopIsOriginal /\ FullIsCaptured /\ [Dir!Next]_Dir!vars
      => (StopIsOriginal /\ FullIsCaptured)'
  BY OriginalKept, FullKept
<1> QED BY <1>1, <1>2, ReceiptsInvariant, PTL DEF Dir!Spec

------------------------------------------------------------------------------
(***************************************************************************)
(* Refinement.                                                             *)
(***************************************************************************)

\* The run directory implements ParallelRun: quiet once, after every producer
\* drained, closed once, full only if what was declared quiet was whole, and shown as
\* it was closed (build_parallel_run_stop_receipt, persist_legacy_parallel_closeout).
THEOREM CloseoutImplementsRun == RunAssumptions => (Dir!Spec => Dir!ImplementsRun)
<1> SUFFICES ASSUME RunAssumptions PROVE Dir!Spec => Dir!ImplementsRun
  OBVIOUS
<1>1. Dir!Init => Dir!Run!Init
  BY DEF Dir!Init, Dir!Run!Init
<1>2. Dir!TypeOK /\ ReceiptsLead /\ FullIsCaptured /\ [Dir!Next]_Dir!vars
      => [Dir!Run!Next]_Dir!Run!vars
  <2> SUFFICES ASSUME Dir!TypeOK, ReceiptsLead, FullIsCaptured, [Dir!Next]_Dir!vars
               PROVE  Dir!Run!Next \/ UNCHANGED Dir!Run!vars
    OBVIOUS
  <2>1. ASSUME NEW p \in Dir!Producer, Dir!RecordDrain(p) PROVE Dir!Run!Drain(p)
    BY <2>1 DEF Dir!RecordDrain, Dir!Run!Drain
  <2>2. CASE Dir!PublishStop
    <3>1. CASE stop = Nothing
      <4>1. closeout = Nothing /\ drained = Dir!Producer
        BY <2>2, <3>1 DEF Dir!PublishStop, ReceiptsLead
      <4>2. stop' # Nothing /\ UNCHANGED <<drained, closeout, metadata>>
        BY <2>2, <3>1 DEF Dir!PublishStop, Dir!TypeOK, RunAssumptions,
                          Dir!CloseoutRecordsAssumption,
                          Dir!StopReceipt, Dir!RouterCall
      <4>3. Dir!Run!Quiesce
        BY <3>1, <4>1, <4>2 DEF Dir!Run!Quiesce
      <4> QED BY <4>3 DEF Dir!Run!Next
    <3>2. CASE stop # Nothing
      BY <2>2, <3>2 DEF Dir!PublishStop, Dir!Run!vars
    <3> QED BY <3>1, <3>2
  <2>3. ASSUME NEW c \in Closer, Dir!PublishCloseout(c)
        PROVE  Dir!Run!Next \/ UNCHANGED Dir!Run!vars
    <3>1. CASE closeout = Nothing
      <4> DEFINE judged == closing[c].state
      <4>1. closing[c].result \in Dir!Result /\ judged \in Dir!ClosedState /\ stop # Nothing
        BY <2>3, CallsByStep DEF Dir!PublishCloseout, ReceiptsLead
      <4>2. closeout' # Nothing /\ closeout'.state = judged
        BY <2>3, <3>1, <4>1 DEF Dir!PublishCloseout, RunAssumptions,
           Dir!CloseoutRecordsAssumption, Dir!CloseoutReceipt
      <4>3. judged = "full_closed" => Dir!Whole(stop.evidence)
        BY <2>3 DEF Dir!PublishCloseout, FullIsCaptured
      <4>4. UNCHANGED <<drained, stop, metadata>>
        BY <2>3 DEF Dir!PublishCloseout
      <4>5. Dir!Run!Close(judged)
        BY <3>1, <4>1, <4>2, <4>3, <4>4 DEF Dir!Run!Close, Dir!Whole
      <4> QED BY <4>1, <4>5 DEF Dir!Run!Next, Dir!Run!Closed, Dir!ClosedState
    <3>2. CASE closeout # Nothing
      BY <2>3, <3>2 DEF Dir!PublishCloseout, Dir!Run!vars, Dir!Whole
    <3> QED BY <3>1, <3>2
  <2>4. ASSUME NEW c \in Closer, Dir!ProjectMetadata(c) PROVE Dir!Run!Show
    <3>1. closeout # Nothing
      BY <2>4 DEF Dir!ProjectMetadata, ReceiptsLead
    <3>2. closeout.state \in Dir!ClosedState
      BY <3>1 DEF Dir!TypeOK, Dir!CloseoutReceipt
    <3> QED BY <2>4, <3>1, <3>2 DEF Dir!ProjectMetadata, Dir!Run!Show, Dir!Run!Closed,
                                    Dir!ClosedState,
                                   Dir!Whole
  <2>5. CASE UNCHANGED <<drained, stop, closeout, metadata>>
    BY <2>5 DEF Dir!Run!vars, Dir!Whole
  <2>6. ASSUME NEW i \in Item,
               Dir!WriteReady(i) \/ Dir!WriteReceipt(i) \/ Dir!AppendRow(i) \/ Dir!Tamper(i)
        PROVE  UNCHANGED <<drained, stop, closeout, metadata>>
    BY <2>6 DEF Dir!WriteReady, Dir!WriteReceipt, Dir!AppendRow, Dir!Tamper
  <2>7. ASSUME NEW c \in Closer,
               \/ Dir!AuditParent(c) \/ Dir!TakeSnapshot(c) \/ Dir!CountEvidence(c)
               \/ Dir!CheckQuiescence(c) \/ Dir!CloserDies(c)
        PROVE  UNCHANGED <<drained, stop, closeout, metadata>>
    BY <2>7 DEF Dir!AuditParent, Dir!TakeSnapshot, Dir!CountEvidence,
                Dir!CheckQuiescence, Dir!CloserDies
  <2>8. CASE \/ Dir!ReadEvidence \/ Dir!ConfirmDrains \/ Dir!RouterDies \/ Dir!ParentChanges
             \/ UNCHANGED Dir!vars
    BY <2>5, <2>8 DEF Dir!ReadEvidence, Dir!ConfirmDrains, Dir!RouterDies,
                      Dir!ParentChanges, Dir!vars
  <2> QED BY <2>1, <2>2, <2>3, <2>4, <2>5, <2>6, <2>7, <2>8
          DEF Dir!Next, Dir!Close, Dir!Run!Next
<1> QED BY <1>1, <1>2, ReceiptsInvariant, CapturedInvariant, PTL
        DEF Dir!Spec, Dir!ImplementsRun, Dir!Run!Spec

------------------------------------------------------------------------------
(***************************************************************************)
(* Verdicts.  A file of a quiet run that was rewritten stays rewritten, so *)
(* the evidence never again is what the stop receipt names; and what was   *)
(* whole when a closeout took its digest is captured when it judges.       *)
(***************************************************************************)

Rewritten == \E i \in Item : ready[i] = "changed"

TamperedIsRewritten == tampered > 0 => Rewritten

\* A full verdict names a full audit; a blocked one misses the audit or evidence.
Grounded(state, result) ==
    /\ "parent" \notin result.blockers => Dir!ParentIsFull(result.parent)
    /\ state = "full_closed" => result.blockers = {}
    /\ state = "blocked_closed" =>
           "parent" \in result.blockers \/ ~Dir!Whole(result.evidence)

JudgesWhatWasThere ==
    \A c \in Closer :
        /\ Dir!InStep(c, "count") /\ Dir!Whole(closing[c].evidence) => Captured
        /\ Dir!InStep(c, "quiescence") =>
               LET result == closing[c].result IN
               /\ "parent" \notin result.blockers => Dir!ParentIsFull(result.parent)
               /\ result.blockers # {} /\ "parent" \notin result.blockers
                  /\ Dir!Whole(result.evidence) => Rewritten
        /\ Dir!InStep(c, "publish") => Grounded(closing[c].state, closing[c].result)

ClosedOnGrounds == closeout # Nothing => Grounded(closeout.state, closeout.result)

\* What was rewritten stays rewritten.
LEMMA TamperingShows ==
    ASSUME RunAssumptions, Dir!TypeOK, [Dir!Next]_Dir!vars
    PROVE  /\ Rewritten => Rewritten'
           /\ TamperedIsRewritten => TamperedIsRewritten'
<1>0. ready \in [Item -> Dir!Spooled]
  BY DEF Dir!TypeOK, Dir!Evidence, Dir!EvidenceType
<1>1. CASE UNCHANGED <<ready, tampered>>
  BY <1>1 DEF Rewritten, TamperedIsRewritten
<1>2. ASSUME NEW i \in Item, Dir!WriteReady(i)
      PROVE  (Rewritten => Rewritten') /\ UNCHANGED tampered
  <2>1. ready[i] # "changed"
    BY <1>2 DEF Dir!WriteReady, RunAssumptions, Dir!CloseoutNothingAssumption
  <2>2. Rewritten => Rewritten'
    BY <1>0, <1>2, <2>1 DEF Dir!WriteReady, Rewritten
  <2>3. UNCHANGED tampered
    BY <1>2 DEF Dir!WriteReady, Dir!counters
  <2> QED BY <2>2, <2>3
<1>3. ASSUME NEW i \in Item, Dir!Tamper(i) PROVE Rewritten'
  BY <1>0, <1>3 DEF Dir!Tamper, Rewritten
<1>4. ASSUME NEW i \in Item, Dir!WriteReceipt(i) \/ Dir!AppendRow(i)
      PROVE  UNCHANGED <<ready, tampered>>
  BY <1>4 DEF Dir!WriteReceipt, Dir!AppendRow, Dir!counters
<1>5. ASSUME NEW c \in Closer, Dir!Close(c) \/ Dir!CloserDies(c)
      PROVE  UNCHANGED <<ready, tampered>>
  BY <1>5, ClosersOnlyClose DEF Dir!files
<1>6. CASE \/ \E p \in Dir!Producer : Dir!RecordDrain(p)
           \/ Dir!ReadEvidence \/ Dir!ConfirmDrains \/ Dir!PublishStop \/ Dir!RouterDies
           \/ Dir!ParentChanges \/ UNCHANGED Dir!vars
  <2>1. UNCHANGED ready
    BY <1>6 DEF Dir!RecordDrain, Dir!ReadEvidence, Dir!ConfirmDrains, Dir!PublishStop,
                Dir!RouterDies,
                Dir!ParentChanges, Dir!vars, Dir!files
  <2>2. UNCHANGED tampered
    BY <1>6 DEF Dir!RecordDrain, Dir!ReadEvidence, Dir!ConfirmDrains, Dir!PublishStop,
                Dir!RouterDies,
                Dir!ParentChanges, Dir!vars, Dir!counters
  <2> QED BY <1>1, <2>1, <2>2
<1> QED BY <1>1, <1>2, <1>3, <1>4, <1>5, <1>6 DEF Dir!Next, TamperedIsRewritten

\* Evidence that agrees is whole, or was rewritten.
LEMMA CapturedAndOriginal ==
    ASSUME RunAssumptions, Dir!TypeOK, Captured
    PROVE  ~Rewritten => Dir!EvidenceBlockers(Dir!Evidence) = {}
<1> SUFFICES ASSUME ~Rewritten PROVE Dir!EvidenceBlockers(Dir!Evidence) = {}
  OBVIOUS
<1>1. /\ rows = Item /\ ~torn
      /\ \A i \in Item : ready[i] = "ready" /\ receipt[i] = "ready"
  BY DEF Captured, Rewritten
<1>2. "ready" # Nothing
  BY DEF RunAssumptions, Dir!CloseoutNothingAssumption
<1> QED BY <1>1, <1>2 DEF Dir!EvidenceBlockers, Dir!Evidence, Dir!ReadyItems,
                          Dir!ReceiptItems, Dir!LedgerItems,
                    Dir!ArtifactItems, Dir!WithoutText

\* A step of somebody else leaves what a call has found out true.
LEMMA JudgementsStand ==
    ASSUME RunAssumptions, Dir!TypeOK, JudgesWhatWasThere, [Dir!Next]_Dir!vars,
           NEW c \in Closer,
           closing'[c] = closing[c]
    PROVE  /\ Dir!InStep(c, "count")' /\ Dir!Whole(closing[c].evidence)' => Captured'
           /\ Dir!InStep(c, "quiescence")' =>
                  LET result == closing'[c].result IN
                  /\ "parent" \notin result.blockers => Dir!ParentIsFull(result.parent)
                  /\ result.blockers # {} /\ "parent" \notin result.blockers
                     /\ Dir!Whole(result.evidence) => Rewritten'
           /\ Dir!InStep(c, "publish")' => Grounded(closing'[c].state, closing'[c].result)
<1>1. Dir!InStep(c, "count")' /\ Dir!Whole(closing[c].evidence)' => Captured'
  BY CapturedStays DEF JudgesWhatWasThere, Dir!InStep, Dir!Whole
<1>2. ASSUME Dir!InStep(c, "quiescence")'
      PROVE  /\ "parent" \notin closing'[c].result.blockers =>
                    Dir!ParentIsFull(closing'[c].result.parent)
             /\ closing'[c].result.blockers # {}
                /\ "parent" \notin closing'[c].result.blockers
                /\ Dir!Whole(closing'[c].result.evidence) => Rewritten'
  <2>1. Dir!InStep(c, "quiescence")
    BY <1>2 DEF Dir!InStep
  <2> QED BY <2>1, TamperingShows DEF JudgesWhatWasThere
<1>3. Dir!InStep(c, "publish")' => Grounded(closing'[c].state, closing'[c].result)
  BY DEF JudgesWhatWasThere, Dir!InStep
<1> QED BY <1>1, <1>2, <1>3

\* A closeout judges what was there when it looked.
LEMMA JudgesKept ==
    RunAssumptions /\ Dir!TypeOK /\ StopIsOriginal /\ JudgesWhatWasThere /\ [Dir!Next]_Dir!vars
    => JudgesWhatWasThere'
<1> SUFFICES ASSUME RunAssumptions, Dir!TypeOK, StopIsOriginal, JudgesWhatWasThere,
                    [Dir!Next]_Dir!vars,
                    NEW c \in Closer
             PROVE  /\ Dir!InStep(c, "count")' /\ Dir!Whole(closing[c].evidence)' => Captured'
                    /\ Dir!InStep(c, "quiescence")' =>
                           LET result == closing'[c].result IN
                           /\ "parent" \notin result.blockers =>
                                  Dir!ParentIsFull(result.parent)
                           /\ result.blockers # {} /\ "parent" \notin result.blockers
                              /\ Dir!Whole(result.evidence) => Rewritten'
                    /\ Dir!InStep(c, "publish")' =>
                           Grounded(closing'[c].state, closing'[c].result)
  BY DEF JudgesWhatWasThere
<1>0. closing \in [Closer -> Dir!Call \cup {Nothing}]
  BY DEF Dir!TypeOK
<1>1. CASE closing'[c] = closing[c]
  BY <1>1, JudgementsStand
<1>2. CASE Dir!TakeSnapshot(c)
  <2>1. /\ ~Dir!InStep(c, "quiescence")' /\ ~Dir!InStep(c, "publish")'
        /\ closing'[c].evidence = Dir!Evidence /\ UNCHANGED Dir!files
    BY <1>0, <1>2 DEF Dir!TakeSnapshot, Dir!Goes, Dir!InStep
  <2>2. Dir!Whole(Dir!Evidence) => Captured
    BY DEF Dir!Whole, Captured, Dir!Evidence
  <2>3. Captured => Captured'
    BY CapturedStays
  <2> QED BY <2>1, <2>2, <2>3 DEF Dir!Whole
<1>3. CASE Dir!CountEvidence(c)
  <2> DEFINE full == Dir!ParentIsFull(closing[c].audit)
             result == closing'[c].result
  <2>1. /\ ~Dir!InStep(c, "count")' /\ ~Dir!InStep(c, "publish")' /\ UNCHANGED Dir!files
        /\ result = [evidence |-> closing[c].evidence,
                     parent |-> IF full THEN closing[c].audit ELSE Nothing,
                     counts |-> Dir!Counts(Dir!Evidence),
                     blockers |-> Dir!EvidenceBlockers(Dir!Evidence) \cup
                         (IF full THEN {} ELSE {"parent"})]
    BY <1>0, <1>3 DEF Dir!CountEvidence, Dir!Goes, Dir!InStep
  <2>2. "parent" \notin result.blockers => full /\ Dir!ParentIsFull(result.parent)
    BY <2>1 DEF Dir!ParentIsFull
  <2>3. ASSUME result.blockers # {}, "parent" \notin result.blockers,
               Dir!Whole(result.evidence)
        PROVE  Rewritten'
    <3>1. Dir!EvidenceBlockers(Dir!Evidence) # {} /\ Dir!Whole(closing[c].evidence)
      BY <2>1, <2>2, <2>3
    <3>2. Captured
      BY <1>3, <3>1 DEF Dir!CountEvidence, JudgesWhatWasThere
    <3> QED BY <3>1, <3>2, CapturedAndOriginal, TamperingShows
  <2> QED BY <2>1, <2>2, <2>3
<1>4. CASE Dir!CheckQuiescence(c)
  <2> DEFINE result == closing[c].result
  <2>1. ~Dir!InStep(c, "count")' /\ ~Dir!InStep(c, "quiescence")'
    BY <1>0, <1>4 DEF Dir!CheckQuiescence, Dir!Goes, Dir!InStep
  <2>2. ASSUME Dir!InStep(c, "publish")'
        PROVE  Grounded(closing'[c].state, closing'[c].result)
    <3>1. /\ Dir!Quiet /\ closing'[c].result = result
          /\ closing'[c].state = IF result.blockers # {} THEN "blocked_closed"
                                 ELSE "full_closed"
      BY <1>0, <1>4, <2>2 DEF Dir!CheckQuiescence, Dir!Goes, Dir!InStep
    <3>2. ~Rewritten
      BY <3>1 DEF Dir!Quiet, StopIsOriginal, Rewritten, Dir!Evidence
    <3>3. /\ "parent" \notin result.blockers => Dir!ParentIsFull(result.parent)
          /\ result.blockers # {} /\ "parent" \notin result.blockers
             /\ Dir!Whole(result.evidence) => Rewritten
      BY <1>4 DEF Dir!CheckQuiescence, JudgesWhatWasThere
    <3> QED BY <3>1, <3>2, <3>3 DEF Grounded
  <2> QED BY <2>1, <2>2
<1>5. CASE \/ Dir!AuditParent(c) \/ Dir!PublishCloseout(c) \/ Dir!ProjectMetadata(c)
           \/ Dir!CloserDies(c)
  BY <1>0, <1>5 DEF Dir!AuditParent, Dir!PublishCloseout, Dir!ProjectMetadata,
                    Dir!CloserDies, Dir!Goes,
                    Dir!InStep
<1>6. ASSUME NEW d \in Closer, d # c, Dir!Close(d) \/ Dir!CloserDies(d)
      PROVE  closing'[c] = closing[c]
  <2>1. PICK call : Dir!Goes(d, call)
    BY <1>6 DEF Dir!Close, Dir!AuditParent, Dir!TakeSnapshot, Dir!CountEvidence,
                Dir!CheckQuiescence,
                Dir!PublishCloseout, Dir!ProjectMetadata, Dir!CloserDies
  <2> QED BY <1>0, <1>6, <2>1 DEF Dir!Goes
<1>7. CASE \/ \E i \in Item : \/ Dir!WriteReady(i) \/ Dir!WriteReceipt(i) \/ Dir!AppendRow(i)
                              \/ Dir!Tamper(i)
           \/ \E p \in Dir!Producer : Dir!RecordDrain(p)
           \/ Dir!ReadEvidence \/ Dir!ConfirmDrains \/ Dir!PublishStop \/ Dir!RouterDies
           \/ Dir!ParentChanges \/ UNCHANGED Dir!vars
  <2>1. UNCHANGED closing
    BY <1>7 DEF Dir!WriteReady, Dir!WriteReceipt, Dir!AppendRow, Dir!Tamper,
                Dir!RecordDrain, Dir!ReadEvidence,
                Dir!ConfirmDrains, Dir!PublishStop, Dir!RouterDies, Dir!ParentChanges, Dir!vars
  <2> QED BY <1>1, <2>1
<1> QED BY <1>1, <1>2, <1>3, <1>4, <1>5, <1>6, <1>7 DEF Dir!Next, Dir!Close

\* A published verdict keeps its grounds.
LEMMA GroundsKept ==
    JudgesWhatWasThere /\ ClosedOnGrounds /\ [Dir!Next]_Dir!vars => ClosedOnGrounds'
<1> SUFFICES ASSUME JudgesWhatWasThere, ClosedOnGrounds, [Dir!Next]_Dir!vars
             PROVE  ClosedOnGrounds'
  OBVIOUS
<1>1. ASSUME NEW c \in Closer, Dir!PublishCloseout(c) PROVE ClosedOnGrounds'
  <2>1. Grounded(closing[c].state, closing[c].result)
    BY <1>1 DEF Dir!PublishCloseout, JudgesWhatWasThere
  <2>2. \/ closeout' = [state |-> closing[c].state, result |-> closing[c].result]
        \/ closeout' = closeout
    BY <1>1 DEF Dir!PublishCloseout
  <2> QED BY <2>1, <2>2 DEF ClosedOnGrounds
<1>2. CASE UNCHANGED closeout
  BY <1>2 DEF ClosedOnGrounds
<1>3. ASSUME NEW i \in Item,
             Dir!WriteReady(i) \/ Dir!WriteReceipt(i) \/ Dir!AppendRow(i) \/ Dir!Tamper(i)
      PROVE  UNCHANGED closeout
  BY <1>3 DEF Dir!WriteReady, Dir!WriteReceipt, Dir!AppendRow, Dir!Tamper
<1>4. ASSUME NEW c \in Closer,
             \/ Dir!AuditParent(c) \/ Dir!TakeSnapshot(c) \/ Dir!CountEvidence(c)
             \/ Dir!CheckQuiescence(c) \/ Dir!ProjectMetadata(c) \/ Dir!CloserDies(c)
      PROVE  UNCHANGED closeout
  BY <1>4 DEF Dir!AuditParent, Dir!TakeSnapshot, Dir!CountEvidence, Dir!CheckQuiescence,
              Dir!ProjectMetadata, Dir!CloserDies
<1>5. CASE \/ \E p \in Dir!Producer : Dir!RecordDrain(p)
           \/ Dir!ReadEvidence \/ Dir!ConfirmDrains \/ Dir!PublishStop \/ Dir!RouterDies
           \/ Dir!ParentChanges \/ UNCHANGED Dir!vars
  BY <1>2, <1>5 DEF Dir!RecordDrain, Dir!ReadEvidence, Dir!ConfirmDrains,
                    Dir!PublishStop, Dir!RouterDies,
                    Dir!ParentChanges, Dir!vars
<1> QED BY <1>1, <1>2, <1>3, <1>4, <1>5 DEF Dir!Next, Dir!Close

\* The invariants about verdicts, in every state.
LEMMA VerdictInvariant ==
    RunAssumptions =>
        (Dir!Spec => [](TamperedIsRewritten /\ JudgesWhatWasThere /\ ClosedOnGrounds))
<1> SUFFICES ASSUME RunAssumptions
             PROVE  Dir!Spec => [](TamperedIsRewritten /\ JudgesWhatWasThere /\ ClosedOnGrounds)
  OBVIOUS
<1>1. Dir!Init => TamperedIsRewritten /\ JudgesWhatWasThere /\ ClosedOnGrounds
  BY DEF Dir!Init, TamperedIsRewritten, JudgesWhatWasThere, ClosedOnGrounds, Dir!InStep
<1>2. /\ Dir!TypeOK /\ StopIsOriginal /\ [Dir!Next]_Dir!vars
      /\ TamperedIsRewritten /\ JudgesWhatWasThere /\ ClosedOnGrounds
      => (TamperedIsRewritten /\ JudgesWhatWasThere /\ ClosedOnGrounds)'
  BY TamperingShows, JudgesKept, GroundsKept
<1> QED BY <1>1, <1>2, ReceiptsInvariant, CapturedInvariant, PTL DEF Dir!Spec

\* A full closeout names an audit that was full; a blocked one misses the audit, or
\* items in the evidence it names (persist_legacy_parallel_closeout).
THEOREM VerdictsHaveGrounds == RunAssumptions => (Dir!Spec => []Dir!VerdictHasGrounds)
<1>1. Dir!TypeOK /\ ClosedOnGrounds => Dir!VerdictHasGrounds
  BY DEF Dir!TypeOK, Dir!CloseoutReceipt, Dir!ClosedState, ClosedOnGrounds, Grounded,
         Dir!ParentIsFull,
         Dir!VerdictHasGrounds
<1> QED BY <1>1, ReceiptsInvariant, VerdictInvariant, PTL

\* Once a file of a quiet run was rewritten, no call that still has to look closes it,
\* as blocked no more than as full (_run_quiescence_blocker).
THEOREM RewrittenRunsStayOpen ==
    RunAssumptions => (Dir!Spec => [][Dir!LooksBeforeClosing]_Dir!vars)
<1> SUFFICES ASSUME RunAssumptions PROVE Dir!Spec => [][Dir!LooksBeforeClosing]_Dir!vars
  OBVIOUS
<1>1. /\ Dir!TypeOK /\ StopIsOriginal /\ TamperedIsRewritten /\ [Dir!Next]_Dir!vars
      => [Dir!LooksBeforeClosing]_Dir!vars
  <2> SUFFICES ASSUME Dir!TypeOK, StopIsOriginal, TamperedIsRewritten, Dir!Next,
                      NEW c \in Closer, Dir!InStep(c, "quiescence"), Dir!InStep(c, "publish")'
               PROVE  tampered = 0
    BY DEF Dir!LooksBeforeClosing
  <2>0. /\ closing \in [Closer -> Dir!Call \cup {Nothing}] /\ tampered \in Nat
        /\ closing'[c] # closing[c]
    BY DEF Dir!TypeOK, Dir!InStep, RunAssumptions, Dir!CloseoutAssumption
  <2>1. CASE Dir!CheckQuiescence(c)
    <3>1. Dir!Quiet
      BY <2>0, <2>1 DEF Dir!CheckQuiescence, Dir!Goes, Dir!InStep
    <3>2. ~Rewritten
      BY <3>1 DEF Dir!Quiet, StopIsOriginal, Rewritten, Dir!Evidence
    <3> QED BY <2>0, <3>2 DEF TamperedIsRewritten
  <2>2. CASE \/ Dir!AuditParent(c) \/ Dir!TakeSnapshot(c) \/ Dir!CountEvidence(c)
             \/ Dir!PublishCloseout(c) \/ Dir!ProjectMetadata(c) \/ Dir!CloserDies(c)
    BY <2>0, <2>2 DEF Dir!AuditParent, Dir!TakeSnapshot, Dir!CountEvidence,
                      Dir!PublishCloseout,
                      Dir!ProjectMetadata, Dir!CloserDies, Dir!Goes, Dir!InStep
  <2>3. ASSUME NEW d \in Closer, d # c, Dir!Close(d) \/ Dir!CloserDies(d)
        PROVE  closing'[c] = closing[c]
    <3>1. PICK call : Dir!Goes(d, call)
      BY <2>3 DEF Dir!Close, Dir!AuditParent, Dir!TakeSnapshot, Dir!CountEvidence,
                  Dir!CheckQuiescence,
                  Dir!PublishCloseout, Dir!ProjectMetadata, Dir!CloserDies
    <3> QED BY <2>0, <2>3, <3>1 DEF Dir!Goes
  <2>4. CASE \/ \E i \in Item : \/ Dir!WriteReady(i) \/ Dir!WriteReceipt(i) \/ Dir!AppendRow(i)
                                \/ Dir!Tamper(i)
             \/ \E p \in Dir!Producer : Dir!RecordDrain(p)
             \/ Dir!ReadEvidence \/ Dir!ConfirmDrains \/ Dir!PublishStop \/ Dir!RouterDies
             \/ Dir!ParentChanges
    BY <2>0, <2>4 DEF Dir!WriteReady, Dir!WriteReceipt, Dir!AppendRow, Dir!Tamper,
                      Dir!RecordDrain,
                      Dir!ReadEvidence, Dir!ConfirmDrains, Dir!PublishStop, Dir!RouterDies, Dir!ParentChanges
  <2> QED BY <2>0, <2>1, <2>2, <2>3, <2>4 DEF Dir!Next, Dir!Close
<1> QED BY <1>1, ReceiptsInvariant, CapturedInvariant, VerdictInvariant, PTL
   DEF Dir!Spec
==============================================================================
