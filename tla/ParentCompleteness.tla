-------------------------- MODULE ParentCompleteness --------------------------
(***************************************************************************)
(* The SQLite store that decides whether a parent channel was captured     *)
(* completely (completeness_store.py): scans of the parent's inventory,    *)
(* one certificate for each child thread, and the audit that compares the  *)
(* two and retires certificates of threads that are gone.                  *)
(*                                                                         *)
(* sqlite3 opens a transaction at the first INSERT or DELETE of a          *)
(* connection, so what an operation SELECTs before that may be old when it *)
(* writes: such an operation is several steps here, and its process may    *)
(* die, or find the database locked, before each (nothing is committed).   *)
(***************************************************************************)
EXTENDS Integers, Sequences, FiniteSets

CONSTANTS
    Proc,          \* processes that use the database
    Thread,        \* child threads of the parent
    Capture,       \* capture ids
    OfferedScan,   \* inventory scans that may be recorded
    MaxScans,      \* bound: scans
    MaxDamage,     \* bound: membership rows that get lost
    Nothing        \* no certificate, no operation

\* REQUIRED_SCOPES_BY_PARENT_KIND: announcement and media are like forum.
Kind == {"forum", "text"}
RequiredScopes(kind) ==
    {"active_filtered", "archived_public"}
        \cup (IF kind = "text" THEN {"archived_private"} ELSE {})

\* One receipt per scope that was listed: its threads, whether the cursor ended,
\* and, for private archives, whether the right to list them was confirmed.
Receipt == [threads : SUBSET Thread, terminal_reached : BOOLEAN,
            authorized : BOOLEAN]

\* A legacy scan has no receipts: it lists threads without their scope.
LegacyScan(scan) ==
    scan.kind = "legacy" /\ scan.threads \subseteq Thread /\ scan.observed_at \in Nat

\* _normalize_scope_receipts: scopes of the kind only, no thread in two scopes.
ReceiptScan(scan) ==
    /\ scan.kind \in Kind /\ scan.observed_at \in Nat
    /\ DOMAIN scan.receipts \subseteq RequiredScopes(scan.kind)
    /\ \A scope \in DOMAIN scan.receipts : scan.receipts[scope] \in Receipt
    /\ \A s1, s2 \in DOMAIN scan.receipts :
           s1 # s2 => scan.receipts[s1].threads
                          \cap scan.receipts[s2].threads = {}

OfferedScanAssumption == \A scan \in OfferedScan : LegacyScan(scan) \/ ReceiptScan(scan)
ScanBoundsAssumption == MaxScans \in Nat /\ MaxDamage \in Nat

VARIABLES
    scans,         \* inventory_scans, by row id
    listed,        \* inventory_threads: the threads listed by each scan
    certificates,  \* child_capture_certificates
    retirements,   \* child_certificate_retirements
    op,            \* what each process is about to write
    verdict,       \* what the audit said that a process has just ended
    held,          \* history: since its audit began, all was true at one moment
    overtaken      \* history: what others committed since its operation began

history == <<held, overtaken>>
vars == <<scans, listed, certificates, retirements, op, verdict, history>>

Init ==
    /\ scans = <<>> /\ listed = <<>>
    /\ certificates = [t \in Thread |-> Nothing]
    /\ retirements = {}
    /\ op = [p \in Proc |-> Nothing]
    /\ verdict = [p \in Proc |-> "none"]
    /\ held = [p \in Proc |-> FALSE]
    /\ overtaken = [p \in Proc |-> {}]

------------------------------------------------------------------------------
(***************************************************************************)
(* What an audit computes from two scans                                   *)
(***************************************************************************)

\* ORDER BY observed_at DESC, id DESC.
Later(i, j) ==
    \/ scans[i].observed_at > scans[j].observed_at
    \/ scans[i].observed_at = scans[j].observed_at /\ i > j

LatestTwo ==
    {i \in DOMAIN scans :
        Cardinality({j \in DOMAIN scans \ {i} : Later(j, i)}) < 2}

IsLegacy(i) == scans[i].kind = "legacy"

ScannedIn(i, scope) == scans[i].receipts[scope].threads

\* The threads a scan listed when it was recorded.
Scanned(i) ==
    IF IsLegacy(i) THEN scans[i].threads
    ELSE UNION {ScannedIn(i, scope) : scope \in DOMAIN scans[i].receipts}

\* The membership rows still give counts and digests of the receipts.
Reconciled(i) == ~IsLegacy(i) /\ listed[i] = Scanned(i)

ScanComplete(i) ==
    /\ Reconciled(i)
    /\ \A scope \in RequiredScopes(scans[i].kind) :
           /\ scope \in DOMAIN scans[i].receipts
           /\ scans[i].receipts[scope].terminal_reached
           /\ scope = "archived_private" => scans[i].receipts[scope].authorized

SameInventory(i, j) ==
    /\ scans[i].kind = scans[j].kind
    /\ \A scope \in RequiredScopes(scans[i].kind) :
           ScannedIn(i, scope) = ScannedIn(j, scope)

Stable(two) ==
    /\ Cardinality(two) = 2
    /\ \A i \in two : ScanComplete(i)
    /\ \A i, j \in two : SameInventory(i, j)

\* The saved threads of the latest of them; none without a scan.
LatestListed(two) ==
    UNION {listed[i] : i \in {k \in two : \A j \in two \ {k} : Later(k, j)}}

Certified(certs) == {t \in Thread : certs[t] # Nothing}

\* Mutant of ParentFull: certificates of threads that are gone do not matter,
\* nor whether those of the others are strict.
ParentFullIfCertified(two, certs) ==
    /\ Stable(two)
    /\ LatestListed(two) \subseteq Certified(certs)

\* status "full": no blocker.  The latest scan alone is looked at again for
\* blockers that a stable pair cannot have.
ParentFull(two, certs) ==
    /\ Stable(two)
    /\ Certified(certs) = LatestListed(two)
    /\ \A t \in LatestListed(two) : certs[t].strict

Status(two, certs) == IF ParentFull(two, certs) THEN "full" ELSE "incomplete"

------------------------------------------------------------------------------
(***************************************************************************)
(* Recording                                                               *)
(***************************************************************************)

\* Mutant of RecordInventoryScan: a legacy scan saves no membership rows.
RecordInventoryScanReceipts(p, scan) ==
    /\ op[p] = Nothing
    /\ Len(scans) < MaxScans
    /\ scans' = Append(scans, scan)
    /\ listed' = IF scan.kind = "legacy" THEN listed
                 ELSE Append(listed, UNION {scan.receipts[scope].threads :
                                            scope \in DOMAIN scan.receipts})
    /\ verdict' = [verdict EXCEPT ![p] = "none"]
    /\ UNCHANGED <<certificates, retirements, op>>

\* record_inventory_scan is one transaction.  A scan id that was used is refused.
RecordInventoryScan(p, scan) ==
    /\ op[p] = Nothing
    /\ Len(scans) < MaxScans
    /\ scans' = Append(scans, scan)
    /\ listed' = Append(listed,
                        IF scan.kind = "legacy" THEN scan.threads
                        ELSE UNION {scan.receipts[scope].threads :
                                    scope \in DOMAIN scan.receipts})
    /\ verdict' = [verdict EXCEPT ![p] = "none"]
    /\ UNCHANGED <<certificates, retirements, op>>

\* The parent is known, and the capture not bound to another thread.
Bindable(t, capture) ==
    /\ scans # <<>>
    /\ \A other \in Thread \ {t} :
           certificates[other] # Nothing => certificates[other].capture # capture

\* record_child_certificate: what it has to refuse is looked up first.
CheckCertificate(p, t, capture, strict) ==
    /\ op[p] = Nothing
    /\ Bindable(t, capture)
    /\ op' = [op EXCEPT ![p] = [step |-> "write_certificate", thread |-> t,
                                certificate |-> [capture |-> capture,
                                                 strict |-> strict]]]
    /\ verdict' = [verdict EXCEPT ![p] = "none"]
    /\ UNCHANGED <<scans, listed, certificates, retirements>>

\* The row is then inserted or replaced.
WriteCertificate(p) ==
    /\ op[p] # Nothing /\ op[p].step = "write_certificate"
    /\ certificates' = [certificates EXCEPT ![op[p].thread] = op[p].certificate]
    /\ op' = [op EXCEPT ![p] = Nothing]
    /\ UNCHANGED <<scans, listed, retirements, verdict>>

------------------------------------------------------------------------------
(***************************************************************************)
(* The audit                                                               *)
(***************************************************************************)

\* The two latest scans and their threads are read.
BeginAudit(p) ==
    /\ op[p] = Nothing
    /\ op' = [op EXCEPT ![p] = [step |-> "find_absent", two |-> LatestTwo]]
    /\ verdict' = [verdict EXCEPT ![p] = "none"]
    /\ UNCHANGED <<scans, listed, certificates, retirements>>

\* Mutant of Absent: every complete latest scan retires.
AbsentUnconfirmed(two) ==
    {t \in Certified(certificates) \ LatestListed(two) :
        \E i \in two : ScanComplete(i)}

\* Certificates are retired only when two scans agree.
Absent(two) ==
    IF Stable(two) THEN Certified(certificates) \ LatestListed(two) ELSE {}

FindAbsent(p) ==
    /\ op[p] # Nothing /\ op[p].step = "find_absent"
    /\ op' = [op EXCEPT ![p] =
                 [step |-> "conclude", two |-> op[p].two,
                  absent |-> {[thread |-> t, capture |-> certificates[t].capture] :
                              t \in Absent(op[p].two)}]]
    /\ UNCHANGED <<scans, listed, certificates, retirements, verdict>>

\* The first retirement opens the transaction in which the others are written and
\* the certificates are read; without one, reading them is all there is to do.
ConcludeAudit(p) ==
    LET gone == {row.thread : row \in op[p].absent}
        kept == [t \in Thread |-> IF t \in gone THEN Nothing
                                  ELSE certificates[t]]
    IN  /\ op[p] # Nothing /\ op[p].step = "conclude"
        /\ retirements' = retirements \cup op[p].absent
        /\ certificates' = kept
        /\ verdict' = [verdict EXCEPT ![p] = Status(op[p].two, kept)]
        /\ op' = [op EXCEPT ![p] = Nothing]
        /\ UNCHANGED <<scans, listed>>

------------------------------------------------------------------------------
\* A process dies, or its transaction is rolled back.
Abandon(p) ==
    /\ op[p] # Nothing
    /\ op' = [op EXCEPT ![p] = Nothing]
    /\ UNCHANGED <<scans, listed, certificates, retirements, verdict>>

\* A membership row gets lost (tests/test_parent_completeness.py edits the tables).
LoseMembership(i, t) ==
    /\ \A p \in Proc : op[p] = Nothing
    /\ t \in listed[i]
    /\ Cardinality({k \in DOMAIN scans : listed[k] # Scanned(k)}) < MaxDamage
    /\ listed' = [listed EXCEPT ![i] = @ \ {t}]
    /\ UNCHANGED <<scans, certificates, retirements, op, verdict>>

Step ==
    \/ \E p \in Proc :
          \/ \E scan \in OfferedScan : RecordInventoryScan(p, scan)
          \/ \E t \in Thread, capture \in Capture, strict \in BOOLEAN :
                 CheckCertificate(p, t, capture, strict)
          \/ WriteCertificate(p)
          \/ BeginAudit(p) \/ FindAbsent(p) \/ ConcludeAudit(p)
          \/ Abandon(p)
    \/ \E i \in DOMAIN scans, t \in Thread : LoseMembership(i, t)

\* Everything "full" stands for, of the inventory and the certificates as they
\* are: no audit is needed to say it.
ListedWhole(i, scope) ==
    /\ scope \in DOMAIN scans[i].receipts
    /\ scans[i].receipts[scope].terminal_reached
    /\ scope = "archived_private" => scans[i].receipts[scope].authorized

Complete ==
    \E i, j \in DOMAIN scans :
        /\ i # j /\ Later(i, j)
        /\ \A k \in DOMAIN scans \ {i, j} : Later(j, k)
        /\ ~IsLegacy(i) /\ ~IsLegacy(j)
        /\ scans[i].kind = scans[j].kind
        /\ \A scope \in RequiredScopes(scans[i].kind) :
               /\ ListedWhole(i, scope) /\ ListedWhole(j, scope)
               /\ ScannedIn(i, scope) = ScannedIn(j, scope)
        /\ \A t \in Thread :
               IF t \in Scanned(i)
               THEN certificates[t] # Nothing /\ certificates[t].strict
               ELSE certificates[t] = Nothing

\* The history of an operation that is under way, and of the audit that just ended.
Auditing(p) == op[p] # Nothing /\ op[p].step \in {"find_absent", "conclude"}

Committed == {table \in {"scan", "certificate"} :
                 IF table = "scan" THEN scans' # scans
                 ELSE certificates' # certificates}

Idle(p) == op[p] = Nothing /\ verdict[p] = "none"
Begins(p) == op[p] = Nothing /\ op'[p] # Nothing

Watch ==
    /\ held' = [p \in Proc |->
                   /\ Auditing(p)' \/ verdict'[p] # "none"
                   /\ \/ held[p] /\ (Auditing(p) \/ ~Auditing(p)')
                      \/ Complete' /\ (Auditing(p) \/ Auditing(p)')]
    /\ overtaken' = [p \in Proc |->
                        IF Begins(p) \/ Idle(p)' THEN {}
                        ELSE IF op'[p] # op[p] \/ op[p] = Nothing THEN overtaken[p]
                        ELSE overtaken[p] \cup Committed]

Next == Step /\ Watch

Spec == Init /\ [][Next]_vars

------------------------------------------------------------------------------
(***************************************************************************)
(* Properties                                                              *)
(***************************************************************************)

Certificate == [capture : Capture, strict : BOOLEAN]
Retired == [thread : Thread, capture : Capture]
Operation ==
    [step : {"write_certificate"}, thread : Thread, certificate : Certificate]
        \cup [step : {"find_absent"}, two : SUBSET Nat]
        \cup [step : {"conclude"}, two : SUBSET Nat, absent : SUBSET Retired]

ScanNothingAssumption == Nothing \notin Certificate \cup Operation

\* Types of the tables and of the operations under way.
TypeOK ==
    /\ scans \in Seq(OfferedScan)
    /\ listed \in Seq(SUBSET Thread) /\ Len(listed) = Len(scans)
    /\ certificates \in [Thread -> Certificate \cup {Nothing}]
    /\ retirements \subseteq Retired
    /\ op \in [Proc -> Operation \cup {Nothing}]
    /\ verdict \in [Proc -> {"none", "full", "incomplete"}] /\ held \in [Proc -> BOOLEAN]
    /\ overtaken \in [Proc -> SUBSET {"scan", "certificate"}]

\* What is promised of it: an audit says full only if all of its conditions were
\* true at one moment while it ran (docs/parent-completeness-audit.md:
\* "全条件が同時に成立した時だけ").
FullHeldAtOnce == \A p \in Proc : verdict[p] = "full" => held[p]

\* What it keeps: only a scan that another process records between the reads of an
\* audit breaks the promise.  Certificates that come and go while the audit runs,
\* scans in any order and rows that got lost never add up to full piece by piece
\* (audit_parent).
FullHeldUnlessScanned ==
    \A p \in Proc : verdict[p] = "full" => held[p] \/ "scan" \in overtaken[p]

\* One capture vouches for two threads.
Shared(capture) ==
    \E t1, t2 \in Certified(certificates) :
        /\ t1 # t2
        /\ certificates[t1].capture = capture /\ certificates[t2].capture = capture

\* A capture comes to vouch for two threads only by a call that looked for the
\* other thread before another process committed a certificate, or its retirement:
\* never by one that ran alone, whatever was retired or replaced before it
\* (record_child_certificate).
SharesOnlyOvertaken ==
    \A capture \in Capture :
        ~Shared(capture) /\ Shared(capture)' =>
            \E p \in Proc :
                /\ op[p] # Nothing /\ op[p].step = "write_certificate"
                /\ op[p].certificate.capture = capture /\ op'[p] = Nothing
                /\ "certificate" \in overtaken[p]

\* A certificate disappears only by an audit that read two agreeing scans without
\* its thread (reason absent_from_latest_stable_inventory): the latest two, unless
\* another process recorded one meanwhile.  Its retirement names its capture, unless
\* another process replaced it meanwhile.
RetiresOnlyAbsent ==
    \A t \in Thread :
        certificates[t] # Nothing /\ certificates'[t] = Nothing =>
            \E p \in Proc :
                /\ op[p] # Nothing /\ op[p].step = "conclude" /\ op'[p] = Nothing
                /\ Stable(op[p].two) /\ \A i \in op[p].two : t \notin Scanned(i)
                /\ op[p].two = LatestTwo \/ "scan" \in overtaken[p]
                /\ \/ [thread |-> t, capture |-> certificates[t].capture] \in retirements'
                   \/ "certificate" \in overtaken[p]

\* The converse: an audit that says incomplete is right, or rows are damaged, or
\* another process recorded a scan meanwhile.  Certificates of vanished threads, in
\* particular, are retired before the verdict and not held against a parent that is
\* complete without them, and one that another process writes meanwhile is counted.
SaysIncompleteRightly ==
    \A p \in Proc :
        verdict[p] = "none" /\ verdict'[p] = "incomplete" =>
            \/ ~Complete' \/ \E i \in DOMAIN scans : listed[i] # Scanned(i)
            \/ "scan" \in overtaken[p]

\* Certificates follow the inventory, through any order of scans, captures and audits
\* of processes that overtake each other, and whatever audits die: the three of them
\* together (completeness_store.record_child_certificate, audit_parent).
CertificatesFollowInventory ==
    [][SharesOnlyOvertaken /\ RetiresOnlyAbsent /\ SaysIncompleteRightly]_vars
==============================================================================
