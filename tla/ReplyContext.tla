----------------------------- MODULE ReplyContext -----------------------------
(***************************************************************************)
(* The gate before a reply is drafted (core.build_reply_context_gate and   *)
(* its front end over fetched messages): an operator fetches a thread's    *)
(* latest messages, asks the gate, and fetches ten more as long as it asks *)
(* for that, while people go on writing.                                   *)
(*                                                                         *)
(* A message is known by its place in the thread.  What the gate is told   *)
(* of it is a sequence number, a time or nothing; times may be equal.      *)
(***************************************************************************)
EXTENDS Integers, FiniteSets

CONSTANTS
    Minimum,     \* minimum_prior_messages
    Step,        \* messages fetched in addition (10)
    Maximum,     \* max_context_messages
    MaxThread,   \* bound: messages of a thread
    Nothing

ContextAssumption ==
    /\ Minimum \in Nat \ {0} /\ Step \in Nat \ {0}
    /\ Maximum \in Nat /\ Maximum > Minimum /\ MaxThread \in Nat

VARIABLES
    length,      \* messages in the thread
    target,      \* the one to answer
    open,        \* those with a reference that nobody resolved
    keyed,       \* what a fetch tells of the order: "sequence", "timestamp", "unknown"
    newest_first,\* a fetch lists the newest message first
    rooted,      \* a fetch brings the first message, too
    limit,       \* messages the next fetch asks for
    answer       \* the gate's last answer, or Nothing

vars == <<length, target, open, keyed, newest_first, rooted, limit, answer>>
thread == <<length, target, open, keyed, newest_first, rooted>>

Init ==
    /\ length \in 1..MaxThread - 1 /\ target \in 1..length
    /\ open \in SUBSET (1..length) /\ Cardinality(open) <= 1
    /\ keyed \in {"sequence", "timestamp", "unknown"}
    /\ newest_first \in BOOLEAN /\ rooted \in BOOLEAN
    /\ limit = Step /\ answer = Nothing

------------------------------------------------------------------------------
(***************************************************************************)
(* build_reply_context_gate                                                *)
(***************************************************************************)

Least(a, b) == IF a < b THEN a ELSE b

\* Both anchors, enough before the target or the whole history, nothing unresolved;
\* otherwise more is fetched as long as there is more and the limit allows it.
Gate(root, found, prior, exhausted, unresolved, fetched) ==
    LET ready == /\ root /\ found /\ (prior >= Minimum \/ exhausted)
                 /\ unresolved = 0
        reached == ~ready /\ fetched >= Maximum
    IN  CASE ready -> [state |-> "ready", allowed |-> TRUE, next |-> fetched]
          [] ~ready /\ exhausted ->
                [state |-> "blocked", allowed |-> FALSE,
                 next |-> IF reached /\ unresolved = 0 THEN Maximum ELSE fetched]
          [] reached /\ ~exhausted ->
                [state |-> "blocked", allowed |-> FALSE, next |-> Maximum]
          [] OTHER -> [state |-> "expand_required", allowed |-> FALSE,
                       next |-> Least(Maximum, fetched + Step)]

------------------------------------------------------------------------------
(***************************************************************************)
(* build_reply_context_gate_from_messages                                  *)
(***************************************************************************)

\* Two neighbours may have been written in one minute.
Time(m) == m \div 2

\* What a fetch of the latest messages brings, and where it lists them.
Fetched(n) == {m \in 1..length : m > length - n} \cup IF rooted THEN {1} ELSE {}
Listed(m) == IF newest_first THEN -m ELSE m

\* A stable sort by the keys there are; without them the list stays as it is.
Before(a, b) ==
    LET key(m) == CASE keyed = "sequence"  -> m
                    [] keyed = "timestamp" -> Time(m)
                    [] keyed = "unknown"   -> 0
    IN  key(a) < key(b) \/ (key(a) = key(b) /\ Listed(a) < Listed(b))

\* Messages in an order nobody vouches for, or a root after the target, block.
GateOf(loaded, exhausted) ==
    LET prior == {m \in loaded : target \in loaded /\ Before(m, target)}
        upto == IF target \in loaded THEN prior \cup {target} ELSE loaded
        gate == Gate(1 \in upto /\ target \in loaded, target \in loaded,
                     Cardinality(prior), exhausted, Cardinality(upto \cap open),
                     Cardinality(loaded))
        misplaced == \/ Cardinality(loaded) > 1 /\ keyed = "unknown"
                     \/ 1 \in loaded \ upto
    IN  IF misplaced THEN [gate EXCEPT !.state = "blocked", !.allowed = FALSE] ELSE gate

------------------------------------------------------------------------------
(***************************************************************************)
(* The operator and the people of the thread                               *)
(***************************************************************************)

Decided == answer # Nothing /\ answer.state # "expand_required"

\* reply-context-plan: fetch what was asked for, and ask again.
FetchAndAsk ==
    /\ ~Decided
    /\ LET gate == GateOf(Fetched(limit), limit >= length) IN
       /\ answer' = [state |-> gate.state, allowed |-> gate.allowed,
                     seen |-> Fetched(limit), whole |-> limit >= length,
                     unresolved |-> open]
       /\ limit' = gate.next
    /\ UNCHANGED thread

\* Somebody writes: the window of the latest messages moves on.
NewMessage ==
    /\ length < MaxThread
    /\ length' = length + 1
    /\ \/ open' = open
       \/ open = {} /\ open' = {length + 1}
    /\ UNCHANGED <<target, keyed, newest_first, rooted, limit, answer>>

\* An attachment or a quote is looked up.
Resolve(m) ==
    /\ m \in open
    /\ open' = open \ {m}
    /\ UNCHANGED <<length, target, keyed, newest_first, rooted, limit, answer>>

\* After a blocked answer, or later in the day, the operator starts over.
StartOver ==
    /\ Decided
    /\ answer' = Nothing /\ limit' = Step
    /\ UNCHANGED thread

Next == FetchAndAsk \/ NewMessage \/ StartOver \/ \E m \in open : Resolve(m)

\* The operator does what the gate asks for.
Fairness == WF_vars(FetchAndAsk)
Spec == Init /\ [][Next]_vars /\ Fairness

------------------------------------------------------------------------------
(***************************************************************************)
(* Properties                                                              *)
(***************************************************************************)

TypeOK ==
    /\ length \in 1..MaxThread /\ target \in 1..length /\ open \subseteq 1..length
    /\ keyed \in {"sequence", "timestamp", "unknown"} /\ limit \in Nat \ {0}
    /\ newest_first \in BOOLEAN /\ rooted \in BOOLEAN
    /\ answer = Nothing \/ answer.state \in {"ready", "blocked", "expand_required"}

\* A reply may be drafted only with root and target at hand, with enough messages that
\* are not later than the target (or all there are), and none of them unresolved:
\* whatever the order of the fetch, and although times are coarse.
ReadyMeansContext ==
    answer # Nothing /\ answer.allowed =>
        /\ {1, target} \subseteq answer.seen
        /\ \/ answer.whole
           \/ Cardinality({m \in answer.seen \ {target} : Time(m) <= Time(target)}) >= Minimum
        /\ \A m \in answer.seen \cap answer.unresolved : Time(m) >= Time(target) /\ m # target

\* Whoever does what the gate asks gets a verdict, however long the thread is.
ContextIsDecided == answer = Nothing ~> Decided
==============================================================================
