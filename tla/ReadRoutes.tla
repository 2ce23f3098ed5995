----------------------------- MODULE ReadRoutes -----------------------------
(***************************************************************************)
(* The choice of a route for reading one thread, and the REST route it     *)
(* runs: scripts/discord_route_retry_decider.py tries the gateway command, *)
(* then the REST command, each several times and each killed at a timeout, *)
(* then the inbox; only then may a browser be asked for, and               *)
(* scripts/chrome_visible_fallback_guard.py picks the tab.  The REST       *)
(* command is scripts/discord_rest_backfill.py: it pages through the       *)
(* channel while messages are posted and deleted, writes the raw file in   *)
(* place and then the manifest.                                            *)
(* Messages are their ids, which grow.                                     *)
(***************************************************************************)
EXTENDS Integers, FiniteSets, FiniteSetsExt

CONSTANTS MaxMessage,   \* the largest message id (a bound)
          Limit,        \* --limit
          PageSize,     \* --page-size, at most 100
          Attempts,     \* --attempts, of which at least one is made
          Tabs,         \* the browser tabs that may be open: [place, handle]
          None

\* A running REST command; stood and odd are history: the messages that were there all
\* the time, and whether an answer that was no page of messages ended the fetching.
RestCommand ==
    [phase : {"page", "fetched", "raw", "manifest", "write", "answer"}, run : Nat,
     before : Nat, left : Nat, got : SUBSET Nat, stood : SUBSET Nat, odd : BOOLEAN]

RoutesAssumption ==
    /\ MaxMessage \in Nat /\ Limit \in Nat /\ PageSize \in Nat \ {0} /\ Attempts \in Nat
    /\ None \notin {"gateway", "rest", "inbox", "ask_browser_fallback"} \union RestCommand
    /\ \A t \in Tabs : t.place \in {"target", "guild", "discord"} /\ t.handle \in BOOLEAN

VARIABLES channel,      \* the messages in the channel now
          newest,       \* the largest id so far
          route,        \* the decider: where it is, attempts made, what it decided
          fetch,        \* the running REST command, None if none runs
          raw,          \* the raw file: the attempt that wrote it and its messages
          manifest,     \* the manifest: the attempt and the count
          tab           \* what the guard says about the tabs, None before it is asked

vars == <<channel, newest, route, fetch, raw, manifest, tab>>
files == <<raw, manifest>>

Budget == IF Attempts < 1 THEN 1 ELSE Attempts

Init == /\ newest \in 0..MaxMessage
        /\ channel \in SUBSET (1..newest)
        /\ route = [at |-> "gateway", tried |-> 0, failed |-> {}, decision |-> None]
        /\ fetch = None
        /\ raw = [run |-> 0, ids |-> {}, whole |-> TRUE]
        /\ manifest = [run |-> 0, count |-> 0, whole |-> TRUE]
        /\ tab = None

Post == /\ newest < MaxMessage
        /\ newest' = newest + 1 /\ channel' = channel \union {newest'}
        /\ UNCHANGED <<route, fetch, files, tab>>
Delete(m) == /\ m \in channel /\ channel' = channel \ {m}
             /\ fetch' = IF fetch = None THEN None ELSE [fetch EXCEPT !.stood = @ \ {m}]
             /\ UNCHANGED <<newest, route, files, tab>>

-----------------------------------------------------------------------------
(* The decider. *)

Decide(d) == route' = [route EXCEPT !.at = "done", !.decision = d]

\* probe_command_route: a failed attempt is repeated until the budget is used
\* up; then comes the next route.
AfterFailure(r) ==
    IF r.tried + 1 < Budget THEN [r EXCEPT !.tried = @ + 1]
    ELSE [r EXCEPT !.tried = 0, !.failed = @ \union {r.at},
                   !.at = IF @ = "gateway" THEN "rest" ELSE "inbox"]
\* A route without a command is passed over.
NotConfigured == /\ route.at \in {"gateway", "rest"} /\ route.tried = 0 /\ fetch = None
                 /\ route' = [route EXCEPT !.failed = @ \union {route.at},
                                           !.at = IF @ = "gateway" THEN "rest" ELSE "inbox"]
                 /\ UNCHANGED <<channel, newest, fetch, files, tab>>
\* The gateway command is foreign: it answers, fails, or hangs and is killed.
Gateway(ok) == /\ route.at = "gateway"
               /\ IF ok THEN Decide("gateway") ELSE route' = AfterFailure(route)
               /\ UNCHANGED <<channel, newest, fetch, files, tab>>
Inbox(ok) == /\ route.at = "inbox"
             /\ IF ok THEN Decide("inbox") ELSE Decide("ask_browser_fallback")
             /\ UNCHANGED <<channel, newest, fetch, files, tab>>

\* run_local_command starts the REST command.
Run == /\ route.at = "rest" /\ fetch = None
       /\ fetch' = [phase |-> "page", run |-> route.tried + 1, before |-> 0,
                    left |-> Limit, got |-> {}, stood |-> channel, odd |-> FALSE]
       /\ UNCHANGED <<channel, newest, route, files, tab>>
\* The timeout kills the command wherever it is, its whole process group.
Timeout == /\ route.at = "rest" /\ fetch # None
           /\ fetch' = None /\ route' = AfterFailure(route)
           /\ UNCHANGED <<channel, newest, files, tab>>
Fails == /\ fetch' = None /\ route' = AfterFailure(route)
         /\ UNCHANGED <<channel, newest, files, tab>>

-----------------------------------------------------------------------------
(* The REST command. *)

Older == IF fetch.before = 0 THEN channel ELSE {m \in channel : m < fetch.before}
Least(a, b) == IF a < b THEN a ELSE b
Newest(n, S) == {m \in S : Cardinality({o \in S : o > m}) < n}

\* A page that is shorter than what was asked for is the last one.
LastPage(page, asked) == Cardinality(page) < asked

\* fetch_discord_messages, one request; nothing fetched is an error, and so is
\* any answer but 200, whatever was fetched before.
FetchPage ==
    /\ fetch # None /\ fetch.phase = "page" /\ fetch.left > 0
    /\ LET asked == Least(PageSize, fetch.left)
           page  == Newest(asked, Older)
           now   == [fetch EXCEPT !.got = @ \union page, !.left = @ - Cardinality(page)]
       IN  fetch' = IF page = {} \/ LastPage(page, asked) THEN [now EXCEPT !.phase = "fetched"]
                    ELSE [now EXCEPT !.before = Min(page)]
    /\ UNCHANGED <<channel, newest, route, files, tab>>

\* An answer 200 that is no list, or a list of which only some are messages, ends the
\* fetching like a last page: what was fetched so far is what is written and answered.
OddAnswer ==
    /\ fetch # None /\ fetch.phase = "page" /\ fetch.left > 0
    /\ LET page == Newest(Least(PageSize, fetch.left), Older)
       IN  \E some \in (SUBSET page) \ {page} :
               fetch' = [fetch EXCEPT !.phase = "fetched", !.odd = TRUE,
                                      !.got = @ \union some, !.left = @ - Cardinality(some)]
    /\ UNCHANGED <<channel, newest, route, files, tab>>
RequestFails == /\ fetch # None /\ fetch.phase = "page" /\ fetch.left > 0
                /\ Fails
OpenRaw == /\ fetch # None
           /\ fetch.phase = "fetched" \/ (fetch.phase = "page" /\ fetch.left <= 0)
           /\ IF fetch.got = {} THEN Fails
              ELSE /\ raw' = [run |-> fetch.run, ids |-> {}, whole |-> FALSE]
                   /\ fetch' = [fetch EXCEPT !.phase = "raw"]
                   /\ UNCHANGED <<channel, newest, route, manifest, tab>>
WriteRaw == /\ fetch # None /\ fetch.phase = "raw"
            /\ raw' = [run |-> fetch.run, ids |-> fetch.got, whole |-> TRUE]
            /\ fetch' = [fetch EXCEPT !.phase = "manifest"]
            /\ UNCHANGED <<channel, newest, route, manifest, tab>>
OpenManifest == /\ fetch # None /\ fetch.phase = "manifest"
                /\ manifest' = [run |-> fetch.run, count |-> 0, whole |-> FALSE]
                /\ fetch' = [fetch EXCEPT !.phase = "write"]
                /\ UNCHANGED <<channel, newest, route, raw, tab>>
WriteManifest == /\ fetch # None /\ fetch.phase = "write"
                 /\ manifest' = [run |-> fetch.run, count |-> Cardinality(fetch.got), whole |-> TRUE]
                 /\ fetch' = [fetch EXCEPT !.phase = "answer"]
                 /\ UNCHANGED <<channel, newest, route, raw, tab>>
\* The command ends with output and without an error.
Succeed == /\ fetch # None /\ fetch.phase = "answer"
           /\ Decide("rest")
           /\ UNCHANGED <<channel, newest, fetch, files, tab>>

-----------------------------------------------------------------------------
(* The guard, asked when the user agrees to the fallback. *)

Place(open, place) == {t \in open : t.place = place /\ t.handle}
Guard(open) ==
    CASE Place(open, "target") # {} -> "claim_existing_target_tab"
      [] Place(open, "target") = {} /\ \E t \in open : t.handle ->
            "claim_existing_discord_tab_then_navigate"
      [] open # {} /\ \A t \in open : ~t.handle -> "blocked"
      [] OTHER -> "open_new_tab_in_existing_window"
Agree(open) == /\ route.decision = "ask_browser_fallback" /\ tab = None
               /\ tab' = [open |-> open, says |-> Guard(open)]
               /\ UNCHANGED <<channel, newest, route, fetch, files>>

Decider == \/ NotConfigured \/ \E ok \in BOOLEAN : Gateway(ok) \/ Inbox(ok)
           \/ Run \/ FetchPage \/ OddAnswer \/ RequestFails \/ OpenRaw \/ WriteRaw
           \/ OpenManifest \/ WriteManifest \/ Succeed
Next == \/ Post
        \/ \E m \in channel : Delete(m)
        \/ Decider
        \/ Timeout
        \/ \E open \in SUBSET Tabs : Agree(open)

\* The decider goes on, and a command that takes too long is killed; nothing is
\* assumed of those who post and delete.
Fairness == WF_vars(Decider) /\ WF_vars(Timeout)
Spec == Init /\ [][Next]_vars /\ Fairness

-----------------------------------------------------------------------------
TypeOK ==
    /\ newest \in 0..MaxMessage /\ channel \subseteq 1..newest
    /\ route \in [at : {"gateway", "rest", "inbox", "done"}, tried : 0..(Budget - 1),
                  failed : SUBSET {"gateway", "rest"},
                  decision : {None, "gateway", "rest", "inbox", "ask_browser_fallback"}]
    /\ route.decision # None <=> route.at = "done"
    /\ fetch # None =>
          /\ fetch \in RestCommand /\ fetch.left <= Limit
          /\ fetch.got \subseteq 1..newest /\ fetch.stood \subseteq channel
    /\ raw.ids \subseteq 1..newest /\ manifest.count \in 0..Limit

\* What the decider knows of where it is, and that a command runs only for its route.
RoutesInOrder ==
    /\ route.at = "gateway" => route.failed = {}
    /\ route.at = "rest" => route.failed = {"gateway"}
    /\ route.at = "inbox" => route.failed = {"gateway", "rest"}
    /\ fetch # None => route.at = "rest" \/ (route.at = "done" /\ fetch.phase = "answer")
    /\ route.decision = "rest" => fetch # None

\* What the REST command has fetched: everything that stood from the cursor on; once it
\* has done with fetching, everything that stood, or as much as was asked for; and the
\* files it has written say that.
FetchedSoFar ==
    fetch # None =>
       /\ Cardinality(fetch.got) = Limit - fetch.left
       /\ fetch.phase = "page" =>
             /\ fetch.before = 0 => fetch.got = {}
             /\ fetch.before # 0 => \A m \in fetch.got : fetch.before <= m
             /\ fetch.before # 0 => \A m \in fetch.stood : m \in fetch.got \/ m < fetch.before
       /\ fetch.phase # "page" =>
             fetch.stood \subseteq fetch.got \/ Cardinality(fetch.got) >= Limit \/ fetch.odd
       /\ fetch.phase \in {"raw", "manifest", "write", "answer"} => fetch.got # {}
       /\ fetch.phase \in {"manifest", "write", "answer"} =>
             raw = [run |-> fetch.run, ids |-> fetch.got, whole |-> TRUE]
       /\ fetch.phase = "answer" =>
             manifest = [run |-> fetch.run, count |-> Cardinality(fetch.got), whole |-> TRUE]

\* The REST route is chosen only when the raw file and the manifest are of one
\* attempt and agree, whatever an attempt that was killed had left in them, and the
\* raw file has every message that was in the channel from that attempt's beginning
\* to its end, unless the limit cut it off, or an answer that is no page of messages,
\* which the command takes for the end of the channel.
RestPairIsWhole ==
    route.decision = "rest" =>
       /\ raw.whole /\ manifest.whole /\ raw.run = manifest.run
       /\ manifest.count = Cardinality(raw.ids) /\ raw.ids # {}
       /\ Cardinality(raw.ids) < Limit /\ ~fetch.odd => fetch.stood \subseteq raw.ids
\* A browser is asked for when every route was tried and failed, and a tab is
\* opened only when no Discord tab is.
BrowserIsLast ==
    /\ route.decision = "ask_browser_fallback" => route.failed = {"gateway", "rest"}
    /\ tab # None /\ tab.says = "open_new_tab_in_existing_window" => tab.open = {}
RoutesInv == TypeOK /\ RoutesInOrder /\ FetchedSoFar /\ BrowserIsLast

\* The decider decides, whatever its commands do and whoever writes meanwhile.
RouteIsDecided == <>(route.at = "done")
=============================================================================
