-------------------------- MODULE ArchiveInventory --------------------------
(***************************************************************************)
(* The listing of the threads of one parent channel: archive_inventory.py  *)
(* and the command scripts/discord_archived_thread_inventory.py.  A call   *)
(* reads the channel, the guild's active threads and the pages of each     *)
(* archive scope in separate requests, while threads are archived and      *)
(* unarchived; a page asks for what lies strictly before the cursor.  The  *)
(* server throttles and refuses, may ignore the cursor and may claim that  *)
(* more follows when nothing does.                                         *)
(* Threads are their ids (numbers); threads outside Own belong to another  *)
(* parent of the guild and stay active.                                    *)
(***************************************************************************)
EXTENDS Integers, FiniteSets

CONSTANTS Threads,      \* thread ids
          Own,          \* the threads of the parent channel
          Private,      \* the private threads among Own
          Joined,       \* the private threads the bot has joined
          ParentKind,   \* what the channel is: "text", "forum"
          PageSize,     \* --page-size
          MaxPages,     \* --max-pages, for each scope
          MaxRetries,   \* --max-rate-limit-retries, for each request
          Stamps,       \* archive timestamps (a bound)
          MaxMoves      \* threads that move during a call (a bound)

ListingAssumption ==
    /\ Threads \subseteq Nat /\ IsFiniteSet(Threads)
    /\ Own \subseteq Threads /\ Joined \subseteq Private /\ Private \subseteq Own
    /\ ParentKind \in {"text", "forum"}
    /\ PageSize \in Nat \ {0} /\ MaxPages \in Nat \ {0} /\ MaxRetries \in Nat
    /\ Stamps \subseteq Nat /\ 0 \notin Stamps /\ IsFiniteSet(Stamps)
    /\ MaxMoves \in Nat

VARIABLES archived,     \* the threads that are archived now
          stamp,        \* thread -> its last archive timestamp
          moved,        \* the threads that moved since the call began
          call,         \* the call
          file          \* what is at --output

vars == <<archived, stamp, moved, call, file>>

Scopes == {"public", "private", "joined_private"}
NoCursor == 0

\* The archive scopes a parent of this kind has; the last two arguments of a
\* listing without --parent-kind are unrestricted.
CanonicalScopes(asked) ==
    CASE asked = "text" -> {"public", "private"}
      [] asked = "none" -> Scopes
      [] OTHER -> {"public"}

InScope(s, t) ==
    CASE s = "public" -> t \in Own \ Private
      [] s = "private" -> t \in Private
      [] s = "joined_private" -> t \in Joined
      [] s = "active" -> t \in Own

\* The cursor is the id for joined_private and the timestamp elsewhere.
CursorFor(s, t) == IF s = "joined_private" THEN t ELSE stamp[t]

\* The server lists the newest first; equal timestamps in some fixed order.
Ahead(s, t, u) == \/ CursorFor(s, t) > CursorFor(s, u)
                  \/ CursorFor(s, t) = CursorFor(s, u) /\ t > u
Remaining(s, cursor) ==
    {t \in archived : InScope(s, t) /\ (cursor = NoCursor \/ CursorFor(s, t) < cursor)}
Page(s, cursor) ==
    LET all == Remaining(s, cursor)
    IN  {t \in all : Cardinality({u \in all : Ahead(s, u, t)}) < PageSize}

-----------------------------------------------------------------------------
Idle == [phase |-> "idle", asked |-> "none", scopes |-> {}, left |-> {},
         scope |-> "none", cursor |-> NoCursor, seen |-> {}, pages |-> 0, retries |-> 0,
         found |-> {}, partial |-> {}, result |-> "none"]

Init == /\ archived \in SUBSET Own
        /\ stamp \in [Own -> Stamps]
        /\ moved = {} /\ call = Idle
        /\ file = [listed |-> {}, complete |-> FALSE]

\* Threads move while a call runs (before it, Init has every arrangement); an
\* archive timestamp is now.
Movable == /\ call.phase \notin {"idle", "done"}
           /\ Cardinality(moved) < MaxMoves
Archive(t) == /\ Movable /\ t \in Own \ (archived \union moved)
              /\ \E s \in Stamps : /\ \A u \in Own : stamp[u] <= s
                                   /\ stamp' = [stamp EXCEPT ![t] = s]
              /\ archived' = archived \union {t}
              /\ moved' = moved \union {t}
              /\ UNCHANGED <<call, file>>
Unarchive(t) == /\ Movable /\ t \in archived \ moved
                /\ archived' = archived \ {t}
                /\ moved' = moved \union {t}
                /\ UNCHANGED <<stamp, call, file>>

-----------------------------------------------------------------------------
\* main: arguments are checked before the first request.
Start(asked, scopes) ==
    /\ call.phase = "idle"
    /\ scopes # {} /\ scopes \subseteq CanonicalScopes(asked)
    /\ call' = [Idle EXCEPT !.phase = IF asked = "none" THEN "scope" ELSE "kind",
                            !.asked = asked, !.scopes = scopes, !.left = scopes]
    /\ UNCHANGED <<archived, stamp, moved, file>>

Answer(result) == call' = [Idle EXCEPT !.phase = "done", !.result = result,
                                       !.asked = call.asked, !.scopes = call.scopes]

\* _request_json: a throttled request is repeated MaxRetries times; any other
\* refusal ends the call, and what was listed so far is not written.
Throttled == /\ call.phase \in {"kind", "active", "page"}
             /\ IF call.retries < MaxRetries
                  THEN call' = [call EXCEPT !.retries = @ + 1]
                  ELSE Answer("blocked")
             /\ UNCHANGED <<archived, stamp, moved, file>>
Refused == /\ call.phase \in {"kind", "active", "page"}
           /\ Answer("blocked")
           /\ UNCHANGED <<archived, stamp, moved, file>>

\* _trusted_parent_kind: the channel's own metadata decides.
CheckKind == /\ call.phase = "kind"
             /\ IF call.asked = ParentKind
                  THEN call' = [call EXCEPT !.phase = "active", !.retries = 0]
                  ELSE Answer("blocked")
             /\ UNCHANGED <<archived, stamp, moved, file>>

\* The guild's active threads, filtered to this parent (build_active_filtered_result).
FetchActive == /\ call.phase = "active"
               /\ LET active == {t \in Threads \ archived : t \in Own}
                  IN  call' = [call EXCEPT !.phase = "scope", !.retries = 0,
                                           !.found = {<<"active", t>> : t \in active}]
               /\ UNCHANGED <<archived, stamp, moved, file>>

\* The next scope begins without a cursor; after the last one the call writes.
NextScope == /\ call.phase = "scope"
             /\ IF call.left = {}
                  THEN call' = [call EXCEPT !.phase = "write"]
                  ELSE \E s \in call.left :
                         call' = [call EXCEPT !.phase = "page", !.scope = s, !.left = @ \ {s},
                                              !.cursor = NoCursor, !.seen = {}, !.pages = 0]
             /\ UNCHANGED <<archived, stamp, moved, file>>

\* Mutant of Exhausted: the limit is the end.
ExhaustedAtLimit(more, pages) == ~more \/ pages = MaxPages

\* A listing that stopped at the page limit is not exhausted.
Exhausted(more, pages) == ~more

\* enumerate_archive_pages, one page: deaf is a server that ignores the cursor,
\* claims one that says more follows.
FetchPage(deaf, claims) ==
    /\ call.phase = "page"
    /\ LET s     == call.scope
           asked == IF deaf THEN NoCursor ELSE call.cursor
           page  == Page(s, asked)
           more  == claims \/ page # Remaining(s, asked)
           last  == CHOOSE t \in page : \A u \in page \ {t} : Ahead(s, u, t)
           pages == call.pages + 1
           got   == [call EXCEPT !.found = @ \union {<<s, t>> : t \in page},
                                 !.pages = pages, !.retries = 0]
       IN  CASE more /\ page = {} -> Answer("blocked")
             [] more /\ page # {} /\ CursorFor(s, last) \in call.seen -> Answer("blocked")
             [] more /\ page # {} /\ CursorFor(s, last) \notin call.seen /\ pages < MaxPages ->
                  call' = [got EXCEPT !.cursor = CursorFor(s, last),
                                      !.seen = @ \union {CursorFor(s, last)}]
             [] OTHER ->
                  call' = [got EXCEPT !.phase = "scope",
                                      !.partial = IF Exhausted(more, pages) THEN @ ELSE @ \union {s}]
    /\ UNCHANGED <<archived, stamp, moved, file>>

\* build_scope_receipts_inventory: every required scope, and each thread in one.
Listable == /\ CanonicalScopes(call.asked) \subseteq call.scopes
            /\ \A x, y \in call.found : x[2] = y[2] => x = y

\* The file is replaced in one rename; the answer says what the file says.
Write == /\ call.phase = "write"
         /\ IF call.asked = "none" \/ Listable
              THEN /\ file' = [listed |-> call.found, complete |-> call.partial = {}]
                   /\ Answer(IF call.partial = {} THEN "complete" ELSE "partial")
              ELSE /\ Answer("blocked")
                   /\ UNCHANGED file
         /\ UNCHANGED <<archived, stamp, moved>>

\* A process that dies leaves the file as it was.
Die == /\ call.phase \notin {"idle", "done"}
       /\ call' = [Idle EXCEPT !.phase = "done", !.result = "died"]
       /\ UNCHANGED <<archived, stamp, moved, file>>

Query == \/ Throttled \/ Refused \/ CheckKind \/ FetchActive \/ NextScope
         \/ \E deaf, claims \in BOOLEAN : FetchPage(deaf, claims)
         \/ Write
Next == \/ \E t \in Own : Archive(t) \/ Unarchive(t)
        \/ \E asked \in {"text", "forum", "none"}, scopes \in SUBSET Scopes : Start(asked, scopes)
        \/ Query
        \/ Die

Spec == Init /\ [][Next]_vars

-----------------------------------------------------------------------------
Calls ==
    [phase : {"idle", "kind", "active", "scope", "page", "write", "done"},
     asked : {"text", "forum", "none"}, scopes : SUBSET Scopes, left : SUBSET Scopes,
     scope : Scopes \union {"none"}, cursor : Nat, seen : SUBSET Nat, pages : 0..MaxPages,
     retries : 0..MaxRetries, found : SUBSET ((Scopes \union {"active"}) \X Own),
     partial : SUBSET Scopes,
     result : {"none", "complete", "partial", "blocked", "died"}]

TypeOK ==
    /\ archived \subseteq Own /\ moved \subseteq Own
    /\ stamp \in [Own -> Stamps] /\ call \in Calls
    /\ call.left \subseteq call.scopes /\ call.partial \subseteq call.scopes \ call.left
    /\ call.result # "none" <=> call.phase = "done"
    /\ file.listed \subseteq (Scopes \union {"active"}) \X Own

\* A listing that is answered as complete has every thread that did not move
\* during the call and shares its timestamp with no other, in the scope it
\* belongs to; for a parent's receipts no thread is in two scopes.
Untied(t) == \A u \in Own \ {t} : stamp[u] # stamp[t]
PlaceOf(s, t) == InScope(s, t) /\ (s = "active" <=> t \notin archived)
CompleteListsEverything ==
    call.result = "complete" =>
       LET parts == call.scopes \union (IF call.asked = "none" THEN {} ELSE {"active"})
       IN  /\ file.complete
           /\ \A s \in parts, t \in Own \ moved :
                 Untied(t) => (<<s, t>> \in file.listed <=> PlaceOf(s, t))
           /\ call.asked # "none" =>
                 \A x, y \in file.listed : x[2] = y[2] => x = y

\* Why it has: a thread that stands still and has a timestamp of its own among those
\* that are, or have been, archived is found in each scope that is finished and not cut
\* off, and in the scope that is being read unless it lies before the cursor.
Tied(t) == \E u \in (archived \union moved) \ {t} : stamp[u] = stamp[t]
Whole(s) == \A t \in Own \ moved : PlaceOf(s, t) /\ ~Tied(t) => <<s, t>> \in call.found
Finished == call.scopes \ (call.left \union {s \in {call.scope} : call.phase = "page"})

ScopesInOrder ==
    /\ call.phase \in {"kind", "active"} => call.left = call.scopes
    /\ call.phase = "page" => call.scope \in call.scopes \ call.left /\ call.pages < MaxPages
    /\ call.phase = "write" => call.left = {}

FoundSoFar ==
    call.phase \notin {"idle", "done"} =>
       /\ \A s \in Scopes \union {"active"}, t \in Own \ moved :
             <<s, t>> \in call.found => PlaceOf(s, t)
       /\ \A s \in Finished \ call.partial : Whole(s)
       /\ call.asked # "none" /\ call.phase \notin {"kind", "active"} => Whole("active")
       /\ call.phase = "page" /\ call.cursor # NoCursor =>
             \A t \in archived \ moved :
                InScope(call.scope, t) /\ ~Tied(t) =>
                   <<call.scope, t>> \in call.found \/ CursorFor(call.scope, t) < call.cursor

ListingInv == TypeOK /\ ScopesInOrder /\ FoundSoFar /\ CompleteListsEverything
=============================================================================
