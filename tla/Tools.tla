-------------------------------- MODULE Tools --------------------------------
(***************************************************************************)
(* What an operator calls around the stores: the process runner, the gate  *)
(* of a reply's context, the pipeline from draft to closeout, the preflight*)
(* before a human sends, the listings of archived threads, one for each    *)
(* parent channel, and the choice of a read route.  part says which of     *)
(* them a behaviour is one of; the variables of the others stay Nothing,   *)
(* those of the pipeline as they begin.                                    *)
(***************************************************************************)
EXTENDS SendPipeline

CONSTANTS
    OutputLimit, DrainLimit, PipeSize, MaxOutput,   \* of the process runner
    Minimum, Step, Maximum, MaxThread,              \* of the reply's context
    MaxBreaks,                                      \* of the preflight
    Listings,   \* the constants of each listing, by its name
    MaxMessage, Limit, RestPage, Attempts, Tabs     \* of the read routes

VARIABLES
    part,
    child, heir, orphaned, writing, written, pipe, reader, size,
    limit_reached, timed, expired, step, failure,
    length, open, keyed, newest_first, rooted, limit,
    attachment, browser, webhook, breaks,
    archived, stamp, moved, call, file,
    channel, newest, route, fetch, raw, manifest, tab,
    target, answer, drafted

processVars == <<child, heir, orphaned, writing, written, pipe, reader, size,
                  limit_reached, timed, expired, step, failure>>
contextVars == <<length, open, keyed, newest_first, rooted, limit>>
preflightVars == <<attachment, browser, webhook, breaks>>
listingVars == <<archived, stamp, moved, call, file>>
routesVars == <<channel, newest, route, fetch, raw, manifest, tab>>
allVars == <<part, processVars, contextVars, vars, preflightVars, listingVars,
             routesVars, target, answer, drafted>>

NoProcess ==
    /\ child = Nothing /\ heir = Nothing /\ orphaned = Nothing
    /\ writing = Nothing /\ written = Nothing /\ pipe = Nothing
    /\ reader = Nothing /\ size = Nothing /\ limit_reached = Nothing
    /\ timed = Nothing /\ expired = Nothing /\ step = Nothing
    /\ failure = Nothing
NoContext ==
    /\ length = Nothing /\ open = Nothing /\ keyed = Nothing
    /\ newest_first = Nothing /\ rooted = Nothing /\ limit = Nothing
NoSend == Init /\ draft = CHOOSE text \in Draft : TRUE
NoPreflight ==
    /\ attachment = Nothing /\ browser = Nothing /\ webhook = Nothing
    /\ breaks = Nothing
NoListing ==
    /\ archived = Nothing /\ stamp = Nothing /\ moved = Nothing
    /\ call = Nothing /\ file = Nothing
NoRoutes ==
    /\ channel = Nothing /\ newest = Nothing /\ route = Nothing
    /\ fetch = Nothing /\ raw = Nothing /\ manifest = Nothing /\ tab = Nothing

------------------------------------------------------------------------------

Process == INSTANCE ProcessRunner
Context == INSTANCE ReplyContext
Preflight == INSTANCE SendPreflight WITH draft <- drafted

Listing(k) == INSTANCE ArchiveInventory WITH
    Threads <- Listings[k].threads, Own <- Listings[k].own,
    Private <- Listings[k].private, Joined <- Listings[k].joined,
    ParentKind <- Listings[k].kind, PageSize <- Listings[k].page_size,
    MaxPages <- Listings[k].max_pages, MaxRetries <- Listings[k].max_retries,
    Stamps <- Listings[k].stamps, MaxMoves <- Listings[k].max_moves

Routes == INSTANCE ReadRoutes WITH PageSize <- RestPage, None <- Nothing

ASSUME ToolsAssumption ==
    /\ SendAssumption /\ SendNothingAssumption
    /\ Process!RunnerAssumption /\ Context!ContextAssumption
    /\ DOMAIN Listings \cap {"process", "context", "send", "preflight", "routes"} = {}
    /\ \A k \in DOMAIN Listings : Listing(k)!ListingAssumption
    /\ Routes!RoutesAssumption

------------------------------------------------------------------------------
AnyInit ==
    \/ /\ part = "process" /\ Process!Init
       /\ NoContext /\ NoSend /\ NoPreflight /\ NoListing /\ NoRoutes
       /\ target = Nothing /\ answer = Nothing /\ drafted = Nothing
    \/ /\ part = "context" /\ Context!Init
       /\ NoProcess /\ NoSend /\ NoPreflight /\ NoListing /\ NoRoutes
       /\ drafted = Nothing
    \/ /\ part = "send" /\ Init
       /\ NoProcess /\ NoContext /\ NoPreflight /\ NoListing /\ NoRoutes
       /\ target = Nothing /\ answer = Nothing /\ drafted = Nothing
    \/ /\ part = "preflight" /\ Preflight!Init
       /\ NoProcess /\ NoContext /\ NoSend /\ NoListing /\ NoRoutes
    \/ /\ \E k \in DOMAIN Listings : part = k /\ Listing(k)!Init
       /\ NoProcess /\ NoContext /\ NoSend /\ NoPreflight /\ NoRoutes
       /\ target = Nothing /\ answer = Nothing /\ drafted = Nothing
    \/ /\ part = "routes" /\ Routes!Init
       /\ NoProcess /\ NoContext /\ NoSend /\ NoPreflight /\ NoListing
       /\ target = Nothing /\ answer = Nothing /\ drafted = Nothing

BesideProcess == <<part, contextVars, vars, preflightVars, listingVars, routesVars,
                   target, answer, drafted>>
BesideContext == <<part, processVars, vars, preflightVars, listingVars, routesVars,
                   drafted>>
BesideSend == <<part, processVars, contextVars, preflightVars, listingVars, routesVars,
                target, answer, drafted>>
BesidePreflight == <<part, processVars, contextVars, vars, listingVars, routesVars>>
BesideListing == <<part, processVars, contextVars, vars, preflightVars, routesVars,
                   target, answer, drafted>>
BesideRoutes == <<part, processVars, contextVars, vars, preflightVars, listingVars,
                  target, answer, drafted>>

AnyNext ==
    \/ part = "process" /\ Process!Next /\ UNCHANGED BesideProcess
    \/ part = "context" /\ Context!Next /\ UNCHANGED BesideContext
    \/ part = "send" /\ Next /\ UNCHANGED BesideSend
    \/ part = "preflight" /\ Preflight!Next /\ UNCHANGED BesidePreflight
    \/ \E k \in DOMAIN Listings :
           part = k /\ Listing(k)!Next /\ UNCHANGED BesideListing
    \/ part = "routes" /\ Routes!Next /\ UNCHANGED BesideRoutes

\* The fairness of each component, over its own variables: the process runner's
\* threads, caller and clock, and the child of a run without a deadline; the operator
\* of the two gates; the decider and its timeout.
Fairness ==
    /\ (part = "process" => timed)
         \/ WF_allVars(part = "process" /\ Process!Child /\ UNCHANGED BesideProcess)
    /\ WF_allVars(part = "process" /\ Process!Caller /\ UNCHANGED BesideProcess)
    /\ WF_allVars(part = "process" /\ Process!DeadlinePasses /\ UNCHANGED BesideProcess)
    /\ \A s \in Process!Stream :
           WF_allVars(part = "process" /\ Process!Thread(s) /\ UNCHANGED BesideProcess)
    /\ WF_allVars(part = "context" /\ Context!FetchAndAsk /\ UNCHANGED BesideContext)
    /\ WF_allVars(part = "preflight" /\ Preflight!Ask /\ UNCHANGED BesidePreflight)
    /\ WF_allVars(part = "preflight" /\ Preflight!Act /\ UNCHANGED BesidePreflight)
    /\ WF_allVars(part = "routes" /\ Routes!Decider /\ UNCHANGED BesideRoutes)
    /\ WF_allVars(part = "routes" /\ Routes!Timeout /\ UNCHANGED BesideRoutes)

AnySpec == AnyInit /\ [][AnyNext]_allVars /\ Fairness

------------------------------------------------------------------------------
\* What a call returns as whole is whole, whatever raced, was killed, throttled or
\* moved: a run without failure has all the child wrote; a listing called complete
\* has every thread that stood still, in its scope; after "rest" the raw file and the
\* manifest are of one attempt with every message that stayed, unless an answer that is
\* no page of messages ended it, and a browser comes after every other route; and the
\* gate of a reply's context opens on both anchors, enough before them and nothing
\* unresolved (process_runner.run_process, archive_inventory.py,
\* discord_route_retry_decider.py, discord_rest_backfill.py,
\* core.build_reply_context_gate).  Types: those of all parts.
AnswersAreWhole ==
    /\ TypeOK
    /\ part = "process" => Process!TypeOK /\ Process!SuccessIsWhole
    /\ part = "context" => Context!TypeOK /\ Context!ReadyMeansContext
    /\ \A k \in DOMAIN Listings :
           part = k => Listing(k)!TypeOK /\ Listing(k)!CompleteListsEverything
    /\ part = "routes" => Routes!TypeOK /\ Routes!RestPairIsWhole /\ Routes!BrowserIsLast

\* Every call comes to an end: a run of a process, unless a descendant that was not
\* killed holds its pipes; the rounds of fetching a reply's context; the advice of the
\* preflight, which leads to a send; the decision for a read route.
EveryCallEnds ==
    /\ <>(part = "process" => step = "return" \/ orphaned)
    /\ (part = "context" /\ answer = Nothing) ~> (part = "context" => Context!Decided)
    /\ []<>(part = "preflight" => answer # Nothing /\ answer.ready)
    /\ <>(part = "routes" => route.at = "done")
==============================================================================
