------------------------------- MODULE MCTools -------------------------------
(***************************************************************************)
(* Values for TLC of the constants of Tools that a configuration cannot    *)
(* write down.                                                             *)
(***************************************************************************)
EXTENDS Tools, TLC

CONSTANTS
    d1, d2     \* texts: a risky one, and one that misses a premise

\* The risky text fits into one message only without its notice, the other one into no
\* two messages.
Lengths == d1 :> 3 @@ d2 :> 5

\* A text channel with a private thread the bot has joined; a forum, whose threads
\* are public and more than the page limit allows.
Channels ==
    "text listing" :>
        [threads |-> 1..3, own |-> 1..2, private |-> {2}, joined |-> {2}, kind |-> "text",
         page_size |-> 1, max_pages |-> 2, max_retries |-> 1, stamps |-> 1..2,
         max_moves |-> 1]
    @@ "forum listing" :>
        [threads |-> 1..4, own |-> 1..3, private |-> {}, joined |-> {}, kind |-> "forum",
         page_size |-> 1, max_pages |-> 2, max_retries |-> 0, stamps |-> 1..3,
         max_moves |-> 1]

Tab(place, handle) == [place |-> place, handle |-> handle]
OpenTabs == {Tab("target", FALSE), Tab("target", TRUE), Tab("guild", TRUE)}
==============================================================================
