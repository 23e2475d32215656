---------------------------------- MODULE MCScopes ----------------------------------
(* TestedScope for TLC: every request, decision, recommendation and feedback        *)
(* decision over three operations, two methods, two paths, two tags and two groups  *)
(* is tried, unknown and contradictory ids included.                                *)
EXTENDS TestedScope

MCOperations == 1..3
MCMethodOf   == <<"POST", "GET", "POST">>
MCPathOf     == <<"/coins", "/coins", "/nfts">>
MCTagsOf     == <<{"coins"}, {"coins", "market"}, {}>>
MCGroupOf    == <<"coins", "coins", "nfts">>
MCPlace      == <<2, 1, 3>>
MCIds        == {"coins", "nfts", "unknown"}

\* A reply that says all, and all those of some flags, numbers and names.
MCReplies ==
    {Reply(TRUE, FALSE, FALSE, FALSE, <<>>, {}, {})}
    \cup { Reply(FALSE, accepts, excludes, groupWord, numbers, groups, operations) :
             accepts \in BOOLEAN, excludes \in BOOLEAN, groupWord \in BOOLEAN,
             numbers \in {<<>>, <<2>>, <<5>>, <<1, 3>>, <<3, 1>>},
             groups \in SUBSET {"coins", "nfts"}, operations \in {{}, {1}, {2, 3}} }

\* The model may select anything; the words matter when nothing is left of it.
MCRepliesToModel ==
    { Reply(FALSE, FALSE, FALSE, FALSE, <<>>, groups, {}) : groups \in {{}, {"coins"}} }
=============================================================================
