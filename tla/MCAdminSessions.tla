-------------------------- MODULE MCAdminSessions --------------------------
(* Two tabs of one browser, two users who log in from either, and a store  *)
(* with room for two sessions.                                             *)
EXTENDS AdminSessions

CONSTANTS t1, t2

MCTabs == {t1, t2}

MCBrowser == [t \in MCTabs |-> "browser"]

MCSymmetry == Permutations(MCTabs)

Group(namespace, letters) == [namespace |-> namespace, letters |-> letters]

MCDirectory ==
    [ann |-> {Group("team", <<"r", "c", "d">>), Group("lab", <<"w">>)},
     bob |-> {AllBucketsReadGroup, Group("lab", <<"c", "x">>)}]

MCBuckets == {<<"team", "x">>, <<"lab", "x">>}

MCReservedTopics == {<<"team", "all">>}

MCTypedSuffixes == {<<"x">>, <<"team", "x">>, <<"", "x", "">>, <<"team", "">>}
=============================================================================
