----------------------------- MODULE MCClvSearch -----------------------------
(***************************************************************************)
(* ClvSearch for TLC: token trees of the grams "a", "b" and "a b" over two *)
(* series, with every choice of their inverted lists from a small family,  *)
(* and eight search strings.                                               *)
(***************************************************************************)
EXTENDS ClvSearch, TLC

MCSids == {[Id |-> 1, Time |-> 1], [Id |-> 2, Time |-> 2]}

MCTokens == {"a", "b", "c"}

\* "b" and "c" have the same hash code.
MCHash == [token \in MCTokens |-> IF token = "a" THEN 1 ELSE 2]

\* Node 0 is the root, 1 the node of "a", 2 of "b" and 3 of "a b"; the
\* positions of "b" are also those of "a b" moved by one.
MCNodes == 0 .. 3

MCChildren ==
    [n \in MCNodes |->
        CASE n = 0 -> (1 :> 1 @@ 2 :> 2)
          [] n = 1 -> (2 :> 3)
          [] OTHER -> <<>>]

MCAddrOffset == [n \in MCNodes |-> IF n = 2 THEN (3 :> 1) ELSE <<>>]

\* The positions of a gram in a series: none, the first, or two that are
\* two apart.
MCLists == {{}, {0}, {1, 3}}

MCTrees ==
    {[root |-> 0, children |-> MCChildren, addrOffset |-> MCAddrOffset,
      invertedIndex |-> [n \in MCNodes |-> IF n = 0 THEN NoList ELSE lists[n]]] :
        lists \in [1 .. 3 -> [MCSids -> MCLists]]}
    \cup {NoTree}

\* The tree of the other kind of dictionary holds the lists of the one
\* series for the other.
OtherSid(sid) == CHOOSE other \in MCSids : other # sid

Partner(t) ==
    [t EXCEPT !.invertedIndex =
        [n \in MCNodes |-> [sid \in MCSids |-> t.invertedIndex[n][OtherSid(sid)]]]]

MCIndexNodes == {[CLVC |-> t, CLVL |-> Partner(t)] : t \in MCTrees}

\* No gram; one gram; two grams side by side; three grams, each beside the
\* next; two grams three apart; a gram the tree has no path for; a gram of
\* a token that shares its hash code; a gram and an offset without one.
MCVgMaps ==
    {<<>>,
     (0 :> <<"a">>),
     (0 :> <<"a">> @@ 1 :> <<"b">>),
     (0 :> <<"a", "b">> @@ 1 :> <<"b">> @@ 2 :> <<"a">>),
     (0 :> <<"b">> @@ 3 :> <<"a">>),
     (0 :> <<"a", "a">>),
     (0 :> <<"c">> @@ 1 :> <<"a">>),
     (1 :> <<"b">> @@ 2 :> Nil)}

MCAnswers == {<<>>, <<[Id |-> 1, Time |-> 1]>>}

-----------------------------------------------------------------------------
\* A second instance, for the order of the result: three series of which
\* one is neither before nor after the other two, in trees where only the
\* list of "a" varies.
MCSortSids ==
    {[Id |-> 2, Time |-> 2], [Id |-> 0, Time |-> 5], [Id |-> 1, Time |-> 1]}

MCSortTrees ==
    {[root |-> 0, children |-> MCChildren, addrOffset |-> MCAddrOffset,
      invertedIndex |->
        [n \in MCNodes |->
            IF n = 1 THEN lists ELSE [sid \in MCSortSids |-> {}]]] :
        lists \in [MCSortSids -> {{}, {0}}]}

MCSortIndexNodes == {[CLVC |-> t, CLVL |-> t] : t \in MCSortTrees}

=============================================================================
