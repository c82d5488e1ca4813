------------------------------ MODULE ClvSearch ------------------------------
(***************************************************************************)
(* The searches of the log-text index (lib/clvIndex/clvSearch.go).         *)
(*                                                                         *)
(* CLVSearchIndex chooses, by the kind of the query, of the index and of   *)
(* the dictionary, one of six searches and hands it the roots of the       *)
(* dictionary and of the index of that kind.  The match search of the      *)
(* token index is the one of module TokenMatchSearch, and runs here on the *)
(* tree CLVSearchIndex hands it; the other five are known by their answer  *)
(* only.                                                                   *)
(***************************************************************************)
EXTENDS TokenMatchSearch

CONSTANTS
    IndexNodes,     \* the token trees of an index node, by kind of dictionary
    Answers         \* what a search other than the token match may answer

\* QuerySearch
MATCHSEARCH == 0
FUZZYSEARCH == 1
REGEXSEARCH == 2

QuerySearches == {MATCHSEARCH, FUZZYSEARCH, REGEXSEARCH, 3}
ClvTypes      == {"VGRAM", "VTOKEN", "other"}
DicTypes      == {"CLVC", "CLVL", "other"}

VARIABLES
    index,      \* the index node of the call
    called      \* the search CLVSearchIndex called last, with its roots

vars == <<index, called, searchVars>>

-----------------------------------------------------------------------------
\* A root of the dictionary or of the index node: Vgram or Vtoken, of the
\* dictionary kind.
Root(family, dicType) == [family |-> family, dicType |-> dicType]

NoRoot == Root("none", "none")
NoCall == [fn |-> "none", dic |-> NoRoot, index |-> NoRoot]

\* The body the six searches share: a call for CLVC and one for CLVL, each
\* with the roots of its kind, and the empty result for any other kind.
Search(dicType, fn, dicFamily, indexFamily) ==
    IF dicType \in {"CLVC", "CLVL"}
    THEN [fn |-> fn,
          dic |-> IF dicFamily = "none" THEN NoRoot
                  ELSE Root(dicFamily, dicType),
          index |-> Root(indexFamily, dicType)]
    ELSE NoCall

MatchSearchVGramIndex(dicType) ==
    Search(dicType, "gramMatchQuery.MatchSearch", "Vgram", "Vgram")

\* mutant: the index root of the other kind of dictionary
MatchSearchVTokenIndex_OtherIndex(dicType) ==
    [Search(dicType, "tokenMatchQuery.MatchSearch", "Vtoken", "Vtoken")
        EXCEPT !.index = Root("Vtoken",
                              IF dicType = "CLVC" THEN "CLVL" ELSE "CLVC")]

MatchSearchVTokenIndex(dicType) ==
    Search(dicType, "tokenMatchQuery.MatchSearch", "Vtoken", "Vtoken")

FuzzySearchVGramIndex(dicType) ==
    Search(dicType, "gramFuzzyQuery.FuzzyQueryGramQmaxTrie", "Vgram", "Vgram")

FuzzySearchVTokenIndex(dicType) ==
    Search(dicType, "tokenFuzzyQuery.FuzzySearchComparedWithES", "none",
           "Vtoken")

RegexSearchVGramIndex(dicType) ==
    Search(dicType, "gramRegexQuery.RegexSearch", "Vgram", "Vgram")

RegexSearchVTokenIndex(dicType) ==
    Search(dicType, "tokenRegexQuery.RegexSearch", "none", "Vtoken")

\* CLVSearchIndex: the search of the query's kind for the index's kind; a
\* kind it does not know gets no search and the nil result.
CLVSearchIndex(clvType, dicType, querySearch) ==
    CASE querySearch = MATCHSEARCH /\ clvType = "VGRAM" ->
            MatchSearchVGramIndex(dicType)
      [] querySearch = MATCHSEARCH /\ clvType = "VTOKEN" ->
            MatchSearchVTokenIndex(dicType)
      [] querySearch = FUZZYSEARCH /\ clvType = "VGRAM" ->
            FuzzySearchVGramIndex(dicType)
      [] querySearch = FUZZYSEARCH /\ clvType = "VTOKEN" ->
            FuzzySearchVTokenIndex(dicType)
      [] querySearch = REGEXSEARCH /\ clvType = "VGRAM" ->
            RegexSearchVGramIndex(dicType)
      [] querySearch = REGEXSEARCH /\ clvType = "VTOKEN" ->
            RegexSearchVTokenIndex(dicType)
      [] OTHER -> NoCall

TokenMatch == "tokenMatchQuery.MatchSearch"

-----------------------------------------------------------------------------
ClvInit ==
    /\ index \in IndexNodes
    /\ called = NoCall
    /\ Init

\* A query that CLVSearchIndex takes to the match search of the token
\* index: MatchSearch starts on the token tree of the dictionary's kind.
CallTokenMatch ==
    \E clvType \in ClvTypes, dicType \in DicTypes, querySearch \in QuerySearches :
        LET c == CLVSearchIndex(clvType, dicType, querySearch)
        IN  /\ c.fn = TokenMatch
            /\ called' = c
            /\ \E vg \in VgMaps, indexNode \in {index[c.index.dicType]} :
                    MatchSearch(vg, indexNode)
            /\ UNCHANGED index

\* Any other query: the answer of the search it is taken to, or the empty
\* result where there is none.  Nothing is left of an earlier MatchSearch.
CallOther ==
    /\ pc \in {"idle", "returned"}
    /\ \E clvType \in ClvTypes, dicType \in DicTypes, querySearch \in QuerySearches :
         LET c == CLVSearchIndex(clvType, dicType, querySearch)
         IN /\ c.fn # TokenMatch
            /\ called' = c
            /\ res' \in IF c = NoCall THEN {<<>>} ELSE Answers
    /\ pc' = "returned"
    /\ indexRoot' = NoTree
    /\ vgMap' = <<>>
    /\ sortSumInvertList' = <<>>
    /\ m' = 0
    /\ resArr' = <<>>
    /\ preSeaPosition' = 0
    /\ preInverPositionDis' = <<>>
    /\ nowInverPositionDis' = <<>>
    /\ UNCHANGED index

ClvNext ==
    \/ CallTokenMatch
    \/ CallOther
    \/ Lookup /\ UNCHANGED <<index, called>>
    \/ SortBySize /\ UNCHANGED <<index, called>>
    \/ FirstList /\ UNCHANGED <<index, called>>
    \/ NextList /\ UNCHANGED <<index, called>>
    \/ Return /\ UNCHANGED <<index, called>>

ClvSpec == ClvInit /\ [][ClvNext]_vars

-----------------------------------------------------------------------------
Roots == [family : {"Vgram", "Vtoken", "none"}, dicType : DicTypes \cup {"none"}]

TypeOK ==
    /\ SearchTypeOK
    /\ \A dicType \in DOMAIN index : IsTree(index[dicType])
    /\ called.fn \in STRING
    /\ called.dic \in Roots /\ called.index \in Roots

\* A token match loses no match of its dictionary: VGCons cuts the search
\* string by the dictionary of the query's kind, and the series that hold
\* those grams at their offsets in the token tree of the same kind are
\* returned, whatever the order in which MatchSearch's range over vgMap and
\* its sort by size put the grams, and although it compares the positions
\* of only two grams at a time, in uint16.
MatchesOfTheDictionaryAreReturned ==
    called.fn = TokenMatch => AlignedAreReturned(index[called.dic.dicType])

=============================================================================
