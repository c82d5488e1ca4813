-------------------------- MODULE TokenMatchSearch --------------------------
(***************************************************************************)
(* The match search of the token index                                     *)
(* (lib/vToken/tokenTextSearch/tokenMatchQuery/matchSearch.go).            *)
(*                                                                         *)
(* MatchSearch gets the grams of the search string, each at its offset in  *)
(* the string, looks up the inverted list of every gram in the index tree, *)
(* sorts the lists by the number of their series and then walks them: the  *)
(* series of the shortest list are the candidates, and a candidate stays   *)
(* while the next gram stands in it as far from the gram before as it does *)
(* in the search string.                                                   *)
(*                                                                         *)
(* Data.  A token is known to the tree by its hash code.  An inverted list *)
(* is a function from the series to the set of the positions: the code's   *)
(* map lacks a series where the function gives the empty set, and its      *)
(* slices of positions, which it sorts and frees of duplicates on every    *)
(* merge, only ever serve the question whether a position is in them.      *)
(* Positions and offsets are uint16 in the code and PosBits wide here.     *)
(***************************************************************************)
EXTENDS Integers, Sequences, FiniteSets, SequencesExt

CONSTANTS
    Sids,       \* the series: records of Id and Time (utils.SeriesId)
    Tokens,     \* the tokens of logs and search strings
    Hash,       \* utils.StringToHashCode
    Nodes,      \* the nodes of index trees
    Nil,        \* the nil node
    PosBits,    \* the width of a position
    VgMaps      \* the outcomes of tokenIndex.VGCons: grams, or Nil, by offset

ASSUME PosBits \in Nat /\ Nil \notin Nodes /\ Hash \in [Tokens -> Int]

VARIABLES
    indexRoot,              \* the tree MatchSearch was called with
    vgMap,                  \* the grams of the search string by offset
    sortSumInvertList,      \* the SortKeys, one for each gram looked up
    m,                      \* the loop over sortSumInvertList
    resArr,                 \* the candidates
    preSeaPosition,         \* the offset of the gram before
    preInverPositionDis,    \* its positions in each candidate
    nowInverPositionDis,    \* the positions of the gram at hand
    pc,                     \* "idle", "lookup", "merge" or "returned"
    res                     \* what MatchSearch returned

searchVars == <<indexRoot, vgMap, sortSumInvertList, m, resArr,
                preSeaPosition, preInverPositionDis, nowInverPositionDis,
                pc, res>>

Width == 2 ^ PosBits
Pos   == 0 .. Width - 1

\* The sum and the difference of two uint16.
Plus(a, b)  == (a + b) % Width
Minus(a, b) == (a - b + Width) % Width

\* The inverted list of no series: a nil map or an empty one.
NoList == [sid \in Sids |-> {}]

Series(invertIndex) == {sid \in Sids : invertIndex[sid] # {}}

-----------------------------------------------------------------------------
(* The lookup of a gram.                                                   *)

HasChild(t, node, token) == Hash[token] \in DOMAIN t.children[node]
Child(t, node, token)    == t.children[node][Hash[token]]

\* SearchInvertedListFromCurrentNode: down the tree along the tokens of the
\* gram; the node of the last token gives its list and itself.  A path that
\* ends early gives what was passed in.
RECURSIVE SearchInvertedListFromCurrentNode(_, _, _, _, _)
SearchInvertedListFromCurrentNode(t, tokenArr, node, i, found) ==
    CASE node = Nil -> found
      [] node # Nil /\ i < Len(tokenArr) /\ HasChild(t, node, tokenArr[i]) ->
            SearchInvertedListFromCurrentNode(
                t, tokenArr, Child(t, node, tokenArr[i]), i + 1, found)
      [] node # Nil /\ i = Len(tokenArr) /\ HasChild(t, node, tokenArr[i]) ->
            [invertIndex |-> t.invertedIndex[Child(t, node, tokenArr[i])],
             indexNode |-> Child(t, node, tokenArr[i])]
      [] OTHER -> found

\* MergeMapsInvertLists, with UniqueArr and DeepCopy: the series of both
\* maps, a series of both with the positions of both.
MergeMapsInvertLists(map1, map2) ==
    [sid \in Sids |-> map1[sid] \cup map2[sid]]

\* MergeMapsTwoInvertLists: the same merge, written into the larger map.
MergeMapsTwoInvertLists(map1, map2) == MergeMapsInvertLists(map1, map2)

\* The list of TurnAddr2InvertLists for one node: every position moved by
\* the offset, in uint16.
moved(t, addr, offset) ==
    [sid \in Sids |-> {Plus(p, offset) : p \in t.invertedIndex[addr][sid]}]

\* TurnAddr2InvertLists: the moved lists of the nodes addrOffset names,
\* merged one after the other.
RECURSIVE TurnAddr2InvertLists(_, _, _)
TurnAddr2InvertLists(t, addrOffset, merged) ==
    IF DOMAIN addrOffset = {}
    THEN merged
    ELSE TurnAddr2InvertLists(
            t,
            Restrict(addrOffset, DOMAIN addrOffset \
                        {CHOOSE addr \in DOMAIN addrOffset : TRUE}),
            MergeMapsTwoInvertLists(
                moved(t, CHOOSE addr \in DOMAIN addrOffset : TRUE,
                      addrOffset[CHOOSE addr \in DOMAIN addrOffset : TRUE]),
                merged))

\* SearchInvertedListFromChildrensOfCurrentNode: the list and the moved
\* lists of every node below indexNode, merged into invertIndex2.
RECURSIVE SearchInvertedListFromChildrensOfCurrentNode(_, _, _)
SearchInvertedListFromChildrensOfCurrentNode(t, indexNode, invertIndex2) ==
    IF indexNode = Nil
    THEN invertIndex2
    ELSE [sid \in Sids |->
            invertIndex2[sid] \cup UNION {
                t.invertedIndex[child][sid]
                    \cup TurnAddr2InvertLists(t, t.addrOffset[child], NoList)[sid]
                    \cup SearchInvertedListFromChildrensOfCurrentNode(
                             t, child, NoList)[sid] :
                child \in Range(t.children[indexNode])}]

\* The body of MatchSearch's first loop, from what the lookup found: the
\* list of the gram's node, the lists below it and the moved lists of the
\* node.
sumInvertList(t, found) ==
    MergeMapsInvertLists(
        IF found.indexNode # Nil
        THEN TurnAddr2InvertLists(t, t.addrOffset[found.indexNode], NoList)
        ELSE NoList,
        MergeMapsInvertLists(
            SearchInvertedListFromChildrensOfCurrentNode(
                t, found.indexNode, NoList),
            found.invertIndex))

NewSortKey(offset, tokenArr, invertedIndex) ==
    [offset |-> offset, sizeOfInvertedList |-> Cardinality(Series(invertedIndex)),
     tokenArr |-> tokenArr, invertedIndex |-> invertedIndex]

-----------------------------------------------------------------------------
(* sort.SliceStable: on slices this short an insertion sort.  less is a    *)
(* function of two elements.                                               *)

swap(s, i, j) == [s EXCEPT ![i] = s[j], ![j] = s[i]]

RECURSIVE sink(_, _, _)
sink(s, j, less) ==
    IF j > 1 /\ less[s[j], s[j - 1]]
    THEN sink(swap(s, j, j - 1), j - 1, less)
    ELSE s

RECURSIVE insertionSort(_, _, _)
insertionSort(s, i, less) ==
    IF i > Len(s) THEN s ELSE insertionSort(sink(s, i, less), i + 1, less)

SliceStable(s, less) == insertionSort(s, 2, less)

\* The less of the first sort, by the number of series of the lists.
lessBySize(s) ==
    [a \in ToSet(s), b \in ToSet(s) |->
        a.sizeOfInvertedList < b.sizeOfInvertedList]

\* The less of the second sort: a smaller Id and a smaller Time.
lessByIdAndTime(s) ==
    [a \in ToSet(s), b \in ToSet(s) |-> a.Id < b.Id /\ a.Time < b.Time]

-----------------------------------------------------------------------------
(* The walk over the candidates.                                           *)

\* The two inner loops: some position of the gram before and some position
\* of this gram are as far apart as the grams in the search string.
findFlag(prePos, nowPos, distance) ==
    \E z1Pos \in prePos, z2Pos \in nowPos : distance = Minus(z2Pos, z1Pos)

\* mutant: the slice of the positions of now is not cut
dropCandidate_KeepsNow(c, j) ==
    [resArr |-> RemoveAt(c.resArr, j), pre |-> RemoveAt(c.pre, j),
     now |-> c.now]

\* The three appends that cut index j out of resArr and of both slices of
\* positions.
dropCandidate(c, j) ==
    [resArr |-> RemoveAt(c.resArr, j), pre |-> RemoveAt(c.pre, j),
     now |-> RemoveAt(c.now, j)]

\* mutant: no j-- after a cut, the loop moves on
RECURSIVE candidates_SkipAfterDelete(_, _, _, _)
candidates_SkipAfterDelete(c, j, invertIndex, distance) ==
    IF j > Len(c.resArr)
    THEN c
    ELSE IF /\ invertIndex[c.resArr[j]] # {}
            /\ findFlag(c.pre[j], invertIndex[c.resArr[j]], distance)
         THEN candidates_SkipAfterDelete(
                  [c EXCEPT !.now[j] = invertIndex[c.resArr[j]]],
                  j + 1, invertIndex, distance)
         ELSE candidates_SkipAfterDelete(
                  dropCandidate(c, j), j + 1, invertIndex, distance)

\* The loop over resArr for a gram after the first: a candidate the gram
\* has a list for takes the list as its positions of now; one without a
\* list, or with no positions at the distance, is cut out of the three
\* slices and the loop looks at the same index again.
RECURSIVE candidates(_, _, _, _)
candidates(c, j, invertIndex, distance) ==
    IF j > Len(c.resArr)
    THEN c
    ELSE IF /\ invertIndex[c.resArr[j]] # {}
            /\ findFlag(c.pre[j], invertIndex[c.resArr[j]], distance)
         THEN candidates([c EXCEPT !.now[j] = invertIndex[c.resArr[j]]],
                         j + 1, invertIndex, distance)
         ELSE candidates(dropCandidate(c, j), j, invertIndex, distance)

-----------------------------------------------------------------------------
(* MatchSearch, step by step.                                              *)

\* A tree without a root.
NoTree ==
    [root |-> Nil, children |-> [n \in Nodes |-> <<>>],
     invertedIndex |-> [n \in Nodes |-> NoList],
     addrOffset |-> [n \in Nodes |-> <<>>]]

\* Before the first call.
Init ==
    /\ indexRoot = NoTree
    /\ vgMap = <<>>
    /\ sortSumInvertList = <<>>
    /\ m = 0
    /\ resArr = <<>>
    /\ preSeaPosition = 0
    /\ preInverPositionDis = <<>>
    /\ nowInverPositionDis = <<>>
    /\ pc = "idle"
    /\ res = <<>>

\* MatchSearch is called: DataProcess and VGCons give the grams.
MatchSearch(vg, t) ==
    /\ pc \in {"idle", "returned"}
    /\ indexRoot' = t
    /\ vgMap' = vg
    /\ sortSumInvertList' = <<>>
    /\ m' = 0
    /\ resArr' = <<>>
    /\ preSeaPosition' = 0
    /\ preInverPositionDis' = <<>>
    /\ nowInverPositionDis' = <<>>
    /\ pc' = "lookup"
    /\ res' = <<>>

\* The offsets that hold a gram: the first loop passes over a nil one.
grams == {x \in DOMAIN vgMap : vgMap[x] # Nil}

lookedUp == {sortSumInvertList[k].offset : k \in DOMAIN sortSumInvertList}

\* One round of the first loop for an offset with a gram; the range over
\* vgMap takes the offsets in any order.
Lookup ==
    /\ pc = "lookup"
    /\ \E x \in grams \ lookedUp :
         sortSumInvertList' = Append(sortSumInvertList,
            NewSortKey(x, vgMap[x],
                sumInvertList(indexRoot,
                    SearchInvertedListFromCurrentNode(
                        indexRoot, vgMap[x], indexRoot.root, 1,
                        [invertIndex |-> NoList, indexNode |-> Nil]))))
    /\ UNCHANGED <<indexRoot, vgMap, m, resArr, preSeaPosition,
                   preInverPositionDis, nowInverPositionDis, pc, res>>

\* The first sort.
SortBySize ==
    /\ pc = "lookup"
    /\ grams = lookedUp
    /\ sortSumInvertList' =
            SliceStable(sortSumInvertList, lessBySize(sortSumInvertList))
    /\ pc' = "merge"
    /\ UNCHANGED <<indexRoot, vgMap, m, resArr, preSeaPosition,
                   preInverPositionDis, nowInverPositionDis, res>>

\* m == 0: the series of the shortest list are the candidates, in the order
\* of the range over the map; at the end of the round the positions of now
\* are copied to those of before.
FirstList ==
    /\ pc = "merge"
    /\ m = 0 /\ m < Len(sortSumInvertList)
    /\ \E order \in SetToSeqs(Series(sortSumInvertList[1].invertedIndex)) :
         /\ resArr' = order
         /\ nowInverPositionDis' =
                [j \in DOMAIN order |->
                    sortSumInvertList[1].invertedIndex[order[j]]]
    /\ preInverPositionDis' = nowInverPositionDis'
    /\ preSeaPosition' = sortSumInvertList[1].offset
    /\ m' = 1
    /\ UNCHANGED <<indexRoot, vgMap, sortSumInvertList, pc, res>>

\* m > 0: the loop over the candidates, and the same end of the round.
NextList ==
    /\ pc = "merge"
    /\ m > 0 /\ m < Len(sortSumInvertList)
    /\ \E c \in {candidates(
                    [resArr |-> resArr, pre |-> preInverPositionDis,
                     now |-> nowInverPositionDis],
                    1, sortSumInvertList[m + 1].invertedIndex,
                    Minus(sortSumInvertList[m + 1].offset, preSeaPosition))} :
         /\ resArr' = c.resArr
         /\ nowInverPositionDis' = c.now
         /\ preInverPositionDis' = c.now
    /\ preSeaPosition' = sortSumInvertList[m + 1].offset
    /\ m' = m + 1
    /\ UNCHANGED <<indexRoot, vgMap, sortSumInvertList, pc, res>>

\* The second sort and the return.
Return ==
    /\ pc = "merge"
    /\ m = Len(sortSumInvertList)
    /\ res' = SliceStable(resArr, lessByIdAndTime(resArr))
    /\ pc' = "returned"
    /\ UNCHANGED <<indexRoot, vgMap, sortSumInvertList, m, resArr,
                   preSeaPosition, preInverPositionDis, nowInverPositionDis>>

-----------------------------------------------------------------------------
InvertedLists == [Sids -> SUBSET Pos]

SortKeys ==
    [offset : Pos, sizeOfInvertedList : 0 .. Cardinality(Sids),
     tokenArr : Seq(Tokens), invertedIndex : InvertedLists]

\* An index tree: nodes with children by hash code, inverted lists and the
\* nodes and offsets of addrOffset.
IsTree(t) ==
    /\ t.root \in Nodes \cup {Nil}
    /\ DOMAIN t.children = Nodes /\ DOMAIN t.addrOffset = Nodes
    /\ \A n \in Nodes :
            /\ Range(t.children[n]) \subseteq Nodes
            /\ DOMAIN t.addrOffset[n] \subseteq Nodes
            /\ Range(t.addrOffset[n]) \subseteq Pos
    /\ t.invertedIndex \in [Nodes -> InvertedLists]

SearchTypeOK ==
    /\ IsTree(indexRoot)
    /\ DOMAIN vgMap \subseteq Pos
    /\ \A x \in grams : vgMap[x] \in Seq(Tokens)
    /\ sortSumInvertList \in Seq(SortKeys)
    /\ m \in 0 .. Len(sortSumInvertList)
    /\ resArr \in Seq(Sids)
    /\ preSeaPosition \in Pos
    /\ preInverPositionDis \in Seq(SUBSET Pos)
    /\ nowInverPositionDis \in Seq(SUBSET Pos)
    /\ Len(preInverPositionDis) = Len(resArr)
    /\ Len(nowInverPositionDis) = Len(resArr)
    /\ pc \in {"idle", "lookup", "merge", "returned"}
    /\ res \in Seq(Sids)

(***************************************************************************)
(* What the index says of a gram, stated node by node: the node the hash   *)
(* codes of the gram lead to, the nodes below it, and for each of them the *)
(* positions of its list and of the lists its addrOffset names, moved.     *)
(***************************************************************************)
RECURSIVE Below(_, _)
Below(t, node) ==
    UNION {{child} \cup Below(t, child) : child \in Range(t.children[node])}

RECURSIVE NodeOf(_, _, _)
NodeOf(t, node, gram) ==
    IF gram = <<>> \/ node = Nil
    THEN node
    ELSE NodeOf(t, IF HasChild(t, node, Head(gram))
                   THEN Child(t, node, Head(gram)) ELSE Nil, Tail(gram))

HeldAt(t, node, sid) ==
    t.invertedIndex[node][sid]
        \cup {q \in Pos :
                \E addr \in DOMAIN t.addrOffset[node] :
                    \E p \in t.invertedIndex[addr][sid] :
                        q = Plus(p, t.addrOffset[node][addr])}

positionsAt(t, node, sid) ==
    IF node = Nil
    THEN {}
    ELSE UNION {HeldAt(t, below, sid) : below \in {node} \cup Below(t, node)}

GramPositions(t, gram, sid) == positionsAt(t, NodeOf(t, t.root, gram), sid)

\* The series holds the grams of the search as they stand in the search
\* string: from some position on, each gram at its offset.
AlignedIn(t, sid) ==
    \E held \in {[x \in grams |-> GramPositions(t, vgMap[x], sid)]} :
        \E base \in Pos :
            \A x \in grams : Plus(base, x) \in held[x]

Aligned(sid) == AlignedIn(indexRoot, sid)

AlignedAreReturned(t) ==
    (pc = "returned" /\ grams # {}) =>
        \A sid \in Sids : AlignedIn(t, sid) => sid \in ToSet(res)

\* MatchSearch returns no series that lacks a gram: the cut in the loop
\* over resArr, which moves the slices under the loop's index, leaves no
\* candidate unlooked at; and a search of two grams returns exactly the
\* series that hold the two at their distance.
ReturnedSeriesHoldTheGrams ==
    pc = "returned" =>
        \A sid \in ToSet(res) :
            /\ \A x \in grams :
                    GramPositions(indexRoot, vgMap[x], sid) # {}
            /\ Cardinality(grams) <= 2 => Aligned(sid)

\* A match of the search string has every gram at its offset: a series
\* that is returned holds the grams as they stand in the search string.
ReturnedSeriesAreAligned ==
    pc = "returned" => \A sid \in ToSet(res) : Aligned(sid)

\* The result is sorted: of two series the one with the smaller Id and the
\* smaller Time comes first.
ResultIsSorted ==
    pc = "returned" =>
        \A i, j \in DOMAIN res :
            (res[i].Id < res[j].Id /\ res[i].Time < res[j].Time) => i < j

=============================================================================
