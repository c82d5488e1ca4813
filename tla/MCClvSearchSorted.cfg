SPECIFICATION ClvSpec
CONSTANTS
    Sids <- MCSortSids
    Tokens <- MCTokens
    Hash <- MCHash
    Nodes <- MCNodes
    Nil = Nil
    PosBits = 2
    VgMaps <- MCVgMaps
    IndexNodes <- MCSortIndexNodes
    Answers <- MCAnswers
INVARIANT ResultIsSorted
