SPECIFICATION ClvSpec
CONSTANTS
    Sids <- MCSids
    Tokens <- MCTokens
    Hash <- MCHash
    Nodes <- MCNodes
    Nil = Nil
    PosBits = 2
    VgMaps <- MCVgMaps
    IndexNodes <- MCIndexNodes
    Answers <- MCAnswers
INVARIANT TypeOK
INVARIANT MatchesOfTheDictionaryAreReturned
INVARIANT ReturnedSeriesHoldTheGrams
