CONSTANTS
    Lines <- UserLines
    CardCharacters <- CardLetters
    Cards <- SeveralCards
    BufferSize = 10
    CardBufferSize = 12
    Pacings = {TRUE, FALSE}
    MaxInputs <- InputBounds
    MaxCards <- CardBounds
SPECIFICATION FairSpec
INVARIANTS TypeOK SentWellFormed SentIsRecent LinesArriveWhole CardsArriveWhole
PROPERTIES InputIsDealtWith
CHECK_DEADLOCK FALSE
