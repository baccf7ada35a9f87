SPECIFICATION Spec
CONSTANTS
    StartHP = 3
    HandStart = 1
    MaxMana = 2
    BoardLimit = 1
    CardID <- MCCardID
    Catalog <- MCCatalog
    InitDecks <- MCInitDecks
INVARIANTS
    GameInv
    CardsConserved
    BoardSound
    TurnAccounting
    MovesLegal
PROPERTIES
    OneAttackPerTurn
    RejectedChangesNothing
    TurnProgress
    GameEnds
