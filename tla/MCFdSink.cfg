SPECIFICATION FairSpec
CONSTANTS
    w1 = w1
    w2 = w2
    Writers = {w1, w2}
    Kinds = {"file", "console"}
    Shapes <- MCShapes
    LocalIovs = 3
    ExtIovs = 4
    MaxLines <- MCMaxLines
    MaxShort = 2
    MaxErrors = 1
INVARIANTS
    TypeOK
    LinesIntact
    TornByShortWritesOnly
PROPERTIES
    WritesReturn
