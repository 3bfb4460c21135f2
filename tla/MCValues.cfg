SPECIFICATION Spec
CONSTANTS
    ByteMod = 4
    HeaderSize = 2
    LengthSize = 1
    ScoreSize = 1
    IntMod = 4
    Absent = Absent
    NotFound = NotFound
    NotInteger = NotInteger
    NaN = NaN
    Float <- SmallFloat
    Text <- SmallText
    Parse <- SmallParse
    c1 = c1
    c2 = c2
    Clients = {c1, c2}
    Items <- SmallItems
    Batches <- SmallBatches
    Strings <- SomeStrings
    Indices <- SmallIndices
    Deltas <- SmallDeltas
    MaxItems = 3
    MaxBytes = 6
    MaxTotal = 5
SYMMETRY ClientSymmetry
INVARIANTS
    TypeOK
    ListEncoded
    ListAnswers
    SetAnswers
    SortedSetRanked
    SortedSetAnswers
    CounterExact
