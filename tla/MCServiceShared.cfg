SPECIFICATION Spec
CONSTANTS
    c1 = c1
    c2 = c2
    e1 = e1
    e2 = e2
    Session = {c1, c2}
    Edge = {e1, e2}
    EdgeOf <- MCTwoEdges
    Id = {i1}
    Value = {1, 2}
    MaxBatch = 2
    Invalid = Invalid
    NoRow = NoRow
    Unknown = Unknown
INVARIANT TypeOK AnswersTrue
PROPERTY TakenOnlyByRace IsServiceTable
