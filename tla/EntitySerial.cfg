SPECIFICATION Spec
CONSTANTS
    r1 = r1
    r2 = r2
    t1 = t1
    t2 = t2
    Requests <- MCOneRequest
    Tables <- MCTwoTables
    Entities <- MCThreeEntities
    ColumnsOf <- MCThreeColumns
    KeyOf <- MCKey
    MaxOverlaps = 0
INVARIANTS
    TagsMatched
    AncestorsExact
