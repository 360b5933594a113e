SPECIFICATION Spec
CONSTANTS
    r1 = r1
    r2 = r2
    t1 = t1
    t2 = t2
    Requests <- MCTwoRequests
    Tables <- MCTwoTables
    Entities <- MCTwoEntities
    ColumnsOf <- MCTwoColumns
    KeyOf <- MCKey
    MaxOverlaps = 2
SYMMETRY MCSymmetry
INVARIANTS
    TypeOK
    InfosMatchParents
