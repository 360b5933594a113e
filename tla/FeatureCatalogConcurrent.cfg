SPECIFICATION Spec
CONSTANTS
    r1 = r1
    r2 = r2
    n1 = n1
    n2 = n2
    m1 = m1
    Requests <- MCTwoRequests
    Features <- MCThreeFeatures
    Lists <- MCOneList
    FeatureNamespaces <- MCTwoFeatureNamespaces
    ListNamespaces <- MCListNamespaces
    NamespaceOf <- MCNamespaceOf
    Targets <- MCPromotionOrEnd
    MaxManual = 1
    MaxFeatures = 2
    MaxOverlaps = 1
SYMMETRY MCSymmetry
INVARIANTS
    TypeOK
    LinksAgree
    MembersListed
    VersionsDistinct
    ListsExact
PROPERTY
    ReadinessMoves
CHECK_DEADLOCK FALSE
