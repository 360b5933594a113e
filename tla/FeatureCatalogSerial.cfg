SPECIFICATION Spec
CONSTANTS
    r1 = r1
    r2 = r2
    n1 = n1
    n2 = n2
    m1 = m1
    Requests <- MCOneRequest
    Features <- MCThreeFeatures
    Lists <- MCTwoLists
    FeatureNamespaces <- MCTwoFeatureNamespaces
    ListNamespaces <- MCListNamespaces
    NamespaceOf <- MCNamespaceOf
    Targets <- MCPromotions
    MaxManual = 1
    MaxFeatures = 2
    MaxOverlaps = 0
INVARIANTS
    ListsComparable
    DefaultsSettled
    OneProductionReadySerially
CHECK_DEADLOCK FALSE
