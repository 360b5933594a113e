SPECIFICATION Spec
CONSTANTS
    f1 = f1
    f2 = f2
    l1 = l1
    l2 = l2
    d1 = d1
    d2 = d2
    d3 = d3
    k1 = k1
    k2 = k2
    n1 = n1
    n2 = n2
    s1 = s1
    p1 = p1
    Tasks <- MCThreeTasks
    Features <- MCFeatures
    Tiles <- MCTiles
    Names <- MCNames
    TilesOf <- MCTilesOf
    NamesOf <- MCNamesOf
    Deployments <- MCThreeDeployments
    Lists <- MCLists
    Spaces <- MCSpaces
    FeatureSpaces <- MCFeatureSpaces
    ListOf <- MCSharedListOf
    FeaturesIn <- MCFeaturesIn
    SpaceOf <- MCSpaceOf
    FeatureSpaceOf <- MCFeatureSpaceOf
    Volatile <- MCNoFeature
    MaxActive = 1
    MaxFaults = 1
    MaxStatusUpdates = 0
SYMMETRY MCTwins
INVARIANTS
    TypeOK
    SettledDeployment
    SettledFeatures
    SettledWarehouse
PROPERTIES
    SwitchIsAtomic
CHECK_DEADLOCK FALSE
