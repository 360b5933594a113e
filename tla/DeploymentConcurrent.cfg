SPECIFICATION Spec
CONSTANTS
    f1 = f1
    f2 = f2
    l1 = l1
    l2 = l2
    d1 = d1
    d2 = d2
    d3 = d3
    k1 = k1
    k2 = k2
    n1 = n1
    n2 = n2
    s1 = s1
    p1 = p1
    Tasks <- MCTwoTasks
    Features <- MCFeatures
    Tiles <- MCOneTile
    Names <- MCOneName
    TilesOf <- MCSharedTile
    NamesOf <- MCSharedName
    Deployments <- MCDeployments
    Lists <- MCLists
    Spaces <- MCSpaces
    FeatureSpaces <- MCFeatureSpaces
    ListOf <- MCListOf
    FeaturesIn <- MCFeaturesIn
    SpaceOf <- MCSpaceOf
    FeatureSpaceOf <- MCFeatureSpaceOf
    Volatile <- MCNoFeature
    MaxActive = 2
    MaxFaults = 1
    MaxStatusUpdates = 0
INVARIANTS
    OnlineMirrored
    OnlineIffDeployedIds
CHECK_DEADLOCK FALSE
