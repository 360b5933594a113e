---------------------------- MODULE MCDeployment ----------------------------
(* Small instances of Deployment for TLC.                                  *)
EXTENDS Deployment, TLC

CONSTANTS f1, f2, l1, l2, d1, d2, d3, k1, k2, n1, n2, s1, p1

MCFeatures == {f1, f2}
MCLists == {l1, l2}
MCDeployments == {d1, d2}
MCThreeDeployments == {d1, d2, d3}
MCTiles == {k1, k2}
MCNames == {n1, n2}
MCSpaces == {s1}
MCFeatureSpaces == {p1}

(* f1 is in both lists; f2 shares a tile and a result name with it.        *)
MCFeaturesIn == l1 :> {f1} @@ l2 :> {f1, f2}
MCTilesOf == f1 :> {k1} @@ f2 :> {k1, k2}
MCNamesOf == f1 :> {n1} @@ f2 :> {n1, n2}
MCListOf == d1 :> l1 @@ d2 :> l2
MCSharedListOf == d1 :> l1 @@ d2 :> l2 @@ d3 :> l2
MCTwins == Permutations({d2, d3})   \* both are deployments of l2
MCSpaceOf == l1 :> s1 @@ l2 :> s1
MCFeatureSpaceOf == f1 :> p1 @@ f2 :> p1

(* One shared tile and one shared result name for both features.           *)
MCOneTile == {k1}
MCOneName == {n1}
MCSharedTile == f1 :> {k1} @@ f2 :> {k1}
MCSharedName == f1 :> {n1} @@ f2 :> {n1}

MCTwoTasks == 1..2
MCThreeTasks == 1..3
MCFourTasks == 1..4
MCNoFeature == {}
MCOneFeature == {f2}
=============================================================================
