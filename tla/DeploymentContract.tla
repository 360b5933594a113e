------------------------- MODULE DeploymentContract -------------------------
(***************************************************************************)
(* What enabling and disabling deployments promises its users: a           *)
(* deployment is enabled or disabled in one step, and the deployed feature *)
(* lists and the online features are always those of the enabled           *)
(* deployments.  Deployment implements it when tasks run one at a time.    *)
(***************************************************************************)
CONSTANTS Deployments, Lists, Features, ListOf, FeaturesIn

VARIABLES enabled,        \* enabled deployments
          deployedLists,  \* deployed feature lists
          onlineFeatures  \* online features

vars == <<enabled, deployedLists, onlineFeatures>>

ListsOf(ds) == {ListOf[d] : d \in ds}
FeaturesOf(ls) == UNION {FeaturesIn[l] : l \in ls}

Init == enabled = {} /\ deployedLists = {} /\ onlineFeatures = {}

(* Enable or disable one deployment, with everything that follows from it. *)
Switch(d) ==
    /\ enabled' = IF d \in enabled THEN enabled \ {d} ELSE enabled \cup {d}
    /\ deployedLists' = ListsOf(enabled')
    /\ onlineFeatures' = FeaturesOf(deployedLists')

Next == \E d \in Deployments : Switch(d)

Spec == Init /\ [][Next]_vars
=============================================================================
