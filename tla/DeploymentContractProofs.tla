----------------------- MODULE DeploymentContractProofs -----------------------
(***************************************************************************)
(* Deployment implements DeploymentContract when tasks run one at a time:  *)
(* for the users of the service a deployment is switched in one step,      *)
(* together with the feature lists and the features that follow from it.   *)
(***************************************************************************)
EXTENDS DeploymentFaultlessProofs

-----------------------------------------------------------------------------
(* What is seen follows from the deployments that are seen as enabled *)

SeenFollows ==
    /\ SeenLists = Contract!ListsOf(SeenEnabled)
    /\ SeenFeatures = Contract!FeaturesOf(SeenLists)

LEMMA ListsFollow ==
    ASSUME TypeOK, SerialInv
    PROVE  SeenLists = PromisedLists
<1>1. CASE Quiet /\ NoneBroken
  <2>1. CatalogOK /\ Active = {}
    BY <1>1, QuietUnbroken DEF SerialInv, Catalogs, Quiet
  <2>2. PromisedLists \subseteq Lists
    BY <2>1, SeenQuiet, DeploymentAssumption DEF PromisedLists, Enabled
  <2>3. DeployedLists = PromisedLists
    BY <2>1, <2>2 DEF CatalogOK, ListsOK, Switching, Reverting, DeployedLists
  <2> QED
    BY <1>1, <2>3 DEF SeenLists
<1>2. CASE ~(Quiet /\ NoneBroken)
  BY <1>2 DEF SeenLists, PromisedLists
<1> QED
  BY <1>1, <1>2

LEMMA FeaturesFollow ==
    ASSUME TypeOK, SerialInv, Faultless, OnlineIffDeployedIds
    PROVE  SeenFeatures = UNION {FeaturesIn[l] : l \in PromisedLists}
<1>1. CASE Quiet /\ faults = 0
  <2>1. /\ overwritten = {} /\ DeployedLists = PromisedLists
        /\ \A f \in Features : deployedListIds[f] = {l \in DeployedLists : f \in FeaturesIn[l]}
    BY <1>1, AtRest DEF FeaturesOK
  <2>2. \A f \in Features : onlineEnabled[f] <=> \E l \in PromisedLists : f \in FeaturesIn[l]
    BY <2>1 DEF OnlineIffDeployedIds
  <2>3. \A l \in PromisedLists : FeaturesIn[l] \subseteq Features
    BY <2>1, DeploymentAssumption DEF DeployedLists
  <2>4. SeenFeatures = {f \in Features : onlineEnabled[f]}
    BY <1>1 DEF SeenFeatures
  <2> QED
    BY <2>2, <2>3, <2>4
<1>2. CASE ~(Quiet /\ faults = 0)
  BY <1>2 DEF SeenFeatures, PromisedLists
<1> QED
  BY <1>1, <1>2

LEMMA Follows ==
    ASSUME TypeOK, SerialInv, Faultless, OnlineIffDeployedIds
    PROVE  SeenFollows
BY ListsFollow, FeaturesFollow DEF SeenFollows, Contract!ListsOf, Contract!FeaturesOf, PromisedLists

-----------------------------------------------------------------------------
(* A step shows its users at most one deployment switched *)

SwitchOf(d) == SeenEnabled' = IF d \in SeenEnabled THEN SeenEnabled \ {d} ELSE SeenEnabled \cup {d}

(* Only the deployment of the task at work is written.                     *)
LEMMA OwnDeploymentOnly ==
    ASSUME NEW t \in Tasks, TypeOK, ActiveStep(t)
    PROVE  \A e \in Deployments \ {task[t].deployment} : deployment'[e] = deployment[e]
<1>1. deployment \in [Deployments -> DeploymentStates]
  BY DEF TypeOK, CatalogTypeOK
<1> QED
  BY <1>1, DeploymentMoves DEF Restore

LEMMA OneSwitch ==
    ASSUME MaxActive = 1, TypeOK, SerialInv, SerialInv', [Next]_vars
    PROVE  SeenEnabled' = SeenEnabled \/ \E d \in Deployments : SwitchOf(d)
<1>1. OneAtATime /\ Deploys /\ Deploys'
  BY DEF SerialInv, Scheduled
<1>2. CASE UNCHANGED vars \/ EnvironmentStep \/ \E t \in Tasks : Submit(t) \/ Start(t)
  BY <1>1, <1>2, SeenElsewhere
<1>3. ASSUME NEW t \in Tasks, ActiveStep(t), task'[t].pc \notin EndPCs
      PROVE  SeenEnabled' = SeenEnabled
  BY <1>1, <1>3, SeenKept
<1>4. ASSUME NEW t \in Tasks, ActiveStep(t), task'[t].pc \in EndPCs
      PROVE  SeenEnabled' = SeenEnabled \/ \E d \in Deployments : SwitchOf(d)
  <2> DEFINE d == task[t].deployment
  <2>1. /\ SeenEnabled = Shown(task[t]) /\ d \in Deployments
        /\ SeenEnabled' = {e \in Deployments : deployment'[e] = "on"}
    BY <1>1, <1>4, AtWork, SeenQuietNext DEF Enabled
  <2>2. \A e \in Deployments \ {d} : e \in SeenEnabled' <=> e \in SeenEnabled
    BY <1>4, <2>1, OwnDeploymentOnly DEF Shown
  <2>3. SeenEnabled \subseteq Deployments /\ SeenEnabled' \subseteq Deployments
    BY <2>1 DEF Shown
  <2>4. SeenEnabled' = SeenEnabled \/ SwitchOf(d)
    BY <2>1, <2>2, <2>3 DEF SwitchOf
  <2> QED
    BY <2>1, <2>4
<1> QED
  BY <1>2, <1>3, <1>4, Steps

-----------------------------------------------------------------------------
(* The refinement *)

(* When tasks run one at a time, switching a deployment is atomic for its  *)
(* users: every step of create_deployment, update_deployment and their     *)
(* error handling (deploy.py) leaves what they see as it was or switches   *)
(* one deployment, with exactly the feature lists and the features that    *)
(* follow from the deployments then enabled.                               *)
THEOREM SwitchImplemented ==
    ASSUME MaxActive = 1
    PROVE  Spec => SwitchIsAtomic
<1> DEFINE Inv == TypeOK /\ SerialInv /\ Faultless /\ OnlineIffDeployedIds
<1>1. Inv => SeenFollows
  BY Follows
<1>2. ASSUME Init, SeenFollows PROVE Contract!Init
  <2>1. SeenEnabled = {}
    BY <1>2, InitNothing
  <2> QED
    BY <1>2, <2>1 DEF SeenFollows, Contract!Init, Contract!ListsOf, Contract!FeaturesOf
<1>3. ASSUME Inv, Inv', SeenFollows, SeenFollows', [Next]_vars
      PROVE  [Contract!Next]_(Contract!vars)
  <2>1. SeenEnabled' = SeenEnabled \/ \E d \in Deployments : SwitchOf(d)
    BY <1>3, OneSwitch
  <2>2. CASE SeenEnabled' = SeenEnabled
    <3>1. SeenLists' = SeenLists
      BY <1>3, <2>2 DEF SeenFollows, Contract!ListsOf
    <3>2. SeenFeatures' = SeenFeatures
      BY <1>3, <3>1 DEF SeenFollows, Contract!FeaturesOf
    <3> QED
      BY <2>2, <3>1, <3>2 DEF Contract!vars
  <2>3. ASSUME NEW d \in Deployments, SwitchOf(d)
        PROVE  Contract!Next
    <3>1. /\ SeenLists' = Contract!ListsOf(SeenEnabled')
          /\ SeenFeatures' = Contract!FeaturesOf(SeenLists')
      BY <1>3 DEF SeenFollows, Contract!ListsOf, Contract!FeaturesOf
    <3>2. Contract!Switch(d)
      BY <2>3, <3>1 DEF SwitchOf, Contract!Switch
    <3> QED
      BY <3>2 DEF Contract!Next
  <2> QED
    BY <2>1, <2>2, <2>3
<1>4. Spec => []Inv
  BY FaultlessInvariant, OnlineFollowsDeployedIds, PTL
<1>5. Spec => []SeenFollows
  BY <1>1, <1>4, PTL
<1> QED
  BY <1>2, <1>3, <1>4, <1>5, PTL DEF Spec, SwitchIsAtomic, Contract!Spec
=============================================================================
