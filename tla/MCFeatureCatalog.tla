-------------------------- MODULE MCFeatureCatalog --------------------------
(* Small instances of FeatureCatalog for TLC.                              *)
EXTENDS FeatureCatalog, TLC

CONSTANTS r1, r2, n1, n2, m1

MCOneRequest == {r1}
MCTwoRequests == {r1, r2}
MCThreeFeatures == 1..3
MCOneList == {11}
MCTwoLists == 11..12
MCTwoFeatureNamespaces == {n1, n2}
MCListNamespaces == {m1}

(* Two versions of one feature, a third feature, and versions of one list. *)
MCNamespaceOf == 1 :> n1 @@ 2 :> n1 @@ 3 :> n2 @@ 11 :> m1 @@ 12 :> m1

(* The readiness asked for.  DRAFT is refused to all versions but drafts,  *)
(* so one run leaves it out; together the runs ask for all the others.     *)
MCPromotions == {PUBLIC_DRAFT, PRODUCTION_READY}
MCPromotionOrEnd == {DEPRECATED, DRAFT, PRODUCTION_READY}

MCSymmetry == Permutations({r1, r2})
=============================================================================
