------------------------ MODULE MCEntityRelationship ------------------------
(* Small instances of EntityRelationship for TLC.                          *)
EXTENDS EntityRelationship, TLC

CONSTANTS r1, r2, t1, t2

MCOneRequest == {r1}
MCTwoRequests == {r1, r2}
MCTwoEntities == 1..2
MCThreeEntities == 1..3
MCOneTable == {t1}
MCTwoTables == {t1, t2}

(* A primary key column and one or two others.                             *)
MCTwoColumns == t1 :> {"key", "a"} @@ t2 :> {"key", "a"}
MCThreeColumns == t1 :> {"key", "a", "b"} @@ t2 :> {"key", "a"}
MCOneTableColumns == t1 :> {"key", "a", "b"}
MCKey == t1 :> "key" @@ t2 :> "key"
MCSymmetry == Permutations({r1, r2})
=============================================================================
