-------------------------- MODULE EntityRelationship --------------------------
(***************************************************************************)
(* Tagging table columns with entities: TableColumnsInfoService with the   *)
(* EntityRelationshipService and RelationshipInfoService it calls.  A user *)
(* saves a table's columns; from the entities of its primary key column    *)
(* and of its other columns the service derives, in one transaction, which *)
(* tables an entity refers to, which entities are its parents and its      *)
(* ancestors, and one relationship info document per child and parent.     *)
(*                                                                         *)
(* The table is read before the transaction starts.  The transaction works *)
(* on the snapshot MongoDB takes when it starts, and is aborted when it    *)
(* has written a document that somebody else has written since.            *)
(***************************************************************************)
EXTENDS Integers, FiniteSets

CONSTANTS Requests,     \* requests that may be in progress at the same time
          Tables,
          Entities,     \* ObjectIds of the entities: naturals, they are sorted
          ColumnsOf,    \* table -> its columns
          KeyOf,        \* table -> its primary key column
          MaxOverlaps   \* bound: how often a save starts while another runs

ASSUME EntityRelationshipAssumption ==
    /\ Entities \subseteq Nat
    /\ MaxOverlaps \in Nat
    /\ \A t \in Tables : IsFiniteSet(ColumnsOf[t]) /\ KeyOf[t] \in ColumnsOf[t]

VARIABLES db,           \* the committed documents
          request,      \* request -> its local state
          forked,       \* history: some entity has had two paths to another
          overlaps      \* history: how often a save has started while another ran

vars == <<db, request, forked, overlaps>>

None == -1
Tags(t) == [ColumnsOf[t] -> Entities \cup {None}]

(* EntityModel, the columns_info of the tables, RelationshipInfoModel.     *)
(* parents holds pairs of a parent entity and the table that relates it;   *)
(* infos holds pairs of a child and a parent.                              *)
Db == [columns: {c \in [Tables -> UNION {Tags(t) : t \in Tables}] :
                    \A t \in Tables : c[t] \in Tags(t)},
       tableIds: [Entities -> SUBSET Tables],
       primaryTableIds: [Entities -> SUBSET Tables],
       parents: [Entities -> SUBSET (Entities \X Tables)],
       ancestors: [Entities -> SUBSET Entities],
       infos: SUBSET (Entities \X Entities)]

EmptyDb == [columns |-> [t \in Tables |-> [c \in ColumnsOf[t] |-> None]],
            tableIds |-> [e \in Entities |-> {}],
            primaryTableIds |-> [e \in Entities |-> {}],
            parents |-> [e \in Entities |-> {}],
            ancestors |-> [e \in Entities |-> {}],
            infos |-> {}]

(* table, new, old: the save, and the table's columns as it has read them; *)
(* docs: the documents as the transaction sees them; written, infosAdded,  *)
(* infosRemoved: what it has written; missed: what others have written     *)
(* since it started; adds, removes: parents still to be added and removed. *)
IdleRequest == [pc |-> "idle"]
ReadRequest == [pc: {"read"}, table: Tables, old: UNION {Tags(t) : t \in Tables},
                new: UNION {Tags(t) : t \in Tables}]
OpenRequest == [pc: {"transaction"}, table: Tables, old: UNION {Tags(t) : t \in Tables},
                new: UNION {Tags(t) : t \in Tables}, docs: Db,
                written: SUBSET (Entities \cup Tables), missed: SUBSET (Entities \cup Tables),
                infosAdded: SUBSET (Entities \X Entities),
                infosRemoved: SUBSET (Entities \X Entities),
                adds: SUBSET Entities, removes: SUBSET Entities]

Idle(r) == request[r].pc = "idle"
InTransaction(r) == request[r].pc = "transaction"

Init ==
    /\ db = EmptyDb
    /\ request = [r \in Requests |-> IdleRequest]
    /\ forked = FALSE
    /\ overlaps = 0

-----------------------------------------------------------------------------
(* What a save asks for *)

Tagged(t, cols) == {cols[c] : c \in ColumnsOf[t]} \ {None}
PrimaryEntity(t, cols) == cols[KeyOf[t]]

(* Faulty variant: columns without an entity are not skipped.              *)
EveryOtherTag(t, cols) == {cols[c] : c \in ColumnsOf[t] \ {KeyOf[t]}}

ParentEntities(t, cols) == {cols[c] : c \in ColumnsOf[t] \ {KeyOf[t]}} \ {None}

(* entity_update: by how many columns of the table e is tagged more.       *)
UpdateFlag(t, old, new, e) ==
    Cardinality({c \in ColumnsOf[t] : new[c] = e}) - Cardinality({c \in ColumnsOf[t] : old[c] = e})

PrimaryUpdateFlag(t, old, new, e) ==
    (IF new[KeyOf[t]] = e THEN 1 ELSE 0) - (IF old[KeyOf[t]] = e THEN 1 ELSE 0)

IncludeOrExclude(flag, ids, id) ==
    IF flag > 0 THEN ids \cup {id} ELSE IF flag < 0 THEN ids \ {id} ELSE ids

(* _update_entity_table_reference                                          *)
UpdateReferences(docs, t, old, new) ==
    [docs EXCEPT
       !.tableIds = [e \in Entities |-> IncludeOrExclude(UpdateFlag(t, old, new, e), @[e], t)],
       !.primaryTableIds =
           [e \in Entities |-> IncludeOrExclude(PrimaryUpdateFlag(t, old, new, e), @[e], t)]]

(* _update_entity_relationship: the new primary entity gets the parents    *)
(* that the table does not relate to it yet - all of the table's if it is  *)
(* newly primary, otherwise the new ones.                                  *)
ParentsToAdd(docs, t, old, new) ==
    LET child == PrimaryEntity(t, new)
        wanted == IF child = PrimaryEntity(t, old)
                  THEN ParentEntities(t, new) \ ParentEntities(t, old)
                  ELSE ParentEntities(t, new) IN
    IF child = None THEN {} ELSE {p \in wanted : <<p, t>> \notin docs.parents[child]}

(* Faulty variant: an entity that is no longer primary keeps its parents.  *)
NothingToRemove(docs, t, old, new) ==
    LET child == PrimaryEntity(t, old) IN
    IF child = None \/ child # PrimaryEntity(t, new) THEN {}
    ELSE {p \in ParentEntities(t, old) \ ParentEntities(t, new) : <<p, t>> \in docs.parents[child]}

(* The old primary entity loses the parents the table relates to it: all   *)
(* if it is no longer primary, otherwise those no longer tagged.           *)
ParentsToRemove(docs, t, old, new) ==
    LET child == PrimaryEntity(t, old)
        unwanted == IF child = PrimaryEntity(t, new)
                    THEN ParentEntities(t, old) \ ParentEntities(t, new)
                    ELSE ParentEntities(t, old) IN
    IF child = None THEN {} ELSE {p \in unwanted : <<p, t>> \in docs.parents[child]}

-----------------------------------------------------------------------------
(* The relationship service *)

ParentIds(docs, e) == {x[1] : x \in docs.parents[e]}

(* _validate_add_relationship_operation                                    *)
MayAdd(docs, p, c) ==
    /\ p # c
    /\ c \notin docs.ancestors[p]
    /\ p \notin docs.ancestors[c]

(* Faulty variant: descendants of the child are forgotten.                 *)
AddToChildOnly(docs, p, c, t) ==
    [docs EXCEPT !.parents[c] = @ \cup {<<p, t>>},
                 !.ancestors[c] = @ \cup docs.ancestors[p] \cup {p},
                 !.infos = @ \cup {<<c, p>>}]

(* add_relationship and the relationship info document: the child and all  *)
(* its descendants get the parent and its ancestors.                       *)
AddRelationship(docs, p, c, t) ==
    LET gained == docs.ancestors[c] \cup docs.ancestors[p] \cup {p} IN
    [docs EXCEPT !.parents[c] = @ \cup {<<p, t>>},
                 !.ancestors = [e \in Entities |-> IF e = c \/ c \in @[e] THEN @[e] \cup gained
                                                   ELSE @[e]],
                 !.infos = @ \cup {<<c, p>>}]

(* remove_relationship, and the relationship info document: the child and  *)
(* all its descendants lose the parent and the parent's ancestors.         *)
RemoveRelationship(docs, p, c) ==
    LET lost == docs.ancestors[p] \cup {p} IN
    [docs EXCEPT !.parents[c] = {x \in @ : x[1] # p},
                 !.ancestors = [e \in Entities |-> IF e = c \/ c \in @[e] THEN @[e] \ lost
                                                   ELSE @[e]],
                 !.infos = @ \ {<<c, p>>}]

(* The entity documents that differ: an unchanged document is not written. *)
Changed(before, after) ==
    {e \in Entities : \/ before.tableIds[e] # after.tableIds[e]
                      \/ before.primaryTableIds[e] # after.primaryTableIds[e]
                      \/ before.parents[e] # after.parents[e]
                      \/ before.ancestors[e] # after.ancestors[e]}

(* What e reaches along the parents, in any number of steps: what is in    *)
(* every set that holds its parents and the parents of all its members.    *)
ClosedSets(docs) == {s \in SUBSET Entities : \A x \in s : ParentIds(docs, x) \subseteq s}
Reachable(docs) ==
    LET closed == ClosedSets(docs) IN
    [e \in Entities |->
        {a \in Entities : \A s \in closed : ParentIds(docs, e) \subseteq s => a \in s}]

(* Some entity reaches another through two of its parents.                 *)
HasFork(docs) ==
    LET reach == Reachable(docs) IN
    \E e \in Entities : \E p, q \in ParentIds(docs, e) :
        p # q /\ (reach[p] \cup {p}) \cap (reach[q] \cup {q}) # {}

-----------------------------------------------------------------------------
(* A save *)

(* The API reads the table; nothing is to be done if it has these columns. *)
Read(r) ==
    /\ Idle(r)
    /\ \E t \in Tables : \E new \in Tags(t) \ {db.columns[t]} :
         request' = [request EXCEPT ![r] = [pc |-> "read", table |-> t, old |-> db.columns[t],
                                            new |-> new]]
    /\ \/ (\A q \in Requests : Idle(q)) /\ UNCHANGED overlaps
       \/ (\E q \in Requests : ~Idle(q)) /\ overlaps < MaxOverlaps /\ overlaps' = overlaps + 1
    /\ UNCHANGED <<db, forked>>

(* The transaction starts: columns_info is written, then the references.   *)
(* What changes is derived from the columns read before, not from those    *)
(* the transaction finds.                                                  *)
Begin(r) ==
    LET t == request[r].table
        old == request[r].old
        new == request[r].new
        docs == UpdateReferences([db EXCEPT !.columns[t] = new], t, old, new) IN
    /\ request[r].pc = "read"
    /\ request' = [request EXCEPT ![r] =
          [pc |-> "transaction", table |-> t, old |-> old, new |-> new, docs |-> docs,
           written |-> Changed(db, docs) \cup (IF db.columns[t] = new THEN {} ELSE {t}),
           missed |-> {}, infosAdded |-> {}, infosRemoved |-> {},
           adds |-> ParentsToAdd(docs, t, old, new),
           removes |-> ParentsToRemove(docs, t, old, new)]]
    /\ UNCHANGED <<db, forked, overlaps>>

(* Any exception aborts the transaction, and nothing is left of it.        *)
Abort(r) ==
    /\ request' = [request EXCEPT ![r] = IdleRequest]
    /\ UNCHANGED <<db, forked>>

(* Parents are added in the order of their ids.  Refused: an entity cannot *)
(* be its own parent, nor the parent of an ancestor, nor one of an entity  *)
(* that it is an ancestor of already, and the relationship info is unique. *)
AddParent(r) ==
    LET q == request[r]
        c == PrimaryEntity(q.table, q.new) IN
    /\ InTransaction(r)
    /\ \E p \in q.adds :
         /\ \A other \in q.adds : p <= other
         /\ IF MayAdd(q.docs, p, c) /\ <<c, p>> \notin q.docs.infos
            THEN LET docs == AddRelationship(q.docs, p, c, q.table) IN
                 /\ request' = [request EXCEPT ![r] =
                       [q EXCEPT !.adds = @ \ {p}, !.docs = docs,
                                 !.infosAdded = @ \cup {<<c, p>>},
                                 !.written = @ \cup Changed(q.docs, docs)]]
                 /\ forked' = (forked \/ HasFork(docs))
                 /\ UNCHANGED db
            ELSE Abort(r)
    /\ UNCHANGED overlaps

(* Then parents are removed, in the order they are listed in.              *)
RemoveParent(r) ==
    LET q == request[r]
        c == PrimaryEntity(q.table, q.old) IN
    /\ InTransaction(r)
    /\ q.adds = {}
    /\ \E p \in q.removes :
         IF p \in ParentIds(q.docs, c) /\ <<c, p>> \in q.docs.infos
         THEN LET docs == RemoveRelationship(q.docs, p, c) IN
              /\ request' = [request EXCEPT ![r] =
                    [q EXCEPT !.removes = @ \ {p}, !.docs = docs,
                              !.infosRemoved = @ \cup {<<c, p>>},
                              !.written = @ \cup Changed(q.docs, docs)]]
              /\ UNCHANGED <<db, forked>>
         ELSE Abort(r)
    /\ UNCHANGED overlaps

(* Faulty variant: writes over what others have written meanwhile.         *)
IgnoresConflicts(q) == FALSE

Conflicts(q) == q.written \cap q.missed # {}

(* The transaction's documents replace the committed ones; the documents   *)
(* it has not written stay what they are.                                  *)
Merged(q) ==
    LET Pick(field) == [e \in Entities |-> IF e \in q.written THEN q.docs[field][e] ELSE db[field][e]] IN
    [columns |-> IF q.table \in q.written THEN [db.columns EXCEPT ![q.table] = q.new] ELSE db.columns,
     tableIds |-> Pick("tableIds"), primaryTableIds |-> Pick("primaryTableIds"),
     parents |-> Pick("parents"), ancestors |-> Pick("ancestors"),
     infos |-> (db.infos \ q.infosRemoved) \cup q.infosAdded]

Commit(r) ==
    LET q == request[r] IN
    /\ InTransaction(r)
    /\ q.adds = {} /\ q.removes = {}
    /\ IF Conflicts(q) THEN Abort(r)
       ELSE /\ db' = Merged(q)
            /\ request' = [s \in Requests |->
                  IF s = r THEN IdleRequest
                  ELSE IF InTransaction(s) THEN [request[s] EXCEPT !.missed = @ \cup q.written]
                  ELSE request[s]]
            /\ UNCHANGED forked
    /\ UNCHANGED overlaps

(* Any statement may raise, and the API process may die.                   *)
Fail(r) ==
    /\ ~Idle(r)
    /\ Abort(r)
    /\ UNCHANGED overlaps

Next == \E r \in Requests :
    Read(r) \/ Begin(r) \/ AddParent(r) \/ RemoveParent(r) \/ Commit(r) \/ Fail(r)

Spec == Init /\ [][Next]_vars

-----------------------------------------------------------------------------
(* Properties *)

TypeOK ==
    /\ db \in Db
    /\ request \in [Requests -> {IdleRequest} \cup ReadRequest \cup OpenRequest]
    /\ forked \in BOOLEAN
    /\ overlaps \in 0..MaxOverlaps

(* There is a relationship info document for a child and a parent iff the  *)
(* child names the parent, whatever saves interleave: the documents and    *)
(* the copy in the entity are kept by different services.                  *)
InfosMatchParents ==
    \A e, p \in Entities : <<e, p>> \in db.infos <=> p \in ParentIds(db, e)

(* When saves do not overlap, the entities say what the saved columns say: *)
(* the parents of an entity are the other entities of the tables that it   *)
(* is the primary entity of, and it names no table that does not tag it.   *)
TagsMatched ==
    overlaps = 0 =>
        \A e \in Entities : \A t \in Tables :
            /\ t \in db.primaryTableIds[e] <=> PrimaryEntity(t, db.columns[t]) = e
            /\ t \in db.tableIds[e] => e \in Tagged(t, db.columns[t])
            /\ \A p \in Entities :
                 <<p, t>> \in db.parents[e] <=>
                     /\ PrimaryEntity(t, db.columns[t]) = e
                     /\ p \in ParentEntities(t, db.columns[t])

(* When saves do not overlap, and as long as no entity has reached another *)
(* along two paths, the ancestors of an entity are exactly what it reaches *)
(* along its parents, and never the entity itself.                         *)
AncestorsExact ==
    overlaps = 0 /\ ~forked =>
        \A e \in Entities : /\ db.ancestors[e] = Reachable(db)[e]
                             /\ e \notin db.ancestors[e]

(* relationship.py:32 - the service maintains "the expected relationship   *)
(* property (example, no cyclic relationship like A is an ancestor of B    *)
(* and B is also an ancestor of A)".                                       *)
NoCycle ==
    \A a, b \in Entities : ~(a \in Reachable(db)[b] /\ b \in Reachable(db)[a])
=============================================================================
