----------------------- MODULE EntityRelationshipProofs -----------------------
(***************************************************************************)
(* EntityRelationship is correctly typed, and the relationship info        *)
(* documents always agree with the parents named in the entities, for any  *)
(* number of requests, tables, columns and entities, and any number of     *)
(* overlapping saves.  When saves do not overlap, the entities follow the  *)
(* saved columns, and their ancestors follow the parents.                  *)
(***************************************************************************)
EXTENDS EntityRelationship, FiniteSetTheorems, TLAPS

(* InfosMatchParents, of any version of the documents.                     *)
InfosMatch(docs) ==
    \A e, p \in Entities : <<e, p>> \in docs.infos <=> p \in ParentIds(docs, e)

ReadOK(q) == q.old \in Tags(q.table) /\ q.new \in Tags(q.table)

(* Whose parents are added, and whose are removed.                         *)
Gaining(q) == PrimaryEntity(q.table, q.new)
Losing(q) == PrimaryEntity(q.table, q.old)

(* The parents to add and to remove are of entities; nothing that has been *)
(* added, or is to be added, is to be removed.                             *)
PlanOK(q) ==
    /\ q.adds # {} => Gaining(q) \in Entities
    /\ q.removes # {} => Losing(q) \in Entities
    /\ \A p \in q.removes : /\ <<Losing(q), p>> \notin q.infosAdded
                            /\ Gaining(q) = Losing(q) => p \notin q.adds

(* What a transaction has written of the relationship infos goes along     *)
(* with the entity it has written, and the infos of every entity it has    *)
(* not missed a write of are the committed ones with its own writes.       *)
RowsOK(q) ==
    /\ \A x \in q.infosAdded \cup q.infosRemoved : x[1] \in q.written
    /\ \A e \in Entities \ q.missed : \A p \in Entities :
          <<e, p>> \in q.docs.infos
            <=> <<e, p>> \in (db.infos \ q.infosRemoved) \cup q.infosAdded

TransactionOK(q) == ReadOK(q) /\ PlanOK(q) /\ InfosMatch(q.docs) /\ RowsOK(q)

IInv ==
    /\ TypeOK
    /\ InfosMatchParents
    /\ \A r \in Requests : ~Idle(r) => ReadOK(request[r])
    /\ \A r \in Requests : InTransaction(r) => TransactionOK(request[r])

-----------------------------------------------------------------------------
(* Typing of the operators *)

(* The entity of the primary key column is an entity or none.              *)
LEMMA PrimaryType ==
    ASSUME NEW t \in Tables, NEW cols \in Tags(t)
    PROVE  PrimaryEntity(t, cols) \in Entities \cup {None}
  BY EntityRelationshipAssumption DEF PrimaryEntity, Tags

(* The entities of the other columns are entities.                         *)
LEMMA ParentEntitiesType ==
    ASSUME NEW t \in Tables, NEW cols \in Tags(t)
    PROVE  ParentEntities(t, cols) \subseteq Entities
  BY EntityRelationshipAssumption DEF ParentEntities, Tags

(* What is planned is of entities, and nothing is both added and removed.  *)
LEMMA PlanType ==
    ASSUME NEW docs \in Db, NEW t \in Tables, NEW old \in Tags(t), NEW new \in Tags(t)
    PROVE  /\ ParentsToAdd(docs, t, old, new) \subseteq Entities
           /\ ParentsToRemove(docs, t, old, new) \subseteq Entities
           /\ ParentsToAdd(docs, t, old, new) # {} => PrimaryEntity(t, new) \in Entities
           /\ ParentsToRemove(docs, t, old, new) # {} => PrimaryEntity(t, old) \in Entities
           /\ PrimaryEntity(t, new) = PrimaryEntity(t, old) =>
                ParentsToAdd(docs, t, old, new) \cap ParentsToRemove(docs, t, old, new) = {}
  <1>1. PrimaryEntity(t, new) \in Entities \cup {None} /\ PrimaryEntity(t, old) \in Entities \cup {None}
    BY PrimaryType
  <1>2. ParentEntities(t, new) \subseteq Entities /\ ParentEntities(t, old) \subseteq Entities
    BY ParentEntitiesType
  <1> QED
    BY <1>1, <1>2 DEF ParentsToAdd, ParentsToRemove

(* Writing a table's columns and the references of the entities keeps the  *)
(* documents typed and leaves parents and infos alone.                     *)
LEMMA ReferencesType ==
    ASSUME NEW docs \in Db, NEW t \in Tables, NEW old \in Tags(t), NEW new \in Tags(t)
    PROVE  LET after == UpdateReferences([docs EXCEPT !.columns[t] = new], t, old, new) IN
           after \in Db /\ after.parents = docs.parents /\ after.infos = docs.infos
  <1> DEFINE columns == [docs.columns EXCEPT ![t] = new]
             tableIds == [e \in Entities |->
                 IncludeOrExclude(UpdateFlag(t, old, new, e), docs.tableIds[e], t)]
             primaryTableIds == [e \in Entities |->
                 IncludeOrExclude(PrimaryUpdateFlag(t, old, new, e), docs.primaryTableIds[e], t)]
             after == UpdateReferences([docs EXCEPT !.columns[t] = new], t, old, new)
  <1>1. after = [docs EXCEPT !.columns = columns, !.tableIds = tableIds,
                             !.primaryTableIds = primaryTableIds]
    BY DEF UpdateReferences, Db
  <1>2. columns \in [Tables -> UNION {Tags(s) : s \in Tables}]
    BY DEF Db
  <1>3. \A s \in Tables : columns[s] \in Tags(s)
    BY DEF Db
  <1>4. \A flag : \A ids \in SUBSET Tables : IncludeOrExclude(flag, ids, t) \in SUBSET Tables
    BY DEF IncludeOrExclude
  <1>5. tableIds \in [Entities -> SUBSET Tables] /\ primaryTableIds \in [Entities -> SUBSET Tables]
    BY <1>4 DEF Db
  <1> HIDE DEF columns, tableIds, primaryTableIds, after
  <1>6. after \in Db /\ after.parents = docs.parents /\ after.infos = docs.infos
    BY <1>1, <1>2, <1>3, <1>5 DEF Db
  <1> QED BY <1>6 DEF after

(* Adding a parent keeps the documents typed; the child gets the parent,   *)
(* and nobody else's parents or infos change.                              *)
LEMMA AddType ==
    ASSUME NEW docs \in Db, NEW p \in Entities, NEW c \in Entities, NEW t \in Tables
    PROVE  LET after == AddRelationship(docs, p, c, t) IN
           /\ after \in Db
           /\ after.parents = [docs.parents EXCEPT ![c] = @ \cup {<<p, t>>}]
           /\ after.infos = docs.infos \cup {<<c, p>>}
  <1> DEFINE parents == [docs.parents EXCEPT ![c] = @ \cup {<<p, t>>}]
             gained == docs.ancestors[c] \cup docs.ancestors[p] \cup {p}
             ancestors == [e \in Entities |->
                 IF e = c \/ c \in docs.ancestors[e] THEN docs.ancestors[e] \cup gained
                 ELSE docs.ancestors[e]]
             infos == docs.infos \cup {<<c, p>>}
             after == AddRelationship(docs, p, c, t)
  <1>1. after = [docs EXCEPT !.parents = parents, !.ancestors = ancestors, !.infos = infos]
    BY DEF AddRelationship, Db
  <1>2. parents \in [Entities -> SUBSET (Entities \X Tables)]
    BY DEF Db
  <1>3. gained \subseteq Entities
    BY DEF Db
  <1>4. ancestors \in [Entities -> SUBSET Entities]
    BY <1>3 DEF Db
  <1>5. infos \in SUBSET (Entities \X Entities)
    BY DEF Db
  <1> HIDE DEF parents, gained, ancestors, infos, after
  <1>6. after \in Db /\ after.parents = parents /\ after.infos = infos
    BY <1>1, <1>2, <1>4, <1>5 DEF Db
  <1> QED
    BY <1>6 DEF parents, infos, after

(* Removing a parent keeps the documents typed; the child loses every      *)
(* entry of the parent, and nobody else's parents or infos change.         *)
LEMMA RemoveType ==
    ASSUME NEW docs \in Db, NEW p \in Entities, NEW c \in Entities
    PROVE  LET after == RemoveRelationship(docs, p, c) IN
           /\ after \in Db
           /\ after.parents = [docs.parents EXCEPT ![c] = {x \in @ : x[1] # p}]
           /\ after.infos = docs.infos \ {<<c, p>>}
  BY DEF RemoveRelationship, Db

(* What a transaction leaves when it commits is typed.                     *)
LEMMA MergedType ==
    ASSUME db \in Db, NEW q \in OpenRequest, ReadOK(q)
    PROVE  LET after == Merged(q) IN
           /\ after \in Db
           /\ after.parents = [e \in Entities |-> IF e \in q.written THEN q.docs.parents[e]
                                                 ELSE db.parents[e]]
           /\ after.infos = (db.infos \ q.infosRemoved) \cup q.infosAdded
  <1> DEFINE Pick(field) ==
               [e \in Entities |-> IF e \in q.written THEN q.docs[field][e] ELSE db[field][e]]
             columns == IF q.table \in q.written THEN [db.columns EXCEPT ![q.table] = q.new]
                        ELSE db.columns
             infos == (db.infos \ q.infosRemoved) \cup q.infosAdded
             after == Merged(q)
  <1>1. after = [columns |-> columns, tableIds |-> Pick("tableIds"),
                 primaryTableIds |-> Pick("primaryTableIds"), parents |-> Pick("parents"),
                 ancestors |-> Pick("ancestors"), infos |-> infos]
    BY DEF Merged
  <1>2. columns \in [Tables -> UNION {Tags(s) : s \in Tables}]
        /\ \A s \in Tables : columns[s] \in Tags(s)
    BY DEF Db, ReadOK, OpenRequest
  <1>3. Pick("tableIds") \in [Entities -> SUBSET Tables]
        /\ Pick("primaryTableIds") \in [Entities -> SUBSET Tables]
    BY DEF Db, OpenRequest
  <1>4. Pick("parents") \in [Entities -> SUBSET (Entities \X Tables)]
        /\ Pick("ancestors") \in [Entities -> SUBSET Entities]
    BY DEF Db, OpenRequest
  <1>5. infos \in SUBSET (Entities \X Entities)
    BY DEF Db, OpenRequest
  <1>6. Pick("parents") = [e \in Entities |-> IF e \in q.written THEN q.docs.parents[e]
                                             ELSE db.parents[e]]
    OBVIOUS
  <1> HIDE DEF Pick, columns, infos, after
  <1>7. after \in Db /\ after.parents = Pick("parents") /\ after.infos = infos
    BY <1>1, <1>2, <1>3, <1>4, <1>5 DEF Db
  <1> QED
    BY <1>6, <1>7 DEF infos, after

-----------------------------------------------------------------------------
(* Agreement of the infos and the parents *)

(* Adding a parent that has no info yet keeps infos and parents in         *)
(* agreement, and counts as a write of the child.                          *)
LEMMA AddMatches ==
    ASSUME NEW docs \in Db, NEW p \in Entities, NEW c \in Entities, NEW t \in Tables,
           InfosMatch(docs), <<c, p>> \notin docs.infos
    PROVE  InfosMatch(AddRelationship(docs, p, c, t)) /\ c \in Changed(docs, AddRelationship(docs, p, c, t))
  <1> DEFINE after == AddRelationship(docs, p, c, t)
  <1>1. /\ after \in Db
        /\ after.parents = [docs.parents EXCEPT ![c] = @ \cup {<<p, t>>}]
        /\ after.infos = docs.infos \cup {<<c, p>>}
    BY AddType
  <1> HIDE DEF after
  <1>2. \A e \in Entities : after.parents[e] = IF e = c THEN docs.parents[e] \cup {<<p, t>>}
                                               ELSE docs.parents[e]
    BY <1>1 DEF Db
  <1>3. \A e \in Entities : ParentIds(after, e) = IF e = c THEN ParentIds(docs, e) \cup {p}
                                                  ELSE ParentIds(docs, e)
    <2>1. ParentIds(after, c) = ParentIds(docs, c) \cup {p}
      <3>1. ParentIds(after, c) = {x[1] : x \in docs.parents[c] \cup {<<p, t>>}}
        BY <1>2 DEF ParentIds
      <3>2. <<p, t>>[1] = p
        OBVIOUS
      <3> QED
        BY <3>1, <3>2 DEF ParentIds
    <2>2. \A e \in Entities \ {c} : ParentIds(after, e) = ParentIds(docs, e)
      BY <1>2 DEF ParentIds
    <2> QED
      BY <2>1, <2>2
  <1>4. InfosMatch(after)
    BY <1>1, <1>3 DEF InfosMatch
  <1>5. p \notin ParentIds(docs, c)
    BY DEF InfosMatch
  <1>6. after.parents[c] # docs.parents[c]
    BY <1>3, <1>5 DEF ParentIds
  <1> QED
    BY <1>4, <1>6 DEF Changed, after

(* Removing a parent keeps infos and parents in agreement, and counts as a *)
(* write of the child.                                                     *)
LEMMA RemoveMatches ==
    ASSUME NEW docs \in Db, NEW p \in Entities, NEW c \in Entities,
           InfosMatch(docs), <<c, p>> \in docs.infos
    PROVE  InfosMatch(RemoveRelationship(docs, p, c)) /\ c \in Changed(docs, RemoveRelationship(docs, p, c))
  <1> DEFINE after == RemoveRelationship(docs, p, c)
  <1>1. /\ after \in Db
        /\ after.parents = [docs.parents EXCEPT ![c] = {x \in @ : x[1] # p}]
        /\ after.infos = docs.infos \ {<<c, p>>}
    BY RemoveType
  <1> HIDE DEF after
  <1>2. \A e \in Entities : after.parents[e] = IF e = c THEN {x \in docs.parents[e] : x[1] # p}
                                               ELSE docs.parents[e]
    BY <1>1 DEF Db
  <1>3. \A e \in Entities : ParentIds(after, e) = IF e = c THEN ParentIds(docs, e) \ {p}
                                                  ELSE ParentIds(docs, e)
    <2>1. ParentIds(after, c) = ParentIds(docs, c) \ {p}
      BY <1>2 DEF ParentIds
    <2>2. \A e \in Entities \ {c} : ParentIds(after, e) = ParentIds(docs, e)
      BY <1>2 DEF ParentIds
    <2> QED
      BY <2>1, <2>2
  <1>4. InfosMatch(after)
    BY <1>1, <1>3 DEF InfosMatch
  <1>5. p \in ParentIds(docs, c)
    BY DEF InfosMatch
  <1>6. after.parents[c] # docs.parents[c]
    BY <1>3, <1>5 DEF ParentIds
  <1> QED
    BY <1>4, <1>6 DEF Changed, after

-----------------------------------------------------------------------------
(* The invariant *)

(* A request in a transaction, or one that has read, is of that form.      *)
LEMMA RequestForm ==
    ASSUME TypeOK, NEW r \in Requests
    PROVE  /\ InTransaction(r) => request[r] \in OpenRequest
           /\ request[r].pc = "read" => request[r] \in ReadRequest
  BY DEF TypeOK, InTransaction, IdleRequest, ReadRequest, OpenRequest

(* When only one request changes, only it needs a look.                    *)
LEMMA OneRequestChanges ==
    ASSUME IInv, NEW r \in Requests,
           request' = [request EXCEPT ![r] = request'[r]],
           request'[r] \in {IdleRequest} \cup ReadRequest \cup OpenRequest,
           db' = db, forked' \in BOOLEAN, overlaps' \in 0..MaxOverlaps,
           request'[r].pc # "idle" => ReadOK(request'[r]),
           request'[r].pc = "transaction" =>
               PlanOK(request'[r]) /\ InfosMatch(request'[r].docs) /\ RowsOK(request'[r])
    PROVE  IInv'
  <1>1. TypeOK'
    BY DEF IInv, TypeOK
  <1>2. InfosMatchParents'
    BY DEF IInv, InfosMatchParents, ParentIds
  <1>3. ASSUME NEW s \in Requests, ~Idle(s)' PROVE ReadOK(request[s])'
    <2>1. CASE s = r
      BY <2>1, <1>3 DEF Idle, ReadOK
    <2>2. CASE s # r
      BY <2>2, <1>3 DEF Idle, IInv, TypeOK, ReadOK
    <2> QED BY <2>1, <2>2
  <1>4. ASSUME NEW s \in Requests, InTransaction(s)' PROVE TransactionOK(request[s])'
    <2>1. CASE s = r
      <3>1. ReadOK(request'[r]) /\ PlanOK(request'[r]) /\ InfosMatch(request'[r].docs)
            /\ RowsOK(request'[r])
        BY <2>1, <1>4 DEF InTransaction
      <3> QED
        BY <2>1, <3>1 DEF TransactionOK, ReadOK, PlanOK, InfosMatch, RowsOK, Gaining, Losing,
            ParentIds, PrimaryEntity
    <2>2. CASE s # r
      <3>1. request'[s] = request[s]
        BY <2>2 DEF IInv, TypeOK
      <3>2. TransactionOK(request[s])
        BY <3>1, <1>4 DEF IInv, InTransaction
      <3> QED
        BY <3>1, <3>2 DEF TransactionOK, ReadOK, PlanOK, InfosMatch, RowsOK, Gaining, Losing,
            ParentIds, PrimaryEntity
    <2> QED BY <2>1, <2>2
  <1> QED
    BY <1>1, <1>2, <1>3, <1>4 DEF IInv

(* Nothing is left of an aborted transaction.                              *)
LEMMA AbortStep ==
    ASSUME IInv, NEW r \in Requests, Abort(r), UNCHANGED overlaps
    PROVE  IInv'
  <1>1. request'[r] = IdleRequest /\ request' = [request EXCEPT ![r] = request'[r]]
    BY DEF Abort, IInv, TypeOK
  <1>2. db' = db /\ forked' \in BOOLEAN /\ overlaps' \in 0..MaxOverlaps
    BY DEF Abort, IInv, TypeOK
  <1>3. request'[r].pc = "idle"
    BY <1>1 DEF IdleRequest
  <1> QED
    BY <1>1, <1>2, <1>3, OneRequestChanges

LEMMA ReadStep ==
    ASSUME IInv, NEW r \in Requests, Read(r)
    PROVE  IInv'
  <1>0. PICK t \in Tables : \E new \in Tags(t) :
            request' = [request EXCEPT ![r] = [pc |-> "read", table |-> t, old |-> db.columns[t],
                                               new |-> new]]
    BY DEF Read
  <1>1. PICK new \in Tags(t) :
            request' = [request EXCEPT ![r] = [pc |-> "read", table |-> t, old |-> db.columns[t],
                                               new |-> new]]
    BY <1>0
  <1> DEFINE x == [pc |-> "read", table |-> t, old |-> db.columns[t], new |-> new]
  <1>2. request'[r] = x /\ request' = [request EXCEPT ![r] = request'[r]]
    BY <1>1 DEF IInv, TypeOK
  <1>3. db.columns[t] \in Tags(t)
    BY DEF IInv, TypeOK, Db
  <1>4. x \in ReadRequest /\ ReadOK(x) /\ x.pc = "read"
    BY <1>3 DEF ReadRequest, ReadOK
  <1>5. db' = db /\ forked' \in BOOLEAN
    BY DEF Read, IInv, TypeOK
  <1>6. overlaps' \in 0..MaxOverlaps
    BY EntityRelationshipAssumption DEF Read, IInv, TypeOK
  <1> HIDE DEF x
  <1> QED
    BY <1>2, <1>4, <1>5, <1>6, OneRequestChanges

(* A transaction starts with the committed infos and an agreeing plan.     *)
LEMMA BeginStep ==
    ASSUME IInv, NEW r \in Requests, Begin(r)
    PROVE  IInv'
  <1> DEFINE t == request[r].table
             old == request[r].old
             new == request[r].new
             docs == UpdateReferences([db EXCEPT !.columns[t] = new], t, old, new)
             written == Changed(db, docs) \cup (IF db.columns[t] = new THEN {} ELSE {t})
             adds == ParentsToAdd(docs, t, old, new)
             removes == ParentsToRemove(docs, t, old, new)
             x == [pc |-> "transaction", table |-> t, old |-> old, new |-> new, docs |-> docs,
                   written |-> written, missed |-> {}, infosAdded |-> {}, infosRemoved |-> {},
                   adds |-> adds, removes |-> removes]
  <1>1. request[r].pc = "read" /\ request' = [request EXCEPT ![r] = x]
    BY DEF Begin
  <1>2. request'[r] = x /\ request' = [request EXCEPT ![r] = request'[r]]
    BY <1>1 DEF IInv, TypeOK
  <1>3. request[r] \in ReadRequest /\ ReadOK(request[r])
    BY <1>1, RequestForm DEF IInv, Idle
  <1>4. t \in Tables /\ old \in Tags(t) /\ new \in Tags(t)
        /\ old \in UNION {Tags(s) : s \in Tables} /\ new \in UNION {Tags(s) : s \in Tables}
    BY <1>3 DEF ReadRequest, ReadOK
  <1>5. docs \in Db /\ docs.parents = db.parents /\ docs.infos = db.infos
    BY <1>4, ReferencesType DEF IInv, TypeOK
  <1>6. written \subseteq Entities \cup Tables
    BY <1>4 DEF Changed
  <1> HIDE DEF t, old, new, docs, written
  <1>7. /\ adds \subseteq Entities
        /\ removes \subseteq Entities
        /\ adds # {} => PrimaryEntity(t, new) \in Entities
        /\ removes # {} => PrimaryEntity(t, old) \in Entities
        /\ PrimaryEntity(t, new) = PrimaryEntity(t, old) => adds \cap removes = {}
    BY <1>4, <1>5, PlanType
  <1> HIDE DEF adds, removes
  <1>8. x \in OpenRequest
    BY <1>4, <1>5, <1>6, <1>7 DEF OpenRequest
  <1>9. ReadOK(x) /\ PlanOK(x)
    BY <1>4, <1>7 DEF ReadOK, PlanOK, Gaining, Losing
  <1>10. InfosMatch(x.docs) /\ RowsOK(x)
    BY <1>5 DEF InfosMatch, RowsOK, IInv, InfosMatchParents, ParentIds
  <1>11. db' = db /\ forked' \in BOOLEAN /\ overlaps' \in 0..MaxOverlaps
    BY DEF Begin, IInv, TypeOK
  <1>12. RowsOK(request'[r]) /\ PlanOK(request'[r])
    BY <1>2, <1>9, <1>10
  <1> HIDE DEF x
  <1> QED
    BY <1>2, <1>8, <1>9, <1>10, <1>11, <1>12, OneRequestChanges

(* One parent added: the child is written, and its infos follow.           *)
LEMMA AddParentStep ==
    ASSUME IInv, NEW r \in Requests, AddParent(r)
    PROVE  IInv'
  <1> DEFINE q == request[r]
             c == PrimaryEntity(q.table, q.new)
  <1>1. q \in OpenRequest /\ TransactionOK(q)
    BY RequestForm DEF AddParent, IInv
  <1>2. PICK p \in q.adds :
          IF MayAdd(q.docs, p, c) /\ <<c, p>> \notin q.docs.infos
          THEN LET docs == AddRelationship(q.docs, p, c, q.table) IN
               /\ request' = [request EXCEPT ![r] =
                     [q EXCEPT !.adds = @ \ {p}, !.docs = docs,
                               !.infosAdded = @ \cup {<<c, p>>},
                               !.written = @ \cup Changed(q.docs, docs)]]
               /\ forked' = (forked \/ HasFork(docs))
               /\ UNCHANGED db
          ELSE Abort(r)
    BY DEF AddParent
  <1>3. CASE ~(MayAdd(q.docs, p, c) /\ <<c, p>> \notin q.docs.infos)
    <2>1. Abort(r) /\ UNCHANGED overlaps
      BY <1>2, <1>3 DEF AddParent
    <2> QED
      BY <2>1, AbortStep
  <1>4. CASE MayAdd(q.docs, p, c) /\ <<c, p>> \notin q.docs.infos
    <2> DEFINE docs == AddRelationship(q.docs, p, c, q.table)
               changed == Changed(q.docs, docs)
               x == [q EXCEPT !.adds = @ \ {p}, !.docs = docs, !.infosAdded = @ \cup {<<c, p>>},
                              !.written = @ \cup changed]
    <2>1. c \in Entities /\ p \in Entities /\ q.docs \in Db /\ q.table \in Tables
      BY <1>1 DEF TransactionOK, PlanOK, Gaining, OpenRequest
    <2>2. docs \in Db /\ docs.infos = q.docs.infos \cup {<<c, p>>}
      <3> HIDE DEF q, c
      <3>1. /\ docs \in Db
            /\ docs.parents = [q.docs.parents EXCEPT ![c] = @ \cup {<<p, q.table>>}]
            /\ docs.infos = q.docs.infos \cup {<<c, p>>}
        BY <2>1, AddType
      <3> QED
        BY <3>1
    <2>3. InfosMatch(docs) /\ c \in changed
      BY <1>1, <1>4, <2>1, AddMatches DEF TransactionOK
    <2>4. changed \subseteq Entities
      BY DEF Changed
    <2>5. request'[r] = x /\ request' = [request EXCEPT ![r] = request'[r]] /\ db' = db
      BY <1>2, <1>4 DEF IInv, TypeOK
    <2>6. forked' \in BOOLEAN /\ overlaps' \in 0..MaxOverlaps
      <3>1. forked' = (forked \/ HasFork(docs))
        BY <1>2, <1>4
      <3> QED
        BY <3>1 DEF AddParent, IInv, TypeOK
    <2> HIDE DEF q, c, docs, changed
    <2>7. /\ x.pc = q.pc /\ x.table = q.table /\ x.old = q.old /\ x.new = q.new
          /\ x.missed = q.missed /\ x.infosRemoved = q.infosRemoved /\ x.removes = q.removes
          /\ x.adds = q.adds \ {p} /\ x.docs = docs /\ x.infosAdded = q.infosAdded \cup {<<c, p>>}
          /\ x.written = q.written \cup changed
      BY <1>1 DEF OpenRequest
    <2>8. x \in OpenRequest
      <3>1. /\ q.adds \ {p} \in SUBSET Entities
            /\ q.infosAdded \cup {<<c, p>>} \in SUBSET (Entities \X Entities)
            /\ q.written \cup changed \in SUBSET (Entities \cup Tables)
        BY <1>1, <2>1, <2>4 DEF OpenRequest
      <3> QED
        BY <1>1, <2>2, <3>1 DEF OpenRequest
    <2> HIDE DEF x
    <2>9. ReadOK(x) /\ Gaining(x) = c /\ Losing(x) = Losing(q)
      BY <1>1, <2>7 DEF TransactionOK, ReadOK, Gaining, Losing, c
    <2>10. PlanOK(x)
      <3>1. x.adds # {} => Gaining(x) \in Entities
        BY <2>1, <2>9
      <3>2. x.removes # {} => Losing(x) \in Entities
        BY <1>1, <2>7, <2>9 DEF TransactionOK, PlanOK
      <3>3. ASSUME NEW y \in x.removes
            PROVE  <<Losing(x), y>> \notin x.infosAdded /\ (Gaining(x) = Losing(x) => y \notin x.adds)
        <4>1. <<Losing(q), y>> \notin q.infosAdded /\ (c = Losing(q) => y \notin q.adds)
          BY <1>1, <2>7 DEF TransactionOK, PlanOK, Gaining, c
        <4>2. <<Losing(q), y>> # <<c, p>>
          BY <4>1
        <4> QED
          BY <4>1, <4>2, <2>7, <2>9
      <3> QED
        BY <3>1, <3>2, <3>3 DEF PlanOK
    <2>11. RowsOK(x)
      <3>1. \A y \in x.infosAdded \cup x.infosRemoved : y[1] \in x.written
        BY <1>1, <2>3, <2>7 DEF TransactionOK, RowsOK
      <3>2. \A e \in Entities \ x.missed : \A y \in Entities :
               <<e, y>> \in x.docs.infos <=> <<e, y>> \in (db.infos \ x.infosRemoved) \cup x.infosAdded
        BY <1>1, <2>2, <2>7 DEF TransactionOK, RowsOK
      <3> QED
        BY <3>1, <3>2 DEF RowsOK
    <2>12. InfosMatch(x.docs)
      BY <2>3, <2>7
    <2> QED
      BY <2>5, <2>6, <2>8, <2>9, <2>10, <2>11, <2>12, OneRequestChanges
  <1> QED
    BY <1>3, <1>4

(* One parent removed: the child is written, and its infos follow; what is *)
(* removed has not been added by the same transaction.                     *)
LEMMA RemoveParentStep ==
    ASSUME IInv, NEW r \in Requests, RemoveParent(r)
    PROVE  IInv'
  <1> DEFINE q == request[r]
             c == PrimaryEntity(q.table, q.old)
  <1>1. q \in OpenRequest /\ TransactionOK(q) /\ q.adds = {}
    BY RequestForm DEF RemoveParent, IInv
  <1>2. PICK p \in q.removes :
          IF p \in ParentIds(q.docs, c) /\ <<c, p>> \in q.docs.infos
          THEN LET docs == RemoveRelationship(q.docs, p, c) IN
               /\ request' = [request EXCEPT ![r] =
                     [q EXCEPT !.removes = @ \ {p}, !.docs = docs,
                               !.infosRemoved = @ \cup {<<c, p>>},
                               !.written = @ \cup Changed(q.docs, docs)]]
               /\ UNCHANGED <<db, forked>>
          ELSE Abort(r)
    BY DEF RemoveParent
  <1>3. CASE ~(p \in ParentIds(q.docs, c) /\ <<c, p>> \in q.docs.infos)
    <2>1. Abort(r) /\ UNCHANGED overlaps
      BY <1>2, <1>3 DEF RemoveParent
    <2> QED
      BY <2>1, AbortStep
  <1>4. CASE p \in ParentIds(q.docs, c) /\ <<c, p>> \in q.docs.infos
    <2> DEFINE docs == RemoveRelationship(q.docs, p, c)
               changed == Changed(q.docs, docs)
               x == [q EXCEPT !.removes = @ \ {p}, !.docs = docs,
                              !.infosRemoved = @ \cup {<<c, p>>}, !.written = @ \cup changed]
    <2>1. c \in Entities /\ p \in Entities /\ q.docs \in Db
      BY <1>1 DEF TransactionOK, PlanOK, Losing, OpenRequest
    <2>2. docs \in Db /\ docs.infos = q.docs.infos \ {<<c, p>>}
      <3> HIDE DEF q, c
      <3>1. /\ docs \in Db
            /\ docs.parents = [q.docs.parents EXCEPT ![c] = {y \in @ : y[1] # p}]
            /\ docs.infos = q.docs.infos \ {<<c, p>>}
        BY <2>1, RemoveType
      <3> QED
        BY <3>1
    <2>3. InfosMatch(docs) /\ c \in changed
      BY <1>1, <1>4, <2>1, RemoveMatches DEF TransactionOK
    <2>4. changed \subseteq Entities
      BY DEF Changed
    <2>5. request'[r] = x /\ request' = [request EXCEPT ![r] = request'[r]] /\ db' = db
          /\ forked' = forked
      BY <1>2, <1>4 DEF IInv, TypeOK
    <2>6. forked' \in BOOLEAN /\ overlaps' \in 0..MaxOverlaps
      BY <2>5 DEF RemoveParent, IInv, TypeOK
    <2> HIDE DEF q, c, docs, changed
    <2>7. /\ x.pc = q.pc /\ x.table = q.table /\ x.old = q.old /\ x.new = q.new
          /\ x.missed = q.missed /\ x.infosAdded = q.infosAdded /\ x.adds = q.adds
          /\ x.removes = q.removes \ {p} /\ x.docs = docs
          /\ x.infosRemoved = q.infosRemoved \cup {<<c, p>>} /\ x.written = q.written \cup changed
      BY <1>1 DEF OpenRequest
    <2>8. x \in OpenRequest
      <3>1. /\ q.removes \ {p} \in SUBSET Entities
            /\ q.infosRemoved \cup {<<c, p>>} \in SUBSET (Entities \X Entities)
            /\ q.written \cup changed \in SUBSET (Entities \cup Tables)
        BY <1>1, <2>1, <2>4 DEF OpenRequest
      <3> QED
        BY <1>1, <2>2, <3>1 DEF OpenRequest
    <2> HIDE DEF x
    <2>9. ReadOK(x) /\ Gaining(x) = Gaining(q) /\ Losing(x) = c
      BY <1>1, <2>7 DEF TransactionOK, ReadOK, Gaining, Losing, c
    <2>10. PlanOK(x)
      BY <1>1, <2>1, <2>7, <2>9 DEF TransactionOK, PlanOK, Losing, c
    <2>11. RowsOK(x)
      <3>1. \A y \in x.infosAdded \cup x.infosRemoved : y[1] \in x.written
        BY <1>1, <2>3, <2>7 DEF TransactionOK, RowsOK
      <3>2. <<c, p>> \notin q.infosAdded
        BY <1>1 DEF TransactionOK, PlanOK, Losing, c
      <3>3. \A e \in Entities \ x.missed : \A y \in Entities :
               <<e, y>> \in x.docs.infos <=> <<e, y>> \in (db.infos \ x.infosRemoved) \cup x.infosAdded
        BY <1>1, <2>2, <2>7, <3>2 DEF TransactionOK, RowsOK
      <3> QED
        BY <3>1, <3>3 DEF RowsOK
    <2>12. InfosMatch(x.docs)
      BY <2>3, <2>7
    <2> QED
      BY <2>5, <2>6, <2>8, <2>9, <2>10, <2>11, <2>12, OneRequestChanges
  <1> QED
    BY <1>3, <1>4

(* A commit without conflicts: the rows it writes agree in its own version *)
(* and nobody has changed them, the others are as they were; and the other *)
(* transactions have missed exactly the rows that changed under them.      *)
LEMMA CommitStep ==
    ASSUME IInv, NEW r \in Requests, Commit(r)
    PROVE  IInv'
  <1> DEFINE q == request[r]
             after == Merged(q)
  <1>1. q \in OpenRequest /\ TransactionOK(q)
    BY RequestForm DEF Commit, IInv
  <1>2. CASE Conflicts(q)
    <2>1. Abort(r) /\ UNCHANGED overlaps
      BY <1>2 DEF Commit
    <2> QED
      BY <2>1, AbortStep
  <1>3. CASE ~Conflicts(q)
    <2>1. /\ db' = after
          /\ request' = [s \in Requests |->
                IF s = r THEN IdleRequest
                ELSE IF InTransaction(s) THEN [request[s] EXCEPT !.missed = @ \cup q.written]
                ELSE request[s]]
          /\ UNCHANGED <<forked, overlaps>>
      BY <1>3 DEF Commit
    <2>2. /\ after \in Db
          /\ after.parents = [e \in Entities |-> IF e \in q.written THEN q.docs.parents[e]
                                                ELSE db.parents[e]]
          /\ after.infos = (db.infos \ q.infosRemoved) \cup q.infosAdded
      <3> HIDE DEF q
      <3>1. db \in Db /\ ReadOK(q)
        BY <1>1 DEF IInv, TypeOK, TransactionOK
      <3> QED
        BY <1>1, <3>1, MergedType
    <2> HIDE DEF q, after
    <2>3. \A e \in Entities : e \notin q.written => \A p \in Entities :
             <<e, p>> \in after.infos <=> <<e, p>> \in db.infos
      <3>1. \A e, p \in Entities : e \notin q.written => <<e, p>> \notin q.infosAdded \cup q.infosRemoved
        BY <1>1 DEF TransactionOK, RowsOK
      <3> QED
        BY <2>2, <3>1
    <2>4. InfosMatch(after)
      <3> SUFFICES ASSUME NEW e \in Entities, NEW p \in Entities
                   PROVE  <<e, p>> \in after.infos <=> p \in ParentIds(after, e)
        BY DEF InfosMatch
      <3>1. CASE e \in q.written
        <4>1. e \notin q.missed
          BY <1>3, <3>1 DEF Conflicts
        <4>2. <<e, p>> \in q.docs.infos <=> <<e, p>> \in after.infos
          BY <1>1, <2>2, <4>1 DEF TransactionOK, RowsOK
        <4>3. ParentIds(after, e) = ParentIds(q.docs, e)
          BY <2>2, <3>1 DEF ParentIds
        <4> QED
          BY <1>1, <4>2, <4>3 DEF TransactionOK, InfosMatch
      <3>2. CASE e \notin q.written
        <4>1. ParentIds(after, e) = ParentIds(db, e)
          BY <2>2, <3>2 DEF ParentIds
        <4> QED
          BY <2>3, <3>2, <4>1 DEF IInv, InfosMatchParents
      <3> QED BY <3>1, <3>2
    <2>5. InfosMatchParents'
      BY <2>1, <2>4 DEF InfosMatchParents, InfosMatch, ParentIds
    <2>6. ASSUME NEW s \in Requests, s # r, InTransaction(s)
          PROVE  /\ request'[s] \in OpenRequest
                 /\ InTransaction(s)'
                 /\ TransactionOK(request[s])'
      <3> DEFINE o == request[s]
                 x == [o EXCEPT !.missed = @ \cup q.written]
      <3>1. o \in OpenRequest /\ TransactionOK(o) /\ o.pc = "transaction"
        BY <2>6, RequestForm DEF IInv, InTransaction
      <3>2. request'[s] = x
        BY <2>1, <2>6
      <3> HIDE DEF o
      <3>3. /\ x.pc = o.pc /\ x.table = o.table /\ x.old = o.old /\ x.new = o.new
            /\ x.docs = o.docs /\ x.written = o.written /\ x.infosAdded = o.infosAdded
            /\ x.infosRemoved = o.infosRemoved /\ x.adds = o.adds /\ x.removes = o.removes
            /\ x.missed = o.missed \cup q.written
        BY <3>1 DEF OpenRequest
      <3>4. x \in OpenRequest
        <4>1. o.missed \cup q.written \in SUBSET (Entities \cup Tables)
          BY <1>1, <3>1 DEF OpenRequest
        <4> QED
          BY <3>1, <4>1 DEF OpenRequest
      <3> HIDE DEF x
      <3>5. ReadOK(x) /\ PlanOK(x) /\ InfosMatch(x.docs)
        BY <3>1, <3>3 DEF TransactionOK, ReadOK, PlanOK, Gaining, Losing
      <3>6. \A y \in x.infosAdded \cup x.infosRemoved : y[1] \in x.written
        BY <3>1, <3>3 DEF TransactionOK, RowsOK
      <3>7. \A e \in Entities \ x.missed : \A p \in Entities :
               <<e, p>> \in x.docs.infos
                 <=> <<e, p>> \in (after.infos \ x.infosRemoved) \cup x.infosAdded
        BY <2>3, <3>1, <3>3 DEF TransactionOK, RowsOK
      <3>8. TransactionOK(request[s])'
        <4>1. ReadOK(request[s])'
          BY <3>2, <3>5 DEF ReadOK
        <4>2. PlanOK(request[s])'
          BY <3>2, <3>5 DEF PlanOK, Gaining, Losing, PrimaryEntity
        <4>3. InfosMatch(request[s].docs)'
          BY <3>2, <3>5 DEF InfosMatch, ParentIds
        <4>4. RowsOK(request[s])'
          BY <2>1, <3>2, <3>6, <3>7 DEF RowsOK
        <4> QED
          BY <4>1, <4>2, <4>3, <4>4 DEF TransactionOK
      <3> QED
        BY <3>1, <3>2, <3>3, <3>4, <3>8 DEF InTransaction
    <2>7. ASSUME NEW s \in Requests, s # r, ~InTransaction(s)
          PROVE  request'[s] = request[s]
      BY <2>1, <2>7
    <2>8. request'[r] = IdleRequest
      BY <2>1
    <2>9. TypeOK'
      <3>1. request' \in [Requests -> {IdleRequest} \cup ReadRequest \cup OpenRequest]
        <4>1. \A s \in Requests : request'[s] \in {IdleRequest} \cup ReadRequest \cup OpenRequest
          BY <2>6, <2>7, <2>8 DEF IInv, TypeOK
        <4>2. request' = [s \in Requests |-> request'[s]]
          BY <2>1
        <4> QED
          BY <4>1, <4>2
      <3> QED
        BY <2>1, <2>2, <3>1 DEF IInv, TypeOK
    <2>10. ASSUME NEW s \in Requests, InTransaction(s)' PROVE TransactionOK(request[s])'
      <3>1. s # r
        BY <2>8, <2>10 DEF InTransaction, IdleRequest
      <3>2. InTransaction(s)
        BY <2>7, <2>10, <3>1 DEF InTransaction
      <3> QED
        BY <2>6, <3>1, <3>2
    <2>11. ASSUME NEW s \in Requests, ~Idle(s)' PROVE ReadOK(request[s])'
      <3>1. s # r
        BY <2>8, <2>11 DEF Idle, IdleRequest
      <3>2. CASE InTransaction(s)
        BY <2>6, <3>1, <3>2 DEF TransactionOK
      <3>3. CASE ~InTransaction(s)
        BY <2>7, <2>11, <3>1, <3>3 DEF IInv, Idle, ReadOK
      <3> QED BY <3>2, <3>3
    <2> QED
      BY <2>5, <2>9, <2>10, <2>11 DEF IInv
  <1> QED
    BY <1>2, <1>3

LEMMA InitOK == Init => IInv
  <1> SUFFICES ASSUME Init PROVE IInv
    OBVIOUS
  <1>1. db = EmptyDb /\ \A r \in Requests : request[r] = IdleRequest
    BY DEF Init
  <1>2. EmptyDb \in Db
    <2>1. \A t \in Tables : [c \in ColumnsOf[t] |-> None] \in Tags(t)
      BY DEF Tags
    <2> QED
      BY <2>1 DEF EmptyDb, Db
  <1>3. TypeOK
    <2>1. overlaps \in 0..MaxOverlaps
      BY EntityRelationshipAssumption DEF Init
    <2>2. forked \in BOOLEAN
      BY DEF Init
    <2>3. request \in [Requests -> {IdleRequest} \cup ReadRequest \cup OpenRequest]
      BY DEF Init
    <2> QED
      BY <1>1, <1>2, <2>1, <2>2, <2>3 DEF TypeOK
  <1>4. InfosMatchParents
    BY <1>1 DEF InfosMatchParents, ParentIds, EmptyDb
  <1> QED
    BY <1>1, <1>3, <1>4 DEF IInv, Idle, InTransaction, IdleRequest

LEMMA NextOK == IInv /\ [Next]_vars => IInv'
  <1> SUFFICES ASSUME IInv, [Next]_vars PROVE IInv'
    OBVIOUS
  <1>1. ASSUME NEW r \in Requests, Read(r) PROVE IInv'
    BY <1>1, ReadStep
  <1>2. ASSUME NEW r \in Requests, Begin(r) PROVE IInv'
    BY <1>2, BeginStep
  <1>3. ASSUME NEW r \in Requests, AddParent(r) PROVE IInv'
    BY <1>3, AddParentStep
  <1>4. ASSUME NEW r \in Requests, RemoveParent(r) PROVE IInv'
    BY <1>4, RemoveParentStep
  <1>5. ASSUME NEW r \in Requests, Commit(r) PROVE IInv'
    BY <1>5, CommitStep
  <1>6. ASSUME NEW r \in Requests, Fail(r) PROVE IInv'
    BY <1>6, AbortStep DEF Fail
  <1>7. CASE UNCHANGED vars
    <2>1. db' = db /\ request' = request /\ forked' = forked /\ overlaps' = overlaps
      BY <1>7 DEF vars
    <2>2. TypeOK'
      BY <2>1 DEF IInv, TypeOK
    <2>3. InfosMatchParents'
      BY <2>1 DEF IInv, InfosMatchParents, ParentIds
    <2>4. ASSUME NEW r \in Requests, ~Idle(r)' PROVE ReadOK(request[r])'
      BY <2>1, <2>4 DEF IInv, Idle, ReadOK
    <2>5. ASSUME NEW r \in Requests, InTransaction(r)' PROVE TransactionOK(request[r])'
      <3>1. TransactionOK(request[r])
        BY <2>1, <2>5 DEF IInv, InTransaction
      <3> QED
        BY <2>1, <3>1 DEF TransactionOK, ReadOK, PlanOK, InfosMatch, RowsOK, Gaining, Losing,
            ParentIds, PrimaryEntity
    <2> QED
      BY <2>2, <2>3, <2>4, <2>5 DEF IInv
  <1> QED
    BY <1>1, <1>2, <1>3, <1>4, <1>5, <1>6, <1>7 DEF Next

-----------------------------------------------------------------------------
(* Results *)

(* The documents and the requests are always of their types, however many  *)
(* requests save however many tables at once.                              *)
THEOREM TypeCorrect == Spec => []TypeOK
  <1>1. IInv => TypeOK
    BY DEF IInv
  <1> QED
    BY InitOK, NextOK, <1>1, PTL DEF Spec

(* However saves interleave and fail, there is a relationship info         *)
(* document for a child and a parent exactly when the child names it.      *)
THEOREM InfosFollowParents == Spec => []InfosMatchParents
  <1>1. IInv => InfosMatchParents
    BY DEF IInv
  <1> QED
    BY InitOK, NextOK, <1>1, PTL DEF Spec

-----------------------------------------------------------------------------
(* Saves that do not overlap *)

Alone == \A r, s \in Requests : ~Idle(r) /\ ~Idle(s) => r = s

(* At most one table relates an entity to one of its parents.              *)
OneTableEach(docs) == \A e \in Entities : \A x, y \in docs.parents[e] : x[1] = y[1] => x = y

(* The tables that entities name are tagged with them.                     *)
ReferencesMatch(docs) ==
    \A e \in Entities : \A t \in Tables :
        /\ t \in docs.primaryTableIds[e] <=> PrimaryEntity(t, docs.columns[t]) = e
        /\ t \in docs.tableIds[e] => e \in Tagged(t, docs.columns[t])

Related(t, cols, e, p) == PrimaryEntity(t, cols) = e /\ p \in ParentEntities(t, cols)

ParentsMatch(docs) ==
    \A e, p \in Entities : \A t \in Tables :
        <<p, t>> \in docs.parents[e] <=> Related(t, docs.columns[t], e, p)

(* In the middle of a save, its table relates what it is to relate except  *)
(* for the parents still to be added, and the parents still to be removed. *)
Halfway(q, e, p) == \/ Related(q.table, q.new, e, p) /\ p \notin q.adds
                    \/ Losing(q) = e /\ p \in q.removes

ParentsPlanned(q) ==
    \A e, p \in Entities : \A t \in Tables :
        <<p, t>> \in q.docs.parents[e] <=> IF t = q.table THEN Halfway(q, e, p)
                                           ELSE Related(t, db.columns[t], e, p)

(* A transaction knows what it has written.                                *)
Tracked(q) ==
    /\ q.docs.columns = [db.columns EXCEPT ![q.table] = q.new]
    /\ q.table \notin q.written => db.columns[q.table] = q.new
    /\ \A e \in Entities \ q.written : /\ q.docs.tableIds[e] = db.tableIds[e]
                                       /\ q.docs.primaryTableIds[e] = db.primaryTableIds[e]
                                       /\ q.docs.parents[e] = db.parents[e]

AloneOK(q) ==
    /\ q.adds \subseteq ParentEntities(q.table, q.new)
    /\ Gaining(q) = Losing(q) => q.removes \cap ParentEntities(q.table, q.new) = {}
    /\ ReferencesMatch(q.docs)
    /\ OneTableEach(q.docs)
    /\ ParentsPlanned(q)
    /\ Tracked(q)

SerialInv ==
    overlaps = 0 =>
        /\ Alone
        /\ ReferencesMatch(db) /\ OneTableEach(db) /\ ParentsMatch(db)
        /\ \A r \in Requests : ~Idle(r) => request[r].old = db.columns[request[r].table]
        /\ \A r \in Requests : InTransaction(r) => AloneOK(request[r])

LEMMA NoneIsNoEntity == None \notin Entities
  BY EntityRelationshipAssumption DEF None

(* The count of its columns tells whether a table is tagged.               *)
LEMMA TagCount ==
    ASSUME NEW t \in Tables, NEW cols \in Tags(t), NEW e \in Entities
    PROVE  LET n == Cardinality({c \in ColumnsOf[t] : cols[c] = e}) IN
           n \in Nat /\ (n > 0 <=> e \in Tagged(t, cols))
  <1> DEFINE tagged == {c \in ColumnsOf[t] : cols[c] = e}
  <1>1. IsFiniteSet(tagged)
    BY FS_Subset, EntityRelationshipAssumption
  <1>2. Cardinality(tagged) \in Nat /\ (Cardinality(tagged) = 0 <=> tagged = {})
    BY <1>1, FS_CardinalityType, FS_EmptySet
  <1>3. e \in Tagged(t, cols) <=> tagged # {}
    BY NoneIsNoEntity DEF Tagged
  <1> QED
    BY <1>2, <1>3

LEMMA FlagTags ==
    ASSUME NEW t \in Tables, NEW old \in Tags(t), NEW new \in Tags(t), NEW e \in Entities
    PROVE  LET flag == UpdateFlag(t, old, new, e) IN
           /\ flag > 0 => e \in Tagged(t, new)
           /\ ~(flag > 0) /\ ~(flag < 0) /\ e \in Tagged(t, old) => e \in Tagged(t, new)
  <1> DEFINE n == Cardinality({c \in ColumnsOf[t] : new[c] = e})
             m == Cardinality({c \in ColumnsOf[t] : old[c] = e})
  <1>1. /\ n \in Nat /\ (n > 0 <=> e \in Tagged(t, new))
        /\ m \in Nat /\ (m > 0 <=> e \in Tagged(t, old))
    BY TagCount
  <1>2. UpdateFlag(t, old, new, e) = n - m
    BY DEF UpdateFlag
  <1> HIDE DEF n, m
  <1> QED
    BY <1>1, <1>2

LEMMA FlagPrimary ==
    ASSUME NEW t \in Tables, NEW old, NEW new, NEW e \in Entities
    PROVE  LET flag == PrimaryUpdateFlag(t, old, new, e) IN
           /\ flag > 0 <=> PrimaryEntity(t, new) = e /\ PrimaryEntity(t, old) # e
           /\ flag < 0 <=> PrimaryEntity(t, new) # e /\ PrimaryEntity(t, old) = e
  BY DEF PrimaryUpdateFlag, PrimaryEntity

LEMMA ReferencesAre ==
    ASSUME NEW docs \in Db, NEW t \in Tables, NEW old \in Tags(t), NEW new \in Tags(t)
    PROVE  LET after == UpdateReferences([docs EXCEPT !.columns[t] = new], t, old, new) IN
           /\ after.columns = [docs.columns EXCEPT ![t] = new]
           /\ \A e \in Entities :
                /\ after.tableIds[e] =
                     IncludeOrExclude(UpdateFlag(t, old, new, e), docs.tableIds[e], t)
                /\ after.primaryTableIds[e] =
                     IncludeOrExclude(PrimaryUpdateFlag(t, old, new, e), docs.primaryTableIds[e], t)
  <1> DEFINE columns == [docs.columns EXCEPT ![t] = new]
             tableIds == [e \in Entities |->
                 IncludeOrExclude(UpdateFlag(t, old, new, e), docs.tableIds[e], t)]
             primaryTableIds == [e \in Entities |->
                 IncludeOrExclude(PrimaryUpdateFlag(t, old, new, e), docs.primaryTableIds[e], t)]
             after == UpdateReferences([docs EXCEPT !.columns[t] = new], t, old, new)
  <1>1. after = [docs EXCEPT !.columns = columns, !.tableIds = tableIds,
                             !.primaryTableIds = primaryTableIds]
    BY DEF UpdateReferences, Db
  <1> HIDE DEF columns, tableIds, primaryTableIds, after
  <1>2. /\ after.columns = columns /\ after.tableIds = tableIds
        /\ after.primaryTableIds = primaryTableIds
    BY <1>1 DEF Db
  <1> QED
    BY <1>2 DEF columns, tableIds, primaryTableIds, after

(* The references follow the columns that a save writes.                   *)
LEMMA ReferencesFollow ==
    ASSUME NEW docs \in Db, NEW t \in Tables, NEW new \in Tags(t), docs.columns[t] \in Tags(t),
           ReferencesMatch(docs)
    PROVE  ReferencesMatch(UpdateReferences([docs EXCEPT !.columns[t] = new], t, docs.columns[t], new))
  <1> DEFINE old == docs.columns[t]
             after == UpdateReferences([docs EXCEPT !.columns[t] = new], t, old, new)
  <1>1. /\ after.columns = [docs.columns EXCEPT ![t] = new]
        /\ \A e \in Entities :
             /\ after.tableIds[e] =
                  IncludeOrExclude(UpdateFlag(t, old, new, e), docs.tableIds[e], t)
             /\ after.primaryTableIds[e] =
                  IncludeOrExclude(PrimaryUpdateFlag(t, old, new, e), docs.primaryTableIds[e], t)
    BY ReferencesAre
  <1> HIDE DEF after
  <1>2. after.columns[t] = new /\ \A s \in Tables \ {t} : after.columns[s] = docs.columns[s]
    BY <1>1 DEF Db
  <1>3. ASSUME NEW e \in Entities, NEW s \in Tables \ {t}
        PROVE  /\ s \in after.primaryTableIds[e] <=> PrimaryEntity(s, after.columns[s]) = e
               /\ s \in after.tableIds[e] => e \in Tagged(s, after.columns[s])
    <2>1. \A flag : \A ids : s \in IncludeOrExclude(flag, ids, t) <=> s \in ids
      BY DEF IncludeOrExclude
    <2> QED
      BY <1>1, <1>2, <2>1 DEF ReferencesMatch
  <1>4. ASSUME NEW e \in Entities
        PROVE  t \in after.primaryTableIds[e] <=> PrimaryEntity(t, new) = e
    <2> DEFINE flag == PrimaryUpdateFlag(t, old, new, e)
    <2>1. /\ flag > 0 <=> PrimaryEntity(t, new) = e /\ PrimaryEntity(t, old) # e
          /\ flag < 0 <=> PrimaryEntity(t, new) # e /\ PrimaryEntity(t, old) = e
      BY FlagPrimary
    <2>2. t \in docs.primaryTableIds[e] <=> PrimaryEntity(t, old) = e
      BY DEF ReferencesMatch
    <2> HIDE DEF flag, old
    <2>3. after.primaryTableIds[e] = IncludeOrExclude(flag, docs.primaryTableIds[e], t)
      BY <1>1 DEF flag
    <2> QED
      BY <2>1, <2>2, <2>3 DEF IncludeOrExclude
  <1>5. ASSUME NEW e \in Entities, t \in after.tableIds[e]
        PROVE  e \in Tagged(t, new)
    <2> DEFINE flag == UpdateFlag(t, old, new, e)
    <2>1. /\ flag > 0 => e \in Tagged(t, new)
          /\ ~(flag > 0) /\ ~(flag < 0) /\ e \in Tagged(t, old) => e \in Tagged(t, new)
      BY FlagTags
    <2>2. t \in docs.tableIds[e] => e \in Tagged(t, old)
      BY DEF ReferencesMatch
    <2> HIDE DEF flag, old
    <2>3. after.tableIds[e] = IncludeOrExclude(flag, docs.tableIds[e], t)
      BY <1>1 DEF flag
    <2> QED
      BY <1>5, <2>1, <2>2, <2>3 DEF IncludeOrExclude
  <1> QED
    BY <1>2, <1>3, <1>4, <1>5 DEF ReferencesMatch, after

(* A step of the only save, which leaves the committed documents alone.    *)
LEMMA AloneStep ==
    ASSUME IInv, SerialInv, overlaps = 0, NEW r \in Requests,
           \A s \in Requests \ {r} : Idle(s) \/ request'[r].pc = "idle",
           request' = [request EXCEPT ![r] = request'[r]], db' = db,
           request'[r].pc # "idle" => request'[r].old = db.columns[request'[r].table],
           request'[r].pc = "transaction" => AloneOK(request'[r])
    PROVE  SerialInv'
  <1>1. \A s \in Requests \ {r} : request'[s] = request[s]
    BY DEF IInv, TypeOK
  <1>2. Alone'
    BY <1>1 DEF SerialInv, Alone, Idle
  <1>3. ReferencesMatch(db)' /\ OneTableEach(db)' /\ ParentsMatch(db)'
    BY DEF SerialInv, ReferencesMatch, OneTableEach, ParentsMatch
  <1>4. ASSUME NEW s \in Requests, ~Idle(s)'
        PROVE  request'[s].old = db'.columns[request'[s].table]
    BY <1>1, <1>4 DEF SerialInv, Idle
  <1>5. ASSUME NEW s \in Requests, InTransaction(s)'
        PROVE  AloneOK(request[s])'
    <2>1. AloneOK(request'[s])
      BY <1>1, <1>5 DEF SerialInv, InTransaction
    <2> QED
      BY <2>1 DEF AloneOK, Gaining, Losing, PrimaryEntity, ParentEntities, ReferencesMatch, Tagged,
         OneTableEach, ParentsPlanned, Halfway, Related, Tracked
  <1> QED
    BY <1>2, <1>3, <1>4, <1>5 DEF SerialInv

LEMMA AbortAlone ==
    ASSUME IInv, SerialInv, overlaps = 0, NEW r \in Requests, Abort(r)
    PROVE  SerialInv'
  <1>1. request'[r] = IdleRequest /\ request' = [request EXCEPT ![r] = request'[r]] /\ db' = db
    BY DEF Abort, IInv, TypeOK
  <1> QED
    BY <1>1, AloneStep DEF IdleRequest

LEMMA ReadAlone ==
    ASSUME IInv, SerialInv, overlaps = 0, overlaps' = 0, NEW r \in Requests, Read(r)
    PROVE  SerialInv'
  <1>1. PICK t \in Tables : \E new \in Tags(t) :
            request' = [request EXCEPT ![r] = [pc |-> "read", table |-> t, old |-> db.columns[t],
                                               new |-> new]]
    BY DEF Read
  <1>2. PICK new \in Tags(t) :
            request' = [request EXCEPT ![r] = [pc |-> "read", table |-> t, old |-> db.columns[t],
                                               new |-> new]]
    BY <1>1
  <1>3. request'[r] = [pc |-> "read", table |-> t, old |-> db.columns[t], new |-> new]
        /\ request' = [request EXCEPT ![r] = request'[r]]
    BY <1>2 DEF IInv, TypeOK
  <1>4. (\A s \in Requests : Idle(s)) /\ db' = db
    BY DEF Read
  <1> QED
    BY <1>3, <1>4, AloneStep

LEMMA BeginAlone ==
    ASSUME IInv, SerialInv, overlaps = 0, NEW r \in Requests, Begin(r)
    PROVE  SerialInv'
  <1> DEFINE t == request[r].table
             old == request[r].old
             new == request[r].new
             docs == UpdateReferences([db EXCEPT !.columns[t] = new], t, old, new)
             written == Changed(db, docs) \cup (IF db.columns[t] = new THEN {} ELSE {t})
             adds == ParentsToAdd(docs, t, old, new)
             removes == ParentsToRemove(docs, t, old, new)
             x == [pc |-> "transaction", table |-> t, old |-> old, new |-> new, docs |-> docs,
                   written |-> written, missed |-> {}, infosAdded |-> {}, infosRemoved |-> {},
                   adds |-> adds, removes |-> removes]
  <1>1. request[r].pc = "read" /\ request' = [request EXCEPT ![r] = x] /\ db' = db
    BY DEF Begin
  <1>2. request'[r] = x /\ request' = [request EXCEPT ![r] = request'[r]]
    BY <1>1 DEF IInv, TypeOK
  <1>3. request[r] \in ReadRequest /\ ReadOK(request[r]) /\ old = db.columns[t]
    BY <1>1, RequestForm DEF IInv, Idle, SerialInv
  <1>4. t \in Tables /\ old \in Tags(t) /\ new \in Tags(t) /\ db \in Db
    BY <1>3 DEF ReadRequest, ReadOK, IInv, TypeOK
  <1>5. docs \in Db /\ docs.parents = db.parents
    BY <1>4, ReferencesType
  <1>6. docs.columns = [db.columns EXCEPT ![t] = new]
    BY <1>4, ReferencesAre
  <1>7. ReferencesMatch(docs)
    <2> HIDE DEF t, new
    <2>1. ReferencesMatch(UpdateReferences([db EXCEPT !.columns[t] = new], t, db.columns[t], new))
      BY <1>3, <1>4, ReferencesFollow DEF SerialInv
    <2> QED
      BY <1>3, <2>1
  <1>8. OneTableEach(docs)
    BY <1>5 DEF SerialInv, OneTableEach
  <1> HIDE DEF t, old, new, docs, written
  <1>9. /\ \A s \in Requests \ {r} : Idle(s)
        /\ \A e, p \in Entities : \A s \in Tables :
              <<p, s>> \in docs.parents[e] <=> Related(s, db.columns[s], e, p)
    BY <1>1, <1>5 DEF SerialInv, Alone, Idle, ParentsMatch
  <1> DEFINE gaining == PrimaryEntity(t, new)
             losing == PrimaryEntity(t, old)
  <1>10. /\ gaining \in Entities \cup {None} /\ losing \in Entities \cup {None}
         /\ ParentEntities(t, new) \subseteq Entities /\ ParentEntities(t, old) \subseteq Entities
    BY <1>4, PrimaryType, ParentEntitiesType
  <1>11. \A p \in Entities : p \in adds <=>
            /\ gaining \in Entities /\ p \in ParentEntities(t, new)
            /\ ~Related(t, old, gaining, p)
    <2>1. \A p \in Entities : gaining \in Entities =>
             (<<p, t>> \in docs.parents[gaining] <=> Related(t, old, gaining, p))
      BY <1>3, <1>4, <1>9 DEF t, old
    <2> QED
      BY <1>10, <2>1, NoneIsNoEntity DEF ParentsToAdd, Related
  <1>12. \A p \in Entities : p \in removes <=>
            /\ losing \in Entities /\ p \in ParentEntities(t, old)
            /\ ~Related(t, new, losing, p)
    <2>1. \A p \in Entities : losing \in Entities =>
             (<<p, t>> \in docs.parents[losing] <=> Related(t, old, losing, p))
      BY <1>3, <1>4, <1>9 DEF t, old
    <2> QED
      BY <1>10, <2>1, NoneIsNoEntity DEF ParentsToRemove, Related
  <1>13. adds \subseteq ParentEntities(t, new) /\ removes \subseteq ParentEntities(t, old)
    BY DEF ParentsToAdd, ParentsToRemove
  <1> HIDE DEF adds, removes
  <1>14. AloneOK(x)
    <2>1. x.table = t /\ x.new = new /\ x.docs = docs /\ x.adds = adds /\ x.removes = removes
          /\ x.written = written /\ Gaining(x) = gaining /\ Losing(x) = losing
      BY DEF Gaining, Losing
    <2>2. ParentsPlanned(x)
      <3> SUFFICES ASSUME NEW e \in Entities, NEW p \in Entities, NEW s \in Tables
                   PROVE  <<p, s>> \in docs.parents[e] <=> IF s = t THEN Halfway(x, e, p)
                                                           ELSE Related(s, db.columns[s], e, p)
        BY <2>1 DEF ParentsPlanned
      <3>1. CASE s # t
        BY <1>9, <3>1
      <3>2. CASE s = t
        <4>1. <<p, s>> \in docs.parents[e] <=> Related(t, old, e, p)
          BY <1>3, <1>9, <3>2 DEF t, old
        <4>2. Halfway(x, e, p) <=> \/ Related(t, new, e, p) /\ p \notin adds
                                   \/ losing = e /\ p \in removes
          BY <2>1 DEF Halfway
        <4>3. Halfway(x, e, p) <=> Related(t, old, e, p)
          BY <4>2, <1>11, <1>12 DEF Related
        <4> QED
          BY <3>2, <4>1, <4>3
      <3> QED
        BY <3>1, <3>2
    <2>3. Tracked(x)
      <3>1. \A e \in Entities \ written : /\ docs.tableIds[e] = db.tableIds[e]
                                          /\ docs.primaryTableIds[e] = db.primaryTableIds[e]
                                          /\ docs.parents[e] = db.parents[e]
        BY DEF written, Changed
      <3>2. t \notin written => db.columns[t] = new
        BY DEF written
      <3> QED
        BY <1>6, <2>1, <3>1, <3>2 DEF Tracked
    <2>4. gaining = losing => removes \cap ParentEntities(t, new) = {}
      BY <1>10, <1>12, <1>13 DEF Related
    <2> HIDE DEF x, gaining, losing
    <2> QED
      BY <1>7, <1>8, <1>13, <2>1, <2>2, <2>3, <2>4 DEF AloneOK
  <1>15. x.old = db.columns[x.table]
    BY <1>3 DEF t, old
  <1> HIDE DEF x
  <1> QED
    BY <1>1, <1>2, <1>9, <1>14, <1>15, AloneStep

(* What a change of parents leaves alone.                                  *)
LEMMA ParentsOnly ==
    ASSUME NEW docs \in Db, NEW p, NEW c, NEW t, NEW after,
           after = AddRelationship(docs, p, c, t) \/ after = RemoveRelationship(docs, p, c)
    PROVE  /\ after.columns = docs.columns /\ after.tableIds = docs.tableIds
           /\ after.primaryTableIds = docs.primaryTableIds
  BY DEF AddRelationship, RemoveRelationship, Db

LEMMA ReferencesKept ==
    ASSUME NEW docs, NEW after, ReferencesMatch(docs),
           after.columns = docs.columns, after.tableIds = docs.tableIds,
           after.primaryTableIds = docs.primaryTableIds
    PROVE  ReferencesMatch(after)
  BY DEF ReferencesMatch

LEMMA TrackedKept ==
    ASSUME NEW q, NEW x, Tracked(q), x.table = q.table, x.new = q.new,
           x.docs.columns = q.docs.columns, x.docs.tableIds = q.docs.tableIds,
           x.docs.primaryTableIds = q.docs.primaryTableIds,
           x.written = q.written \cup Changed(q.docs, x.docs)
    PROVE  Tracked(x)
  <1>1. \A e \in Entities \ x.written : x.docs.parents[e] = q.docs.parents[e]
    BY DEF Changed
  <1> QED
    BY <1>1 DEF Tracked

LEMMA AddAlone ==
    ASSUME IInv, SerialInv, overlaps = 0, NEW r \in Requests, AddParent(r)
    PROVE  SerialInv'
  <1> DEFINE q == request[r]
             c == PrimaryEntity(q.table, q.new)
  <1>1. /\ q \in OpenRequest /\ TransactionOK(q) /\ q.pc = "transaction" /\ AloneOK(q)
        /\ q.old = db.columns[q.table]
    BY RequestForm DEF AddParent, InTransaction, Idle, IInv, SerialInv
  <1>2. PICK p \in q.adds :
          IF MayAdd(q.docs, p, c) /\ <<c, p>> \notin q.docs.infos
          THEN LET docs == AddRelationship(q.docs, p, c, q.table) IN
               /\ request' = [request EXCEPT ![r] =
                     [q EXCEPT !.adds = @ \ {p}, !.docs = docs,
                               !.infosAdded = @ \cup {<<c, p>>},
                               !.written = @ \cup Changed(q.docs, docs)]]
               /\ forked' = (forked \/ HasFork(docs))
               /\ UNCHANGED db
          ELSE Abort(r)
    BY DEF AddParent
  <1>3. CASE Abort(r)
    BY <1>3, AbortAlone
  <1>4. CASE <<c, p>> \notin q.docs.infos /\ ~Abort(r)
    <2> DEFINE docs == AddRelationship(q.docs, p, c, q.table)
               changed == Changed(q.docs, docs)
               x == [q EXCEPT !.adds = @ \ {p}, !.docs = docs,
                              !.infosAdded = @ \cup {<<c, p>>}, !.written = @ \cup changed]
    <2>1. c \in Entities /\ p \in Entities /\ q.docs \in Db /\ q.table \in Tables
      BY <1>1 DEF TransactionOK, PlanOK, Gaining, OpenRequest
    <2>2. request' = [request EXCEPT ![r] = x] /\ db' = db
      BY <1>2, <1>4
    <2>3. request'[r] = x /\ request' = [request EXCEPT ![r] = request'[r]]
      BY <2>2 DEF IInv, TypeOK
    <2>4. /\ docs \in Db
          /\ docs.parents = [q.docs.parents EXCEPT ![c] = @ \cup {<<p, q.table>>}]
      <3> HIDE DEF q, c
      <3> QED
        BY <2>1, AddType
    <2>5. /\ docs.columns = q.docs.columns /\ docs.tableIds = q.docs.tableIds
          /\ docs.primaryTableIds = q.docs.primaryTableIds
      BY <2>1, ParentsOnly
    <2>6. \A y \in q.docs.parents[c] : y[1] # p
      BY <1>1, <1>4, <2>1 DEF TransactionOK, InfosMatch, ParentIds
    <2>7. Gaining(q) = c
      BY DEF Gaining
    <2> HIDE DEF q, c, docs, changed
    <2>8. \A e \in Entities : docs.parents[e] = IF e = c THEN q.docs.parents[e] \cup {<<p, q.table>>}
                                                ELSE q.docs.parents[e]
      BY <2>1, <2>4 DEF Db
    <2>9. /\ x.pc = q.pc /\ x.table = q.table /\ x.old = q.old /\ x.new = q.new
          /\ x.removes = q.removes /\ x.adds = q.adds \ {p} /\ x.docs = docs
          /\ x.written = q.written \cup changed
      BY <1>1 DEF OpenRequest
    <2> HIDE DEF x
    <2>10. Gaining(x) = c /\ Losing(x) = Losing(q)
      BY <2>7, <2>9 DEF Gaining, Losing
    <2>11. OneTableEach(docs)
      <3>1. OneTableEach(q.docs)
        BY <1>1 DEF AloneOK
      <3>2. ASSUME NEW e \in Entities, NEW y \in docs.parents[e], NEW z \in docs.parents[e],
                   y[1] = z[1]
            PROVE  y = z
        <4>1. CASE e # c
          BY <2>8, <3>1, <3>2, <4>1 DEF OneTableEach
        <4>2. CASE e = c
          <5>1. /\ y \in q.docs.parents[c] \/ y = <<p, q.table>>
                /\ z \in q.docs.parents[c] \/ z = <<p, q.table>>
            BY <2>8, <3>2, <4>2
          <5> QED
            BY <2>1, <2>6, <3>1, <3>2, <5>1 DEF OneTableEach
        <4> QED
          BY <4>1, <4>2
      <3> QED
        BY <3>2 DEF OneTableEach
    <2>12. ParentsPlanned(x)
      <3> SUFFICES ASSUME NEW e \in Entities, NEW a \in Entities, NEW s \in Tables
                   PROVE  <<a, s>> \in docs.parents[e] <=> IF s = q.table THEN Halfway(x, e, a)
                                                           ELSE Related(s, db.columns[s], e, a)
        BY <2>9 DEF ParentsPlanned
      <3>1. <<a, s>> \in q.docs.parents[e] <=> IF s = q.table THEN Halfway(q, e, a)
                                               ELSE Related(s, db.columns[s], e, a)
        BY <1>1 DEF AloneOK, ParentsPlanned
      <3>2. <<a, s>> \in docs.parents[e] <=> \/ <<a, s>> \in q.docs.parents[e]
                                             \/ e = c /\ a = p /\ s = q.table
        <4>1. <<a, s>> = <<p, q.table>> <=> a = p /\ s = q.table
          OBVIOUS
        <4> QED
          BY <2>8, <4>1
      <3>3. Halfway(x, e, a) <=> \/ Related(q.table, q.new, e, a) /\ (a \notin q.adds \/ a = p)
                                 \/ Losing(q) = e /\ a \in q.removes
        BY <2>9, <2>10 DEF Halfway
      <3>4. Related(q.table, q.new, e, p) <=> e = c
        BY <1>1, <2>7 DEF AloneOK, Related, Gaining
      <3> QED
        BY <3>1, <3>2, <3>3, <3>4 DEF Halfway
    <2>13. Tracked(x)
      BY <1>1, <2>5, <2>9, TrackedKept DEF AloneOK, changed
    <2>14. ReferencesMatch(docs)
      BY <1>1, <2>5, ReferencesKept DEF AloneOK
    <2>15. AloneOK(x)
      BY <1>1, <2>7, <2>9, <2>10, <2>11, <2>12, <2>13, <2>14 DEF AloneOK
    <2>16. \A s \in Requests \ {r} : Idle(s)
      BY <1>1 DEF SerialInv, Alone, Idle, q
    <2>17. x.old = db.columns[x.table]
      BY <1>1, <2>9
    <2> QED
      BY <2>2, <2>3, <2>15, <2>16, <2>17, AloneStep
  <1> QED
    BY <1>2, <1>3, <1>4

LEMMA RemoveAlone ==
    ASSUME IInv, SerialInv, overlaps = 0, NEW r \in Requests, RemoveParent(r)
    PROVE  SerialInv'
  <1> DEFINE q == request[r]
             c == PrimaryEntity(q.table, q.old)
  <1>1. /\ q \in OpenRequest /\ TransactionOK(q) /\ q.pc = "transaction" /\ AloneOK(q)
        /\ q.old = db.columns[q.table] /\ q.adds = {}
    BY RequestForm DEF RemoveParent, InTransaction, Idle, IInv, SerialInv
  <1>2. PICK p \in q.removes :
          IF p \in ParentIds(q.docs, c) /\ <<c, p>> \in q.docs.infos
          THEN LET docs == RemoveRelationship(q.docs, p, c) IN
               /\ request' = [request EXCEPT ![r] =
                     [q EXCEPT !.removes = @ \ {p}, !.docs = docs,
                               !.infosRemoved = @ \cup {<<c, p>>},
                               !.written = @ \cup Changed(q.docs, docs)]]
               /\ UNCHANGED <<db, forked>>
          ELSE Abort(r)
    BY DEF RemoveParent
  <1>3. CASE Abort(r)
    BY <1>3, AbortAlone
  <1>4. CASE ~Abort(r)
    <2> DEFINE docs == RemoveRelationship(q.docs, p, c)
               changed == Changed(q.docs, docs)
               x == [q EXCEPT !.removes = @ \ {p}, !.docs = docs,
                              !.infosRemoved = @ \cup {<<c, p>>}, !.written = @ \cup changed]
    <2>1. c \in Entities /\ p \in Entities /\ q.docs \in Db /\ q.table \in Tables
      BY <1>1 DEF TransactionOK, PlanOK, Losing, OpenRequest
    <2>2. request' = [request EXCEPT ![r] = x] /\ db' = db
      BY <1>2, <1>4
    <2>3. request'[r] = x /\ request' = [request EXCEPT ![r] = request'[r]]
      BY <2>2 DEF IInv, TypeOK
    <2>4. /\ docs \in Db
          /\ docs.parents = [q.docs.parents EXCEPT ![c] = {y \in @ : y[1] # p}]
      <3> HIDE DEF q, c
      <3> QED
        BY <2>1, RemoveType, ZenonT(30)
    <2>5. /\ docs.columns = q.docs.columns /\ docs.tableIds = q.docs.tableIds
          /\ docs.primaryTableIds = q.docs.primaryTableIds
      BY <2>1, ParentsOnly
    <2>6. Losing(q) = c
      BY DEF Losing
    <2> HIDE DEF q, c, docs, changed
    <2>7. \A e \in Entities : docs.parents[e] = IF e = c THEN {y \in q.docs.parents[e] : y[1] # p}
                                                ELSE q.docs.parents[e]
      BY <2>1, <2>4 DEF Db
    <2>8. /\ x.pc = q.pc /\ x.table = q.table /\ x.old = q.old /\ x.new = q.new
          /\ x.removes = q.removes \ {p} /\ x.adds = q.adds /\ x.docs = docs
          /\ x.written = q.written \cup changed
      BY <1>1 DEF OpenRequest
    <2> HIDE DEF x
    <2>9. Gaining(x) = Gaining(q) /\ Losing(x) = c
      BY <2>6, <2>8 DEF Gaining, Losing
    <2>10. OneTableEach(docs)
      BY <1>1, <2>7 DEF AloneOK, OneTableEach
    <2>11. ParentsPlanned(x)
      <3> SUFFICES ASSUME NEW e \in Entities, NEW a \in Entities, NEW s \in Tables
                   PROVE  <<a, s>> \in docs.parents[e] <=> IF s = q.table THEN Halfway(x, e, a)
                                                           ELSE Related(s, db.columns[s], e, a)
        BY <2>8 DEF ParentsPlanned
      <3>1. <<a, s>> \in q.docs.parents[e] <=> IF s = q.table THEN Halfway(q, e, a)
                                               ELSE Related(s, db.columns[s], e, a)
        BY <1>1 DEF AloneOK, ParentsPlanned
      <3>2. <<p, q.table>> \in q.docs.parents[c]
        BY <1>1, <2>1, <2>6 DEF AloneOK, ParentsPlanned, Halfway
      <3>3. \A z \in Tables : <<p, z>> \in q.docs.parents[c] => z = q.table
        BY <1>1, <2>1, <3>2 DEF AloneOK, OneTableEach
      <3>4. <<a, s>> \in docs.parents[e] <=> /\ <<a, s>> \in q.docs.parents[e]
                                             /\ ~(e = c /\ a = p /\ s = q.table)
        <4>1. <<a, s>> \in docs.parents[e] <=> <<a, s>> \in q.docs.parents[e] /\ ~(e = c /\ a = p)
          <5>1. <<a, s>>[1] = a
            OBVIOUS
          <5>2. CASE e = c
            <6>1. docs.parents[e] = {y \in q.docs.parents[e] : y[1] # p}
              BY <2>7, <5>2
            <6> QED
              BY <5>1, <5>2, <6>1, Zenon
          <5>3. CASE e # c
            BY <2>7, <5>3
          <5> QED
            BY <5>2, <5>3
        <4> QED
          BY <3>3, <4>1
      <3>5. Halfway(x, e, a) <=> \/ Related(q.table, q.new, e, a)
                                 \/ c = e /\ a \in q.removes \ {p}
        BY <1>1, <2>8, <2>9 DEF Halfway
      <3>6. Halfway(q, e, a) <=> \/ Related(q.table, q.new, e, a)
                                 \/ c = e /\ a \in q.removes
        BY <1>1, <2>6 DEF Halfway
      <3>7. ~Related(q.table, q.new, c, p)
        BY <1>1, <2>6 DEF AloneOK, Related, Gaining
      <3> QED
        BY <3>1, <3>4, <3>5, <3>6, <3>7
    <2>12. Tracked(x)
      BY <1>1, <2>5, <2>8, TrackedKept DEF AloneOK, changed
    <2>13. ReferencesMatch(docs)
      BY <1>1, <2>5, ReferencesKept DEF AloneOK
    <2>14. AloneOK(x)
      BY <1>1, <2>6, <2>8, <2>9, <2>10, <2>11, <2>12, <2>13 DEF AloneOK
    <2>15. \A s \in Requests \ {r} : Idle(s)
      BY <1>1 DEF SerialInv, Alone, Idle, q
    <2>16. x.old = db.columns[x.table]
      BY <1>1, <2>8
    <2> QED
      BY <2>2, <2>3, <2>14, <2>15, <2>16, AloneStep
  <1> QED
    BY <1>3, <1>4

(* Nobody else has written anything: what is committed is what the         *)
(* transaction has seen.                                                   *)
LEMMA MergedAlone ==
    ASSUME db \in Db, NEW q \in OpenRequest, Tracked(q)
    PROVE  /\ Merged(q).columns = q.docs.columns
           /\ \A e \in Entities : /\ Merged(q).tableIds[e] = q.docs.tableIds[e]
                                  /\ Merged(q).primaryTableIds[e] = q.docs.primaryTableIds[e]
                                  /\ Merged(q).parents[e] = q.docs.parents[e]
  <1> DEFINE Pick(field) ==
               [e \in Entities |-> IF e \in q.written THEN q.docs[field][e] ELSE db[field][e]]
             columns == IF q.table \in q.written THEN [db.columns EXCEPT ![q.table] = q.new]
                        ELSE db.columns
  <1>1. /\ Merged(q).columns = columns /\ Merged(q).tableIds = Pick("tableIds")
        /\ Merged(q).primaryTableIds = Pick("primaryTableIds")
        /\ Merged(q).parents = Pick("parents")
    BY DEF Merged
  <1>2. columns = q.docs.columns
    BY DEF Tracked, Db
  <1>3. \A e \in Entities : /\ Pick("tableIds")[e] = q.docs.tableIds[e]
                            /\ Pick("primaryTableIds")[e] = q.docs.primaryTableIds[e]
                            /\ Pick("parents")[e] = q.docs.parents[e]
    BY DEF Tracked
  <1> HIDE DEF Pick, columns
  <1> QED
    BY <1>1, <1>2, <1>3

LEMMA CommitAlone ==
    ASSUME IInv, SerialInv, overlaps = 0, NEW r \in Requests, Commit(r)
    PROVE  SerialInv'
  <1> DEFINE q == request[r]
  <1>1. /\ q \in OpenRequest /\ TransactionOK(q) /\ q.pc = "transaction" /\ AloneOK(q)
        /\ q.adds = {} /\ q.removes = {} /\ db \in Db
    BY RequestForm DEF Commit, InTransaction, IInv, SerialInv, TypeOK
  <1>2. CASE Conflicts(q)
    BY <1>2, AbortAlone DEF Commit
  <1>3. CASE ~Conflicts(q)
    <2>1. /\ db' = Merged(q)
          /\ request' = [s \in Requests |->
                IF s = r THEN IdleRequest
                ELSE IF InTransaction(s) THEN [request[s] EXCEPT !.missed = @ \cup q.written]
                ELSE request[s]]
      BY <1>3 DEF Commit
    <2>2. \A s \in Requests : request'[s].pc = "idle"
      BY <1>1, <2>1 DEF SerialInv, Alone, Idle, InTransaction, IdleRequest
    <2>3. /\ db'.columns = q.docs.columns
          /\ \A e \in Entities : /\ db'.tableIds[e] = q.docs.tableIds[e]
                                 /\ db'.primaryTableIds[e] = q.docs.primaryTableIds[e]
                                 /\ db'.parents[e] = q.docs.parents[e]
      BY <1>1, <2>1, MergedAlone DEF AloneOK
    <2> HIDE DEF q
    <2>4. ReferencesMatch(db)' /\ OneTableEach(db)'
      BY <1>1, <2>3 DEF AloneOK, ReferencesMatch, OneTableEach
    <2>5. ParentsMatch(db)'
      <3>1. \A e, p \in Entities : Halfway(q, e, p) <=> Related(q.table, q.new, e, p)
        BY <1>1 DEF Halfway
      <3>2. \A t \in Tables : q.docs.columns[t] = IF t = q.table THEN q.new ELSE db.columns[t]
        BY <1>1 DEF AloneOK, Tracked, Db
      <3>3. \A e, p \in Entities : \A t \in Tables :
               <<p, t>> \in q.docs.parents[e] <=> Related(t, q.docs.columns[t], e, p)
        BY <1>1, <3>1, <3>2, ZenonT(30) DEF AloneOK, ParentsPlanned
      <3> QED
        BY <2>3, <3>3 DEF ParentsMatch
    <2> QED
      BY <2>2, <2>4, <2>5 DEF SerialInv, Alone, Idle, InTransaction
  <1> QED
    BY <1>2, <1>3

LEMMA SerialInit == Init => SerialInv
  <1> SUFFICES ASSUME Init PROVE SerialInv
    OBVIOUS
  <1>1. db = EmptyDb /\ \A r \in Requests : request[r] = IdleRequest
    BY DEF Init
  <1>2. \A t \in Tables : /\ EmptyDb.columns[t] = [c \in ColumnsOf[t] |-> None]
                          /\ PrimaryEntity(t, EmptyDb.columns[t]) = None
    BY EntityRelationshipAssumption DEF EmptyDb, PrimaryEntity
  <1>3. \A e \in Entities : /\ EmptyDb.tableIds[e] = {} /\ EmptyDb.primaryTableIds[e] = {}
                            /\ EmptyDb.parents[e] = {}
    BY DEF EmptyDb
  <1>4. ReferencesMatch(db) /\ OneTableEach(db) /\ ParentsMatch(db)
    BY <1>1, <1>2, <1>3, NoneIsNoEntity DEF ReferencesMatch, OneTableEach, ParentsMatch, Related
  <1> QED
    BY <1>1, <1>4 DEF SerialInv, Alone, Idle, InTransaction, IdleRequest

LEMMA SerialNext == IInv /\ IInv' /\ SerialInv /\ [Next]_vars => SerialInv'
  <1> SUFFICES ASSUME IInv, IInv', SerialInv, [Next]_vars, overlaps' = 0 PROVE SerialInv'
    BY DEF SerialInv
  <1>1. overlaps = 0
    <2>1. overlaps \in Nat
      BY EntityRelationshipAssumption DEF IInv, TypeOK
    <2>2. overlaps' = overlaps \/ overlaps' = overlaps + 1
      BY DEF Next, Read, Begin, AddParent, RemoveParent, Commit, Fail, vars
    <2> QED
      BY <2>1, <2>2
  <1>2. ASSUME NEW r \in Requests,
               Read(r) \/ Begin(r) \/ AddParent(r) \/ RemoveParent(r) \/ Commit(r) \/ Fail(r)
        PROVE  SerialInv'
    BY <1>1, <1>2, ReadAlone, BeginAlone, AddAlone, RemoveAlone, CommitAlone, AbortAlone DEF Fail
  <1>3. CASE UNCHANGED vars
    <2>1. db' = db /\ request' = request /\ overlaps' = overlaps
      BY <1>3 DEF vars
    <2>2. ASSUME NEW r \in Requests, InTransaction(r)' PROVE AloneOK(request[r])'
      <3>1. AloneOK(request[r])
        BY <1>1, <2>1, <2>2 DEF SerialInv, InTransaction
      <3> QED
        BY <2>1, <3>1 DEF AloneOK, Gaining, Losing, PrimaryEntity, ParentEntities, ReferencesMatch,
           Tagged, OneTableEach, ParentsPlanned, Halfway, Related, Tracked
    <2> QED
      BY <1>1, <2>1, <2>2 DEF SerialInv, Alone, Idle, ReferencesMatch, OneTableEach, ParentsMatch
  <1> QED
    BY <1>2, <1>3 DEF Next

(* When saves do not overlap, the entities say what the saved columns say, *)
(* also after saves that were refused or failed on the way: the tables an  *)
(* entity is primary in, the tables it names, and the parents each table   *)
(* relates it to (table_columns_info.py, _update_entity_table_reference    *)
(* and _update_entity_relationship; relationship.py).                      *)
THEOREM TagsFollowColumns == Spec => []TagsMatched
  <1>1. SerialInv => TagsMatched
    BY DEF SerialInv, TagsMatched, ReferencesMatch, ParentsMatch, Related
  <1> QED
    BY InitOK, NextOK, SerialInit, SerialNext, <1>1, PTL DEF Spec

-----------------------------------------------------------------------------
(* What is reached along the parents: the least set that holds the parents *)
(* of an entity and those of its members                                   *)

Above(docs, e) == {e} \cup Reachable(docs)[e]

LEMMA ParentsType ==
    ASSUME NEW docs \in Db, NEW e \in Entities
    PROVE  ParentIds(docs, e) \subseteq Entities
  BY DEF ParentIds, Db

LEMMA ReachIs ==
    ASSUME NEW docs, NEW e \in Entities
    PROVE  Reachable(docs)[e] = {a \in Entities : \A s \in SUBSET Entities :
               ParentIds(docs, e) \subseteq s /\ (\A x \in s : ParentIds(docs, x) \subseteq s) => a \in s}
  BY DEF Reachable, ClosedSets

(* Parents are reached, and so are the parents of whatever is reached.     *)
LEMMA ReachClosed ==
    ASSUME NEW docs \in Db, NEW e \in Entities
    PROVE  /\ Reachable(docs)[e] \subseteq Entities
           /\ ParentIds(docs, e) \subseteq Reachable(docs)[e]
           /\ \A x \in Reachable(docs)[e] : ParentIds(docs, x) \subseteq Reachable(docs)[e]
  <1>1. \A x \in Entities : ParentIds(docs, x) \subseteq Entities
    BY ParentsType
  <1> QED
    BY <1>1, ReachIs

(* Nothing else is reached.                                                *)
LEMMA ReachLeast ==
    ASSUME NEW docs \in Db, NEW e \in Entities, NEW s \in SUBSET Entities,
           ParentIds(docs, e) \subseteq s, \A x \in s : ParentIds(docs, x) \subseteq s
    PROVE  Reachable(docs)[e] \subseteq s
  BY ReachIs

LEMMA ReachTransitive ==
    ASSUME NEW docs \in Db, NEW e \in Entities, NEW x \in Reachable(docs)[e]
    PROVE  Reachable(docs)[x] \subseteq Reachable(docs)[e]
  BY ReachClosed, ReachLeast

(* Whatever is reached is a parent or is reached from one.                 *)
LEMMA ReachFirst ==
    ASSUME NEW docs \in Db, NEW e \in Entities, NEW x \in Reachable(docs)[e]
    PROVE  \E q \in ParentIds(docs, e) : x \in Above(docs, q)
  <1> DEFINE s == UNION {Above(docs, q) : q \in ParentIds(docs, e)}
  <1>1. ParentIds(docs, e) \subseteq Entities
    BY ParentsType
  <1>2. \A q \in ParentIds(docs, e) :
           /\ Above(docs, q) \subseteq Entities
           /\ \A y \in Above(docs, q) : ParentIds(docs, y) \subseteq Above(docs, q)
    BY <1>1, ReachClosed DEF Above
  <1>3. s \in SUBSET Entities /\ \A y \in s : ParentIds(docs, y) \subseteq s
    BY <1>2
  <1>4. ParentIds(docs, e) \subseteq s
    BY DEF Above
  <1>5. Reachable(docs)[e] \subseteq s
    BY <1>3, <1>4, ReachLeast
  <1> QED
    BY <1>5

(* What is reached depends on the parents only.                            *)
LEMMA ReachSame ==
    ASSUME NEW docs, NEW after, \A e \in Entities : after.parents[e] = docs.parents[e]
    PROVE  /\ \A e \in Entities : ParentIds(after, e) = ParentIds(docs, e)
           /\ Reachable(after) = Reachable(docs)
           /\ HasFork(after) <=> HasFork(docs)
  <1>1. \A e \in Entities : ParentIds(after, e) = ParentIds(docs, e)
    BY DEF ParentIds
  <1>2. ClosedSets(after) = ClosedSets(docs)
    BY <1>1 DEF ClosedSets
  <1>3. Reachable(after) = Reachable(docs)
    BY <1>1, <1>2 DEF Reachable
  <1> QED
    BY <1>1, <1>3 DEF HasFork

(* With fewer parents less is reached.                                     *)
LEMMA ReachMonotone ==
    ASSUME NEW docs \in Db, NEW after \in Db,
           \A e \in Entities : ParentIds(docs, e) \subseteq ParentIds(after, e),
           NEW e \in Entities
    PROVE  Reachable(docs)[e] \subseteq Reachable(after)[e]
  BY ReachClosed, ReachLeast

-----------------------------------------------------------------------------
(* Documents without forks *)

(* Ancestors are what is reached, and nobody reaches itself.               *)
Lineage(docs) ==
    \A e \in Entities : /\ docs.ancestors[e] = Reachable(docs)[e]
                         /\ e \notin Reachable(docs)[e]

Forest(docs) == Lineage(docs) /\ ~HasFork(docs)

(* Two parents of an entity have nothing above them in common.             *)
LEMMA ParentsApart ==
    ASSUME NEW docs, ~HasFork(docs), NEW e \in Entities,
           NEW p \in ParentIds(docs, e), NEW q \in ParentIds(docs, e), NEW y,
           y \in Above(docs, p), y \in Above(docs, q)
    PROVE  p = q
  BY DEF HasFork, Above

(* Of two entities that are reached from one and that reach a third, one   *)
(* reaches the other.                                                      *)
LEMMA NoBranch ==
    ASSUME NEW docs \in Db, Forest(docs), NEW e \in Entities,
           NEW c \in Reachable(docs)[e], NEW x \in Reachable(docs)[e], NEW y \in Entities,
           y \in Reachable(docs)[c], y \in Reachable(docs)[x]
    PROVE  c = x \/ c \in Reachable(docs)[x] \/ x \in Reachable(docs)[c]
  <1> SUFFICES ASSUME c # x, c \notin Reachable(docs)[x], x \notin Reachable(docs)[c]
               PROVE  FALSE
    OBVIOUS
  <1> DEFINE R == Reachable(docs)
             both == {w \in Entities : c \in R[w] /\ x \in R[w]}
             neither == {w \in Entities \ {c, x} : c \notin R[w] /\ x \notin R[w]}
             s == both \cup neither
  <1>1. \A w \in Entities : /\ R[w] \subseteq Entities
                            /\ ParentIds(docs, w) \subseteq R[w]
                            /\ ParentIds(docs, w) \subseteq Entities
                            /\ \A z \in R[w] : R[z] \subseteq R[w]
    BY ReachClosed, ReachTransitive, ParentsType
  <1>2. ASSUME NEW w \in both PROVE ParentIds(docs, w) \subseteq s
    <2>1. PICK p \in ParentIds(docs, w) : c \in Above(docs, p)
      BY <1>2, ReachFirst
    <2>2. PICK q \in ParentIds(docs, w) : x \in Above(docs, q)
      BY <1>2, ReachFirst
    <2>3. y \in Above(docs, p) /\ y \in Above(docs, q)
      BY <1>1, <2>1, <2>2 DEF Above
    <2>4. p = q
      BY <1>2, <2>3, ParentsApart DEF Forest
    <2>5. p \in both
      BY <1>1, <2>1, <2>2, <2>4 DEF Above
    <2>6. ASSUME NEW z \in ParentIds(docs, w), z # p PROVE z \in neither
      <3>1. c \notin Above(docs, z) /\ x \notin Above(docs, z)
        BY <1>2, <2>1, <2>2, <2>4, <2>6, ParentsApart DEF Forest
      <3> QED
        BY <1>1, <3>1 DEF Above
    <2> QED
      BY <2>5, <2>6
  <1>3. ASSUME NEW w \in neither PROVE ParentIds(docs, w) \subseteq s
    BY <1>1, <1>3
  <1>4. e \in both
    OBVIOUS
  <1>5. R[e] \subseteq s
    <2>1. ParentIds(docs, e) \subseteq s /\ s \in SUBSET Entities
      BY <1>2, <1>4
    <2>2. \A w \in s : ParentIds(docs, w) \subseteq s
      BY <1>2, <1>3
    <2> HIDE DEF s
    <2> QED
      BY <2>1, <2>2, ReachLeast
  <1>6. c \notin s
    BY <1>1 DEF Forest, Lineage
  <1> QED
    BY <1>5, <1>6

(* What adding a parent does to the parents, to the ancestors and to what  *)
(* is reached: the child and all below it gain the parent and all above it.*)
GainsParent(docs, after, p, c) ==
    \A e \in Entities : ParentIds(after, e) = IF e = c THEN ParentIds(docs, e) \cup {p}
                                              ELSE ParentIds(docs, e)

GainAncestors(docs, after, p, c) ==
    \A e \in Entities : after.ancestors[e] =
        IF e = c \/ c \in docs.ancestors[e]
        THEN docs.ancestors[e] \cup docs.ancestors[c] \cup docs.ancestors[p] \cup {p}
        ELSE docs.ancestors[e]

ReachMore(docs, after, p, c) ==
    \A e \in Entities : Reachable(after)[e] =
        IF e = c \/ c \in Reachable(docs)[e]
        THEN Reachable(docs)[e] \cup Reachable(docs)[c] \cup Reachable(docs)[p] \cup {p}
        ELSE Reachable(docs)[e]

LEMMA AddParents ==
    ASSUME NEW docs \in Db, NEW p \in Entities, NEW c \in Entities, NEW t \in Tables
    PROVE  /\ GainsParent(docs, AddRelationship(docs, p, c, t), p, c)
           /\ GainAncestors(docs, AddRelationship(docs, p, c, t), p, c)
  <1> DEFINE after == AddRelationship(docs, p, c, t)
             gained == docs.ancestors[c] \cup docs.ancestors[p] \cup {p}
             ancestors == [e \in Entities |->
                 IF e = c \/ c \in docs.ancestors[e] THEN docs.ancestors[e] \cup gained
                 ELSE docs.ancestors[e]]
  <1>1. after.ancestors = ancestors
    BY DEF AddRelationship, Db
  <1>2. after.parents = [docs.parents EXCEPT ![c] = @ \cup {<<p, t>>}]
    BY AddType
  <1> HIDE DEF after
  <1>3. \A e \in Entities : after.parents[e] = IF e = c THEN docs.parents[e] \cup {<<p, t>>}
                                               ELSE docs.parents[e]
    BY <1>2 DEF Db
  <1>4. \A e \in Entities : after.ancestors[e] =
           IF e = c \/ c \in docs.ancestors[e] THEN docs.ancestors[e] \cup gained
           ELSE docs.ancestors[e]
    BY <1>1
  <1>5. ASSUME NEW e \in Entities
        PROVE  ParentIds(after, e) = IF e = c THEN ParentIds(docs, e) \cup {p} ELSE ParentIds(docs, e)
    <2>1. CASE e = c
      <3>1. ParentIds(after, e) = {x[1] : x \in docs.parents[e] \cup {<<p, t>>}}
        BY <1>3, <2>1 DEF ParentIds
      <3>2. <<p, t>>[1] = p
        OBVIOUS
      <3>3. ParentIds(after, e) = {x[1] : x \in docs.parents[e]} \cup {p}
        BY <3>1, <3>2
      <3> QED
        BY <2>1, <3>3 DEF ParentIds
    <2>2. CASE e # c
      BY <1>3, <2>2 DEF ParentIds
    <2> QED
      BY <2>1, <2>2
  <1>6. GainAncestors(docs, after, p, c)
    BY <1>4 DEF GainAncestors
  <1>7. GainsParent(docs, after, p, c)
    BY <1>5 DEF GainsParent
  <1> QED
    BY <1>6, <1>7 DEF after

LEMMA AddReaches ==
    ASSUME NEW docs \in Db, NEW after \in Db, NEW p \in Entities, NEW c \in Entities,
           GainsParent(docs, after, p, c)
    PROVE  ReachMore(docs, after, p, c)
  <1> SUFFICES ASSUME NEW e \in Entities
               PROVE  Reachable(after)[e] =
                        IF e = c \/ c \in Reachable(docs)[e]
                        THEN Reachable(docs)[e] \cup Reachable(docs)[c] \cup Reachable(docs)[p] \cup {p}
                        ELSE Reachable(docs)[e]
    BY DEF ReachMore
  <1> DEFINE R == Reachable(docs)
             N == Reachable(after)
             gained == R[c] \cup R[p] \cup {p}
             s == IF e = c \/ c \in R[e] THEN R[e] \cup gained ELSE R[e]
  <1>1. \A w \in Entities : /\ R[w] \subseteq Entities
                            /\ ParentIds(docs, w) \subseteq R[w]
                            /\ \A z \in R[w] : ParentIds(docs, z) \subseteq R[w]
    BY ReachClosed
  <1>a. \A w \in Entities : ParentIds(after, w) = IF w = c THEN ParentIds(docs, w) \cup {p}
                                                  ELSE ParentIds(docs, w)
    BY DEF GainsParent
  <1>2. \A w \in Entities : /\ N[w] \subseteq Entities
                            /\ ParentIds(after, w) \subseteq N[w]
                            /\ \A z \in N[w] : N[z] \subseteq N[w]
                            /\ R[w] \subseteq N[w]
    BY <1>a, ReachClosed, ReachTransitive, ReachMonotone
  <1>3. N[e] \subseteq s
    <2>1. s \in SUBSET Entities
      BY <1>1
    <2>2. ParentIds(after, e) \subseteq s
      BY <1>1, <1>a
    <2>3. ASSUME NEW x \in s, NEW y \in ParentIds(after, x) PROVE y \in s
      <3>1. x \in Entities
        BY <2>1, <2>3
      <3>2. CASE y = p /\ x = c
        <4>1. c \in R[e] \/ e = c \/ s = R[e]
          OBVIOUS
        <4>2. p \in gained
          OBVIOUS
        <4> QED
          BY <3>2, <4>1, <4>2, <2>3
      <3>3. CASE y \in ParentIds(docs, x)
        <4>1. CASE x \in R[e]
          BY <1>1, <3>3, <4>1
        <4>2. CASE x \notin R[e]
          <5>1. x \in gained /\ (e = c \/ c \in R[e])
            BY <2>3, <4>2
          <5>2. y \in gained
            BY <1>1, <3>3, <5>1
          <5> QED
            BY <5>1, <5>2
        <4> QED
          BY <4>1, <4>2
      <3> QED
        BY <1>a, <2>3, <3>1, <3>2, <3>3
    <2> HIDE DEF s
    <2> QED
      BY <2>1, <2>2, <2>3, ReachLeast
  <1>4. ASSUME e = c \/ c \in R[e] PROVE gained \subseteq N[e]
    <2>1. N[c] \subseteq N[e]
      BY <1>2, <1>4
    <2>2. p \in N[c]
      BY <1>2, <1>a
    <2>3. R[p] \subseteq N[p] /\ N[p] \subseteq N[c] /\ R[c] \subseteq N[c]
      BY <1>2, <2>2
    <2> QED
      BY <2>1, <2>2, <2>3
  <1>5. s \subseteq N[e]
    BY <1>2, <1>4
  <1>6. N[e] = s
    BY <1>3, <1>5
  <1> QED
    BY <1>6

(* Adding a parent that the validation accepts keeps the ancestors exact.  *)
LEMMA AddLineage ==
    ASSUME NEW docs \in Db, NEW p \in Entities, NEW c \in Entities, NEW t \in Tables,
           Lineage(docs), MayAdd(docs, p, c)
    PROVE  Lineage(AddRelationship(docs, p, c, t))
  <1> DEFINE after == AddRelationship(docs, p, c, t)
             R == Reachable(docs)
  <1>1. GainAncestors(docs, after, p, c) /\ ReachMore(docs, after, p, c)
    BY AddType, AddParents, AddReaches
  <1> HIDE DEF after
  <1>2. \A e \in Entities : docs.ancestors[e] = R[e] /\ e \notin R[e]
    BY DEF Lineage
  <1>3. p # c /\ c \notin R[p] /\ p \notin R[c]
    BY <1>2 DEF MayAdd
  <1>4. ASSUME NEW e \in Entities PROVE after.ancestors[e] = Reachable(after)[e]
    BY <1>1, <1>2 DEF GainAncestors, ReachMore
  <1>5. ASSUME NEW e \in Entities PROVE e \notin Reachable(after)[e]
    <2>1. c \in R[e] => R[c] \subseteq R[e]
      BY ReachTransitive
    <2>2. e \in R[p] => R[e] \subseteq R[p]
      BY ReachTransitive
    <2> HIDE DEF R
    <2>3. e = c \/ c \in R[e] => e \notin R[e] \cup R[c] \cup R[p] \cup {p}
      BY <1>2, <1>3, <2>1, <2>2
    <2>4. Reachable(after)[e] = IF e = c \/ c \in R[e] THEN R[e] \cup R[c] \cup R[p] \cup {p} ELSE R[e]
      BY <1>1 DEF ReachMore, R
    <2> QED
      BY <1>2, <2>3, <2>4
  <1> QED
    BY <1>4, <1>5 DEF Lineage, after

(* What removing a parent does: the child and all below it lose the parent *)
(* and all above it.                                                       *)
LosesParent(docs, after, p, c) ==
    \A e \in Entities : ParentIds(after, e) = IF e = c THEN ParentIds(docs, e) \ {p}
                                              ELSE ParentIds(docs, e)

LoseAncestors(docs, after, p, c) ==
    \A e \in Entities : after.ancestors[e] =
        IF e = c \/ c \in docs.ancestors[e] THEN docs.ancestors[e] \ (docs.ancestors[p] \cup {p})
        ELSE docs.ancestors[e]

ReachLess(docs, after, p, c) ==
    \A e \in Entities : Reachable(after)[e] =
        IF e = c \/ c \in Reachable(docs)[e] THEN Reachable(docs)[e] \ Above(docs, p)
        ELSE Reachable(docs)[e]

LEMMA RemoveParents ==
    ASSUME NEW docs \in Db, NEW p \in Entities, NEW c \in Entities
    PROVE  /\ LosesParent(docs, RemoveRelationship(docs, p, c), p, c)
           /\ LoseAncestors(docs, RemoveRelationship(docs, p, c), p, c)
  <1> DEFINE after == RemoveRelationship(docs, p, c)
             lost == docs.ancestors[p] \cup {p}
             ancestors == [e \in Entities |->
                 IF e = c \/ c \in docs.ancestors[e] THEN docs.ancestors[e] \ lost
                 ELSE docs.ancestors[e]]
  <1>1. after.ancestors = ancestors
    BY DEF RemoveRelationship, Db
  <1>2. after.parents = [docs.parents EXCEPT ![c] = {x \in @ : x[1] # p}]
    BY RemoveType
  <1> HIDE DEF after
  <1>3. \A e \in Entities : after.parents[e] = IF e = c THEN {x \in docs.parents[e] : x[1] # p}
                                               ELSE docs.parents[e]
    BY <1>2 DEF Db
  <1>4. LoseAncestors(docs, after, p, c)
    BY <1>1 DEF LoseAncestors
  <1>5. ASSUME NEW e \in Entities
        PROVE  ParentIds(after, e) = IF e = c THEN ParentIds(docs, e) \ {p} ELSE ParentIds(docs, e)
    <2>1. CASE e = c
      <3>1. ParentIds(after, e) = {x[1] : x \in {y \in docs.parents[e] : y[1] # p}}
        BY <1>3, <2>1 DEF ParentIds
      <3>2. ParentIds(after, e) = {x[1] : x \in docs.parents[e]} \ {p}
        BY <3>1
      <3> QED
        BY <2>1, <3>2 DEF ParentIds
    <2>2. CASE e # c
      BY <1>3, <2>2 DEF ParentIds
    <2> QED
      BY <2>1, <2>2
  <1>6. LosesParent(docs, after, p, c)
    BY <1>5 DEF LosesParent
  <1> QED
    BY <1>4, <1>6 DEF after

(* Whoever is below the child has no parent among what is lost, other than *)
(* the child the parent removed: it would be reached along two parents, or *)
(* be below itself.                                                        *)
LEMMA NothingElseLost ==
    ASSUME NEW docs \in Db, Forest(docs), NEW c \in Entities, NEW p \in ParentIds(docs, c),
           NEW e \in Entities, e = c \/ c \in Reachable(docs)[e],
           NEW q \in ParentIds(docs, e), q \in Above(docs, p)
    PROVE  e = c /\ q = p
  <1> DEFINE R == Reachable(docs)
  <1>1. \A w \in Entities : /\ R[w] \subseteq Entities
                            /\ ParentIds(docs, w) \subseteq R[w]
                            /\ \A z \in R[w] : R[z] \subseteq R[w]
                            /\ w \notin R[w]
    BY ReachClosed, ReachTransitive DEF Forest, Lineage
  <1>2. CASE e = c
    <2>1. q \in Above(docs, q)
      BY DEF Above
    <2>2. p = q
      BY <1>2, <2>1, ParentsApart DEF Forest
    <2> QED
      BY <1>2, <2>2
  <1>3. CASE c \in R[e]
    <2>1. PICK r \in ParentIds(docs, e) : c \in Above(docs, r)
      BY <1>3, ReachFirst
    <2>2. q \in R[c]
      BY <1>1 DEF Above
    <2>3. r \in Entities /\ q \in Entities
      BY <1>1
    <2>4. q \in R[r]
      BY <1>1, <2>1, <2>2, <2>3 DEF Above
    <2>5. q \in Above(docs, r) /\ q \in Above(docs, q)
      BY <2>4 DEF Above
    <2>6. r = q
      BY <2>1, <2>5, ParentsApart DEF Forest
    <2> QED
      BY <1>1, <2>3, <2>4, <2>6
  <1> QED
    BY <1>2, <1>3

(* Nothing that is left leads to what is lost.                             *)
LEMMA LeftStaysApart ==
    ASSUME NEW docs \in Db, Forest(docs), NEW c \in Entities, NEW p \in ParentIds(docs, c),
           NEW e \in Entities, e = c \/ c \in Reachable(docs)[e],
           NEW x \in Reachable(docs)[e], x \notin Above(docs, p),
           NEW y \in ParentIds(docs, x), y \in Above(docs, p)
    PROVE  x = c /\ y = p
  <1> DEFINE R == Reachable(docs)
  <1>1. \A w \in Entities : /\ R[w] \subseteq Entities
                            /\ ParentIds(docs, w) \subseteq R[w]
                            /\ ParentIds(docs, w) \subseteq Entities
                            /\ \A z \in R[w] : R[z] \subseteq R[w]
                            /\ \A z \in R[w] : ParentIds(docs, z) \subseteq R[w]
    BY ReachClosed, ReachTransitive, ParentsType
  <1>2. x \in Entities /\ y \in Entities /\ y \in R[x] /\ y \in R[c]
    BY <1>1 DEF Above
  <1>3. CASE x = c \/ c \in R[x]
    BY <1>2, <1>3, NothingElseLost
  <1>4. CASE x \in R[c]
    <2>1. PICK q \in ParentIds(docs, c) : x \in Above(docs, q)
      BY <1>4, ReachFirst
    <2>2. y \in Above(docs, q)
      BY <1>1, <2>1 DEF Above
    <2>3. q = p
      BY <2>2, ParentsApart DEF Forest
    <2> QED
      BY <2>1, <2>3
  <1>5. CASE x # c /\ c \notin R[x] /\ x \notin R[c]
    <2>1. c \in R[e]
      BY <1>5
    <2> QED
      BY <1>2, <1>5, <2>1, NoBranch
  <1> QED
    BY <1>3, <1>4, <1>5

LEMMA RemoveReaches ==
    ASSUME NEW docs \in Db, Forest(docs), NEW after \in Db, NEW c \in Entities,
           NEW p \in ParentIds(docs, c), LosesParent(docs, after, p, c)
    PROVE  ReachLess(docs, after, p, c)
  <1> SUFFICES ASSUME NEW e \in Entities
               PROVE  Reachable(after)[e] =
                        IF e = c \/ c \in Reachable(docs)[e] THEN Reachable(docs)[e] \ Above(docs, p)
                        ELSE Reachable(docs)[e]
    BY DEF ReachLess
  <1> DEFINE R == Reachable(docs)
             N == Reachable(after)
             below == e = c \/ c \in R[e]
             left == IF below THEN R[e] \ Above(docs, p) ELSE R[e]
             all == IF below THEN N[e] \cup Above(docs, p) ELSE N[e]
  <1>1. \A w \in Entities : /\ R[w] \subseteq Entities
                            /\ ParentIds(docs, w) \subseteq R[w]
                            /\ \A z \in R[w] : ParentIds(docs, z) \subseteq R[w]
    BY ReachClosed
  <1>2. p \in Entities
    BY <1>1
  <1>3. \A w \in Entities : ParentIds(after, w) = IF w = c THEN ParentIds(docs, w) \ {p}
                                                  ELSE ParentIds(docs, w)
    BY DEF LosesParent
  <1>4. /\ N[e] \subseteq Entities
        /\ ParentIds(after, e) \subseteq N[e]
        /\ \A z \in N[e] : ParentIds(after, z) \subseteq N[e]
        /\ N[e] \subseteq R[e]
    BY <1>3, ReachClosed, ReachMonotone
  <1>5. N[e] \subseteq left
    <2>1. left \in SUBSET Entities
      BY <1>1
    <2>2. ASSUME NEW q \in ParentIds(after, e) PROVE q \in left
      <3>1. q \in ParentIds(docs, e) /\ q \in R[e] /\ ~(e = c /\ q = p)
        BY <1>1, <1>3, <2>2
      <3>2. below => q \notin Above(docs, p)
        BY <3>1, NothingElseLost
      <3> QED
        BY <3>1, <3>2
    <2>3. ASSUME NEW x \in left, NEW y \in ParentIds(after, x) PROVE y \in left
      <3>1. x \in R[e] /\ x \in Entities /\ (below => x \notin Above(docs, p))
        BY <1>1
      <3>2. y \in ParentIds(docs, x) /\ ~(x = c /\ y = p)
        BY <1>3, <2>3, <3>1
      <3>3. y \in R[e]
        BY <1>1, <3>1, <3>2
      <3>4. below => y \notin Above(docs, p)
        BY <3>1, <3>2, LeftStaysApart
      <3> QED
        BY <3>3, <3>4
    <2> HIDE DEF left
    <2> QED
      BY <2>1, <2>2, <2>3, ReachLeast
  <1>6. R[e] \subseteq all
    <2>1. all \in SUBSET Entities
      BY <1>1, <1>2, <1>4 DEF Above
    <2>2. p \in Above(docs, p)
      BY DEF Above
    <2>3. ParentIds(docs, e) \subseteq all
      BY <1>3, <1>4, <2>2
    <2>4. ASSUME NEW x \in all, NEW y \in ParentIds(docs, x) PROVE y \in all
      <3>1. x \in Entities
        BY <2>1, <2>4
      <3>2. CASE x \in N[e] /\ y \in ParentIds(after, x)
        BY <1>4, <3>2
      <3>3. CASE x \in N[e] /\ y \notin ParentIds(after, x)
        <4>1. x = c /\ y = p
          BY <1>3, <2>4, <3>1, <3>3
        <4> QED
          BY <1>4, <2>2, <3>3, <4>1
      <3>4. CASE x \notin N[e]
        <4>1. below /\ x \in Above(docs, p)
          BY <2>4, <3>4
        <4>2. y \in Above(docs, p)
          BY <1>1, <1>2, <2>4, <4>1 DEF Above
        <4> QED
          BY <4>1, <4>2
      <3> QED
        BY <3>2, <3>3, <3>4
    <2> HIDE DEF all
    <2> QED
      BY <2>1, <2>3, <2>4, ReachLeast
  <1>7. N[e] = left
    BY <1>5, <1>6
  <1> QED
    BY <1>7

(* Removing a parent keeps the ancestors exact, and makes no fork.         *)
LEMMA RemoveForest ==
    ASSUME NEW docs \in Db, NEW c \in Entities, NEW p \in ParentIds(docs, c), Forest(docs)
    PROVE  Forest(RemoveRelationship(docs, p, c))
  <1> DEFINE after == RemoveRelationship(docs, p, c)
  <1>1. p \in Entities /\ after \in Db
    BY ParentsType, RemoveType
  <1>2. LosesParent(docs, after, p, c) /\ LoseAncestors(docs, after, p, c)
    BY <1>1, RemoveParents
  <1> HIDE DEF after
  <1>3. ReachLess(docs, after, p, c)
    BY <1>1, <1>2, RemoveReaches
  <1>4. \A e \in Entities : docs.ancestors[e] = Reachable(docs)[e] /\ e \notin Reachable(docs)[e]
    BY DEF Forest, Lineage
  <1>5. Lineage(after)
    <2>1. ASSUME NEW e \in Entities PROVE after.ancestors[e] = Reachable(after)[e]
      BY <1>1, <1>2, <1>3, <1>4 DEF LoseAncestors, ReachLess, Above
    <2>2. \A e \in Entities : e \notin Reachable(after)[e]
      BY <1>3, <1>4 DEF ReachLess
    <2> QED
      BY <2>1, <2>2 DEF Lineage
  <1>6. ~HasFork(after)
    <2>1. \A e \in Entities : /\ Reachable(after)[e] \subseteq Reachable(docs)[e]
                              /\ ParentIds(after, e) \subseteq ParentIds(docs, e)
                              /\ ParentIds(docs, e) \subseteq Entities
      BY <1>2, <1>3, ParentsType DEF ReachLess, LosesParent
    <2>2. \A e \in Entities : \A q, r \in ParentIds(docs, e) : q # r =>
             (Reachable(docs)[q] \cup {q}) \cap (Reachable(docs)[r] \cup {r}) = {}
      BY DEF Forest, HasFork
    <2>3. ASSUME NEW e \in Entities, NEW q \in ParentIds(after, e), NEW r \in ParentIds(after, e), q # r
          PROVE  (Reachable(after)[q] \cup {q}) \cap (Reachable(after)[r] \cup {r}) = {}
      <3>1. /\ q \in ParentIds(docs, e) /\ r \in ParentIds(docs, e)
            /\ Reachable(after)[q] \subseteq Reachable(docs)[q]
            /\ Reachable(after)[r] \subseteq Reachable(docs)[r]
        BY <2>1, <2>3
      <3>2. (Reachable(docs)[q] \cup {q}) \cap (Reachable(docs)[r] \cup {r}) = {}
        BY <2>2, <2>3, <3>1
      <3> QED
        BY <3>1, <3>2
    <2> QED
      BY <2>3 DEF HasFork
  <1> QED
    BY <1>5, <1>6 DEF Forest, after

-----------------------------------------------------------------------------
(* The ancestors while nothing forks *)

AncestryOK(q) ==
    /\ Forest(q.docs)
    /\ \A e \in Entities \ q.written : q.docs.ancestors[e] = db.ancestors[e]

AncestryInv ==
    overlaps = 0 /\ ~forked =>
        /\ Forest(db)
        /\ \A r \in Requests : InTransaction(r) => AncestryOK(request[r])

(* Forest speaks of the parents and the ancestors only.                    *)
LEMMA ForestSame ==
    ASSUME NEW docs, NEW after, Forest(docs),
           \A e \in Entities : /\ after.parents[e] = docs.parents[e]
                               /\ after.ancestors[e] = docs.ancestors[e]
    PROVE  Forest(after)
  <1>1. Reachable(after) = Reachable(docs) /\ (HasFork(after) <=> HasFork(docs))
    BY ReachSame
  <1> QED
    BY <1>1 DEF Forest, Lineage

(* A step of a save that leaves the committed documents alone.             *)
LEMMA AncestryStep ==
    ASSUME IInv, AncestryInv, overlaps = 0, ~forked, NEW r \in Requests,
           request' = [request EXCEPT ![r] = request'[r]], db' = db,
           request'[r].pc = "transaction" => AncestryOK(request'[r])
    PROVE  AncestryInv'
  <1>1. \A s \in Requests \ {r} : request'[s] = request[s]
    BY DEF IInv, TypeOK
  <1>2. Forest(db')
    BY DEF AncestryInv
  <1>3. ASSUME NEW s \in Requests, request'[s].pc = "transaction"
        PROVE  AncestryOK(request[s])'
    <2>1. AncestryOK(request'[s])
      BY <1>1, <1>3 DEF AncestryInv, InTransaction
    <2>2. AncestryOK(request[s])' <=>
             /\ Forest(request'[s].docs)
             /\ \A e \in Entities \ request'[s].written :
                   request'[s].docs.ancestors[e] = db'.ancestors[e]
      BY DEF AncestryOK, Forest, Lineage, HasFork, Reachable, ClosedSets, ParentIds
    <2> QED
      BY <2>1, <2>2 DEF AncestryOK
  <1>4. Forest(db)' <=> Forest(db')
    BY DEF Forest, Lineage, HasFork, Reachable, ClosedSets, ParentIds
  <1> QED
    BY <1>2, <1>3, <1>4 DEF AncestryInv, InTransaction

LEMMA AbortAncestry ==
    ASSUME IInv, AncestryInv, overlaps = 0, ~forked, NEW r \in Requests, Abort(r)
    PROVE  AncestryInv'
  <1>1. request'[r] = IdleRequest /\ request' = [request EXCEPT ![r] = request'[r]] /\ db' = db
    BY DEF Abort, IInv, TypeOK
  <1> QED
    BY <1>1, AncestryStep DEF IdleRequest

LEMMA ReadAncestry ==
    ASSUME IInv, AncestryInv, overlaps = 0, ~forked, NEW r \in Requests, Read(r)
    PROVE  AncestryInv'
  <1>1. PICK t \in Tables, new \in UNION {Tags(s) : s \in Tables} :
            request' = [request EXCEPT ![r] = [pc |-> "read", table |-> t, old |-> db.columns[t],
                                               new |-> new]]
    BY DEF Read
  <1>2. request'[r] = [pc |-> "read", table |-> t, old |-> db.columns[t], new |-> new]
        /\ request' = [request EXCEPT ![r] = request'[r]]
    BY <1>1 DEF IInv, TypeOK
  <1>3. db' = db
    BY DEF Read
  <1> QED
    BY <1>2, <1>3, AncestryStep

LEMMA BeginAncestry ==
    ASSUME IInv, AncestryInv, overlaps = 0, ~forked, NEW r \in Requests, Begin(r)
    PROVE  AncestryInv'
  <1> DEFINE t == request[r].table
             old == request[r].old
             new == request[r].new
             docs == UpdateReferences([db EXCEPT !.columns[t] = new], t, old, new)
             x == [pc |-> "transaction", table |-> t, old |-> old, new |-> new, docs |-> docs,
                   written |-> Changed(db, docs) \cup (IF db.columns[t] = new THEN {} ELSE {t}),
                   missed |-> {}, infosAdded |-> {}, infosRemoved |-> {},
                   adds |-> ParentsToAdd(docs, t, old, new),
                   removes |-> ParentsToRemove(docs, t, old, new)]
  <1>1. request[r].pc = "read" /\ request' = [request EXCEPT ![r] = x] /\ db' = db
    BY DEF Begin
  <1>2. request'[r] = x /\ request' = [request EXCEPT ![r] = request'[r]]
    BY <1>1 DEF IInv, TypeOK
  <1>3. request'[r].docs = docs
    BY <1>2
  <1>4. db \in Db
    BY DEF IInv, TypeOK
  <1>5. docs.parents = db.parents /\ docs.ancestors = db.ancestors
    BY <1>4 DEF UpdateReferences, Db
  <1> HIDE DEF docs
  <1>6. Forest(docs)
    BY <1>5, ForestSame DEF AncestryInv
  <1>7. AncestryOK(request'[r])
    BY <1>3, <1>5, <1>6 DEF AncestryOK
  <1> QED
    BY <1>1, <1>2, <1>7, AncestryStep

LEMMA AddAncestry ==
    ASSUME IInv, AncestryInv, overlaps = 0, ~forked, ~forked', NEW r \in Requests, AddParent(r)
    PROVE  AncestryInv'
  <1> DEFINE q == request[r]
             c == PrimaryEntity(q.table, q.new)
  <1>1. q \in OpenRequest /\ TransactionOK(q) /\ AncestryOK(q)
    BY RequestForm DEF AddParent, InTransaction, IInv, AncestryInv
  <1>2. PICK p \in q.adds :
          IF MayAdd(q.docs, p, c) /\ <<c, p>> \notin q.docs.infos
          THEN LET docs == AddRelationship(q.docs, p, c, q.table) IN
               /\ request' = [request EXCEPT ![r] =
                     [q EXCEPT !.adds = @ \ {p}, !.docs = docs,
                               !.infosAdded = @ \cup {<<c, p>>},
                               !.written = @ \cup Changed(q.docs, docs)]]
               /\ forked' = (forked \/ HasFork(docs))
               /\ UNCHANGED db
          ELSE Abort(r)
    BY DEF AddParent
  <1>3. CASE Abort(r)
    BY <1>3, AbortAncestry
  <1>4. CASE MayAdd(q.docs, p, c) /\ ~Abort(r)
    <2> DEFINE docs == AddRelationship(q.docs, p, c, q.table)
               changed == Changed(q.docs, docs)
               x == [q EXCEPT !.adds = @ \ {p}, !.docs = docs,
                              !.infosAdded = @ \cup {<<c, p>>}, !.written = @ \cup changed]
    <2>1. c \in Entities /\ p \in Entities /\ q.docs \in Db /\ q.table \in Tables
      BY <1>1 DEF TransactionOK, PlanOK, Gaining, OpenRequest
    <2>2. request' = [request EXCEPT ![r] = x] /\ db' = db /\ ~HasFork(docs)
      BY <1>2, <1>4
    <2>3. request'[r] = x /\ request' = [request EXCEPT ![r] = request'[r]]
      BY <2>2 DEF IInv, TypeOK
    <2>4. x.docs = docs /\ x.written = q.written \cup changed
      BY <1>1 DEF OpenRequest
    <2>5. Lineage(docs)
      <3> HIDE DEF q, c
      <3> QED
        BY <1>1, <1>4, <2>1, AddLineage DEF AncestryOK, Forest
    <2>6. \A e \in Entities \ changed : docs.ancestors[e] = q.docs.ancestors[e]
      BY DEF Changed
    <2> HIDE DEF q, x, docs, changed
    <2>7. AncestryOK(x)
      BY <1>1, <2>2, <2>4, <2>5, <2>6 DEF AncestryOK, Forest
    <2> QED
      BY <2>2, <2>3, <2>7, AncestryStep
  <1> QED
    BY <1>2, <1>3, <1>4

LEMMA RemoveAncestry ==
    ASSUME IInv, AncestryInv, overlaps = 0, ~forked, NEW r \in Requests, RemoveParent(r)
    PROVE  AncestryInv'
  <1> DEFINE q == request[r]
             c == PrimaryEntity(q.table, q.old)
  <1>1. q \in OpenRequest /\ TransactionOK(q) /\ AncestryOK(q)
    BY RequestForm DEF RemoveParent, InTransaction, IInv, AncestryInv
  <1>2. PICK p \in q.removes :
          IF p \in ParentIds(q.docs, c) /\ <<c, p>> \in q.docs.infos
          THEN LET docs == RemoveRelationship(q.docs, p, c) IN
               /\ request' = [request EXCEPT ![r] =
                     [q EXCEPT !.removes = @ \ {p}, !.docs = docs,
                               !.infosRemoved = @ \cup {<<c, p>>},
                               !.written = @ \cup Changed(q.docs, docs)]]
               /\ UNCHANGED <<db, forked>>
          ELSE Abort(r)
    BY DEF RemoveParent
  <1>3. CASE Abort(r)
    BY <1>3, AbortAncestry
  <1>4. CASE p \in ParentIds(q.docs, c) /\ ~Abort(r)
    <2> DEFINE docs == RemoveRelationship(q.docs, p, c)
               changed == Changed(q.docs, docs)
               x == [q EXCEPT !.removes = @ \ {p}, !.docs = docs,
                              !.infosRemoved = @ \cup {<<c, p>>}, !.written = @ \cup changed]
    <2>1. c \in Entities /\ q.docs \in Db
      BY <1>1 DEF TransactionOK, PlanOK, Losing, OpenRequest
    <2>2. request' = [request EXCEPT ![r] = x] /\ db' = db
      BY <1>2, <1>4
    <2>3. request'[r] = x /\ request' = [request EXCEPT ![r] = request'[r]]
      BY <2>2 DEF IInv, TypeOK
    <2>4. x.docs = docs /\ x.written = q.written \cup changed
      BY <1>1 DEF OpenRequest
    <2>5. Forest(docs)
      <3> HIDE DEF q, c
      <3> QED
        BY <1>1, <1>4, <2>1, RemoveForest DEF AncestryOK
    <2>6. \A e \in Entities \ changed : docs.ancestors[e] = q.docs.ancestors[e]
      BY DEF Changed
    <2> HIDE DEF q, x, docs, changed
    <2>7. AncestryOK(x)
      BY <1>1, <2>4, <2>5, <2>6 DEF AncestryOK
    <2> QED
      BY <2>2, <2>3, <2>7, AncestryStep
  <1> QED
    BY <1>2, <1>3, <1>4

LEMMA CommitAncestry ==
    ASSUME IInv, SerialInv, AncestryInv, overlaps = 0, ~forked, NEW r \in Requests, Commit(r)
    PROVE  AncestryInv'
  <1> DEFINE q == request[r]
  <1>1. /\ q \in OpenRequest /\ q.pc = "transaction" /\ Tracked(q) /\ AncestryOK(q) /\ db \in Db
    BY RequestForm DEF Commit, InTransaction, IInv, SerialInv, AloneOK, AncestryInv, TypeOK
  <1>2. CASE Conflicts(q)
    BY <1>2, AbortAncestry DEF Commit
  <1>3. CASE ~Conflicts(q)
    <2>1. /\ db' = Merged(q)
          /\ request' = [s \in Requests |->
                IF s = r THEN IdleRequest
                ELSE IF InTransaction(s) THEN [request[s] EXCEPT !.missed = @ \cup q.written]
                ELSE request[s]]
      BY <1>3 DEF Commit
    <2>2. \A s \in Requests : request'[s].pc = "idle"
      BY <1>1, <2>1 DEF SerialInv, Alone, Idle, InTransaction, IdleRequest
    <2>3. \A e \in Entities : db'.parents[e] = q.docs.parents[e]
      BY <1>1, <2>1, MergedAlone
    <2>4. \A e \in Entities : db'.ancestors[e] = q.docs.ancestors[e]
      <3>1. Merged(q).ancestors =
               [e \in Entities |-> IF e \in q.written THEN q.docs.ancestors[e] ELSE db.ancestors[e]]
        BY DEF Merged
      <3> QED
        BY <1>1, <2>1, <3>1 DEF AncestryOK
    <2> HIDE DEF q
    <2>5. Forest(db')
      BY <1>1, <2>3, <2>4, ForestSame DEF AncestryOK
    <2>6. Forest(db)' <=> Forest(db')
      BY DEF Forest, Lineage, HasFork, Reachable, ClosedSets, ParentIds
    <2> QED
      BY <2>2, <2>5, <2>6 DEF AncestryInv, InTransaction
  <1> QED
    BY <1>2, <1>3

LEMMA AncestryInit == Init => AncestryInv
  <1> SUFFICES ASSUME Init PROVE AncestryInv
    OBVIOUS
  <1>1. db = EmptyDb /\ \A r \in Requests : request[r].pc = "idle"
    BY DEF Init, IdleRequest
  <1>2. \A e \in Entities : ParentIds(EmptyDb, e) = {} /\ EmptyDb.ancestors[e] = {}
    BY DEF EmptyDb, ParentIds
  <1>3. \A e \in Entities : Reachable(EmptyDb)[e] = {}
    BY <1>2, ReachIs
  <1>4. Lineage(EmptyDb)
    BY <1>2, <1>3 DEF Lineage
  <1>5. ~HasFork(EmptyDb)
    BY <1>2 DEF HasFork
  <1> QED
    BY <1>1, <1>4, <1>5 DEF AncestryInv, Forest, InTransaction

LEMMA AncestryNext == IInv /\ SerialInv /\ AncestryInv /\ [Next]_vars => AncestryInv'
  <1> SUFFICES ASSUME IInv, SerialInv, AncestryInv, [Next]_vars, overlaps' = 0, ~forked'
               PROVE  AncestryInv'
    BY DEF AncestryInv
  <1>1. overlaps = 0
    <2>1. overlaps \in Nat
      BY EntityRelationshipAssumption, SMTT(30) DEF IInv, TypeOK
    <2>2. overlaps' = overlaps \/ overlaps' = overlaps + 1
      BY DEF Next, Read, Begin, AddParent, RemoveParent, Commit, Fail, vars
    <2> QED
      BY <2>1, <2>2
  <1>2. ~forked
    <2>1. ASSUME NEW r \in Requests, AddParent(r) PROVE ~forked
      BY <2>1 DEF AddParent, Abort
    <2>2. ASSUME NEW r \in Requests,
                 Read(r) \/ Begin(r) \/ RemoveParent(r) \/ Commit(r) \/ Fail(r)
          PROVE  ~forked
      BY <2>2 DEF Read, Begin, RemoveParent, Commit, Fail, Abort
    <2>3. CASE UNCHANGED vars
      BY <2>3 DEF vars
    <2> QED
      BY <2>1, <2>2, <2>3 DEF Next
  <1>3. ASSUME NEW r \in Requests,
               Read(r) \/ Begin(r) \/ AddParent(r) \/ RemoveParent(r) \/ Commit(r) \/ Fail(r)
        PROVE  AncestryInv'
    BY <1>1, <1>2, <1>3, ReadAncestry, BeginAncestry, AddAncestry, RemoveAncestry, CommitAncestry,
       AbortAncestry DEF Fail
  <1>4. CASE UNCHANGED vars
    <2>1. db' = db /\ request' = request
      BY <1>4 DEF vars
    <2>2. ASSUME NEW r \in Requests PROVE AncestryInv'
      <3>1. request' = [request EXCEPT ![r] = request'[r]]
        BY <2>1 DEF IInv, TypeOK
      <3>2. request'[r].pc = "transaction" => AncestryOK(request'[r])
        BY <1>1, <1>2, <2>1 DEF AncestryInv, InTransaction
      <3> QED
        BY <1>1, <1>2, <2>1, <3>1, <3>2, AncestryStep
    <2>3. CASE Requests = {}
      <3>1. Forest(db')
        BY <1>1, <1>2, <2>1 DEF AncestryInv
      <3>2. Forest(db)' <=> Forest(db')
        BY DEF Forest, Lineage, HasFork, Reachable, ClosedSets, ParentIds
      <3> QED
        BY <2>3, <3>1, <3>2 DEF AncestryInv
    <2> QED
      BY <2>2, <2>3
  <1> QED
    BY <1>3, <1>4 DEF Next

(* When saves do not overlap, and as long as no entity has reached another *)
(* along two paths, the ancestors stored in an entity are exactly what it  *)
(* reaches along its parents, and it is not its own ancestor: although     *)
(* adding and removing a parent only adds and subtracts the ancestors of   *)
(* the two entities (relationship.py, add_relationship and                 *)
(* remove_relationship).                                                   *)
THEOREM AncestorsAlwaysExact == Spec => []AncestorsExact
  <1>1. AncestryInv => AncestorsExact
    BY DEF AncestryInv, AncestorsExact, Forest, Lineage
  <1> QED
    BY InitOK, NextOK, SerialInit, SerialNext, AncestryInit, AncestryNext, <1>1, PTL DEF Spec

(* When saves do not overlap, no two entities are ancestors of each other  *)
(* as long as none has reached another along two paths: the check of       *)
(* relationship.py, _validate_add_relationship_operation, is only defeated *)
(* by a removal along one of two paths.                                    *)
THEOREM CyclesNeedForks == Spec => [](overlaps = 0 /\ ~forked => NoCycle)
  <1>1. ASSUME IInv, AncestryInv, overlaps = 0, ~forked PROVE NoCycle
    <2>1. \A e \in Entities : e \notin Reachable(db)[e]
      BY <1>1 DEF AncestryInv, Forest, Lineage
    <2>2. \A a, b \in Entities : a \in Reachable(db)[b] => Reachable(db)[a] \subseteq Reachable(db)[b]
      BY <1>1, ReachTransitive DEF IInv, TypeOK
    <2> QED
      BY <2>1, <2>2 DEF NoCycle
  <1> QED
    BY InitOK, NextOK, SerialInit, SerialNext, AncestryInit, AncestryNext, <1>1, PTL DEF Spec
=============================================================================
