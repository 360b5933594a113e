---------------------------- MODULE FeatureCatalog ----------------------------
(***************************************************************************)
(* Feature versions, feature lists and the two kinds of namespaces that    *)
(* collect the versions of one name: FeatureService, FeatureListService,   *)
(* FeatureReadinessService, DefaultVersionModeService and the controllers  *)
(* that call them.  The same facts are kept in several documents: a list   *)
(* names its features and a feature its lists, a namespace names its       *)
(* versions, its default version and the readiness of the default, and a   *)
(* list counts its features by readiness.                                  *)
(*                                                                         *)
(* Every request first reads and checks.  Most then run a transaction on   *)
(* the snapshot MongoDB takes when it starts, aborted if somebody else has *)
(* since written a document it writes; and creating, deleting a list and   *)
(* changing a default recompute the namespace outside of any transaction.  *)
(***************************************************************************)
EXTENDS Integers, FiniteSets

CONSTANTS Requests,           \* requests that may be in progress at the same time
          Features, Lists,    \* versions: naturals, in the order of creation
          FeatureNamespaces, ListNamespaces,
          NamespaceOf,        \* version -> its namespace
          Targets,            \* bound: the readiness that requests ask for
          MaxManual,          \* bound: namespaces put in manual mode at the same time
          MaxFeatures,        \* bound: how many versions of features are created
          MaxOverlaps         \* bound: how often a request starts while another runs

Versions == Features \cup Lists
Namespaces == FeatureNamespaces \cup ListNamespaces
Ids == Versions \cup Namespaces

(* FeatureReadiness, from the worst to the best.                           *)
DEPRECATED == 0
DRAFT == 1
PUBLIC_DRAFT == 2
PRODUCTION_READY == 3
Readiness == DEPRECATED..PRODUCTION_READY

ASSUME FeatureCatalogAssumption ==
    /\ Features \subseteq Nat /\ Lists \subseteq Nat
    /\ IsFiniteSet(Features) /\ IsFiniteSet(Lists)
    /\ Features \cap Lists = {} /\ FeatureNamespaces \cap ListNamespaces = {}
    /\ Versions \cap Namespaces = {}
    /\ \A f \in Features : NamespaceOf[f] \in FeatureNamespaces
    /\ \A l \in Lists : NamespaceOf[l] \in ListNamespaces
    /\ Targets \subseteq Readiness
    /\ MaxManual \in Nat /\ MaxFeatures \in Nat /\ MaxOverlaps \in Nat

VARIABLES docs,         \* id -> the committed document, or NoDoc
          request,      \* request -> its local state
          issued,       \* the versions created so far: an id is never used again
          outdated,     \* history: a transaction has started from a read that no longer held
          unsettled,    \* history: namespaces changed and not recomputed since, without overlap
          overlaps      \* history: how often a request has started while another ran

vars == <<docs, request, issued, outdated, unsettled, overlaps>>

(* The readiness of a list is its distribution: how many of its features   *)
(* have each readiness.                                                    *)
Distribution == [Readiness -> Int]

NoDoc == [deleted |-> TRUE]
FeatureModel == [readiness: Readiness, lists: SUBSET Lists, version: Nat]
FeatureListModel == [readiness: Distribution, features: SUBSET Features, version: Nat]
FeatureNamespaceModel == [ids: SUBSET Features, default: Features, manual: BOOLEAN,
                          readiness: Readiness]
FeatureListNamespaceModel == [ids: SUBSET Lists, default: Lists, manual: BOOLEAN,
                              readiness: Distribution, spaces: SUBSET FeatureNamespaces]

Idle(r) == request[r].pc = "idle"
InTransaction(r) == request[r].pc = "transaction"
IdleRequest == [pc |-> "idle"]

Init ==
    /\ docs = [x \in Ids |-> NoDoc]
    /\ request = [r \in Requests |-> IdleRequest]
    /\ issued = {}
    /\ outdated = FALSE
    /\ unsettled = {}
    /\ overlaps = 0

Saved(d, ids) == {x \in ids : d[x] # NoDoc}
Members(n) == {x \in Versions : NamespaceOf[x] = n}
Spaces(features) == {NamespaceOf[f] : f \in features}

-----------------------------------------------------------------------------
(* Which version is the default *)

CountReadiness(d, features) ==
    [k \in Readiness |-> Cardinality({f \in features : d[f].readiness = k})]

TotalCount(dist) == dist[0] + dist[1] + dist[2] + dist[3]

(* FeatureReadinessDistribution.__lt__: more production ready features are *)
(* better; then fewer of the worst readiness they differ in.               *)
Less(x, y) ==
    IF x[PRODUCTION_READY] # y[PRODUCTION_READY]
    THEN x[PRODUCTION_READY] < y[PRODUCTION_READY]
    ELSE \E k \in Readiness : x[k] > y[k] /\ \A j \in Readiness : j < k => x[j] = y[j]

(* _get_default_feature, _get_default_feature_list: the readiest version,  *)
(* and the newest of those.                                                *)
Preferred(d, a, b) ==
    LET x == d[a].readiness
        y == d[b].readiness IN
    \/ IF a \in Features THEN x > y ELSE Less(y, x)
    \/ x = y /\ a >= b

(* Faulty variant: the version created first.                              *)
Oldest(d, ids) == CHOOSE a \in ids : \A b \in ids : a <= b

Best(d, ids) == CHOOSE a \in ids : \A b \in ids : Preferred(d, a, b)

(* What update_feature_namespace and update_feature_list_namespace raise:  *)
(* the namespace or its default version is gone, or distributions of       *)
(* different sizes are to be compared.                                     *)
MayRecompute(d, n, excluded) ==
    LET ids == d[n].ids \ excluded IN
    /\ d[n] # NoDoc
    /\ IF d[n].manual
       THEN d[n].default \notin excluded /\ d[d[n].default] # NoDoc
       ELSE /\ ids = {} \/ Saved(d, ids) # {}
            /\ \A a, b \in Saved(d, ids) :
                 n \in ListNamespaces => TotalCount(d[a].readiness) = TotalCount(d[b].readiness)

(* The namespace as they leave it.                                         *)
Recomputed(d, n, excluded) ==
    LET ids == d[n].ids \ excluded
        default == IF d[n].manual THEN d[n].default ELSE Best(d, Saved(d, ids)) IN
    IF ids = {} /\ ~d[n].manual THEN [d[n] EXCEPT !.ids = {}]
    ELSE [d[n] EXCEPT !.ids = ids, !.default = default, !.readiness = d[default].readiness]

RecomputeAll(d, spaces) ==
    [x \in Ids |-> IF x \in spaces THEN Recomputed(d, x, {}) ELSE d[x]]

-----------------------------------------------------------------------------
(* Steps that requests share *)

Start(r, q) ==
    /\ Idle(r)
    /\ request' = [request EXCEPT ![r] = q]
    /\ \/ (\A s \in Requests : Idle(s)) /\ UNCHANGED <<unsettled, overlaps>>
       \/ /\ \E s \in Requests : ~Idle(s)
          /\ overlaps < MaxOverlaps
          /\ overlaps' = overlaps + 1
          /\ unsettled' = {}
    /\ UNCHANGED <<docs, issued, outdated>>

(* Namespaces are followed as long as requests have not overlapped.        *)
Unsettled(settled, changed) ==
    IF overlaps = 0 THEN (unsettled \ settled) \cup changed ELSE {}

(* The request raises; a transaction leaves nothing behind.                *)
Abort(r) ==
    /\ request' = [request EXCEPT ![r] = IdleRequest]
    /\ UNCHANGED <<docs, issued, outdated, unsettled, overlaps>>

(* A transaction is the documents it changes in its snapshot, the          *)
(* namespaces it recomputes, and the one to recompute when it has ended.   *)
Transaction(after, settled, next, excluded) ==
    [pc |-> "transaction",
     writes |-> [x \in {y \in Ids : after[y] # docs[y]} |-> after[x]],
     doomed |-> FALSE, settled |-> settled, next |-> next, excluded |-> excluded]

(* Faulty variant: writes over what others have written meanwhile.         *)
NeverDoomed(r, written) == request

(* Transactions that write a document somebody else has written abort.     *)
Doom(r, written) ==
    [s \in Requests |->
        IF s # r /\ InTransaction(s) /\ DOMAIN request[s].writes \cap written # {}
        THEN [request[s] EXCEPT !.doomed = TRUE] ELSE request[s]]

Commit(r) ==
    LET q == request[r] IN
    /\ InTransaction(r)
    /\ IF q.doomed THEN Abort(r)
       ELSE /\ docs' = [x \in Ids |-> IF x \in DOMAIN q.writes THEN q.writes[x] ELSE docs[x]]
            /\ request' = [Doom(r, DOMAIN q.writes) EXCEPT
                  ![r] = IF q.next = {} THEN IdleRequest
                         ELSE [pc |-> "recompute", next |-> q.next, excluded |-> q.excluded]]
            /\ unsettled' = Unsettled(q.settled, q.next)
            /\ UNCHANGED <<issued, outdated, overlaps>>

(* Outside of a transaction: the namespace is read ...                     *)
ReadNamespace(r) ==
    LET q == request[r] IN
    /\ q.pc = "recompute"
    /\ \E n \in q.next :
         IF docs[n] = NoDoc THEN Abort(r)
         ELSE /\ request' = [request EXCEPT ![r] = [pc |-> "choose", on |-> n, seen |-> docs[n],
                                                    excluded |-> q.excluded]]
              /\ UNCHANGED <<docs, issued, outdated, unsettled, overlaps>>

(* ... then its versions ...                                               *)
ChooseDefault(r) ==
    LET q == request[r]
        d == [docs EXCEPT ![q.on] = q.seen] IN
    /\ q.pc = "choose"
    /\ IF ~MayRecompute(d, q.on, q.excluded) THEN Abort(r)
       ELSE /\ request' = [request EXCEPT ![r] = [pc |-> "write", on |-> q.on, seen |-> q.seen,
                                                  after |-> Recomputed(d, q.on, q.excluded)]]
            /\ UNCHANGED <<docs, issued, outdated, unsettled, overlaps>>

(* ... then fields of it are written.  A feature namespace is not written  *)
(* if what was read is up to date, and no error is raised if it is gone.   *)
FieldsToWrite(seen, after) ==
    {x \in DOMAIN seen : seen[x] # after[x]}
      \cup (IF seen.manual \/ after.ids = {} THEN {} ELSE {"default", "readiness"})

WriteNamespace(r) ==
    LET q == request[r]
        n == q.on
        doc == [x \in DOMAIN docs[n] |-> IF x \in FieldsToWrite(q.seen, q.after) THEN q.after[x]
                                         ELSE docs[n][x]] IN
    /\ q.pc = "write"
    /\ IF docs[n] = NoDoc THEN Abort(r)
       ELSE LET written == IF n \in FeatureNamespaces /\ q.after = q.seen THEN docs[n] ELSE doc IN
            /\ docs' = [docs EXCEPT ![n] = written]
            /\ request' = [Doom(r, IF written = docs[n] THEN {} ELSE {n}) EXCEPT ![r] = IdleRequest]
            /\ unsettled' = Unsettled({n}, {})
            /\ UNCHANGED <<issued, outdated, overlaps>>

(* Any statement may raise, and the API process may die.                   *)
Fail(r) == ~Idle(r) /\ Abort(r)

-----------------------------------------------------------------------------
(* Creating a version *)

(* An id for the next version of n: they are created in this order.        *)
Available(n) ==
    {x \in Members(n) \ issued :
        x \in Features => Cardinality(issued \cap Features) < MaxFeatures}

NextId(x, n) ==
    /\ x \in Available(n)
    /\ \A y \in Members(n) \ issued : x <= y

(* Faulty variant: takes the version to be created for one of the counted. *)
OthersCounted(n) == Cardinality(Saved(docs, Members(n))) - 1

(* get_document_version: versions of one day are numbered by their count.  *)
NextVersion(n) == Cardinality(Saved(docs, Members(n)))

(* Faulty variant: trusts the count, as if versions were never deleted.    *)
NeverTaken(n, version) == FALSE

Taken(n, version) == \E x \in Saved(docs, Members(n)) : docs[x].version = version

(* The version is determined before the transaction.                       *)
CreateFeature(r) ==
    \E n \in FeatureNamespaces :
        /\ Available(n) # {}
        /\ Start(r, [pc |-> "createFeature", on |-> n, version |-> NextVersion(n)])

(* include_object_id, or a new namespace.                                  *)
Joined(n, x, new) ==
    IF docs[n] = NoDoc THEN new ELSE [docs[n] EXCEPT !.ids = @ \cup {x}]

(* FeatureService.create_document                                          *)
InsertFeature(r) ==
    LET q == request[r]
        n == q.on
        new(f) == [ids |-> {f}, default |-> f, manual |-> FALSE, readiness |-> DRAFT]
        inserted(f) == [docs EXCEPT
            ![f] = [readiness |-> DRAFT, lists |-> {}, version |-> q.version],
            ![n] = Joined(n, f, new(f))] IN
    /\ q.pc = "createFeature"
    /\ IF Taken(n, q.version) THEN Abort(r)
       ELSE \E f \in Features :
            /\ NextId(f, n)
            /\ issued' = issued \cup {f}
            /\ request' = [request EXCEPT ![r] = Transaction(inserted(f), {}, {n}, {})]
            /\ UNCHANGED <<docs, outdated, unsettled, overlaps>>

(* For a list the version, its uniqueness and the features are all read    *)
(* before the transaction, and the distribution is counted then.           *)
CreateList(r) ==
    \E n \in ListNamespaces : \E fs \in SUBSET Saved(docs, Features) \ {{}} :
        /\ Available(n) # {}
        /\ \A f, g \in fs : NamespaceOf[f] = NamespaceOf[g] => f = g
        /\ ~Taken(n, NextVersion(n))
        /\ Start(r, [pc |-> "createList", on |-> n, version |-> NextVersion(n), features |-> fs,
                     readiness |-> CountReadiness(docs, fs)])

(* Faulty variant: a list may have other features than its earlier version.*)
AlwaysConsistent(n, features) == TRUE

(* validate_feature_list_version_and_namespace_consistency: the features   *)
(* exist, and are versions of the features the namespace was created with. *)
Consistent(n, features) ==
    features = Saved(docs, features) /\ docs[n].spaces = Spaces(features)

(* FeatureListService.create_document.  A missing feature is noticed only  *)
(* when the namespace exists; otherwise those that exist get the list.     *)
InsertList(r) ==
    LET q == request[r]
        n == q.on
        found == Saved(docs, q.features)
        new(l) == [ids |-> {l}, default |-> l, manual |-> FALSE, readiness |-> q.readiness,
                   spaces |-> Spaces(q.features)]
        inserted(l) == [x \in Ids |->
            CASE x = l -> [readiness |-> q.readiness, features |-> q.features, version |-> q.version]
              [] x = n -> Joined(n, l, new(l))
              [] x \in found -> [docs[x] EXCEPT !.lists = @ \cup {l}]
              [] OTHER -> docs[x]] IN
    /\ q.pc = "createList"
    /\ IF docs[n] # NoDoc /\ ~Consistent(n, q.features) THEN Abort(r)
       ELSE \E l \in Lists :
            /\ NextId(l, n)
            /\ issued' = issued \cup {l}
            /\ request' = [request EXCEPT ![r] = Transaction(inserted(l), {}, {n}, {})]
            /\ outdated' = (outdated \/ found # q.features
                            \/ CountReadiness(docs, found) # q.readiness)
            /\ UNCHANGED <<docs, unsettled, overlaps>>

-----------------------------------------------------------------------------
(* Readiness *)

(* Faulty variant: any version may become a draft.                         *)
MayBecomeDraft(f, from, to) ==
    /\ to = PRODUCTION_READY =>
         \A g \in Saved(docs, Features) :
             NamespaceOf[g] = NamespaceOf[f] /\ docs[g].readiness = PRODUCTION_READY => g = f
    /\ to = DEPRECATED => from # DRAFT

(* Faulty variant: nobody asks which other versions are production ready.  *)
MayAlwaysPromote(f, from, to) ==
    /\ to = DRAFT => from = DRAFT
    /\ to = DEPRECATED => from # DRAFT

(* _validate_readiness_transition                                          *)
MayMove(f, from, to) ==
    /\ to = PRODUCTION_READY =>
         \A g \in Saved(docs, Features) :
             NamespaceOf[g] = NamespaceOf[f] /\ docs[g].readiness = PRODUCTION_READY => g = f
    /\ to = DRAFT => from = DRAFT
    /\ to = DEPRECATED => from # DRAFT

(* update_feature reads and checks; the same readiness is nothing to do.   *)
UpdateReadiness(r) ==
    \E f \in Saved(docs, Features) : \E to \in Targets \ {docs[f].readiness} :
        /\ MayMove(f, docs[f].readiness, to)
        /\ Start(r, [pc |-> "updateReadiness", on |-> f, from |-> docs[f].readiness, to |-> to])

(* update_feature_list: one feature moves from one count to another.       *)
Shift(dist, from, to) == [dist EXCEPT ![from] = @ - 1, ![to] = @ + 1]

(* Faulty variant: the lists of the feature keep their distribution.       *)
MovedAlone(d, f, from, to) == [d EXCEPT ![f].readiness = to]

Moved(d, f, from, to) ==
    [x \in Ids |-> CASE x = f -> [d[f] EXCEPT !.readiness = to]
                     [] x \in d[f].lists -> [d[x] EXCEPT !.readiness = Shift(@, from, to)]
                     [] OTHER -> d[x]]

(* The transaction of update_feature: the feature, its namespace, its      *)
(* lists, which are those it has now, and their namespaces.  The counts    *)
(* move from the readiness read before.                                    *)
MoveFeature(r) ==
    LET q == request[r]
        f == q.on
        moved == Moved(docs, f, q.from, q.to)
        spaces == Spaces({f} \cup docs[f].lists) IN
    /\ q.pc = "updateReadiness"
    /\ IF docs[f] = NoDoc \/ (\E l \in docs[f].lists : docs[l] = NoDoc
                                                      \/ docs[l].readiness[q.from] < 1)
       THEN Abort(r)
       ELSE IF \E n \in spaces : ~MayRecompute(moved, n, {}) THEN Abort(r)
       ELSE /\ request' = [request EXCEPT
                  ![r] = Transaction(RecomputeAll(moved, spaces), spaces, {}, {})]
            /\ outdated' = (outdated \/ (docs[f].lists # {} /\ docs[f].readiness # q.from))
            /\ UNCHANGED <<docs, issued, unsettled, overlaps>>

-----------------------------------------------------------------------------
(* Deleting a version *)

IsManualDefault(x) ==
    LET n == NamespaceOf[x] IN docs[n].default = x /\ docs[n].manual

(* delete_feature: only a draft that no list uses.                         *)
DeleteFeature(r) ==
    \E f \in Saved(docs, Features) :
        /\ docs[f].readiness = DRAFT
        /\ ~IsManualDefault(f)
        /\ docs[f].lists = {}
        /\ Start(r, [pc |-> "deleteFeature", on |-> f])

(* Faulty variant: a namespace without versions is left behind.            *)
NotForgotten(doc, x) == doc

Forgotten(doc, x) == IF doc.ids \subseteq {x} THEN NoDoc ELSE doc

RemoveFeature(r) ==
    LET f == request[r].on
        n == NamespaceOf[f]
        removed == [docs EXCEPT ![f] = NoDoc] IN
    /\ request[r].pc = "deleteFeature"
    /\ IF docs[f] = NoDoc \/ ~MayRecompute(removed, n, {f}) THEN Abort(r)
       ELSE /\ request' = [request EXCEPT
                  ![r] = Transaction([removed EXCEPT ![n] = Forgotten(Recomputed(removed, n, {f}), f)],
                                     {n}, {}, {})]
            /\ outdated' = (outdated \/ docs[f].lists # {})
            /\ UNCHANGED <<docs, issued, unsettled, overlaps>>

(* delete_feature_list: also refused unless the status is DRAFT.           *)
DeleteList(r) ==
    \E l \in Saved(docs, Lists) :
        /\ ~IsManualDefault(l)
        /\ Start(r, [pc |-> "deleteList", on |-> l])

(* Faulty variant: the features keep the deleted list.                     *)
Untouched(doc, l) == doc

Pulled(doc, l) == [doc EXCEPT !.lists = @ \ {l}]

(* FeatureListService.delete_document: the default is left to be           *)
(* recomputed after the transaction.                                       *)
RemoveList(r) ==
    LET l == request[r].on
        n == NamespaceOf[l]
        kept == [docs[n] EXCEPT !.ids = @ \ {l}]
        removed == [x \in Ids |->
            CASE x = l -> NoDoc
              [] x = n -> Forgotten(kept, l)
              [] x \in Saved(docs, docs[l].features) -> Pulled(docs[x], l)
              [] OTHER -> docs[x]] IN
    /\ request[r].pc = "deleteList"
    /\ IF docs[l] = NoDoc \/ docs[n] = NoDoc THEN Abort(r)
       ELSE /\ request' = [request EXCEPT ![r] = Transaction(removed, {}, {n}, {l})]
            /\ UNCHANGED <<docs, issued, outdated, unsettled, overlaps>>

-----------------------------------------------------------------------------
(* Choosing the default *)

Manual == {n \in Saved(docs, Namespaces) : docs[n].manual}

(* DefaultVersionModeService                                               *)
SetMode(r) ==
    \E n \in Saved(docs, Namespaces) :
        /\ docs[n].manual \/ Cardinality(Manual) < MaxManual
        /\ Start(r, [pc |-> "setField", on |-> n, field |-> "manual", value |-> ~docs[n].manual])

(* What the controllers of the namespaces accept.  A feature has to exist  *)
(* and to be as ready as every version of the namespace, not to be one of  *)
(* them; of a list nothing is asked, not that it exists: an id of Lists    *)
(* that is not saved stands for one unknown to the system.                 *)
Choosable(n) ==
    IF n \in ListNamespaces THEN Lists
    ELSE {x \in Saved(docs, Features) :
            \A y \in Saved(docs, docs[n].ids) : docs[y].readiness <= docs[x].readiness}

(* The controllers of the namespaces: in manual mode only.                 *)
SetDefault(r) ==
    \E n \in Saved(docs, Namespaces) : \E x \in Choosable(n) :
        /\ docs[n].manual
        /\ Start(r, [pc |-> "setField", on |-> n, field |-> "default", value |-> x])

(* The field is written, then the namespace recomputed.                    *)
SetField(r) ==
    LET q == request[r] IN
    /\ q.pc = "setField"
    /\ IF docs[q.on] = NoDoc THEN Abort(r)
       ELSE /\ docs' = [docs EXCEPT ![q.on][q.field] = q.value]
            /\ request' = [Doom(r, IF docs[q.on][q.field] = q.value THEN {} ELSE {q.on}) EXCEPT
                  ![r] = [pc |-> "recompute", next |-> {q.on}, excluded |-> {}]]
            /\ unsettled' = Unsettled({}, {q.on})
            /\ UNCHANGED <<issued, outdated, overlaps>>

Next == \E r \in Requests :
    \/ CreateFeature(r) \/ InsertFeature(r)
    \/ CreateList(r) \/ InsertList(r)
    \/ UpdateReadiness(r) \/ MoveFeature(r)
    \/ DeleteFeature(r) \/ RemoveFeature(r)
    \/ DeleteList(r) \/ RemoveList(r)
    \/ SetMode(r) \/ SetDefault(r) \/ SetField(r)
    \/ Commit(r) \/ ReadNamespace(r) \/ ChooseDefault(r) \/ WriteNamespace(r) \/ Fail(r)

Spec == Init /\ [][Next]_vars

-----------------------------------------------------------------------------
(* Properties *)

TypeOK ==
    /\ DOMAIN docs = Ids
    /\ \A f \in Features : docs[f] \in FeatureModel \cup {NoDoc}
    /\ \A l \in Lists : docs[l] = NoDoc \/ docs[l] \in FeatureListModel
    /\ \A n \in FeatureNamespaces : docs[n] \in FeatureNamespaceModel \cup {NoDoc}
    /\ \A n \in ListNamespaces : docs[n] = NoDoc \/ docs[n] \in FeatureListNamespaceModel
    /\ \A x \in Versions : docs[x] # NoDoc => x \in issued
    /\ outdated \in BOOLEAN
    /\ unsettled \subseteq Namespaces
    /\ overlaps \in 0..MaxOverlaps

(* A feature names exactly the existing lists that name it, whatever       *)
(* requests interleave: lists come and go without locking their features,  *)
(* and a feature that names a list may not be deleted.                     *)
LinksAgree ==
    \A f \in Saved(docs, Features) : \A l \in Lists :
        l \in docs[f].lists <=> docs[l] # NoDoc /\ f \in docs[l].features

(* A version exists iff its namespace names it, and a namespace exists iff *)
(* it has a version, whatever requests interleave.                         *)
MembersListed ==
    \A n \in Namespaces :
        /\ docs[n] # NoDoc <=> Saved(docs, Members(n)) # {}
        /\ docs[n] # NoDoc => docs[n].ids = Saved(docs, Members(n))

(* No two versions of a feature have the same version identifier, although *)
(* it is derived from a count taken before the transaction that creates    *)
(* the version, and versions may be deleted; of a list, when requests do   *)
(* not overlap.                                                            *)
VersionsDistinct ==
    \A x, y \in Saved(docs, Versions) :
        /\ NamespaceOf[x] = NamespaceOf[y] /\ x # y
        /\ x \in Features \/ overlaps = 0
        => docs[x].version # docs[y].version

(* As long as no transaction has started from a read that no longer held,  *)
(* the features of a list exist and its distribution counts them.          *)
ListsExact ==
    ~outdated => \A l \in Saved(docs, Lists) :
        /\ docs[l].features \subseteq Saved(docs, Features)
        /\ docs[l].readiness = CountReadiness(docs, docs[l].features)

(* Lists of one namespace have as many features each: the comparison that  *)
(* chooses the default one raises an error otherwise.                      *)
ListsComparable ==
    \A l, m \in Saved(docs, Lists) :
        NamespaceOf[l] = NamespaceOf[m] => TotalCount(docs[l].readiness) = TotalCount(docs[m].readiness)

(* When requests do not overlap, a namespace that has been recomputed since*)
(* it was last changed has the best of its versions as its default, unless *)
(* the default was chosen by hand, and shows the readiness of the default. *)
(* Nothing is said of a chosen default that is no version of the namespace:*)
(* it may not exist, or change without the namespace being recomputed.     *)
DefaultsSettled ==
    overlaps = 0 => \A n \in Saved(docs, Namespaces) \ unsettled :
        LET x == docs[n].default IN
        /\ ~docs[n].manual =>
             /\ x \in Saved(docs, docs[n].ids)
             /\ \A y \in Saved(docs, Members(n)) : Preferred(docs, x, y)
        /\ x \in Saved(docs, docs[n].ids) => docs[n].readiness = docs[x].readiness

(* When requests do not overlap, at most one version of a feature is       *)
(* production ready.                                                       *)
OneProductionReadySerially ==
    overlaps = 0 => \A f, g \in Saved(docs, Features) :
        /\ NamespaceOf[f] = NamespaceOf[g]
        /\ docs[f].readiness = PRODUCTION_READY /\ docs[g].readiness = PRODUCTION_READY
        => f = g

(* A version never becomes a draft again, nor deprecated straight from a   *)
(* draft, even when its readiness has changed since it was checked.        *)
ReadinessMoves ==
    [][\A f \in Features :
          docs[f] # NoDoc /\ docs'[f] # NoDoc /\ docs'[f].readiness # docs[f].readiness =>
              /\ docs'[f].readiness # DRAFT
              /\ docs'[f].readiness = DEPRECATED => docs[f].readiness # DRAFT]_vars
=============================================================================
