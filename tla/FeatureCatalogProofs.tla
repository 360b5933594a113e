------------------------ MODULE FeatureCatalogProofs ------------------------
(* Theorems about FeatureCatalog, for every value of its constants.        *)
EXTENDS FeatureCatalog, FiniteSetTheorems, TLAPS

-----------------------------------------------------------------------------
(* The invariant *)

Open(r) == InTransaction(r) /\ ~request[r].doomed

(* The documents as a transaction sees them, or as it leaves them.         *)
Overlay(d, w) == [x \in Ids |-> IF x \in DOMAIN w THEN w[x] ELSE d[x]]

Typed(d) ==
    /\ \A f \in Features : d[f] \in FeatureModel \cup {NoDoc}
    /\ \A l \in Lists : d[l] \in FeatureListModel \cup {NoDoc}
    /\ \A n \in Namespaces : d[n] # NoDoc => "ids" \in DOMAIN d[n]

Links(d) ==
    \A f \in Features : \A l \in Lists : d[f] # NoDoc =>
        (l \in d[f].lists <=> d[l] # NoDoc /\ f \in d[l].features)

Listed(d) ==
    \A n \in Namespaces :
        /\ d[n] # NoDoc <=> \E x \in Members(n) : d[x] # NoDoc
        /\ d[n] # NoDoc => d[n].ids = Saved(d, Members(n))

Numbered(d, versions) ==
    \A x, y \in versions :
        d[x] # NoDoc /\ d[y] # NoDoc /\ NamespaceOf[x] = NamespaceOf[y] /\ x # y =>
            d[x].version # d[y].version

Sound(d) == Typed(d) /\ Links(d) /\ Listed(d) /\ Numbered(d, Features)

MayFollow(new, old) ==
    new # old => new # DRAFT /\ (new = DEPRECATED => old # DRAFT)

(* What the writes of a transaction never do to committed documents: a     *)
(* version keeps its identifier and a list its features, and a version     *)
(* comes and goes only together with a write of its namespace.             *)
Lawful(d, w) ==
    /\ DOMAIN w \subseteq Ids
    /\ \A f \in Features \cap DOMAIN w : d[f] # NoDoc /\ w[f] # NoDoc =>
          w[f].version = d[f].version /\ MayFollow(w[f].readiness, d[f].readiness)
    /\ \A l \in Lists \cap DOMAIN w : d[l] # NoDoc /\ w[l] # NoDoc =>
          w[l].features = d[l].features
    /\ \A x \in Versions \cap DOMAIN w :
          ~(d[x] # NoDoc <=> w[x] # NoDoc) => NamespaceOf[x] \in DOMAIN w

(* Features that some list names, whether they still exist or not.         *)
Named(d, ids) == {f \in Features : \E l \in Lists \cap ids : d[l] # NoDoc /\ f \in d[l].features}

(* Versions that a request has read.                                       *)
Mentions(q) ==
    CASE q.pc = "createList" -> q.features
      [] q.pc = "updateReadiness" -> {q.on}
      [] q.pc = "transaction" -> q.excluded \cup Named(q.writes, DOMAIN q.writes)
      [] q.pc = "recompute" -> q.excluded
      [] OTHER -> {}

Creates(d, w) == {x \in Versions \cap DOMAIN w : d[x] = NoDoc /\ w[x] # NoDoc}

TransactionForm(q) ==
    /\ q = [pc |-> "transaction", writes |-> q.writes, doomed |-> q.doomed,
            settled |-> q.settled, next |-> q.next, excluded |-> q.excluded]
    /\ q.next \subseteq Namespaces
    /\ q.doomed \in BOOLEAN

RequestOK(d, q) ==
    /\ q.pc = "createFeature" => q.on \in FeatureNamespaces /\ q.version \in Nat
    /\ q.pc = "createList" => /\ q.on \in ListNamespaces /\ q.version \in Nat
                              /\ q.features \in SUBSET Features /\ q.readiness \in Distribution
    /\ q.pc = "updateReadiness" =>
          /\ q.on \in Features /\ q.from \in Readiness /\ q.to \in Readiness \ {DRAFT}
          /\ q.to = DEPRECATED /\ d[q.on] # NoDoc => d[q.on].readiness # DRAFT
    /\ q.pc = "deleteFeature" => q.on \in Features
    /\ q.pc = "deleteList" => q.on \in Lists
    /\ q.pc = "setField" => q.on \in Namespaces /\ q.field \in {"manual", "default"}
    /\ q.pc = "transaction" => TransactionForm(q)
    /\ q.pc = "recompute" => /\ q.next \subseteq Namespaces /\ q.excluded \subseteq Versions
                             /\ \A x \in q.excluded : d[x] = NoDoc
    /\ q.pc = "choose" => /\ q.on \in Namespaces /\ "ids" \in DOMAIN q.seen
                          /\ q.seen.ids \cap q.excluded = {}
    /\ q.pc = "write" => /\ q.on \in Namespaces
                         /\ "ids" \in DOMAIN q.seen /\ q.seen.ids = q.after.ids

OpenOK(d, q, used) ==
    /\ Sound(Overlay(d, q.writes))
    /\ Lawful(d, q.writes)
    /\ \A x \in q.excluded : x \in Versions \cap DOMAIN q.writes /\ q.writes[x] = NoDoc
    /\ Creates(d, q.writes) \cap Named(d, Ids) = {}
    /\ \A x \in Versions \cap DOMAIN q.writes : q.writes[x] # NoDoc => x \in used

(* A version that is being created has never been committed, so nobody has *)
(* read it yet.                                                            *)
NewIsUnread ==
    \A r, s \in Requests : Open(r) => Creates(docs, request[r].writes) \cap Mentions(request[s]) = {}

IssuedOK ==
    /\ \A x \in Versions : docs[x] # NoDoc => x \in issued
    /\ Named(docs, Ids) \subseteq issued
    /\ \A r \in Requests : Mentions(request[r]) \subseteq issued

IInv ==
    /\ docs = [x \in Ids |-> docs[x]]
    /\ request = [r \in Requests |-> request[r]]
    /\ Sound(docs)
    /\ \A r \in Requests : RequestOK(docs, request[r])
    /\ \A r \in Requests : Open(r) => OpenOK(docs, request[r], issued)
    /\ NewIsUnread
    /\ IssuedOK

-----------------------------------------------------------------------------
(* Documents *)

LEMMA Kinds ==
    /\ Features \subseteq Ids /\ Lists \subseteq Ids /\ Namespaces \subseteq Ids
    /\ Versions = Features \cup Lists
    /\ \A f \in Features : f \notin Lists /\ f \notin Namespaces /\ NamespaceOf[f] \in FeatureNamespaces
    /\ \A l \in Lists : l \notin Features /\ l \notin Namespaces /\ NamespaceOf[l] \in ListNamespaces
    /\ \A n \in FeatureNamespaces : n \notin ListNamespaces /\ n \in Namespaces
    /\ \A n \in ListNamespaces : n \notin FeatureNamespaces /\ n \in Namespaces
    /\ \A n \in Namespaces : n \notin Versions
BY FeatureCatalogAssumption DEF Versions, Namespaces, Ids

LEMMA NoDocApart ==
    /\ NoDoc \notin FeatureModel
    /\ NoDoc \notin FeatureListModel
    /\ "ids" \notin DOMAIN NoDoc
BY DEF NoDoc, FeatureModel, FeatureListModel

LEMMA Overlaid ==
    ASSUME NEW d, NEW w, NEW x \in Ids
    PROVE  Overlay(d, w)[x] = IF x \in DOMAIN w THEN w[x] ELSE d[x]
BY DEF Overlay

(* Two transactions that write different documents and know nothing of the *)
(* versions that the other one creates leave sound documents together.     *)
LEMMA MergedLinks ==
    ASSUME NEW d, NEW v, NEW w, DOMAIN v \cap DOMAIN w = {},
           Links(d), Links(Overlay(d, v)), Links(Overlay(d, w)),
           Lawful(d, v), Lawful(d, w),
           Creates(d, v) \cap Named(d, Ids) = {}, Creates(d, v) \cap Named(w, DOMAIN w) = {},
           Creates(d, w) \cap Named(d, Ids) = {}, Creates(d, w) \cap Named(v, DOMAIN v) = {}
    PROVE  Links(Overlay(Overlay(d, v), w))
<1> DEFINE a == Overlay(d, v)
           b == Overlay(d, w)
           m == Overlay(a, w)
<1> SUFFICES ASSUME NEW f \in Features, NEW l \in Lists, m[f] # NoDoc
             PROVE  l \in m[f].lists <=> m[l] # NoDoc /\ f \in m[l].features
  BY DEF Links
<1>0. f \in Ids /\ l \in Ids /\ f \in Versions /\ l \in Versions
  BY Kinds
<1>1. /\ a[f] = IF f \in DOMAIN v THEN v[f] ELSE d[f]
      /\ a[l] = IF l \in DOMAIN v THEN v[l] ELSE d[l]
      /\ b[f] = IF f \in DOMAIN w THEN w[f] ELSE d[f]
      /\ b[l] = IF l \in DOMAIN w THEN w[l] ELSE d[l]
      /\ m[f] = IF f \in DOMAIN w THEN w[f] ELSE a[f]
      /\ m[l] = IF l \in DOMAIN w THEN w[l] ELSE a[l]
  BY <1>0, Overlaid
<1>2. /\ a[f] # NoDoc => (l \in a[f].lists <=> a[l] # NoDoc /\ f \in a[l].features)
      /\ b[f] # NoDoc => (l \in b[f].lists <=> b[l] # NoDoc /\ f \in b[l].features)
      /\ d[f] # NoDoc => (l \in d[f].lists <=> d[l] # NoDoc /\ f \in d[l].features)
  BY DEF Links
<1> HIDE DEF a, b, m
<1>3. CASE f \in DOMAIN w /\ l \in DOMAIN v
  <2>1. f \notin DOMAIN v /\ l \notin DOMAIN w
    BY <1>3
  <2>2. d[l] # NoDoc /\ v[l] # NoDoc => v[l].features = d[l].features
    BY <1>3 DEF Lawful
  <2>3. d[f] = NoDoc => f \in Creates(d, w)
    BY <1>0, <1>1, <1>3 DEF Creates
  <2>4. d[f] = NoDoc => /\ v[l] # NoDoc => f \notin v[l].features
                        /\ d[l] # NoDoc => f \notin d[l].features
    BY <1>0, <1>3, <2>3 DEF Named
  <2> QED
    BY <1>1, <1>2, <1>3, <2>1, <2>2, <2>4
<1>4. CASE f \in DOMAIN v /\ l \in DOMAIN w
  <2>1. f \notin DOMAIN w /\ l \notin DOMAIN v
    BY <1>4
  <2>2. d[l] # NoDoc /\ w[l] # NoDoc => w[l].features = d[l].features
    BY <1>4 DEF Lawful
  <2>3. d[f] = NoDoc => f \in Creates(d, v)
    BY <1>0, <1>1, <1>4, <2>1 DEF Creates
  <2>4. d[f] = NoDoc => /\ w[l] # NoDoc => f \notin w[l].features
                        /\ d[l] # NoDoc => f \notin d[l].features
    BY <1>0, <1>4, <2>3 DEF Named
  <2> QED
    BY <1>1, <1>2, <1>4, <2>1, <2>2, <2>4
<1>5. CASE (f \notin DOMAIN w \/ l \notin DOMAIN v) /\ (f \notin DOMAIN v \/ l \notin DOMAIN w)
  BY <1>1, <1>2, <1>5
<1> QED
  BY <1>3, <1>4, <1>5

LEMMA MergedLists ==
    ASSUME NEW d, NEW v, NEW w, DOMAIN v \cap DOMAIN w = {},
           Listed(d), Listed(Overlay(d, v)), Listed(Overlay(d, w)),
           Lawful(d, v), Lawful(d, w)
    PROVE  Listed(Overlay(Overlay(d, v), w))
<1> DEFINE a == Overlay(d, v)
           b == Overlay(d, w)
           m == Overlay(a, w)
<1> SUFFICES ASSUME NEW n \in Namespaces
             PROVE  /\ m[n] # NoDoc <=> \E x \in Members(n) : m[x] # NoDoc
                    /\ m[n] # NoDoc => m[n].ids = Saved(m, Members(n))
  BY DEF Listed
<1>1. n \in Ids /\ \A x \in Members(n) : x \in Versions /\ x \in Ids /\ NamespaceOf[x] = n
  BY Kinds DEF Members
<1>2. \A x \in Ids : /\ a[x] = IF x \in DOMAIN v THEN v[x] ELSE d[x]
                     /\ b[x] = IF x \in DOMAIN w THEN w[x] ELSE d[x]
                     /\ m[x] = IF x \in DOMAIN w THEN w[x] ELSE a[x]
  BY Overlaid
<1>3. /\ n \notin DOMAIN v => \A x \in Members(n) \cap DOMAIN v : d[x] # NoDoc <=> v[x] # NoDoc
      /\ n \notin DOMAIN w => \A x \in Members(n) \cap DOMAIN w : d[x] # NoDoc <=> w[x] # NoDoc
  BY <1>1 DEF Lawful
<1>4. /\ a[n] # NoDoc <=> \E x \in Members(n) : a[x] # NoDoc
      /\ a[n] # NoDoc => a[n].ids = Saved(a, Members(n))
      /\ b[n] # NoDoc <=> \E x \in Members(n) : b[x] # NoDoc
      /\ b[n] # NoDoc => b[n].ids = Saved(b, Members(n))
  BY DEF Listed
<1> HIDE DEF a, b, m
<1>5. CASE n \notin DOMAIN w
  <2>1. \A x \in Members(n) : m[x] # NoDoc <=> a[x] # NoDoc
    BY <1>1, <1>2, <1>3, <1>5
  <2>2. m[n] = a[n] /\ Saved(m, Members(n)) = Saved(a, Members(n))
    BY <1>1, <1>2, <1>5, <2>1 DEF Saved
  <2> QED
    BY <1>4, <2>1, <2>2
<1>6. CASE n \in DOMAIN w
  <2>1. n \notin DOMAIN v
    BY <1>6
  <2>2. \A x \in Members(n) : m[x] # NoDoc <=> b[x] # NoDoc
    BY <1>1, <1>2, <1>3, <2>1
  <2>3. m[n] = b[n] /\ Saved(m, Members(n)) = Saved(b, Members(n))
    BY <1>1, <1>2, <1>6, <2>2 DEF Saved
  <2> QED
    BY <1>4, <2>2, <2>3
<1> QED
  BY <1>5, <1>6

LEMMA MergedNumbers ==
    ASSUME NEW d, NEW v, NEW w, DOMAIN v \cap DOMAIN w = {},
           Numbered(Overlay(d, v), Features), Numbered(Overlay(d, w), Features),
           Lawful(d, v), Lawful(d, w)
    PROVE  Numbered(Overlay(Overlay(d, v), w), Features)
<1> DEFINE a == Overlay(d, v)
           b == Overlay(d, w)
           m == Overlay(a, w)
<1> SUFFICES ASSUME NEW x \in Features, NEW y \in Features, m[x] # NoDoc, m[y] # NoDoc,
                    NamespaceOf[x] = NamespaceOf[y], x # y
             PROVE  m[x].version # m[y].version
  BY DEF Numbered
<1>0. x \in Ids /\ y \in Ids /\ x \in Versions /\ y \in Versions
  BY Kinds
<1>1. /\ a[x] = IF x \in DOMAIN v THEN v[x] ELSE d[x]
      /\ a[y] = IF y \in DOMAIN v THEN v[y] ELSE d[y]
      /\ b[x] = IF x \in DOMAIN w THEN w[x] ELSE d[x]
      /\ b[y] = IF y \in DOMAIN w THEN w[y] ELSE d[y]
      /\ m[x] = IF x \in DOMAIN w THEN w[x] ELSE a[x]
      /\ m[y] = IF y \in DOMAIN w THEN w[y] ELSE a[y]
  BY <1>0, Overlaid
<1>2. /\ a[x] # NoDoc /\ a[y] # NoDoc => a[x].version # a[y].version
      /\ b[x] # NoDoc /\ b[y] # NoDoc => b[x].version # b[y].version
  BY DEF Numbered
<1>3. /\ x \in DOMAIN v /\ d[x] # NoDoc /\ v[x] # NoDoc => v[x].version = d[x].version
      /\ y \in DOMAIN v /\ d[y] # NoDoc /\ v[y] # NoDoc => v[y].version = d[y].version
      /\ x \in DOMAIN w /\ d[x] # NoDoc /\ w[x] # NoDoc => w[x].version = d[x].version
      /\ y \in DOMAIN w /\ d[y] # NoDoc /\ w[y] # NoDoc => w[y].version = d[y].version
  BY DEF Lawful
<1>4. /\ x \in DOMAIN v /\ d[x] = NoDoc /\ v[x] # NoDoc => NamespaceOf[x] \in DOMAIN v
      /\ y \in DOMAIN v /\ d[y] = NoDoc /\ v[y] # NoDoc => NamespaceOf[y] \in DOMAIN v
      /\ x \in DOMAIN w /\ d[x] = NoDoc /\ w[x] # NoDoc => NamespaceOf[x] \in DOMAIN w
      /\ y \in DOMAIN w /\ d[y] = NoDoc /\ w[y] # NoDoc => NamespaceOf[y] \in DOMAIN w
  BY <1>0 DEF Lawful
<1> HIDE DEF a, b, m
<1> QED
  BY <1>1, <1>2, <1>3, <1>4

LEMMA Merged ==
    ASSUME NEW d, NEW v, NEW w, DOMAIN v \cap DOMAIN w = {},
           Sound(d), Sound(Overlay(d, v)), Sound(Overlay(d, w)),
           Lawful(d, v), Lawful(d, w),
           Creates(d, v) \cap Named(d, Ids) = {}, Creates(d, v) \cap Named(w, DOMAIN w) = {},
           Creates(d, w) \cap Named(d, Ids) = {}, Creates(d, w) \cap Named(v, DOMAIN v) = {}
    PROVE  Sound(Overlay(Overlay(d, v), w)) /\ Lawful(Overlay(d, v), w)
<1>1. \A x \in Ids : Overlay(Overlay(d, v), w)[x] \in {Overlay(d, v)[x], Overlay(d, w)[x]}
  BY Overlaid
<1>2. Typed(Overlay(Overlay(d, v), w))
  BY <1>1, Kinds DEF Typed, Sound
<1>3. \A x \in DOMAIN w : x \in Ids => Overlay(d, v)[x] = d[x]
  BY Overlaid
<1>4. Lawful(Overlay(d, v), w)
  BY <1>3, Kinds DEF Lawful
<1> QED
  BY <1>2, <1>4, MergedLinks, MergedLists, MergedNumbers DEF Sound

-----------------------------------------------------------------------------
(* Steps that leave the documents alone *)

LEMMA InitOK == Init => IInv
<1> SUFFICES ASSUME Init PROVE IInv
  OBVIOUS
<1>1. /\ docs = [x \in Ids |-> NoDoc]
      /\ request = [r \in Requests |-> IdleRequest]
      /\ \A r \in Requests : request[r].pc = "idle"
  BY DEF Init, IdleRequest
<1>2. \A x \in Ids : docs[x] = NoDoc
  BY <1>1
<1>3. Sound(docs)
  BY <1>2, Kinds DEF Sound, Typed, Links, Listed, Numbered, Members, Versions
<1>4. \A r \in Requests : RequestOK(docs, request[r]) /\ ~Open(r) /\ Mentions(request[r]) = {}
  BY <1>1 DEF RequestOK, Open, InTransaction, Mentions
<1>5. Named(docs, Ids) = {}
  BY <1>2, Kinds DEF Named
<1> QED
  BY <1>1, <1>2, <1>3, <1>4, <1>5, Kinds DEF IInv, NewIsUnread, IssuedOK

(* A request moves on, without a transaction, having read only versions    *)
(* that exist.                                                             *)
LEMMA LocalStep ==
    ASSUME IInv, NEW r \in Requests, NEW q,
           docs' = docs, issued' = issued, request' = [request EXCEPT ![r] = q],
           q.pc # "transaction", RequestOK(docs, q),
           Mentions(q) \subseteq {x \in Versions : docs[x] # NoDoc}
    PROVE  IInv'
<1>1. request'[r] = q /\ \A s \in Requests : s # r => request'[s] = request[s]
  BY DEF IInv
<1>2. ~Open(r)' /\ \A s \in Requests : s # r => (Open(s)' <=> Open(s))
  BY <1>1 DEF Open, InTransaction
<1>3. \A s \in Requests : Mentions(request'[s]) \subseteq Mentions(request[s]) \cup Mentions(q)
  BY <1>1
<1>4. \A s \in Requests : Creates(docs, request[s].writes) \cap Mentions(q) = {}
  BY DEF Creates
<1>5. NewIsUnread'
  <2> SUFFICES ASSUME NEW s \in Requests, NEW t \in Requests, Open(s)'
               PROVE  Creates(docs', request'[s].writes) \cap Mentions(request'[t]) = {}
    BY DEF NewIsUnread
  <2>1. s # r /\ Open(s) /\ request'[s] = request[s]
    BY <1>1, <1>2
  <2>2. Creates(docs, request[s].writes) \cap Mentions(request[t]) = {}
    BY <2>1 DEF IInv, NewIsUnread
  <2> QED
    BY <1>3, <1>4, <2>1, <2>2
<1>6. IssuedOK'
  BY <1>3 DEF IssuedOK, IInv
<1>7. \A s \in Requests : RequestOK(docs', request'[s])
  BY <1>1 DEF IInv
<1>9. \A s \in Requests : Open(s)' => OpenOK(docs', request'[s], issued')
  BY <1>1, <1>2 DEF IInv
<1>10. Sound(docs')
  BY DEF IInv
<1>11. request' = [s \in Requests |-> request'[s]] /\ docs' = [x \in Ids |-> docs'[x]]
  BY DEF IInv
<1> QED
  BY <1>5, <1>6, <1>7, <1>9, <1>10, <1>11 DEF IInv

LEMMA AbortOK ==
    ASSUME IInv, NEW r \in Requests, Abort(r)
    PROVE  IInv'
<1>1. IdleRequest.pc = "idle" /\ Mentions(IdleRequest) = {} /\ RequestOK(docs, IdleRequest)
  BY DEF IdleRequest, Mentions, RequestOK
<1> QED
  BY <1>1, LocalStep DEF Abort

LEMMA StartOK ==
    ASSUME IInv, NEW r \in Requests,
           CreateFeature(r) \/ CreateList(r) \/ UpdateReadiness(r) \/ DeleteFeature(r)
             \/ DeleteList(r) \/ SetMode(r) \/ SetDefault(r)
    PROVE  IInv'
<1>1. SUFFICES ASSUME NEW q, Start(r, q), q.pc # "transaction", RequestOK(docs, q),
                      Mentions(q) \subseteq {x \in Versions : docs[x] # NoDoc}
               PROVE  IInv'
  <2>0. \A n : NextVersion(n) \in Nat
    <3>1. \A n : IsFiniteSet(Saved(docs, Members(n)))
      <4> SUFFICES ASSUME NEW n PROVE IsFiniteSet(Saved(docs, Members(n)))
        OBVIOUS
      <4>1. IsFiniteSet(Features \cup Lists)
        BY FeatureCatalogAssumption, FS_Union
      <4> QED
        BY <4>1, FS_Subset DEF Saved, Members, Versions
    <3> QED
      BY <3>1, FS_CardinalityType DEF NextVersion
  <2>1. CASE CreateFeature(r)
    <3>1. PICK n \in FeatureNamespaces :
              Start(r, [pc |-> "createFeature", on |-> n, version |-> NextVersion(n)])
      BY <2>1 DEF CreateFeature
    <3> DEFINE q == [pc |-> "createFeature", on |-> n, version |-> NextVersion(n)]
    <3>2. RequestOK(docs, q) /\ Mentions(q) = {}
      BY <2>0 DEF RequestOK, Mentions
    <3> QED
      BY <1>1, <3>1, <3>2
  <2>2. CASE CreateList(r)
    <3>1. PICK n \in ListNamespaces, fs \in SUBSET Saved(docs, Features) :
              Start(r, [pc |-> "createList", on |-> n, version |-> NextVersion(n), features |-> fs,
                        readiness |-> CountReadiness(docs, fs)])
      BY <2>2 DEF CreateList
    <3> DEFINE q == [pc |-> "createList", on |-> n, version |-> NextVersion(n), features |-> fs,
                     readiness |-> CountReadiness(docs, fs)]
    <3>2. fs \subseteq Features /\ fs \subseteq {x \in Versions : docs[x] # NoDoc}
      BY Kinds DEF Saved
    <3>3. CountReadiness(docs, fs) \in Distribution
      <4>1. IsFiniteSet(fs)
        BY <3>2, FeatureCatalogAssumption, FS_Subset
      <4>2. \A k \in Readiness : Cardinality({f \in fs : docs[f].readiness = k}) \in Int
        <5> TAKE k \in Readiness
        <5>1. IsFiniteSet({f \in fs : docs[f].readiness = k})
          BY <4>1, FS_Subset
        <5> QED
          BY <5>1, FS_CardinalityType
      <4> QED
        BY <4>2 DEF CountReadiness, Distribution
    <3>4. RequestOK(docs, q) /\ Mentions(q) = fs
      BY <2>0, <3>2, <3>3 DEF RequestOK, Mentions
    <3> QED
      BY <1>1, <3>1, <3>2, <3>4
  <2>3. CASE UpdateReadiness(r)
    <3>1. PICK f \in Saved(docs, Features), to \in Readiness :
              /\ to # docs[f].readiness
              /\ MayMove(f, docs[f].readiness, to)
              /\ Start(r, [pc |-> "updateReadiness", on |-> f, from |-> docs[f].readiness, to |-> to])
      BY <2>3, FeatureCatalogAssumption DEF UpdateReadiness
    <3> DEFINE q == [pc |-> "updateReadiness", on |-> f, from |-> docs[f].readiness, to |-> to]
    <3>2. f \in Features /\ f \in Versions /\ docs[f] # NoDoc
      BY Kinds DEF Saved
    <3>3. docs[f].readiness \in Readiness
      BY <3>2 DEF IInv, Sound, Typed, FeatureModel
    <3>4. RequestOK(docs, q) /\ Mentions(q) = {f}
      BY <3>1, <3>2, <3>3 DEF RequestOK, Mentions, MayMove
    <3> QED
      BY <1>1, <3>1, <3>2, <3>4
  <2>4. CASE DeleteFeature(r)
    <3>1. PICK f \in Features : Start(r, [pc |-> "deleteFeature", on |-> f])
      BY <2>4 DEF DeleteFeature, Saved
    <3> DEFINE q == [pc |-> "deleteFeature", on |-> f]
    <3>2. RequestOK(docs, q) /\ Mentions(q) = {}
      BY DEF RequestOK, Mentions
    <3> QED
      BY <1>1, <3>1, <3>2
  <2>5. CASE DeleteList(r)
    <3>1. PICK l \in Lists : Start(r, [pc |-> "deleteList", on |-> l])
      BY <2>5 DEF DeleteList, Saved
    <3> DEFINE q == [pc |-> "deleteList", on |-> l]
    <3>2. RequestOK(docs, q) /\ Mentions(q) = {}
      BY DEF RequestOK, Mentions
    <3> QED
      BY <1>1, <3>1, <3>2
  <2>6. CASE SetMode(r)
    <3>1. PICK n \in Namespaces :
              Start(r, [pc |-> "setField", on |-> n, field |-> "manual", value |-> ~docs[n].manual])
      BY <2>6 DEF SetMode, Saved
    <3> DEFINE q == [pc |-> "setField", on |-> n, field |-> "manual", value |-> ~docs[n].manual]
    <3>2. RequestOK(docs, q) /\ Mentions(q) = {}
      BY DEF RequestOK, Mentions
    <3> QED
      BY <1>1, <3>1, <3>2
  <2>7. CASE SetDefault(r)
    <3>1. PICK n \in Namespaces : \E x :
              Start(r, [pc |-> "setField", on |-> n, field |-> "default", value |-> x])
      BY <2>7 DEF SetDefault, Saved
    <3>0. PICK x : Start(r, [pc |-> "setField", on |-> n, field |-> "default", value |-> x])
      BY <3>1
    <3> DEFINE q == [pc |-> "setField", on |-> n, field |-> "default", value |-> x]
    <3>2. RequestOK(docs, q) /\ Mentions(q) = {}
      BY DEF RequestOK, Mentions
    <3> QED
      BY <1>1, <3>0, <3>2
  <2> QED
    BY <2>1, <2>2, <2>3, <2>4, <2>5, <2>6, <2>7
<1> QED
  BY <1>1, LocalStep DEF Start

(* What was read of a namespace are the versions that exist then: none     *)
(* that is excluded, being deleted.                                        *)
LEMMA ReadNamespaceOK ==
    ASSUME IInv, NEW r \in Requests, ReadNamespace(r)
    PROVE  IInv'
<1>1. PICK n \in request[r].next :
          IF docs[n] = NoDoc THEN Abort(r)
          ELSE /\ request' = [request EXCEPT ![r] = [pc |-> "choose", on |-> n, seen |-> docs[n],
                                                     excluded |-> request[r].excluded]]
               /\ UNCHANGED <<docs, issued, outdated, unsettled, overlaps>>
  BY DEF ReadNamespace
<1>2. CASE docs[n] = NoDoc
  BY <1>1, <1>2, AbortOK
<1>3. CASE docs[n] # NoDoc
  <2> DEFINE q == [pc |-> "choose", on |-> n, seen |-> docs[n], excluded |-> request[r].excluded]
  <2>1. n \in Namespaces /\ \A x \in request[r].excluded : docs[x] = NoDoc
    BY DEF ReadNamespace, IInv, RequestOK
  <2>2. "ids" \in DOMAIN docs[n] /\ docs[n].ids = Saved(docs, Members(n))
    BY <1>3, <2>1 DEF IInv, Sound, Typed, Listed
  <2>3. docs[n].ids \cap request[r].excluded = {}
    BY <2>1, <2>2 DEF Saved
  <2>4. RequestOK(docs, q) /\ Mentions(q) = {} /\ q.pc # "transaction"
    BY <2>1, <2>2, <2>3 DEF RequestOK, Mentions
  <2> QED
    BY <1>1, <1>3, <2>4, LocalStep
<1> QED
  BY <1>2, <1>3

(* Recomputing a namespace takes away the excluded versions, no other.     *)
LEMMA RecomputedIds ==
    ASSUME NEW d, NEW n, NEW excluded, "ids" \in DOMAIN d[n]
    PROVE  /\ "ids" \in DOMAIN Recomputed(d, n, excluded)
           /\ Recomputed(d, n, excluded).ids = d[n].ids \ excluded
           /\ Recomputed(d, n, excluded) # NoDoc
<1>1. /\ "ids" \in DOMAIN Recomputed(d, n, excluded)
      /\ Recomputed(d, n, excluded).ids = d[n].ids \ excluded
  BY DEF Recomputed
<1> QED
  BY <1>1, NoDocApart

LEMMA ChooseDefaultOK ==
    ASSUME IInv, NEW r \in Requests, ChooseDefault(r)
    PROVE  IInv'
<1> DEFINE p == request[r]
           d == [docs EXCEPT ![p.on] = p.seen]
           q == [pc |-> "write", on |-> p.on, seen |-> p.seen,
                 after |-> Recomputed(d, p.on, p.excluded)]
<1>1. CASE Abort(r)
  BY <1>1, AbortOK
<1>2. CASE request' = [request EXCEPT ![r] = q] /\ UNCHANGED <<docs, issued>>
  <2>1. p.on \in Namespaces /\ "ids" \in DOMAIN p.seen /\ p.seen.ids \cap p.excluded = {}
    BY DEF ChooseDefault, IInv, RequestOK
  <2>2. d[p.on] = p.seen
    BY <2>1, Kinds DEF IInv
  <2>3. Recomputed(d, p.on, p.excluded).ids = p.seen.ids
    <3> HIDE DEF d
    <3>1. "ids" \in DOMAIN d[p.on]
      BY <2>1, <2>2
    <3>2. Recomputed(d, p.on, p.excluded).ids = d[p.on].ids \ p.excluded
      BY <3>1, RecomputedIds
    <3> QED
      BY <2>1, <2>2, <3>2
  <2>4. RequestOK(docs, q) /\ Mentions(q) = {} /\ q.pc # "transaction"
    BY <2>1, <2>3 DEF RequestOK, Mentions
  <2> QED
    BY <1>2, <2>4, LocalStep
<1> QED
  BY <1>1, <1>2 DEF ChooseDefault

-----------------------------------------------------------------------------
(* Steps that write a namespace outside of a transaction *)

(* Marking transactions that overlap as doomed changes nothing else.       *)
LEMMA Doomed ==
    ASSUME IInv, NEW r \in Requests, NEW written, NEW s \in Requests
    PROVE  /\ Doom(r, written)[s].pc = request[s].pc
           /\ Mentions(Doom(r, written)[s]) = Mentions(request[s])
           /\ RequestOK(docs, Doom(r, written)[s])
           /\ InTransaction(s) => Doom(r, written)[s].writes = request[s].writes
           /\ InTransaction(s) => Doom(r, written)[s].excluded = request[s].excluded
           /\ InTransaction(s) /\ ~Doom(r, written)[s].doomed =>
                  /\ ~request[s].doomed
                  /\ s # r => DOMAIN request[s].writes \cap written = {}
<1> DEFINE p == request[s]
           q == Doom(r, written)[s]
<1>1. RequestOK(docs, p)
  BY DEF IInv
<1>2. CASE q = p
  <2>1. InTransaction(s) /\ s # r /\ DOMAIN p.writes \cap written # {} => q.doomed
    <3>1. InTransaction(s) => TransactionForm(p)
      BY <1>1 DEF RequestOK, InTransaction
    <3> QED
      BY <3>1 DEF Doom, TransactionForm
  <2> QED
    BY <1>1, <1>2, <2>1
<1>3. CASE q = [p EXCEPT !.doomed = TRUE] /\ InTransaction(s)
  <2>1. TransactionForm(p) /\ p.pc = "transaction"
    BY <1>1, <1>3 DEF RequestOK, InTransaction
  <2>2. q = [pc |-> "transaction", writes |-> p.writes, doomed |-> TRUE,
             settled |-> p.settled, next |-> p.next, excluded |-> p.excluded]
    BY <1>3, <2>1 DEF TransactionForm
  <2> HIDE DEF q
  <2>3. q.pc = p.pc /\ q.writes = p.writes /\ q.excluded = p.excluded /\ q.doomed /\ TransactionForm(q)
    BY <2>1, <2>2 DEF TransactionForm
  <2>4. Mentions(q) = Mentions(p)
    BY <2>1, <2>3 DEF Mentions
  <2>5. RequestOK(docs, q)
    BY <2>1, <2>3 DEF RequestOK
  <2> QED
    BY <1>3, <2>3, <2>4, <2>5 DEF q
<1> QED
  BY <1>2, <1>3 DEF Doom

(* A namespace is written, its versions are not, and the request goes on.  *)
LEMMA NamespaceWrite ==
    ASSUME IInv, NEW r \in Requests, NEW q, NEW n \in Namespaces, NEW written,
           docs[n] # NoDoc, docs' = [docs EXCEPT ![n] = docs'[n]],
           "ids" \in DOMAIN docs'[n], docs'[n].ids = docs[n].ids,
           issued' = issued, request' = [Doom(r, written) EXCEPT ![r] = q],
           q.pc # "transaction", RequestOK(docs, q), Mentions(q) = {}
    PROVE  IInv'
<1>1. /\ \A x \in Ids : x # n => docs'[x] = docs[x]
      /\ docs'[n] # NoDoc
      /\ docs' = [x \in Ids |-> docs'[x]]
  BY Kinds, NoDocApart DEF IInv
<1>2. \A x \in Versions : x \in Ids /\ x # n
  BY Kinds DEF Ids
<1>3. \A s \in Requests : s # r => request'[s] = Doom(r, written)[s]
  BY DEF Doom
<1>4. request'[r] = q /\ request' = [s \in Requests |-> request'[s]]
  BY DEF Doom
<1>5. \A e : Sound(e) /\ e[n] # NoDoc /\ e[n].ids = docs[n].ids =>
        \A c : (\A x \in Ids : x # n => c[x] = e[x]) /\ c[n] = docs'[n] => Sound(c)
  <2> SUFFICES ASSUME NEW e, Sound(e), e[n] # NoDoc, e[n].ids = docs[n].ids,
                      NEW c, \A x \in Ids : x # n => c[x] = e[x], c[n] = docs'[n]
               PROVE  Sound(c)
    OBVIOUS
  <2>1. \A x \in Versions : c[x] = e[x]
    BY <1>2
  <2>2. Typed(c)
    BY <2>1, Kinds DEF Sound, Typed
  <2>3. Links(c)
    BY <2>1, Kinds DEF Sound, Links
  <2>4. Numbered(c, Features)
    BY <2>1, Kinds DEF Sound, Numbered
  <2>5. Listed(c)
    <3> SUFFICES ASSUME NEW m \in Namespaces
                 PROVE  /\ c[m] # NoDoc <=> \E x \in Members(m) : c[x] # NoDoc
                        /\ c[m] # NoDoc => c[m].ids = Saved(c, Members(m))
      BY DEF Listed
    <3>1. /\ e[m] # NoDoc <=> \E x \in Members(m) : e[x] # NoDoc
          /\ e[m] # NoDoc => e[m].ids = Saved(e, Members(m))
      BY DEF Sound, Listed
    <3>2. \A x \in Members(m) : c[x] = e[x]
      BY <2>1 DEF Members
    <3>3. Saved(c, Members(m)) = Saved(e, Members(m))
      BY <3>2 DEF Saved
    <3>4. m # n => c[m] = e[m]
      BY Kinds
    <3> QED
      BY <1>1, <3>1, <3>2, <3>3, <3>4
  <2> QED
    BY <2>2, <2>3, <2>4, <2>5 DEF Sound
<1>6. Sound(docs')
  BY <1>1, <1>5 DEF IInv
<1>7. \A w : Sound(Overlay(docs, w)) => Sound(Overlay(docs', w))
  <2> SUFFICES ASSUME NEW w, Sound(Overlay(docs, w)) PROVE Sound(Overlay(docs', w))
    OBVIOUS
  <2>1. \A x \in Ids : x # n \/ n \in DOMAIN w => Overlay(docs', w)[x] = Overlay(docs, w)[x]
    BY <1>1, Overlaid
  <2>2. CASE n \in DOMAIN w
    BY <1>1, <2>1, <2>2 DEF Overlay
  <2>3. CASE n \notin DOMAIN w
    <3>1. Overlay(docs, w)[n] = docs[n] /\ Overlay(docs', w)[n] = docs'[n]
      BY <2>3, Kinds, Overlaid
    <3> QED
      BY <1>5, <2>1, <3>1
  <2> QED
    BY <2>2, <2>3
<1>8. \A w : Lawful(docs, w) => Lawful(docs', w)
  BY <1>1, <1>2, Kinds DEF Lawful
<1>9. /\ \A w : Creates(docs', w) = Creates(docs, w)
      /\ Named(docs', Ids) = Named(docs, Ids)
  BY <1>1, <1>2, Kinds DEF Creates, Named
<1>10. \A p : RequestOK(docs, p) => RequestOK(docs', p)
  <2> SUFFICES ASSUME NEW p, RequestOK(docs, p) PROVE RequestOK(docs', p)
    OBVIOUS
  <2>1. p.pc = "recompute" => \A x \in p.excluded : docs'[x] = NoDoc
    BY <1>1, <1>2 DEF RequestOK
  <2>2. \A f \in Features : docs'[f] = docs[f]
    BY <1>1, <1>2, Kinds
  <2> QED
    BY <2>1, <2>2 DEF RequestOK
<1>11. \A s \in Requests : RequestOK(docs', request'[s])
  BY <1>3, <1>4, <1>10, Doomed
<1>12. \A s \in Requests : Open(s)' =>
          s # r /\ Open(s) /\ request'[s].writes = request[s].writes
                /\ request'[s].excluded = request[s].excluded
  BY <1>3, <1>4, Doomed DEF Open, InTransaction
<1>13. \A s \in Requests : Open(s)' => OpenOK(docs', request'[s], issued')
  <2> SUFFICES ASSUME NEW s \in Requests, Open(s)'
               PROVE  OpenOK(docs', request'[s], issued')
    OBVIOUS
  <2>1. OpenOK(docs, request[s], issued)
    BY <1>12 DEF IInv
  <2> QED
    BY <1>7, <1>8, <1>9, <1>12, <2>1 DEF OpenOK
<1>14. \A s \in Requests : Mentions(request'[s]) \subseteq Mentions(request[s])
  BY <1>3, <1>4, Doomed
<1>15. NewIsUnread'
  BY <1>9, <1>12, <1>14 DEF NewIsUnread, IInv
<1>16. IssuedOK'
  BY <1>1, <1>2, <1>9, <1>14 DEF IssuedOK, IInv
<1> QED
  BY <1>1, <1>4, <1>6, <1>11, <1>13, <1>15, <1>16 DEF IInv

LEMMA SetFieldOK ==
    ASSUME IInv, NEW r \in Requests, SetField(r)
    PROVE  IInv'
<1> DEFINE p == request[r]
           n == p.on
           q == [pc |-> "recompute", next |-> {n}, excluded |-> {}]
           written == IF docs[n][p.field] = p.value THEN {} ELSE {n}
<1>1. n \in Namespaces /\ p.field \in {"manual", "default"}
  BY DEF SetField, IInv, RequestOK
<1>2. CASE docs[n] = NoDoc
  BY <1>2, AbortOK DEF SetField
<1>3. CASE docs[n] # NoDoc
  <2>1. /\ docs' = [docs EXCEPT ![n][p.field] = p.value]
        /\ request' = [Doom(r, written) EXCEPT ![r] = q]
        /\ issued' = issued
    BY <1>3 DEF SetField
  <2>2. "ids" \in DOMAIN docs[n]
    BY <1>1, <1>3 DEF IInv, Sound, Typed
  <2>3. docs' = [docs EXCEPT ![n] = [docs[n] EXCEPT ![p.field] = p.value]]
    BY <2>1
  <2>4. docs'[n] = [docs[n] EXCEPT ![p.field] = p.value]
    BY <1>1, <2>3, Kinds DEF IInv
  <2>5. "ids" \in DOMAIN docs'[n] /\ docs'[n].ids = docs[n].ids
    BY <1>1, <2>2, <2>4
  <2>6. q.pc # "transaction" /\ RequestOK(docs, q) /\ Mentions(q) = {}
    BY <1>1 DEF RequestOK, Mentions
  <2> HIDE DEF q, written
  <2>7. docs' = [docs EXCEPT ![n] = docs'[n]]
    BY <2>3, <2>4
  <2> QED
    BY <1>1, <1>3, <2>1, <2>5, <2>6, <2>7, NamespaceWrite
<1> QED
  BY <1>2, <1>3

(* The versions are never among the fields written.                        *)
LEMMA WriteNamespaceOK ==
    ASSUME IInv, NEW r \in Requests, WriteNamespace(r)
    PROVE  IInv'
<1> DEFINE p == request[r]
           n == p.on
           doc == [x \in DOMAIN docs[n] |-> IF x \in FieldsToWrite(p.seen, p.after) THEN p.after[x]
                                            ELSE docs[n][x]]
           new == IF n \in FeatureNamespaces /\ p.after = p.seen THEN docs[n] ELSE doc
           written == IF new = docs[n] THEN {} ELSE {n}
<1>1. n \in Namespaces /\ "ids" \in DOMAIN p.seen /\ p.seen.ids = p.after.ids
  BY DEF WriteNamespace, IInv, RequestOK
<1>2. CASE docs[n] = NoDoc
  BY <1>2, AbortOK DEF WriteNamespace
<1>3. CASE docs[n] # NoDoc
  <2>1. /\ docs' = [docs EXCEPT ![n] = new]
        /\ request' = [Doom(r, written) EXCEPT ![r] = IdleRequest]
        /\ issued' = issued
    BY <1>3 DEF WriteNamespace
  <2>2. "ids" \in DOMAIN docs[n]
    BY <1>1, <1>3 DEF IInv, Sound, Typed
  <2>3. "ids" \notin FieldsToWrite(p.seen, p.after)
    BY <1>1 DEF FieldsToWrite
  <2>4. docs'[n] = new
    BY <1>1, <2>1, Kinds DEF IInv
  <2>5. "ids" \in DOMAIN doc /\ doc.ids = docs[n].ids
    BY <2>2, <2>3
  <2> HIDE DEF doc
  <2>6. "ids" \in DOMAIN docs'[n] /\ docs'[n].ids = docs[n].ids
    BY <2>2, <2>4, <2>5
  <2>7. IdleRequest.pc # "transaction" /\ RequestOK(docs, IdleRequest) /\ Mentions(IdleRequest) = {}
    BY DEF RequestOK, Mentions, IdleRequest
  <2> HIDE DEF new, written
  <2> QED
    BY <1>1, <1>3, <2>1, <2>4, <2>6, <2>7, NamespaceWrite
<1> QED
  BY <1>2, <1>3

-----------------------------------------------------------------------------
(* Transactions begin and end *)

(* A transaction on sound documents that leaves sound documents, and writes*)
(* what a transaction may, begins.                                         *)
LEMMA OpenStep ==
    ASSUME IInv, NEW r \in Requests, NEW after, NEW settled,
           NEW next \in SUBSET Namespaces, NEW excluded \in SUBSET Versions, NEW fresh \in SUBSET Versions,
           fresh \cap issued = {}, docs' = docs, issued' = issued \cup fresh,
           request' = [request EXCEPT ![r] = Transaction(after, settled, next, excluded)],
           Sound(after),
           \A f \in Features : docs[f] # NoDoc /\ after[f] # NoDoc =>
               after[f].version = docs[f].version /\ MayFollow(after[f].readiness, docs[f].readiness),
           \A l \in Lists : docs[l] # NoDoc /\ after[l] # NoDoc => after[l].features = docs[l].features,
           \A x \in excluded : docs[x] # NoDoc /\ after[x] = NoDoc,
           \A x \in Versions : docs[x] = NoDoc /\ after[x] # NoDoc => x \in fresh,
           Named(after, Ids) \subseteq Named(docs, Ids) \cup Mentions(request[r])
    PROVE  IInv'
<1> DEFINE q == Transaction(after, settled, next, excluded)
           w == q.writes
<1>1. /\ q.pc = "transaction" /\ ~q.doomed /\ q.excluded = excluded
      /\ w = [x \in {y \in Ids : after[y] # docs[y]} |-> after[x]]
      /\ TransactionForm(q)
  BY DEF Transaction, TransactionForm
<1>2. /\ DOMAIN w = {y \in Ids : after[y] # docs[y]}
      /\ \A x \in DOMAIN w : w[x] = after[x]
  BY <1>1
<1>3. \A x \in Ids : Overlay(docs, w)[x] = after[x]
  BY <1>2, Overlaid
<1>4. /\ request'[r] = q /\ \A s \in Requests : s # r => request'[s] = request[s]
      /\ request' = [s \in Requests |-> request'[s]]
  BY DEF IInv
<1> HIDE DEF q
<1>5. Sound(Overlay(docs, w))
  <2> DEFINE b == Overlay(docs, w)
  <2>1. \A x \in Ids : b[x] = after[x]
    BY <1>3
  <2>2. \A n \in Namespaces : \A x \in Members(n) : x \in Ids
    BY Kinds DEF Members, Ids
  <2> HIDE DEF b
  <2>3. \A n \in Namespaces : Saved(b, Members(n)) = Saved(after, Members(n))
    BY <2>1, <2>2 DEF Saved
  <2>4. Typed(b) /\ Links(b) /\ Numbered(b, Features)
    BY <2>1, Kinds DEF Sound, Typed, Links, Numbered
  <2>5. Listed(b)
    BY <2>1, <2>2, <2>3, Kinds DEF Sound, Listed
  <2> QED
    BY <2>4, <2>5 DEF Sound, b
<1>6. Lawful(docs, w)
  <2>1. \A x \in Versions \cap DOMAIN w :
            ~(docs[x] # NoDoc <=> w[x] # NoDoc) => NamespaceOf[x] \in DOMAIN w
    <3> SUFFICES ASSUME NEW x \in Versions, ~(docs[x] # NoDoc <=> after[x] # NoDoc)
                 PROVE  NamespaceOf[x] \in DOMAIN w
      BY <1>2
    <3> DEFINE n == NamespaceOf[x]
    <3>1. n \in Namespaces /\ n \in Ids /\ x \in Members(n)
      BY Kinds DEF Members
    <3>2. /\ docs[n] # NoDoc <=> \E y \in Members(n) : docs[y] # NoDoc
          /\ docs[n] # NoDoc => docs[n].ids = Saved(docs, Members(n))
          /\ after[n] # NoDoc <=> \E y \in Members(n) : after[y] # NoDoc
          /\ after[n] # NoDoc => after[n].ids = Saved(after, Members(n))
      BY <3>1 DEF IInv, Sound, Listed
    <3>3. after[n] # docs[n]
      BY <3>1, <3>2 DEF Saved
    <3> QED
      BY <1>2, <3>1, <3>3
  <2> QED
    BY <1>2, <2>1, Kinds DEF Lawful
<1>7. Creates(docs, w) \subseteq fresh
  BY <1>2 DEF Creates
<1>8. Named(w, DOMAIN w) \subseteq Named(after, Ids)
  BY <1>2 DEF Named
<1>9. Mentions(q) = excluded \cup Named(w, DOMAIN w)
  BY <1>1 DEF Mentions
<1>10. OpenOK(docs, q, issued')
  <2>1. \A x \in excluded : x \in Versions \cap DOMAIN w /\ w[x] = NoDoc
    <3>1. \A x \in Versions : x \in Ids
      BY DEF Ids
    <3> QED
      BY <1>2, <3>1
  <2>2. Creates(docs, w) \cap Named(docs, Ids) = {}
    BY <1>7 DEF IInv, IssuedOK
  <2>3. \A x \in Versions \cap DOMAIN w : w[x] # NoDoc => x \in issued'
    BY <1>2 DEF IInv, IssuedOK
  <2> QED
    BY <1>1, <1>5, <1>6, <2>1, <2>2, <2>3 DEF OpenOK
<1>11. \A s \in Requests : RequestOK(docs', request'[s])
  BY <1>1, <1>4 DEF IInv, RequestOK
<1>12. \A s \in Requests : Open(s)' => OpenOK(docs', request'[s], issued')
  <2> SUFFICES ASSUME NEW s \in Requests, Open(s)', s # r
               PROVE  OpenOK(docs, request[s], issued')
    BY <1>4, <1>10
  <2>1. OpenOK(docs, request[s], issued)
    BY <1>4 DEF IInv, Open, InTransaction
  <2> QED
    BY <2>1 DEF OpenOK
<1>13. Mentions(q) \subseteq issued
  BY <1>8, <1>9 DEF IInv, IssuedOK
<1>14. NewIsUnread'
  <2> SUFFICES ASSUME NEW s \in Requests, NEW t \in Requests, Open(s)'
               PROVE  Creates(docs, request'[s].writes) \cap Mentions(request'[t]) = {}
    BY DEF NewIsUnread
  <2>1. CASE s = r
    <3>1. Mentions(request'[t]) \subseteq issued
      BY <1>4, <1>13 DEF IInv, IssuedOK
    <3> QED
      BY <1>4, <1>7, <2>1, <3>1
  <2>2. CASE s # r
    <3> DEFINE c == Creates(docs, request[s].writes)
    <3>1. Open(s) /\ request'[s] = request[s]
      BY <1>4, <2>2 DEF Open, InTransaction
    <3>2. \A u \in Requests : c \cap Mentions(request[u]) = {}
      BY <3>1 DEF IInv, NewIsUnread
    <3>3. c \cap Named(docs, Ids) = {}
      BY <3>1 DEF IInv, OpenOK
    <3>4. c \cap excluded = {}
      BY DEF Creates
    <3>5. c \cap Mentions(q) = {}
      BY <1>8, <1>9, <3>2, <3>3, <3>4
    <3> QED
      BY <1>4, <3>1, <3>2, <3>5
  <2> QED
    BY <2>1, <2>2
<1>15. IssuedOK'
  BY <1>4, <1>13 DEF IInv, IssuedOK
<1> QED
  BY <1>4, <1>11, <1>12, <1>14, <1>15 DEF IInv

(* A transaction ends: those that write none of its documents may still.   *)
LEMMA CommitOK ==
    ASSUME IInv, NEW r \in Requests, Commit(r)
    PROVE  IInv'
<1> DEFINE p == request[r]
           v == p.writes
           q == IF p.next = {} THEN IdleRequest
                ELSE [pc |-> "recompute", next |-> p.next, excluded |-> p.excluded]
<1>1. CASE p.doomed
  BY <1>1, AbortOK DEF Commit
<1>2. CASE ~p.doomed
  <2>1. /\ docs' = Overlay(docs, v)
        /\ request' = [Doom(r, DOMAIN v) EXCEPT ![r] = q]
        /\ issued' = issued
    BY <1>2 DEF Commit, Overlay
  <2>2. Open(r) /\ TransactionForm(p) /\ p.pc = "transaction"
    BY <1>2 DEF Commit, Open, InTransaction, IInv, RequestOK
  <2>3. /\ Sound(Overlay(docs, v)) /\ Lawful(docs, v)
        /\ \A x \in p.excluded : x \in Versions \cap DOMAIN v /\ v[x] = NoDoc
        /\ Creates(docs, v) \cap Named(docs, Ids) = {}
        /\ \A x \in Versions \cap DOMAIN v : v[x] # NoDoc => x \in issued
    BY <2>2 DEF IInv, OpenOK
  <2>4. \A x \in Ids : docs'[x] = IF x \in DOMAIN v THEN v[x] ELSE docs[x]
    BY <2>1, Overlaid
  <2>5. /\ request'[r] = q /\ \A s \in Requests : s # r => request'[s] = Doom(r, DOMAIN v)[s]
        /\ request' = [s \in Requests |-> request'[s]]
    BY <2>1 DEF Doom
  <2>6. Mentions(q) \subseteq Mentions(p) /\ q.pc # "transaction"
    BY <2>2 DEF Mentions, IdleRequest
  <2>7. \A s \in Requests : Mentions(request'[s]) \subseteq Mentions(request[s])
    BY <2>5, <2>6, Doomed
  <2>8. \A s \in Requests : Open(s)' =>
            /\ s # r /\ Open(s) /\ DOMAIN request[s].writes \cap DOMAIN v = {}
            /\ request'[s].writes = request[s].writes /\ request'[s].excluded = request[s].excluded
    BY <2>5, <2>6, Doomed DEF Open, InTransaction
  <2>9. Named(docs', Ids) \subseteq Named(docs, Ids) \cup Mentions(p)
    <3>1. Mentions(p) = p.excluded \cup Named(v, DOMAIN v)
      BY <2>2 DEF Mentions
    <3>2. \A l \in Lists : l \in Ids
      BY Kinds
    <3> QED
      BY <2>4, <3>1, <3>2 DEF Named
  <2>10. \A s \in Requests : Creates(docs, v) \cap Mentions(request[s]) = {}
    BY <2>2 DEF IInv, NewIsUnread
  <2>11. \A s \in Requests : \A x \in Mentions(request[s]) :
             x \in Versions /\ docs[x] = NoDoc => docs'[x] = NoDoc
    <3>1. \A x \in Versions : x \in Ids
      BY DEF Ids
    <3> QED
      BY <2>4, <2>10, <3>1 DEF Creates
  <2>12. \A s \in Requests : RequestOK(docs', request'[s])
    <3>1. RequestOK(docs', q)
      <4>1. \A x \in p.excluded : x \in Versions /\ docs'[x] = NoDoc
        BY <2>3, <2>4 DEF Ids
      <4> QED
        BY <2>2, <4>1 DEF RequestOK, TransactionForm, IdleRequest
    <3>2. ASSUME NEW s \in Requests, s # r
          PROVE  RequestOK(docs', request'[s])
      <4> DEFINE t == request'[s]
      <4>1. RequestOK(docs, t) /\ Mentions(t) \subseteq Mentions(request[s])
        BY <2>5, <3>2, Doomed
      <4> HIDE DEF t
      <4>2. ASSUME t.pc = "updateReadiness", t.to = DEPRECATED, docs'[t.on] # NoDoc
            PROVE  docs'[t.on].readiness # DRAFT
        <5>1. t.on \in Mentions(t) /\ t.on \in Features /\ t.on \in Ids /\ t.on \in Versions
          BY <4>1, <4>2, Kinds DEF RequestOK, Mentions
        <5>2. docs[t.on] # NoDoc
          BY <2>11, <4>1, <4>2, <5>1
        <5>3. docs[t.on].readiness # DRAFT
          BY <4>1, <4>2, <5>2 DEF RequestOK
        <5>4. t.on \in DOMAIN v => MayFollow(v[t.on].readiness, docs[t.on].readiness)
          BY <2>3, <2>4, <4>2, <5>1, <5>2 DEF Lawful
        <5> QED
          BY <2>4, <5>1, <5>3, <5>4 DEF MayFollow
      <4>3. ASSUME t.pc = "recompute"
            PROVE  \A x \in t.excluded : docs'[x] = NoDoc
        BY <2>11, <4>1, <4>3 DEF RequestOK, Mentions
      <4>4. RequestOK(docs', t)
        BY <4>1, <4>2, <4>3 DEF RequestOK
      <4> QED
        BY <4>4 DEF t
    <3> QED
      BY <2>5, <3>1, <3>2
  <2>13. \A s \in Requests : Open(s)' => Creates(docs', request[s].writes) = Creates(docs, request[s].writes)
    <3>1. \A x \in Versions : x \in Ids
      BY DEF Ids
    <3> QED
      BY <2>4, <2>8, <3>1 DEF Creates
  <2>14. \A s \in Requests : Open(s)' => OpenOK(docs', request'[s], issued')
    <3> SUFFICES ASSUME NEW s \in Requests, Open(s)'
                 PROVE  OpenOK(docs', request'[s], issued')
      OBVIOUS
    <3> DEFINE w == request[s].writes
    <3>1. Open(s) /\ DOMAIN v \cap DOMAIN w = {}
      BY <2>8
    <3>2. OpenOK(docs, request[s], issued)
      BY <3>1 DEF IInv
    <3>3. /\ Creates(docs, v) \cap Named(w, DOMAIN w) = {}
          /\ Creates(docs, w) \cap Named(v, DOMAIN v) = {}
          /\ Creates(docs, w) \cap Mentions(p) = {}
      <4>1. Named(w, DOMAIN w) \subseteq Mentions(request[s]) /\ Named(v, DOMAIN v) \subseteq Mentions(p)
        BY <2>2, <3>1 DEF Mentions, Open, InTransaction
      <4>2. Creates(docs, w) \cap Mentions(p) = {}
        BY <3>1 DEF IInv, NewIsUnread
      <4> QED
        BY <2>10, <4>1, <4>2
    <3>4. Sound(Overlay(docs', w)) /\ Lawful(docs', w)
      <4>1. Sound(Overlay(docs, w)) /\ Lawful(docs, w) /\ Creates(docs, w) \cap Named(docs, Ids) = {}
        BY <3>2 DEF OpenOK
      <4>2. Sound(docs)
        BY DEF IInv
      <4> QED
        BY <2>1, <2>3, <3>1, <3>3, <4>1, <4>2, Merged
    <3>5. Creates(docs', w) \cap Named(docs', Ids) = {}
      BY <2>9, <2>13, <3>2, <3>3 DEF OpenOK
    <3> QED
      BY <2>1, <2>8, <3>2, <3>4, <3>5 DEF OpenOK
  <2>15. NewIsUnread'
    BY <2>7, <2>8, <2>13 DEF IInv, NewIsUnread
  <2>16. IssuedOK'
    <3>1. Mentions(p) \subseteq issued
      BY DEF IInv, IssuedOK
    <3>2. \A x \in Versions : x \in Ids
      BY DEF Ids
    <3> QED
      BY <2>1, <2>3, <2>4, <2>7, <2>9, <3>1, <3>2 DEF IInv, IssuedOK
  <2>17. docs' = [x \in Ids |-> docs'[x]]
    BY <2>1 DEF Overlay
  <2> QED
    BY <2>1, <2>3, <2>5, <2>12, <2>14, <2>15, <2>16, <2>17 DEF IInv
<1> QED
  BY <1>1, <1>2

-----------------------------------------------------------------------------
(* What the transactions do to sound documents *)

(* Documents in which the versions of one namespace gain or lose one, and  *)
(* no other namespace changes its versions.                                *)
LEMMA ListedAfter ==
    ASSUME IInv, NEW after, NEW x \in Versions, NEW n, n = NamespaceOf[x],
           \A y \in Versions : y # x => (after[y] # NoDoc <=> docs[y] # NoDoc),
           \A m \in Namespaces \ {n} : after[m] = docs[m],
           after[n] = NoDoc <=> Saved(after, Members(n)) = {},
           after[n] # NoDoc => after[n].ids = Saved(after, Members(n))
    PROVE  Listed(after)
<1> SUFFICES ASSUME NEW m \in Namespaces
             PROVE  /\ after[m] # NoDoc <=> \E y \in Members(m) : after[y] # NoDoc
                    /\ after[m] # NoDoc => after[m].ids = Saved(after, Members(m))
  BY DEF Listed
<1>1. CASE m = n
  BY <1>1 DEF Saved
<1>2. CASE m # n
  <2>1. \A y \in Members(m) : y \in Versions /\ y # x
    BY <1>2 DEF Members
  <2>2. Saved(after, Members(m)) = Saved(docs, Members(m))
    BY <2>1 DEF Saved
  <2>3. /\ docs[m] # NoDoc <=> \E y \in Members(m) : docs[y] # NoDoc
        /\ docs[m] # NoDoc => docs[m].ids = Saved(docs, Members(m))
    BY DEF IInv, Sound, Listed
  <2> QED
    BY <1>2, <2>1, <2>2, <2>3
<1> QED
  BY <1>1, <1>2

(* The namespace that a version joins has the version and those it had.    *)
LEMMA JoinedIds ==
    ASSUME IInv, NEW x \in Versions, NEW n, n = NamespaceOf[x], NEW new,
           "ids" \in DOMAIN new, new.ids = {x}, docs[x] = NoDoc
    PROVE  /\ "ids" \in DOMAIN Joined(n, x, new)
           /\ Joined(n, x, new) # NoDoc
           /\ Joined(n, x, new).ids = Saved(docs, Members(n)) \cup {x}
<1>1. n \in Namespaces
  BY Kinds
<1>2. /\ docs[n] # NoDoc <=> \E y \in Members(n) : docs[y] # NoDoc
      /\ docs[n] # NoDoc => docs[n].ids = Saved(docs, Members(n)) /\ "ids" \in DOMAIN docs[n]
  BY <1>1 DEF IInv, Sound, Listed, Typed
<1>3. CASE docs[n] = NoDoc
  BY <1>2, <1>3, NoDocApart DEF Joined, Saved
<1>4. CASE docs[n] # NoDoc
  <2>1. Joined(n, x, new) = [docs[n] EXCEPT !.ids = docs[n].ids \cup {x}]
    BY <1>4 DEF Joined
  <2> QED
    BY <1>2, <1>4, <2>1, NoDocApart
<1> QED
  BY <1>3, <1>4

LEMMA InsertFeatureOK ==
    ASSUME IInv, NEW r \in Requests, InsertFeature(r)
    PROVE  IInv'
<1> DEFINE q == request[r]
           n == q.on
           new(f) == [ids |-> {f}, default |-> f, manual |-> FALSE, readiness |-> DRAFT]
           model == [readiness |-> DRAFT, lists |-> {}, version |-> q.version]
           inserted(f) == [docs EXCEPT ![f] = model, ![n] = Joined(n, f, new(f))]
<1>1. n \in FeatureNamespaces /\ q.version \in Nat /\ q.pc = "createFeature"
  BY DEF InsertFeature, IInv, RequestOK
<1>2. CASE Taken(n, q.version)
  BY <1>2, AbortOK DEF InsertFeature
<1>3. CASE ~Taken(n, q.version)
  <2>1. PICK f \in Features :
            /\ NextId(f, n)
            /\ issued' = issued \cup {f}
            /\ request' = [request EXCEPT ![r] = Transaction(inserted(f), {}, {n}, {})]
            /\ docs' = docs
    BY <1>3 DEF InsertFeature
  <2> DEFINE after == inserted(f)
  <2>2. NamespaceOf[f] = n /\ f \notin issued /\ f \in Versions /\ n \in Namespaces /\ n # f
    BY <2>1, <1>1, Kinds DEF NextId, Available, Members
  <2>3. docs[f] = NoDoc
    BY <2>2 DEF IInv, IssuedOK
  <2>4. /\ after[f] = model /\ after[n] = Joined(n, f, new(f))
        /\ \A x \in Ids : x # f /\ x # n => after[x] = docs[x]
    BY <2>2, Kinds DEF IInv
  <2>5. /\ "ids" \in DOMAIN after[n] /\ after[n] # NoDoc
        /\ after[n].ids = Saved(docs, Members(n)) \cup {f}
    <3>1. "ids" \in DOMAIN new(f) /\ new(f).ids = {f}
      OBVIOUS
    <3> HIDE DEF new, after, n
    <3>2. /\ "ids" \in DOMAIN Joined(n, f, new(f))
          /\ Joined(n, f, new(f)) # NoDoc
          /\ Joined(n, f, new(f)).ids = Saved(docs, Members(n)) \cup {f}
      BY <2>2, <2>3, <3>1, JoinedIds
    <3> QED
      BY <2>4, <3>2
  <2>6. model \in FeatureModel /\ model.lists = {} /\ model.version = q.version /\ model # NoDoc
    BY <1>1, NoDocApart DEF FeatureModel, Readiness, DRAFT, DEPRECATED, PRODUCTION_READY
  <2> HIDE DEF after, model
  <2>7. /\ \A x \in Versions : x # f => after[x] = docs[x]
        /\ \A m \in Namespaces : m # n => after[m] = docs[m]
    BY <2>2, <2>4, Kinds DEF Ids
  <2>8. Typed(after)
    BY <2>4, <2>5, <2>6, <2>7, Kinds DEF IInv, Sound, Typed
  <2>9. Links(after)
    <3> SUFFICES ASSUME NEW g \in Features, NEW l \in Lists, after[g] # NoDoc
                 PROVE  l \in after[g].lists <=> after[l] # NoDoc /\ g \in after[l].features
      BY DEF Links
    <3>1. after[l] = docs[l]
      BY <2>2, <2>7, Kinds
    <3>2. CASE g = f
      <4>1. f \notin Named(docs, Ids)
        BY <2>2 DEF IInv, IssuedOK
      <4> QED
        BY <2>4, <2>6, <3>1, <3>2, <4>1, Kinds DEF Named
    <3>3. CASE g # f
      BY <2>7, <3>1, <3>3, Kinds DEF IInv, Sound, Links
    <3> QED
      BY <3>2, <3>3
  <2>10. Saved(after, Members(n)) = Saved(docs, Members(n)) \cup {f}
    BY <2>2, <2>4, <2>6, <2>7 DEF Saved, Members
  <2>11. Listed(after)
    <3> HIDE DEF n
    <3>1. /\ \A y \in Versions : y # f => (after[y] # NoDoc <=> docs[y] # NoDoc)
          /\ \A m \in Namespaces \ {n} : after[m] = docs[m]
          /\ after[n] = NoDoc <=> Saved(after, Members(n)) = {}
          /\ after[n] # NoDoc => after[n].ids = Saved(after, Members(n))
      BY <2>5, <2>7, <2>10
    <3> QED
      BY <2>2, <3>1, ListedAfter
  <2>12. Numbered(after, Features)
    <3>1. \A y \in Members(n) : docs[y] # NoDoc => docs[y].version # q.version
      BY <1>3 DEF Taken, Saved
    <3>2. \A y \in Features : NamespaceOf[y] = n => y \in Members(n)
      BY Kinds DEF Members
    <3> QED
      BY <2>2, <2>3, <2>4, <2>6, <2>7, <3>1, <3>2, Kinds DEF IInv, Sound, Numbered
  <2>13. Named(after, Ids) \subseteq Named(docs, Ids)
    BY <2>2, <2>7, Kinds DEF Named
  <2>14. Sound(after)
    BY <2>8, <2>9, <2>11, <2>12 DEF Sound
  <2>15. \A g \in Features : docs[g] # NoDoc /\ after[g] # NoDoc => after[g] = docs[g]
    BY <2>3, <2>7, Kinds
  <2>16. \A l \in Lists : after[l] = docs[l]
    BY <2>2, <2>7, Kinds
  <2>17. \A x \in Versions : docs[x] = NoDoc /\ after[x] # NoDoc => x \in {f}
    BY <2>7
  <2>18. /\ {n} \in SUBSET Namespaces /\ {} \in SUBSET Versions /\ {f} \in SUBSET Versions
         /\ {f} \cap issued = {}
    BY <2>2
  <2>19. request' = [request EXCEPT ![r] = Transaction(after, {}, {n}, {})]
    BY <2>1 DEF after, model
  <2> QED
    BY <2>1, <2>13, <2>14, <2>15, <2>16, <2>17, <2>18, <2>19, OpenStep DEF MayFollow
<1> QED
  BY <1>2, <1>3

LEMMA InsertListOK ==
    ASSUME IInv, NEW r \in Requests, InsertList(r)
    PROVE  IInv'
<1> DEFINE q == request[r]
           n == q.on
           found == Saved(docs, q.features)
           new(l) == [ids |-> {l}, default |-> l, manual |-> FALSE, readiness |-> q.readiness,
                      spaces |-> Spaces(q.features)]
           model == [readiness |-> q.readiness, features |-> q.features, version |-> q.version]
           inserted(l) == [x \in Ids |->
               CASE x = l -> model
                 [] x = n -> Joined(n, l, new(l))
                 [] x \in found -> [docs[x] EXCEPT !.lists = @ \cup {l}]
                 [] OTHER -> docs[x]]
<1>1. /\ n \in ListNamespaces /\ q.version \in Nat /\ q.features \subseteq Features
      /\ q.readiness \in Distribution /\ q.pc = "createList"
  BY DEF InsertList, IInv, RequestOK
<1>2. CASE Abort(r)
  BY <1>2, AbortOK
<1>3. CASE ~Abort(r)
  <2>1. PICK l \in Lists :
            /\ NextId(l, n)
            /\ issued' = issued \cup {l}
            /\ request' = [request EXCEPT ![r] = Transaction(inserted(l), {}, {n}, {})]
            /\ docs' = docs
    BY <1>3 DEF InsertList
  <2> DEFINE after == inserted(l)
  <2>2. NamespaceOf[l] = n /\ l \notin issued /\ l \in Versions /\ n \in Namespaces /\ n # l
    BY <2>1, <1>1, Kinds DEF NextId, Available, Members
  <2>3. docs[l] = NoDoc
    BY <2>2 DEF IInv, IssuedOK
  <2>4. found \subseteq Features /\ \A f \in Features : f \in found <=> f \in q.features /\ docs[f] # NoDoc
    BY <1>1 DEF Saved
  <2> HIDE DEF found
  <2>5. /\ after[l] = model /\ after[n] = Joined(n, l, new(l))
        /\ \A f \in found : after[f] = [docs[f] EXCEPT !.lists = @ \cup {l}]
        /\ \A x \in Ids : x # l /\ x # n /\ x \notin found => after[x] = docs[x]
    BY <2>2, <2>4, Kinds
  <2>6. /\ "ids" \in DOMAIN after[n] /\ after[n] # NoDoc
        /\ after[n].ids = Saved(docs, Members(n)) \cup {l}
    <3>1. "ids" \in DOMAIN new(l) /\ new(l).ids = {l}
      OBVIOUS
    <3> HIDE DEF new, after, n
    <3>2. /\ "ids" \in DOMAIN Joined(n, l, new(l))
          /\ Joined(n, l, new(l)) # NoDoc
          /\ Joined(n, l, new(l)).ids = Saved(docs, Members(n)) \cup {l}
      BY <2>2, <2>3, <3>1, JoinedIds
    <3> QED
      BY <2>5, <3>2
  <2>7. model \in FeatureListModel /\ model.features = q.features /\ model # NoDoc
    BY <1>1, NoDocApart DEF FeatureListModel
  <2> HIDE DEF after, model
  <2>8. \A f \in Features : docs[f] # NoDoc => docs[f] \in FeatureModel
    BY DEF IInv, Sound, Typed
  <2>9. \A f \in found :
            /\ after[f] \in FeatureModel /\ after[f].lists = docs[f].lists \cup {l}
            /\ after[f].version = docs[f].version /\ after[f].readiness = docs[f].readiness
    <3> TAKE f \in found
    <3>1. docs[f] \in FeatureModel
      BY <2>4, <2>8
    <3>2. after[f] = [docs[f] EXCEPT !.lists = docs[f].lists \cup {l}]
      BY <2>5
    <3> QED
      BY <3>1, <3>2 DEF FeatureModel
  <2>10. /\ \A x \in Versions : x # l /\ x \notin found => after[x] = docs[x]
         /\ \A m \in Namespaces : m # n => after[m] = docs[m]
    <3>1. \A x \in Versions : x \in Ids /\ x # n
      BY <2>2, Kinds DEF Ids
    <3>2. \A m \in Namespaces : m \in Ids /\ m # l /\ m \notin found
      BY <2>2, <2>4, Kinds
    <3> QED
      BY <2>5, <3>1, <3>2
  <2>11. \A x \in Versions : x # l => (after[x] # NoDoc <=> docs[x] # NoDoc)
    BY <2>4, <2>9, <2>10, NoDocApart
  <2>12. Typed(after)
    <3>1. ASSUME NEW f \in Features
          PROVE  after[f] \in FeatureModel \cup {NoDoc}
      <4>1. f \in Versions /\ f # l
        BY <2>1, Kinds
      <4> QED
        BY <2>9, <2>10, <4>1 DEF IInv, Sound, Typed
    <3>2. ASSUME NEW k \in Lists
          PROVE  after[k] \in FeatureListModel \cup {NoDoc}
      <4>1. k \in Versions /\ k \notin found
        BY <2>4, Kinds
      <4> QED
        BY <2>5, <2>7, <2>10, <4>1 DEF IInv, Sound, Typed
    <3>3. ASSUME NEW m \in Namespaces, after[m] # NoDoc
          PROVE  "ids" \in DOMAIN after[m]
      BY <2>6, <2>10, <3>3 DEF IInv, Sound, Typed
    <3> QED
      BY <3>1, <3>2, <3>3 DEF Typed
  <2>13. Links(after)
    <3> SUFFICES ASSUME NEW f \in Features, NEW k \in Lists, after[f] # NoDoc
                 PROVE  k \in after[f].lists <=> after[k] # NoDoc /\ f \in after[k].features
      BY DEF Links
    <3>1. f \in Versions /\ f # l /\ k \in Versions /\ k \notin found /\ docs[f] # NoDoc
      BY <2>1, <2>4, <2>11, Kinds
    <3>2. k \in docs[f].lists <=> docs[k] # NoDoc /\ f \in docs[k].features
      BY <3>1 DEF IInv, Sound, Links
    <3>3. CASE k = l
      BY <2>3, <2>4, <2>5, <2>7, <2>9, <2>10, <3>1, <3>2, <3>3
    <3>4. CASE k # l
      BY <2>9, <2>10, <3>1, <3>2, <3>4
    <3> QED
      BY <3>3, <3>4
  <2>14. Saved(after, Members(n)) = Saved(docs, Members(n)) \cup {l}
    BY <2>2, <2>5, <2>7, <2>11 DEF Saved, Members
  <2>15. Listed(after)
    <3> HIDE DEF n
    <3>1. /\ \A m \in Namespaces \ {n} : after[m] = docs[m]
          /\ after[n] = NoDoc <=> Saved(after, Members(n)) = {}
          /\ after[n] # NoDoc => after[n].ids = Saved(after, Members(n))
      BY <2>6, <2>10, <2>14
    <3> QED
      BY <2>2, <2>11, <3>1, ListedAfter
  <2>16. \A f \in Features : docs[f] # NoDoc \/ after[f] # NoDoc =>
             docs[f] # NoDoc /\ after[f].version = docs[f].version /\ after[f].readiness = docs[f].readiness
    BY <2>1, <2>9, <2>10, <2>11, Kinds
  <2>17. Numbered(after, Features)
    BY <2>16 DEF IInv, Sound, Numbered
  <2>18. \A k \in Lists : docs[k] # NoDoc => after[k] = docs[k]
    BY <2>3, <2>4, <2>10, Kinds
  <2>19. Named(after, Ids) \subseteq Named(docs, Ids) \cup Mentions(q)
    <3>1. Mentions(q) = q.features
      BY <1>1 DEF Mentions
    <3>2. \A k \in Lists : k # l => after[k] = docs[k]
      BY <2>4, <2>10, Kinds
    <3> QED
      BY <2>5, <2>7, <3>1, <3>2 DEF Named
  <2>20. Sound(after)
    BY <2>12, <2>13, <2>15, <2>17 DEF Sound
  <2>21. \A x \in Versions : docs[x] = NoDoc /\ after[x] # NoDoc => x \in {l}
    BY <2>11
  <2>22. /\ {n} \in SUBSET Namespaces /\ {} \in SUBSET Versions /\ {l} \in SUBSET Versions
         /\ {l} \cap issued = {}
    BY <2>2
  <2>23. /\ request' = [request EXCEPT ![r] = Transaction(after, {}, {n}, {})]
         /\ docs' = docs /\ issued' = issued \cup {l}
    BY <2>1 DEF after, model, found
  <2>24. \A f \in Features : docs[f] # NoDoc /\ after[f] # NoDoc =>
             after[f].version = docs[f].version /\ MayFollow(after[f].readiness, docs[f].readiness)
    BY <2>16 DEF MayFollow
  <2> HIDE DEF n
  <2> QED
    BY <2>24, <2>18, <2>19, <2>20, <2>21, <2>22, <2>23, OpenStep
<1> QED
  BY <1>2, <1>3

LEMMA MoveFeatureOK ==
    ASSUME IInv, NEW r \in Requests, MoveFeature(r)
    PROVE  IInv'
<1> DEFINE q == request[r]
           f == q.on
           moved == Moved(docs, f, q.from, q.to)
           spaces == Spaces({f} \cup docs[f].lists)
           after == RecomputeAll(moved, spaces)
<1>1. /\ f \in Features /\ q.from \in Readiness /\ q.to \in Readiness \ {DRAFT}
      /\ q.to = DEPRECATED /\ docs[f] # NoDoc => docs[f].readiness # DRAFT
  BY DEF MoveFeature, IInv, RequestOK
<1>2. CASE Abort(r)
  BY <1>2, AbortOK
<1>3. CASE ~Abort(r)
  <2>1. /\ docs[f] # NoDoc /\ \A l \in docs[f].lists : docs[l] # NoDoc
        /\ \A n \in spaces : MayRecompute(moved, n, {})
        /\ request' = [request EXCEPT ![r] = Transaction(after, spaces, {}, {})]
        /\ docs' = docs /\ issued' = issued
    BY <1>3 DEF MoveFeature
  <2>2. docs[f] \in FeatureModel /\ docs[f].lists \subseteq Lists
    BY <1>1, <2>1 DEF IInv, Sound, Typed, FeatureModel
  <2>3. spaces \subseteq Namespaces
    BY <1>1, <2>2, Kinds DEF Spaces
  <2>4. /\ moved[f] = [docs[f] EXCEPT !.readiness = q.to]
        /\ \A l \in docs[f].lists : moved[l] = [docs[l] EXCEPT !.readiness = Shift(@, q.from, q.to)]
        /\ \A x \in Ids : x # f /\ x \notin docs[f].lists => moved[x] = docs[x]
    BY <1>1, <2>2, Kinds DEF Moved
  <2> HIDE DEF moved
  <2>5. \A n \in Namespaces : moved[n] = docs[n]
    BY <1>1, <2>2, <2>4, Kinds
  <2> HIDE DEF spaces
  <2>6. /\ \A x \in Versions : after[x] = moved[x]
        /\ \A n \in Namespaces : after[n] = IF n \in spaces THEN Recomputed(moved, n, {}) ELSE docs[n]
    BY <2>3, <2>5, Kinds DEF RecomputeAll, Ids
  <2> HIDE DEF after
  <2>7. \A n \in Namespaces : /\ docs[n] # NoDoc <=> after[n] # NoDoc
                              /\ docs[n] # NoDoc => "ids" \in DOMAIN after[n] /\ after[n].ids = docs[n].ids
    <3> SUFFICES ASSUME NEW n \in Namespaces
                 PROVE  /\ docs[n] # NoDoc <=> after[n] # NoDoc
                        /\ docs[n] # NoDoc => "ids" \in DOMAIN after[n] /\ after[n].ids = docs[n].ids
      OBVIOUS
    <3>1. docs[n] # NoDoc => "ids" \in DOMAIN docs[n]
      BY DEF IInv, Sound, Typed
    <3>2. CASE n \in spaces
      <4>1. moved[n] # NoDoc /\ "ids" \in DOMAIN moved[n]
        BY <2>1, <2>5, <3>1, <3>2 DEF MayRecompute
      <4>2. /\ "ids" \in DOMAIN Recomputed(moved, n, {})
            /\ Recomputed(moved, n, {}).ids = moved[n].ids \ {}
            /\ Recomputed(moved, n, {}) # NoDoc
        BY <4>1, RecomputedIds
      <4> QED
        BY <2>5, <2>6, <3>2, <4>1, <4>2
    <3>3. CASE n \notin spaces
      BY <2>6, <3>1, <3>3
    <3> QED
      BY <3>2, <3>3
  <2>8. \A g \in Features : docs[g] # NoDoc \/ after[g] # NoDoc =>
            /\ docs[g] # NoDoc /\ after[g] \in FeatureModel
            /\ after[g].version = docs[g].version /\ after[g].lists = docs[g].lists
            /\ MayFollow(after[g].readiness, docs[g].readiness)
    <3> SUFFICES ASSUME NEW g \in Features, docs[g] # NoDoc \/ after[g] # NoDoc
                 PROVE  /\ docs[g] # NoDoc /\ after[g] \in FeatureModel
                        /\ after[g].version = docs[g].version /\ after[g].lists = docs[g].lists
                        /\ MayFollow(after[g].readiness, docs[g].readiness)
      OBVIOUS
    <3>1. CASE g = f
      <4>1. after[g] = [docs[g] EXCEPT !.readiness = q.to]
        BY <2>4, <2>6, <3>1, Kinds
      <4> QED
        BY <1>1, <2>1, <2>2, <3>1, <4>1 DEF FeatureModel, MayFollow
    <3>2. CASE g # f
      <4>1. after[g] = docs[g]
        BY <2>2, <2>4, <2>6, <3>2, Kinds
      <4> QED
        BY <4>1 DEF IInv, Sound, Typed, MayFollow
    <3> QED
      BY <3>1, <3>2
  <2>9. \A l \in Lists : docs[l] # NoDoc \/ after[l] # NoDoc =>
            /\ docs[l] # NoDoc /\ after[l] \in FeatureListModel
            /\ after[l].features = docs[l].features
    <3> SUFFICES ASSUME NEW l \in Lists, docs[l] # NoDoc \/ after[l] # NoDoc
                 PROVE  /\ docs[l] # NoDoc /\ after[l] \in FeatureListModel
                        /\ after[l].features = docs[l].features
      OBVIOUS
    <3>1. CASE l \in docs[f].lists
      <4>1. after[l] = [docs[l] EXCEPT !.readiness = Shift(docs[l].readiness, q.from, q.to)]
        BY <2>4, <2>6, <3>1, Kinds
      <4>2. docs[l] # NoDoc /\ docs[l] \in FeatureListModel
        BY <2>1, <3>1 DEF IInv, Sound, Typed
      <4>3. Shift(docs[l].readiness, q.from, q.to) \in Distribution
        <5>1. docs[l].readiness \in [Readiness -> Int]
          BY <4>2 DEF FeatureListModel, Distribution
        <5> QED
          BY <1>1, <5>1 DEF Shift, Distribution
      <4> QED
        BY <4>1, <4>2, <4>3 DEF FeatureListModel
    <3>2. CASE l \notin docs[f].lists
      <4>1. after[l] = docs[l]
        BY <1>1, <2>4, <2>6, <3>2, Kinds
      <4> QED
        BY <4>1 DEF IInv, Sound, Typed
    <3> QED
      BY <3>1, <3>2
  <2>10. \A x \in Versions : after[x] # NoDoc <=> docs[x] # NoDoc
    BY <2>8, <2>9, Kinds, NoDocApart
  <2>11. Typed(after)
    BY <2>7, <2>8, <2>9 DEF Typed
  <2>12. Links(after)
    BY <2>8, <2>9, <2>10, Kinds DEF IInv, Sound, Links
  <2>13. Numbered(after, Features)
    BY <2>8 DEF IInv, Sound, Numbered
  <2>14. Listed(after)
    <3>1. \A n \in Namespaces : Saved(after, Members(n)) = Saved(docs, Members(n))
      BY <2>10 DEF Saved, Members
    <3>2. \A n \in Namespaces : \A x \in Members(n) : x \in Versions
      BY DEF Members
    <3> QED
      BY <2>7, <2>10, <3>1, <3>2 DEF IInv, Sound, Listed
  <2>15. Sound(after)
    BY <2>11, <2>12, <2>13, <2>14 DEF Sound
  <2>16. Named(after, Ids) \subseteq Named(docs, Ids) \cup Mentions(q)
    BY <2>9 DEF Named
  <2>17. /\ {} \in SUBSET Namespaces /\ {} \in SUBSET Versions
         /\ {} \cap issued = {} /\ issued' = issued \cup {}
    BY <2>1
  <2> QED
    BY <2>1, <2>8, <2>9, <2>10, <2>15, <2>16, <2>17, OpenStep
<1> QED
  BY <1>2, <1>3

(* A namespace that has lost one version is forgotten iff it has no other. *)
LEMMA ForgottenIds ==
    ASSUME IInv, NEW x \in Versions, NEW n, n = NamespaceOf[x], NEW doc,
           "ids" \in DOMAIN doc, doc.ids = Saved(docs, Members(n)) \ {x}
    PROVE  /\ Forgotten(doc, x) = NoDoc <=> Saved(docs, Members(n)) \ {x} = {}
           /\ Forgotten(doc, x) # NoDoc =>
                /\ "ids" \in DOMAIN Forgotten(doc, x)
                /\ Forgotten(doc, x).ids = Saved(docs, Members(n)) \ {x}
<1>1. doc # NoDoc
  BY NoDocApart
<1>2. doc.ids \subseteq {x} <=> Saved(docs, Members(n)) \ {x} = {}
  OBVIOUS
<1> QED
  BY <1>1, <1>2 DEF Forgotten

LEMMA RemoveFeatureOK ==
    ASSUME IInv, NEW r \in Requests, RemoveFeature(r)
    PROVE  IInv'
<1> DEFINE f == request[r].on
           n == NamespaceOf[f]
           removed == [docs EXCEPT ![f] = NoDoc]
           doc == Recomputed(removed, n, {f})
           after == [removed EXCEPT ![n] = Forgotten(doc, f)]
<1>1. f \in Features
  BY DEF RemoveFeature, IInv, RequestOK
<1>2. CASE Abort(r)
  BY <1>2, AbortOK
<1>3. CASE ~Abort(r)
  <2>1. /\ docs[f] # NoDoc /\ MayRecompute(removed, n, {f})
        /\ request' = [request EXCEPT ![r] = Transaction(after, {n}, {}, {})]
        /\ docs' = docs /\ issued' = issued
    BY <1>3 DEF RemoveFeature
  <2>2. f \in Versions /\ n \in Namespaces /\ n # f /\ f \in Ids /\ n \in Ids
    BY <1>1, Kinds, SMTT(30)
  <2>3. removed[n] = docs[n] /\ docs[n] # NoDoc
    BY <2>1, <2>2 DEF IInv, MayRecompute
  <2>4. "ids" \in DOMAIN docs[n] /\ docs[n].ids = Saved(docs, Members(n))
    BY <2>2, <2>3 DEF IInv, Sound, Typed, Listed
  <2>5. "ids" \in DOMAIN doc /\ doc.ids = Saved(docs, Members(n)) \ {f}
    <3> HIDE DEF removed, n
    <3>1. "ids" \in DOMAIN removed[n]
      BY <2>3, <2>4
    <3>2. "ids" \in DOMAIN doc /\ doc.ids = removed[n].ids \ {f}
      BY <3>1, RecomputedIds
    <3> QED
      BY <2>3, <2>4, <3>2
  <2> HIDE DEF doc
  <2>6. /\ after[f] = NoDoc /\ after[n] = Forgotten(doc, f)
        /\ \A x \in Ids : x # f /\ x # n => after[x] = docs[x]
    BY <2>2 DEF IInv
  <2> HIDE DEF after
  <2>7. /\ \A x \in Versions : x # f => after[x] = docs[x]
        /\ \A m \in Namespaces : m # n => after[m] = docs[m]
    BY <2>2, <2>6, Kinds DEF Ids
  <2>8. Saved(after, Members(n)) = Saved(docs, Members(n)) \ {f}
    BY <2>6, <2>7 DEF Saved, Members
  <2>9. /\ after[n] = NoDoc <=> Saved(after, Members(n)) = {}
        /\ after[n] # NoDoc => "ids" \in DOMAIN after[n] /\ after[n].ids = Saved(after, Members(n))
    <3> HIDE DEF n
    <3>1. n = NamespaceOf[f]
      BY DEF n
    <3> QED
      BY <2>2, <2>5, <2>6, <2>8, <3>1, ForgottenIds
  <2>10. Typed(after)
    BY <1>1, <2>6, <2>7, <2>9, Kinds DEF IInv, Sound, Typed
  <2>11. /\ \A g \in Features : after[g] # NoDoc => after[g] = docs[g]
         /\ \A l \in Lists : after[l] = docs[l]
    BY <1>1, <2>6, <2>7, Kinds
  <2>12. Links(after)
    BY <2>11 DEF IInv, Sound, Links
  <2>13. Numbered(after, Features)
    BY <2>11 DEF IInv, Sound, Numbered
  <2>14. Listed(after)
    <3> HIDE DEF n
    <3>1. /\ \A y \in Versions : y # f => (after[y] # NoDoc <=> docs[y] # NoDoc)
          /\ \A m \in Namespaces \ {n} : after[m] = docs[m]
          /\ n = NamespaceOf[f]
      BY <2>7 DEF n
    <3> QED
      BY <2>2, <2>9, <3>1, ListedAfter
  <2>15. Sound(after)
    BY <2>10, <2>12, <2>13, <2>14 DEF Sound
  <2>16. Named(after, Ids) \subseteq Named(docs, Ids)
    BY <2>11 DEF Named
  <2>17. \A x \in Versions : docs[x] = NoDoc => after[x] = NoDoc
    BY <2>6, <2>7
  <2>18. /\ {} \in SUBSET Namespaces /\ {} \in SUBSET Versions
         /\ {} \cap issued = {} /\ issued' = issued \cup {}
    BY <2>1
  <2>19. \A g \in Features : docs[g] # NoDoc /\ after[g] # NoDoc =>
             after[g].version = docs[g].version /\ MayFollow(after[g].readiness, docs[g].readiness)
    BY <2>11 DEF MayFollow
  <2> HIDE DEF n
  <2> QED
    BY <2>1, <2>11, <2>15, <2>16, <2>17, <2>18, <2>19, OpenStep
<1> QED
  BY <1>2, <1>3

LEMMA RemoveListOK ==
    ASSUME IInv, NEW r \in Requests, RemoveList(r)
    PROVE  IInv'
<1> DEFINE l == request[r].on
           n == NamespaceOf[l]
           kept == [docs[n] EXCEPT !.ids = @ \ {l}]
           pulled == Saved(docs, docs[l].features)
           after == [x \in Ids |->
               CASE x = l -> NoDoc
                 [] x = n -> Forgotten(kept, l)
                 [] x \in pulled -> Pulled(docs[x], l)
                 [] OTHER -> docs[x]]
<1>1. l \in Lists
  BY DEF RemoveList, IInv, RequestOK
<1>2. CASE Abort(r)
  BY <1>2, AbortOK
<1>3. CASE ~Abort(r)
  <2>1. /\ docs[l] # NoDoc /\ docs[n] # NoDoc
        /\ request' = [request EXCEPT ![r] = Transaction(after, {}, {n}, {l})]
        /\ docs' = docs /\ issued' = issued
    BY <1>3 DEF RemoveList
  <2>2. l \in Versions /\ n \in Namespaces /\ n # l /\ l \in Ids /\ n \in Ids
    BY <1>1, Kinds
  <2>3. docs[l] \in FeatureListModel /\ docs[l].features \subseteq Features
    BY <1>1, <2>1 DEF IInv, Sound, Typed, FeatureListModel
  <2>4. pulled \subseteq Features /\ \A f \in Features : f \in pulled <=> f \in docs[l].features /\ docs[f] # NoDoc
    BY <2>3 DEF Saved
  <2> HIDE DEF pulled
  <2>5. "ids" \in DOMAIN docs[n] /\ docs[n].ids = Saved(docs, Members(n))
    BY <2>1, <2>2 DEF IInv, Sound, Typed, Listed
  <2>6. "ids" \in DOMAIN kept /\ kept.ids = Saved(docs, Members(n)) \ {l}
    BY <2>5
  <2> HIDE DEF kept
  <2>7. /\ after[l] = NoDoc /\ after[n] = Forgotten(kept, l)
        /\ \A f \in pulled : after[f] = [docs[f] EXCEPT !.lists = @ \ {l}]
        /\ \A x \in Ids : x # l /\ x # n /\ x \notin pulled => after[x] = docs[x]
    BY <1>1, <2>2, <2>4, Kinds DEF Pulled
  <2> HIDE DEF after
  <2>8. \A f \in pulled :
            /\ docs[f] # NoDoc /\ after[f] \in FeatureModel /\ after[f].lists = docs[f].lists \ {l}
            /\ after[f].version = docs[f].version /\ after[f].readiness = docs[f].readiness
    <3> TAKE f \in pulled
    <3>1. docs[f] \in FeatureModel /\ docs[f] # NoDoc
      BY <2>4 DEF IInv, Sound, Typed
    <3>2. after[f] = [docs[f] EXCEPT !.lists = docs[f].lists \ {l}]
      BY <2>7
    <3> QED
      BY <3>1, <3>2 DEF FeatureModel
  <2>9. /\ \A x \in Versions : x # l /\ x \notin pulled => after[x] = docs[x]
        /\ \A m \in Namespaces : m # n => after[m] = docs[m]
    <3>1. \A x \in Versions : x \in Ids /\ x # n
      BY <2>2, Kinds DEF Ids
    <3>2. \A m \in Namespaces : m \in Ids /\ m # l /\ m \notin pulled
      BY <2>2, <2>4, Kinds
    <3> QED
      BY <2>7, <3>1, <3>2
  <2>10. \A x \in Versions : x # l => (after[x] # NoDoc <=> docs[x] # NoDoc)
    BY <2>4, <2>8, <2>9, NoDocApart
  <2>11. Saved(after, Members(n)) = Saved(docs, Members(n)) \ {l}
    BY <2>7, <2>10 DEF Saved, Members
  <2>12. /\ after[n] = NoDoc <=> Saved(after, Members(n)) = {}
         /\ after[n] # NoDoc => "ids" \in DOMAIN after[n] /\ after[n].ids = Saved(after, Members(n))
    <3> HIDE DEF n
    <3>1. n = NamespaceOf[l]
      BY DEF n
    <3> QED
      BY <2>2, <2>6, <2>7, <2>11, <3>1, ForgottenIds
  <2>13. \A k \in Lists : k # l => after[k] = docs[k]
    BY <2>4, <2>9, Kinds
  <2>14. Typed(after)
    <3>1. ASSUME NEW f \in Features
          PROVE  after[f] \in FeatureModel \cup {NoDoc}
      <4>1. f \in Versions /\ f # l
        BY <1>1, Kinds
      <4> QED
        BY <2>8, <2>9, <4>1 DEF IInv, Sound, Typed
    <3>2. ASSUME NEW m \in Namespaces, after[m] # NoDoc
          PROVE  "ids" \in DOMAIN after[m]
      BY <2>9, <2>12, <3>2 DEF IInv, Sound, Typed
    <3> QED
      BY <2>7, <2>13, <3>1, <3>2 DEF IInv, Sound, Typed
  <2>15. Links(after)
    <3> SUFFICES ASSUME NEW f \in Features, NEW k \in Lists, after[f] # NoDoc
                 PROVE  k \in after[f].lists <=> after[k] # NoDoc /\ f \in after[k].features
      BY DEF Links
    <3>1. f \in Versions /\ f # l /\ docs[f] # NoDoc
      BY <1>1, <2>10, Kinds
    <3>2. /\ k \in docs[f].lists <=> docs[k] # NoDoc /\ f \in docs[k].features
          /\ l \in docs[f].lists <=> docs[l] # NoDoc /\ f \in docs[l].features
      BY <1>1, <3>1 DEF IInv, Sound, Links
    <3>3. after[f].lists = docs[f].lists \ {l}
      BY <2>4, <2>8, <2>9, <3>1, <3>2
    <3> QED
      BY <2>7, <2>13, <3>2, <3>3
  <2>16. Listed(after)
    <3> HIDE DEF n
    <3>1. /\ \A m \in Namespaces \ {n} : after[m] = docs[m]
          /\ n = NamespaceOf[l]
      BY <2>9 DEF n
    <3> QED
      BY <2>2, <2>10, <2>12, <3>1, ListedAfter
  <2>17. \A f \in Features : after[f] # NoDoc =>
             docs[f] # NoDoc /\ after[f].version = docs[f].version /\ after[f].readiness = docs[f].readiness
    BY <1>1, <2>8, <2>9, <2>10, Kinds
  <2>18. Numbered(after, Features)
    BY <2>17 DEF IInv, Sound, Numbered
  <2>19. Sound(after)
    BY <2>14, <2>15, <2>16, <2>18 DEF Sound
  <2>20. Named(after, Ids) \subseteq Named(docs, Ids)
    BY <2>7, <2>13 DEF Named
  <2>21. \A x \in Versions : docs[x] = NoDoc => after[x] = NoDoc
    BY <2>7, <2>10
  <2>22. /\ {n} \in SUBSET Namespaces /\ {l} \in SUBSET Versions /\ {} \in SUBSET Versions
         /\ {} \cap issued = {} /\ issued' = issued \cup {}
    BY <2>1, <2>2
  <2>23. \A f \in Features : docs[f] # NoDoc /\ after[f] # NoDoc =>
             after[f].version = docs[f].version /\ MayFollow(after[f].readiness, docs[f].readiness)
    BY <2>17 DEF MayFollow
  <2>24. \A x \in {l} : docs[x] # NoDoc /\ after[x] = NoDoc
    BY <2>1, <2>7
  <2>25. \A k \in Lists : docs[k] # NoDoc /\ after[k] # NoDoc => after[k].features = docs[k].features
    BY <2>7, <2>13
  <2> DEFINE next == {n}
             excluded == {l}
             fresh == {}
  <2>26. /\ next \in SUBSET Namespaces /\ excluded \in SUBSET Versions /\ fresh \in SUBSET Versions
         /\ fresh \cap issued = {} /\ issued' = issued \cup fresh /\ docs' = docs
         /\ request' = [request EXCEPT ![r] = Transaction(after, {}, next, excluded)]
    BY <2>1, <2>22
  <2>27. \A x \in excluded : docs[x] # NoDoc /\ after[x] = NoDoc
    BY <2>24
  <2>28. \A x \in Versions : docs[x] = NoDoc /\ after[x] # NoDoc => x \in fresh
    BY <2>21
  <2> HIDE DEF n, l, next, excluded, fresh
  <2> QED
    BY <2>19, <2>20, <2>23, <2>25, <2>26, <2>27, <2>28, OpenStep
<1> QED
  BY <1>2, <1>3

-----------------------------------------------------------------------------
(* The theorems *)

LEMMA NextOK == IInv /\ [Next]_vars => IInv'
<1> SUFFICES ASSUME IInv, [Next]_vars PROVE IInv'
  OBVIOUS
<1>1. CASE UNCHANGED vars
  <2>1. docs' = docs /\ request' = request /\ issued' = issued
    BY <1>1 DEF vars
  <2> QED
    BY <2>1 DEF IInv, NewIsUnread, IssuedOK, Open, InTransaction
<1>2. ASSUME NEW r \in Requests, Fail(r)
      PROVE  IInv'
  BY <1>2, AbortOK DEF Fail
<1> QED
  BY <1>1, <1>2, StartOK, InsertFeatureOK, InsertListOK, MoveFeatureOK, RemoveFeatureOK,
     RemoveListOK, SetFieldOK, CommitOK, ReadNamespaceOK, ChooseDefaultOK, WriteNamespaceOK DEF Next

(* Documents and transactions stay sound, however requests interleave.     *)
THEOREM CatalogSound == Spec => []IInv
<1>1. Init => IInv
  BY InitOK
<1>2. IInv /\ [Next]_vars => IInv'
  BY NextOK
<1> QED
  BY <1>1, <1>2, PTL DEF Spec

(* A feature names exactly the existing lists that name it, however the    *)
(* transactions of FeatureListService and FeatureService interleave.       *)
THEOREM LinksAlwaysAgree == Spec => []LinksAgree
<1>1. IInv => LinksAgree
  BY DEF IInv, Sound, Links, LinksAgree, Saved
<1> QED
  BY <1>1, CatalogSound, PTL

(* A version exists iff its namespace names it, and a namespace exists iff *)
(* it has a version: recomputing a namespace outside of a transaction never*)
(* brings back or drops a version.                                         *)
THEOREM MembersAlwaysListed == Spec => []MembersListed
<1>1. IInv => MembersListed
  BY DEF IInv, Sound, Listed, MembersListed, Saved
<1> QED
  BY <1>1, CatalogSound, PTL

-----------------------------------------------------------------------------
(* Readiness *)

Starts(r) == \/ CreateFeature(r) \/ CreateList(r) \/ UpdateReadiness(r) \/ DeleteFeature(r)
             \/ DeleteList(r) \/ SetMode(r) \/ SetDefault(r)
Opens(r) == InsertFeature(r) \/ InsertList(r) \/ MoveFeature(r) \/ RemoveFeature(r) \/ RemoveList(r)
Recomputes(r) == ReadNamespace(r) \/ ChooseDefault(r) \/ WriteNamespace(r) \/ SetField(r)

(* Versions are written by transactions only.                              *)
LEMMA VersionsWritten ==
    ASSUME IInv, NEW r \in Requests, Starts(r) \/ Opens(r) \/ Recomputes(r) \/ Commit(r) \/ Fail(r)
    PROVE  \/ \A x \in Versions : docs'[x] = docs[x]
           \/ Commit(r) /\ Open(r) /\ docs' = Overlay(docs, request[r].writes)
<1>1. CASE Starts(r)
  BY <1>1 DEF Starts, CreateFeature, CreateList, UpdateReadiness, DeleteFeature, DeleteList, SetMode,
     SetDefault, Start
<1>2. CASE Opens(r)
  <2>1. InsertFeature(r) => docs' = docs
    BY DEF InsertFeature, Abort
  <2>2. InsertList(r) => docs' = docs
    BY DEF InsertList, Abort
  <2>3. MoveFeature(r) => docs' = docs
    BY DEF MoveFeature, Abort
  <2>4. RemoveFeature(r) => docs' = docs
    BY DEF RemoveFeature, Abort
  <2>5. RemoveList(r) => docs' = docs
    BY DEF RemoveList, Abort
  <2> QED
    BY <1>2, <2>1, <2>2, <2>3, <2>4, <2>5 DEF Opens
<1>3. CASE Recomputes(r)
  <2>1. \A x \in Versions : x \in Ids /\ x \notin Namespaces
    BY Kinds DEF Ids
  <2>2. CASE ReadNamespace(r) \/ ChooseDefault(r)
    BY <2>2 DEF ReadNamespace, ChooseDefault, Abort
  <2>3. CASE WriteNamespace(r)
    <3>1. request[r].on \in Namespaces
      BY <2>3 DEF WriteNamespace, IInv, RequestOK
    <3> QED
      BY <2>1, <2>3, <3>1 DEF WriteNamespace, Abort, IInv
  <2>4. CASE SetField(r)
    <3>1. request[r].on \in Namespaces
      BY <2>4 DEF SetField, IInv, RequestOK
    <3> QED
      BY <2>1, <2>4, <3>1 DEF SetField, Abort, IInv
  <2> QED
    BY <1>3, <2>2, <2>3, <2>4 DEF Recomputes
<1>4. CASE Commit(r)
  BY <1>4 DEF Commit, Abort, Open, Overlay
<1>5. CASE Fail(r)
  BY <1>5 DEF Fail, Abort
<1> QED
  BY <1>1, <1>2, <1>3, <1>4, <1>5

LEMMA Steps ==
    Next <=> \E r \in Requests : Starts(r) \/ Opens(r) \/ Recomputes(r) \/ Commit(r) \/ Fail(r)
BY DEF Next, Starts, Opens, Recomputes

(* A version never becomes a draft again, nor deprecated straight from a   *)
(* draft, although _validate_readiness_transition looks at the readiness   *)
(* before the transaction that changes it.                                 *)
THEOREM ReadinessAlwaysMoves == Spec => ReadinessMoves
<1>1. IInv /\ [Next]_vars =>
        [\A f \in Features :
            docs[f] # NoDoc /\ docs'[f] # NoDoc /\ docs'[f].readiness # docs[f].readiness =>
                /\ docs'[f].readiness # DRAFT
                /\ docs'[f].readiness = DEPRECATED => docs[f].readiness # DRAFT]_vars
  <2> SUFFICES ASSUME IInv, Next, NEW f \in Features,
                      docs[f] # NoDoc, docs'[f] # NoDoc, docs'[f].readiness # docs[f].readiness
               PROVE  /\ docs'[f].readiness # DRAFT
                      /\ docs'[f].readiness = DEPRECATED => docs[f].readiness # DRAFT
    OBVIOUS
  <2>1. PICK r \in Requests : Starts(r) \/ Opens(r) \/ Recomputes(r) \/ Commit(r) \/ Fail(r)
    BY Steps
  <2>2. f \in Ids /\ f \in Versions
    BY Kinds
  <2>3. Open(r) /\ docs' = Overlay(docs, request[r].writes)
    BY <2>1, <2>2, VersionsWritten
  <2>4. Lawful(docs, request[r].writes)
    BY <2>3 DEF IInv, OpenOK
  <2>5. docs'[f] = IF f \in DOMAIN request[r].writes THEN request[r].writes[f] ELSE docs[f]
    BY <2>2, <2>3, Overlaid
  <2>6. MayFollow(docs'[f].readiness, docs[f].readiness)
    BY <2>4, <2>5 DEF Lawful
  <2> QED
    BY <2>6 DEF MayFollow
<1> QED
  BY <1>1, CatalogSound, PTL DEF Spec, ReadinessMoves

-----------------------------------------------------------------------------
(* Versions of one namespace *)

(* The versions of lists are distinct as long as requests do not overlap:  *)
(* a list is looked for before the transaction that creates it.            *)
Unused(d, n, version) == \A x \in Saved(d, Members(n)) : d[x].version # version

SerialOK ==
    /\ overlaps \in Nat
    /\ overlaps = 0 =>
         /\ \A r, s \in Requests : r # s => Idle(r) \/ Idle(s)
         /\ Numbered(docs, Lists)
         /\ \A r \in Requests : Open(r) => Numbered(Overlay(docs, request[r].writes), Lists)
         /\ \A r \in Requests : request[r].pc = "createList" => Unused(docs, request[r].on, request[r].version)

Renumbered(d, after) ==
    \A l \in Lists : after[l] # NoDoc => d[l] # NoDoc /\ after[l].version = d[l].version

LEMMA TransactionOverlay ==
    ASSUME IInv, NEW r \in Requests, NEW after, NEW settled, NEW next, NEW excluded,
           request' = [request EXCEPT ![r] = Transaction(after, settled, next, excluded)]
    PROVE  \A x \in Ids : Overlay(docs, request'[r].writes)[x] = after[x]
<1>1. request'[r].writes = [x \in {y \in Ids : after[y] # docs[y]} |-> after[x]]
  BY DEF IInv, Transaction
<1> QED
  BY <1>1, Overlaid

LEMMA RenumberedOverlay ==
    ASSUME IInv, NEW r \in Requests, NEW after, NEW settled, NEW next, NEW excluded,
           request' = [request EXCEPT ![r] = Transaction(after, settled, next, excluded)],
           Renumbered(docs, after)
    PROVE  Renumbered(docs, Overlay(docs, request'[r].writes))
<1>1. \A x \in Ids : Overlay(docs, request'[r].writes)[x] = after[x]
  BY TransactionOverlay
<1> QED
  BY <1>1, Kinds DEF Renumbered

LEMMA ListsKept ==
    ASSUME IInv, NEW r \in Requests, Open(r)',
           InsertFeature(r) \/ MoveFeature(r) \/ RemoveFeature(r) \/ RemoveList(r)
    PROVE  Renumbered(docs, Overlay(docs, request'[r].writes))
<1>0. ~Abort(r)
  BY DEF Abort, Open, InTransaction, IInv, IdleRequest
<1>1. CASE InsertFeature(r)
  <2> DEFINE q == request[r]
  <2>1. q.on \in FeatureNamespaces
    BY <1>1 DEF InsertFeature, IInv, RequestOK
  <2>a. PICK f \in Features : \E new :
            request' = [request EXCEPT ![r] = Transaction(
               [docs EXCEPT ![f] = [readiness |-> DRAFT, lists |-> {}, version |-> q.version],
                            ![q.on] = Joined(q.on, f, new)], {}, {q.on}, {})]
    BY <1>0, <1>1 DEF InsertFeature
  <2>2. PICK new :
            request' = [request EXCEPT ![r] = Transaction(
               [docs EXCEPT ![f] = [readiness |-> DRAFT, lists |-> {}, version |-> q.version],
                            ![q.on] = Joined(q.on, f, new)], {}, {q.on}, {})]
    BY <2>a
  <2> DEFINE after == [docs EXCEPT ![f] = [readiness |-> DRAFT, lists |-> {}, version |-> q.version],
                                   ![q.on] = Joined(q.on, f, new)]
  <2>3. \A l \in Lists : after[l] = docs[l]
    BY <2>1, Kinds DEF IInv
  <2> HIDE DEF after
  <2>4. request' = [request EXCEPT ![r] = Transaction(after, {}, {q.on}, {})]
    BY <2>2 DEF after
  <2>5. Renumbered(docs, after)
    BY <2>3 DEF Renumbered
  <2> QED
    BY <2>4, <2>5, RenumberedOverlay
<1>2. CASE MoveFeature(r)
  <2> DEFINE q == request[r]
             moved == Moved(docs, q.on, q.from, q.to)
             spaces == Spaces({q.on} \cup docs[q.on].lists)
             after == RecomputeAll(moved, spaces)
  <2>1. /\ request' = [request EXCEPT ![r] = Transaction(after, spaces, {}, {})]
        /\ \A l \in docs[q.on].lists : docs[l] # NoDoc
        /\ docs[q.on] # NoDoc
    BY <1>0, <1>2, SMTT(30) DEF MoveFeature
  <2>2. q.on \in Features
    BY <1>2 DEF MoveFeature, IInv, RequestOK
  <2>3. docs[q.on].lists \subseteq Lists
    BY <2>1, <2>2 DEF IInv, Sound, Typed, FeatureModel
  <2>4. \A l \in Lists : after[l] = moved[l]
    BY <2>2, <2>3, Kinds DEF RecomputeAll, Spaces
  <2>5. \A l \in Lists : moved[l] = IF l \in docs[q.on].lists
                                    THEN [docs[l] EXCEPT !.readiness = Shift(@, q.from, q.to)]
                                    ELSE docs[l]
    BY <2>2, Kinds DEF Moved
  <2> HIDE DEF after, moved, spaces
  <2>6. \A l \in Lists : docs[l] # NoDoc => docs[l] \in FeatureListModel
    BY DEF IInv, Sound, Typed
  <2>7. ASSUME NEW l \in Lists, after[l] # NoDoc
        PROVE  docs[l] # NoDoc /\ after[l].version = docs[l].version
    <3>1. CASE l \in docs[q.on].lists
      <4>1. after[l] = [docs[l] EXCEPT !.readiness = Shift(docs[l].readiness, q.from, q.to)]
        BY <2>4, <2>5, <3>1
      <4> QED
        BY <2>1, <2>6, <3>1, <4>1 DEF FeatureListModel
    <3>2. CASE l \notin docs[q.on].lists
      BY <2>4, <2>5, <2>7, <3>2
    <3> QED
      BY <3>1, <3>2
  <2>8. Renumbered(docs, after)
    BY <2>7 DEF Renumbered
  <2> QED
    BY <2>1, <2>8, RenumberedOverlay
<1>3. CASE RemoveFeature(r)
  <2> DEFINE f == request[r].on
             n == NamespaceOf[f]
             removed == [docs EXCEPT ![f] = NoDoc]
             after == [removed EXCEPT ![n] = Forgotten(Recomputed(removed, n, {f}), f)]
  <2>1. request' = [request EXCEPT ![r] = Transaction(after, {n}, {}, {})]
    BY <1>0, <1>3 DEF RemoveFeature
  <2>2. f \in Features
    BY <1>3 DEF RemoveFeature, IInv, RequestOK
  <2>3. \A l \in Lists : after[l] = docs[l]
    BY <2>2, Kinds DEF IInv
  <2> HIDE DEF after, n
  <2>4. Renumbered(docs, after)
    BY <2>3, SMTT(30) DEF Renumbered
  <2> QED
    BY <2>1, <2>4, RenumberedOverlay
<1>4. CASE RemoveList(r)
  <2> DEFINE k == request[r].on
             n == NamespaceOf[k]
             kept == [docs[n] EXCEPT !.ids = @ \ {k}]
             pulled == Saved(docs, docs[k].features)
             after == [x \in Ids |->
                 CASE x = k -> NoDoc
                   [] x = n -> Forgotten(kept, k)
                   [] x \in pulled -> Pulled(docs[x], k)
                   [] OTHER -> docs[x]]
  <2>1. request' = [request EXCEPT ![r] = Transaction(after, {}, {n}, {k})] /\ docs[k] # NoDoc
    BY <1>0, <1>4 DEF RemoveList
  <2>2. k \in Lists /\ k \in Ids /\ n \notin Lists
    BY <1>4, Kinds DEF RemoveList, IInv, RequestOK
  <2>3. docs[k].features \subseteq Features
    BY <2>1, <2>2 DEF IInv, Sound, Typed, FeatureListModel
  <2>4. pulled \subseteq Features
    BY <2>3 DEF Saved
  <2> HIDE DEF k, n, kept, pulled
  <2>5. after[k] = NoDoc
    BY <2>2, <2>4, Kinds
  <2>6. \A l \in Lists : l # k => after[l] = docs[l]
    BY <2>2, <2>4, Kinds
  <2> HIDE DEF after
  <2>7. Renumbered(docs, after)
    BY <2>5, <2>6 DEF Renumbered
  <2> QED
    BY <2>1, <2>7, RenumberedOverlay, ZenonT(30)
<1> QED
  BY <1>1, <1>2, <1>3, <1>4

LEMMA ListInserted ==
    ASSUME IInv, NEW r \in Requests, InsertList(r), Open(r)', Numbered(docs, Lists),
           ~Taken(request[r].on, request[r].version)
    PROVE  Numbered(Overlay(docs, request'[r].writes), Lists)
<1> DEFINE q == request[r]
           n == q.on
           found == Saved(docs, q.features)
           new(l) == [ids |-> {l}, default |-> l, manual |-> FALSE, readiness |-> q.readiness,
                      spaces |-> Spaces(q.features)]
           model == [readiness |-> q.readiness, features |-> q.features, version |-> q.version]
           inserted(l) == [x \in Ids |->
               CASE x = l -> model
                 [] x = n -> Joined(n, l, new(l))
                 [] x \in found -> [docs[x] EXCEPT !.lists = @ \cup {l}]
                 [] OTHER -> docs[x]]
<1>1. n \in ListNamespaces /\ q.features \subseteq Features
  BY DEF InsertList, IInv, RequestOK
<1>2. ~Abort(r)
  BY DEF Abort, Open, InTransaction, IInv, IdleRequest
<1>3. PICK l \in Lists :
          NextId(l, n) /\ request' = [request EXCEPT ![r] = Transaction(inserted(l), {}, {n}, {})]
  BY <1>2 DEF InsertList
<1> DEFINE after == inserted(l)
<1>4. NamespaceOf[l] = n
  BY <1>3 DEF NextId, Available, Members
<1>5. after[l].version = q.version /\ \A k \in Lists : k # l => after[k] = docs[k]
  BY <1>1, Kinds DEF Saved
<1>6. \A x \in Ids : Overlay(docs, request'[r].writes)[x] = after[x]
  <2> HIDE DEF after
  <2>1. request' = [request EXCEPT ![r] = Transaction(after, {}, {n}, {})]
    BY <1>3 DEF after
  <2> QED
    BY <2>1, TransactionOverlay
<1> HIDE DEF after
<1>7. \A k \in Lists : k \in Ids /\ (NamespaceOf[k] = n => k \in Members(n))
  BY Kinds DEF Members
<1>8. \A k \in Lists : NamespaceOf[k] = n /\ docs[k] # NoDoc => docs[k].version # q.version
  BY <1>7 DEF Taken, Saved
<1> QED
  BY <1>4, <1>5, <1>6, <1>7, <1>8 DEF Numbered

LEMMA SerialStarts ==
    ASSUME IInv, SerialOK, NEW r \in Requests, Starts(r)
    PROVE  SerialOK'
<1>1. PICK q : /\ Start(r, q) /\ q.pc # "transaction"
               /\ q.pc = "createList" => Unused(docs, q.on, q.version)
  <2>1. CASE CreateFeature(r)
    BY <2>1 DEF CreateFeature
  <2>2. CASE CreateList(r)
    <3>1. PICK n \in ListNamespaces, fs \in SUBSET Saved(docs, Features) :
              /\ ~Taken(n, NextVersion(n))
              /\ Start(r, [pc |-> "createList", on |-> n, version |-> NextVersion(n), features |-> fs,
                           readiness |-> CountReadiness(docs, fs)])
      BY <2>2 DEF CreateList
    <3>2. Unused(docs, n, NextVersion(n))
      BY <3>1 DEF Taken, Unused
    <3> QED
      BY <3>1, <3>2
  <2>3. CASE UpdateReadiness(r)
    BY <2>3 DEF UpdateReadiness
  <2>4. CASE DeleteFeature(r)
    BY <2>4 DEF DeleteFeature
  <2>5. CASE DeleteList(r)
    BY <2>5 DEF DeleteList
  <2>6. CASE SetMode(r)
    BY <2>6 DEF SetMode
  <2>7. CASE SetDefault(r)
    BY <2>7 DEF SetDefault
  <2> QED
    BY <2>1, <2>2, <2>3, <2>4, <2>5, <2>6, <2>7 DEF Starts
<1>2. /\ docs' = docs /\ request'[r] = q /\ \A s \in Requests : s # r => request'[s] = request[s]
      /\ overlaps' \in Nat
      /\ overlaps' = 0 => overlaps = 0 /\ \A s \in Requests : Idle(s)
  BY <1>1 DEF Start, IInv, SerialOK
<1>3. ASSUME overlaps' = 0
      PROVE  /\ \A s \in Requests : ~Open(s)' /\ (s # r => Idle(s)')
             /\ \A s \in Requests : request'[s].pc = "createList" =>
                   Unused(docs, request'[s].on, request'[s].version)
             /\ Numbered(docs, Lists)
  BY <1>1, <1>2, <1>3 DEF Open, InTransaction, Idle, SerialOK
<1>4. overlaps' = 0 => \A s, t \in Requests : s # t => Idle(s)' \/ Idle(t)'
  BY <1>3
<1> QED
  BY <1>2, <1>3, <1>4 DEF SerialOK

LEMMA Opening ==
    ASSUME IInv, NEW r \in Requests, Opens(r)
    PROVE  /\ ~Idle(r) /\ docs' = docs /\ overlaps' = overlaps
           /\ request'[r].pc \in {"idle", "transaction"}
           /\ \A s \in Requests : s # r => request'[s] = request[s]
<1>1. request = [s \in Requests |-> request[s]]
  BY SMTT(30) DEF IInv
<1>2. CASE Abort(r)
  BY <1>1, <1>2 DEF Abort, IdleRequest, Opens, Idle, InsertFeature, InsertList, MoveFeature,
     RemoveFeature, RemoveList
<1>3. CASE ~Abort(r)
  <2>0. \A after, settled, next, excluded : Transaction(after, settled, next, excluded).pc = "transaction"
    BY DEF Transaction
  <2>1. CASE InsertFeature(r)
    <3>1. request[r].pc = "createFeature" /\ docs' = docs /\ overlaps' = overlaps
      BY <1>3, <2>1 DEF InsertFeature
    <3>2. \E after, n : request' = [request EXCEPT ![r] = Transaction(after, {}, n, {})]
      BY <1>3, <2>1 DEF InsertFeature
    <3> QED
      BY <1>1, <2>0, <3>1, <3>2 DEF Idle
  <2>2. CASE InsertList(r)
    <3>1. request[r].pc = "createList" /\ docs' = docs /\ overlaps' = overlaps
      BY <1>3, <2>2 DEF InsertList
    <3>2. \E after, n : request' = [request EXCEPT ![r] = Transaction(after, {}, n, {})]
      BY <1>3, <2>2 DEF InsertList
    <3> QED
      BY <1>1, <2>0, <3>1, <3>2 DEF Idle
  <2>3. CASE MoveFeature(r)
    BY <1>1, <1>3, <2>0, <2>3 DEF MoveFeature, Idle
  <2>4. CASE RemoveFeature(r)
    BY <1>1, <1>3, <2>0, <2>4 DEF RemoveFeature, Idle
  <2>5. CASE RemoveList(r)
    BY <1>1, <1>3, <2>0, <2>5 DEF RemoveList, Idle
  <2> QED
    BY <2>1, <2>2, <2>3, <2>4, <2>5 DEF Opens
<1> QED
  BY <1>2, <1>3, SMTT(30)

LEMMA Recomputing ==
    ASSUME IInv, NEW r \in Requests, Recomputes(r) \/ Commit(r) \/ Fail(r)
    PROVE  /\ ~Idle(r) /\ overlaps' = overlaps
           /\ request'[r].pc \in {"idle", "recompute", "choose", "write"}
           /\ \A s \in Requests : s # r /\ Idle(s) => request'[s] = request[s]
<1>1. request = [s \in Requests |-> request[s]]
  BY SMTT(30) DEF IInv
<1>2. \A w : \A s \in Requests : Idle(s) => Doom(r, w)[s] = request[s]
  BY DEF Doom, Idle, InTransaction
<1>3. ASSUME NEW w, NEW q, request' = [Doom(r, w) EXCEPT ![r] = q]
      PROVE  request'[r] = q /\ \A s \in Requests : s # r /\ Idle(s) => request'[s] = request[s]
  <2>1. Doom(r, w) = [s \in Requests |-> Doom(r, w)[s]]
    BY DEF Doom
  <2> QED
    BY <1>2, <1>3, <2>1
<1>4. ~Idle(r)
  <2>1. ReadNamespace(r) => ~Idle(r)
    BY DEF Idle, ReadNamespace
  <2>2. ChooseDefault(r) => ~Idle(r)
    BY DEF Idle, ChooseDefault
  <2>3. WriteNamespace(r) => ~Idle(r)
    BY DEF Idle, WriteNamespace
  <2>4. SetField(r) => ~Idle(r)
    BY DEF Idle, SetField
  <2>5. Commit(r) => ~Idle(r)
    BY DEF Idle, Commit, InTransaction
  <2> QED
    BY <2>1, <2>2, <2>3, <2>4, <2>5 DEF Recomputes, Fail
<1>5. CASE Abort(r)
  BY <1>1, <1>4, <1>5 DEF Abort, IdleRequest
<1>6. CASE ~Abort(r)
  <2>1. CASE ReadNamespace(r)
    BY <1>1, <1>4, <1>6, <2>1 DEF ReadNamespace
  <2>2. CASE ChooseDefault(r)
    BY <1>1, <1>4, <1>6, <2>2 DEF ChooseDefault
  <2>3. CASE WriteNamespace(r)
    <3>1. overlaps' = overlaps
      BY <1>6, <2>3 DEF WriteNamespace
    <3>2. PICK w : request' = [Doom(r, w) EXCEPT ![r] = IdleRequest]
      BY <1>6, <2>3 DEF WriteNamespace
    <3>3. IdleRequest.pc = "idle"
      BY DEF IdleRequest
    <3> QED
      BY <1>3, <1>4, <3>1, <3>2, <3>3
  <2>4. CASE SetField(r)
    <3>1. overlaps' = overlaps
      BY <1>6, <2>4 DEF SetField
    <3>2. PICK w, n : request' =
              [Doom(r, w) EXCEPT ![r] = [pc |-> "recompute", next |-> n, excluded |-> {}]]
      BY <1>6, <2>4 DEF SetField
    <3> DEFINE q == [pc |-> "recompute", next |-> n, excluded |-> {}]
    <3>3. q.pc = "recompute"
      OBVIOUS
    <3> HIDE DEF q
    <3>4. request' = [Doom(r, w) EXCEPT ![r] = q]
      BY <3>2 DEF q
    <3> QED
      BY <1>3, <1>4, <3>1, <3>3, <3>4
  <2>5. CASE Commit(r)
    <3>1. overlaps' = overlaps
      BY <1>6, <2>5 DEF Commit
    <3>2. PICK w, n, x : request' = [Doom(r, w) EXCEPT ![r] =
              IF n = {} THEN IdleRequest ELSE [pc |-> "recompute", next |-> n, excluded |-> x]]
      BY <1>6, <2>5 DEF Commit
    <3> DEFINE q == IF n = {} THEN IdleRequest ELSE [pc |-> "recompute", next |-> n, excluded |-> x]
    <3>3. q.pc \in {"idle", "recompute"}
      BY DEF IdleRequest
    <3> HIDE DEF q
    <3>4. request' = [Doom(r, w) EXCEPT ![r] = q]
      BY <3>2 DEF q
    <3> QED
      BY <1>3, <1>4, <3>1, <3>3, <3>4
  <2> QED
    BY <1>6, <2>1, <2>2, <2>3, <2>4, <2>5 DEF Recomputes, Fail
<1> QED
  BY <1>5, <1>6

LEMMA InitSerial == Init => SerialOK
<1> SUFFICES ASSUME Init PROVE SerialOK
  OBVIOUS
<1>1. /\ \A x \in Ids : docs[x] = NoDoc
      /\ \A r \in Requests : request[r].pc = "idle"
      /\ overlaps = 0
  BY DEF Init, IdleRequest
<1> QED
  BY <1>1, Kinds DEF SerialOK, Numbered, Idle, Open, InTransaction

LEMMA SerialStep == IInv /\ SerialOK /\ [Next]_vars => SerialOK'
<1> SUFFICES ASSUME IInv, SerialOK, [Next]_vars PROVE SerialOK'
  OBVIOUS
<1>1. CASE UNCHANGED vars
  BY <1>1 DEF vars, SerialOK, Idle, Open, InTransaction
<1>2. ASSUME NEW r \in Requests, Starts(r)
      PROVE  SerialOK'
  BY <1>2, SerialStarts
<1>3. ASSUME NEW r \in Requests, Opens(r) \/ Recomputes(r) \/ Commit(r) \/ Fail(r)
      PROVE  SerialOK'
  <2>1. /\ ~Idle(r) /\ overlaps' = overlaps /\ request'[r].pc # "createList"
        /\ \A s \in Requests : s # r /\ Idle(s) => request'[s] = request[s]
        /\ Open(r)' => Opens(r) /\ docs' = docs
    BY <1>3, Opening, Recomputing DEF Open, InTransaction
  <2> SUFFICES ASSUME overlaps = 0
               PROVE  /\ \A s, t \in Requests : s # t => Idle(s)' \/ Idle(t)'
                      /\ Numbered(docs', Lists)
                      /\ \A s \in Requests : Open(s)' => Numbered(Overlay(docs', request'[s].writes), Lists)
                      /\ \A s \in Requests : request'[s].pc # "createList"
    BY <2>1 DEF SerialOK
  <2>2. \A s \in Requests : s # r => Idle(s)'
    BY <2>1 DEF SerialOK, Idle
  <2>3. Numbered(docs', Lists)
    <3>1. CASE \A x \in Versions : docs'[x] = docs[x]
      BY <3>1, Kinds DEF SerialOK, Numbered
    <3>2. CASE Open(r) /\ docs' = Overlay(docs, request[r].writes)
      BY <3>2 DEF SerialOK
    <3> QED
      BY <1>3, <3>1, <3>2, VersionsWritten
  <2>4. ASSUME Open(r)'
        PROVE  Numbered(Overlay(docs', request'[r].writes), Lists)
    <3>1. docs' = docs /\ Opens(r)
      BY <2>1, <2>4
    <3>2. CASE InsertList(r)
      <4>1. Unused(docs, request[r].on, request[r].version)
        BY <3>2 DEF SerialOK, InsertList
      <4>2. ~Taken(request[r].on, request[r].version)
        BY <4>1 DEF Unused, Taken
      <4> QED
        BY <2>4, <3>1, <3>2, <4>2, ListInserted DEF SerialOK
    <3>3. CASE ~InsertList(r)
      <4>1. Renumbered(docs, Overlay(docs, request'[r].writes))
        BY <2>4, <3>1, <3>3, ListsKept DEF Opens
      <4> QED
        BY <3>1, <4>1 DEF Renumbered, SerialOK, Numbered
    <3> QED
      BY <3>2, <3>3
  <2>5. \A s \in Requests : s # r => ~Open(s)' /\ request'[s].pc # "createList"
    BY <2>2 DEF Idle, Open, InTransaction
  <2> QED
    BY <2>1, <2>2, <2>3, <2>4, <2>5
<1> QED
  BY <1>1, <1>2, <1>3, Steps

(* No two versions of a feature have the same identifier, whatever requests*)
(* interleave and versions were deleted, nor two versions of a list as long*)
(* as requests do not overlap.                                             *)
THEOREM VersionsAlwaysDistinct == Spec => []VersionsDistinct
<1>1. Init => SerialOK
  BY InitSerial
<1>2. IInv /\ SerialOK /\ [Next]_vars => SerialOK'
  BY SerialStep
<1>3. IInv /\ SerialOK => VersionsDistinct
  <2> SUFFICES ASSUME IInv, SerialOK,
                      NEW x \in Versions, NEW y \in Versions, docs[x] # NoDoc, docs[y] # NoDoc,
                      NamespaceOf[x] = NamespaceOf[y], x # y, x \in Features \/ overlaps = 0
               PROVE  docs[x].version # docs[y].version
    BY DEF VersionsDistinct, Saved
  <2>1. x \in Features <=> y \in Features
    BY Kinds
  <2> QED
    BY <2>1, Kinds DEF IInv, Sound, SerialOK, Numbered
<1> QED
  BY <1>1, <1>2, <1>3, CatalogSound, PTL DEF Spec

-----------------------------------------------------------------------------
(* One production ready version *)

Promoted(d, f) == d[f] # NoDoc /\ d[f].readiness = PRODUCTION_READY

OneReady(d) ==
    \A f, g \in Features :
        NamespaceOf[f] = NamespaceOf[g] /\ Promoted(d, f) /\ Promoted(d, g) => f = g

(* Whether another version is production ready is asked before the         *)
(* transaction that makes this one production ready.                       *)
PromotionOK ==
    overlaps = 0 =>
        /\ OneReady(docs)
        /\ \A r \in Requests : Open(r) => OneReady(Overlay(docs, request[r].writes))
        /\ \A r \in Requests :
              request[r].pc = "updateReadiness" /\ request[r].to = PRODUCTION_READY =>
                  \A g \in Features :
                      NamespaceOf[g] = NamespaceOf[request[r].on] /\ Promoted(docs, g) => g = request[r].on

(* From d to "after", no other versions than fs become production ready.    *)
PromotesAtMost(d, after, fs) == \A g \in Features : Promoted(after, g) => Promoted(d, g) \/ g \in fs

LEMMA PromotionsOverlay ==
    ASSUME IInv, NEW r \in Requests, NEW after, NEW settled, NEW next, NEW excluded, NEW fs,
           request' = [request EXCEPT ![r] = Transaction(after, settled, next, excluded)],
           PromotesAtMost(docs, after, fs)
    PROVE  PromotesAtMost(docs, Overlay(docs, request'[r].writes), fs)
<1>1. \A x \in Ids : Overlay(docs, request'[r].writes)[x] = after[x]
  BY TransactionOverlay
<1> QED
  BY <1>1, Kinds DEF PromotesAtMost, Promoted

LEMMA NobodyPromoted ==
    ASSUME IInv, NEW r \in Requests, Open(r)',
           InsertFeature(r) \/ InsertList(r) \/ RemoveFeature(r) \/ RemoveList(r)
    PROVE  PromotesAtMost(docs, Overlay(docs, request'[r].writes), {})
<1>0. ~Abort(r)
  BY DEF Abort, Open, InTransaction, IInv, IdleRequest
<1> DEFINE q == request[r]
<1>m. \A g \in Features : docs[g] # NoDoc => docs[g] \in FeatureModel
  BY DEF IInv, Sound, Typed
<1>1. CASE InsertFeature(r)
  <2> DEFINE model == [readiness |-> DRAFT, lists |-> {}, version |-> q.version]
  <2>1. q.on \in FeatureNamespaces
    BY <1>1 DEF InsertFeature, IInv, RequestOK
  <2>2. PICK f \in Features : \E new :
            request' = [request EXCEPT ![r] = Transaction(
               [docs EXCEPT ![f] = model, ![q.on] = Joined(q.on, f, new)], {}, {q.on}, {})]
    BY <1>0, <1>1 DEF InsertFeature
  <2>3. PICK new :
            request' = [request EXCEPT ![r] = Transaction(
               [docs EXCEPT ![f] = model, ![q.on] = Joined(q.on, f, new)], {}, {q.on}, {})]
    BY <2>2
  <2> DEFINE after == [docs EXCEPT ![f] = model, ![q.on] = Joined(q.on, f, new)]
  <2>4. \A g \in Features : after[g] = IF g = f THEN model ELSE docs[g]
    BY <2>1, Kinds DEF IInv
  <2>5. model.readiness # PRODUCTION_READY
    BY DEF DRAFT, PRODUCTION_READY
  <2> HIDE DEF after, model
  <2>6. PromotesAtMost(docs, after, {})
    BY <2>4, <2>5 DEF PromotesAtMost, Promoted
  <2>7. request' = [request EXCEPT ![r] = Transaction(after, {}, {q.on}, {})]
    BY <2>3 DEF after
  <2> QED
    BY <2>6, <2>7, PromotionsOverlay
<1>2. CASE InsertList(r)
  <2> DEFINE n == q.on
             found == Saved(docs, q.features)
             new(l) == [ids |-> {l}, default |-> l, manual |-> FALSE, readiness |-> q.readiness,
                        spaces |-> Spaces(q.features)]
             model == [readiness |-> q.readiness, features |-> q.features, version |-> q.version]
             inserted(l) == [x \in Ids |->
                 CASE x = l -> model
                   [] x = n -> Joined(n, l, new(l))
                   [] x \in found -> [docs[x] EXCEPT !.lists = @ \cup {l}]
                   [] OTHER -> docs[x]]
  <2>1. n \in ListNamespaces
    BY <1>2 DEF InsertList, IInv, RequestOK
  <2>2. PICK l \in Lists : request' = [request EXCEPT ![r] = Transaction(inserted(l), {}, {n}, {})]
    BY <1>0, <1>2 DEF InsertList
  <2> DEFINE after == inserted(l)
  <2>3. \A g \in Features : after[g] = IF g \in found THEN [docs[g] EXCEPT !.lists = @ \cup {l}]
                                       ELSE docs[g]
    BY <2>1, Kinds
  <2>4. \A g \in found : docs[g] # NoDoc
    BY DEF Saved
  <2> HIDE DEF after, found
  <2>5. PromotesAtMost(docs, after, {})
    BY <1>m, <2>3, <2>4 DEF PromotesAtMost, Promoted, FeatureModel
  <2>6. request' = [request EXCEPT ![r] = Transaction(after, {}, {n}, {})]
    BY <2>2 DEF after
  <2> QED
    BY <2>5, <2>6, PromotionsOverlay
<1>3. CASE RemoveFeature(r)
  <2> DEFINE f == q.on
             n == NamespaceOf[f]
             removed == [docs EXCEPT ![f] = NoDoc]
             after == [removed EXCEPT ![n] = Forgotten(Recomputed(removed, n, {f}), f)]
  <2>1. request' = [request EXCEPT ![r] = Transaction(after, {n}, {}, {})]
    BY <1>0, <1>3 DEF RemoveFeature
  <2>2. f \in Features
    BY <1>3 DEF RemoveFeature, IInv, RequestOK
  <2>3. \A g \in Features : after[g] = IF g = f THEN NoDoc ELSE docs[g]
    BY <2>2, Kinds DEF IInv
  <2> HIDE DEF after, n
  <2>4. PromotesAtMost(docs, after, {})
    BY <2>3, SMTT(30) DEF PromotesAtMost, Promoted
  <2> QED
    BY <2>1, <2>4, PromotionsOverlay
<1>4. CASE RemoveList(r)
  <2> DEFINE k == q.on
             n == NamespaceOf[k]
             kept == [docs[n] EXCEPT !.ids = @ \ {k}]
             pulled == Saved(docs, docs[k].features)
             after == [x \in Ids |->
                 CASE x = k -> NoDoc
                   [] x = n -> Forgotten(kept, k)
                   [] x \in pulled -> Pulled(docs[x], k)
                   [] OTHER -> docs[x]]
  <2>1. request' = [request EXCEPT ![r] = Transaction(after, {}, {n}, {k})]
    BY <1>0, <1>4 DEF RemoveList
  <2>2. k \in Lists /\ n \in Namespaces
    BY <1>4, Kinds DEF RemoveList, IInv, RequestOK
  <2>3. \A g \in pulled : docs[g] # NoDoc
    BY DEF Saved
  <2> HIDE DEF k, n, kept, pulled
  <2>4. \A g \in Features : after[g] = IF g \in pulled THEN Pulled(docs[g], k) ELSE docs[g]
    BY <2>2, Kinds
  <2> HIDE DEF after
  <2>5. PromotesAtMost(docs, after, {})
    BY <1>m, <2>3, <2>4 DEF PromotesAtMost, Promoted, Pulled, FeatureModel
  <2> QED
    BY <2>1, <2>5, PromotionsOverlay, ZenonT(30)
<1> QED
  BY <1>1, <1>2, <1>3, <1>4

LEMMA OnePromoted ==
    ASSUME IInv, NEW r \in Requests, Open(r)', MoveFeature(r)
    PROVE  PromotesAtMost(docs, Overlay(docs, request'[r].writes),
                          IF request[r].to = PRODUCTION_READY THEN {request[r].on} ELSE {})
<1>0. ~Abort(r)
  BY DEF Abort, Open, InTransaction, IInv, IdleRequest
<1> DEFINE q == request[r]
           f == q.on
           moved == Moved(docs, f, q.from, q.to)
           spaces == Spaces({f} \cup docs[f].lists)
           after == RecomputeAll(moved, spaces)
           one == IF q.to = PRODUCTION_READY THEN {f} ELSE {}
<1>1. request' = [request EXCEPT ![r] = Transaction(after, spaces, {}, {})] /\ docs[f] # NoDoc
  BY <1>0 DEF MoveFeature
<1>2. f \in Features
  BY DEF MoveFeature, IInv, RequestOK
<1>3. docs[f] \in FeatureModel /\ docs[f].lists \subseteq Lists
  BY <1>1, <1>2 DEF IInv, Sound, Typed, FeatureModel
<1>4. spaces \subseteq Namespaces
  BY <1>2, <1>3, Kinds DEF Spaces
<1>5. \A g \in Features : after[g] = moved[g]
  BY <1>4, Kinds DEF RecomputeAll
<1>6. \A g \in Features : moved[g] = IF g = f THEN [docs[f] EXCEPT !.readiness = q.to] ELSE docs[g]
  BY <1>3, Kinds DEF Moved
<1>7. after[f].readiness = q.to
  <2> HIDE DEF after, moved, spaces
  <2>1. after[f] = [docs[f] EXCEPT !.readiness = q.to]
    BY <1>2, <1>5, <1>6
  <2> QED
    BY <1>3, <2>1 DEF FeatureModel
<1> HIDE DEF after, moved, spaces
<1>8. PromotesAtMost(docs, after, one)
  BY <1>5, <1>6, <1>7 DEF PromotesAtMost, Promoted
<1> QED
  BY <1>1, <1>8, PromotionsOverlay

LEMMA PromotionStarts ==
    ASSUME IInv, SerialOK, PromotionOK, NEW r \in Requests, Starts(r)
    PROVE  PromotionOK'
<1>1. PICK q : /\ Start(r, q) /\ q.pc # "transaction"
               /\ q.pc = "updateReadiness" /\ q.to = PRODUCTION_READY =>
                     \A g \in Features :
                         NamespaceOf[g] = NamespaceOf[q.on] /\ Promoted(docs, g) => g = q.on
  <2>1. CASE CreateFeature(r)
    BY <2>1 DEF CreateFeature
  <2>2. CASE CreateList(r)
    BY <2>2 DEF CreateList
  <2>3. CASE UpdateReadiness(r)
    BY <2>3 DEF UpdateReadiness, MayMove, Saved, Promoted
  <2>4. CASE DeleteFeature(r)
    BY <2>4 DEF DeleteFeature
  <2>5. CASE DeleteList(r)
    BY <2>5 DEF DeleteList
  <2>6. CASE SetMode(r)
    BY <2>6 DEF SetMode
  <2>7. CASE SetDefault(r)
    BY <2>7 DEF SetDefault
  <2> QED
    BY <2>1, <2>2, <2>3, <2>4, <2>5, <2>6, <2>7 DEF Starts
<1>2. /\ docs' = docs /\ request'[r] = q /\ \A s \in Requests : s # r => request'[s] = request[s]
      /\ overlaps' = 0 => overlaps = 0 /\ \A s \in Requests : Idle(s)
  BY <1>1 DEF Start, IInv, SerialOK
<1> SUFFICES ASSUME overlaps' = 0
             PROVE  /\ OneReady(docs')
                    /\ \A s \in Requests : ~Open(s)'
                    /\ \A s \in Requests :
                          request'[s].pc = "updateReadiness" /\ request'[s].to = PRODUCTION_READY =>
                              \A g \in Features :
                                  NamespaceOf[g] = NamespaceOf[request'[s].on] /\ Promoted(docs', g)
                                      => g = request'[s].on
  BY DEF PromotionOK
<1>3. OneReady(docs)
  BY <1>2 DEF PromotionOK
<1>4. \A s \in Requests : ~Open(s)' /\ (s # r => request'[s].pc = "idle")
  BY <1>1, <1>2 DEF Open, InTransaction, Idle
<1> QED
  BY <1>1, <1>2, <1>3, <1>4

LEMMA PromotionStep == IInv /\ SerialOK /\ PromotionOK /\ [Next]_vars => PromotionOK'
<1> SUFFICES ASSUME IInv, SerialOK, PromotionOK, [Next]_vars PROVE PromotionOK'
  OBVIOUS
<1>1. CASE UNCHANGED vars
  BY <1>1 DEF vars, PromotionOK, Open, InTransaction
<1>2. ASSUME NEW r \in Requests, Starts(r)
      PROVE  PromotionOK'
  BY <1>2, PromotionStarts
<1>3. ASSUME NEW r \in Requests, Opens(r) \/ Recomputes(r) \/ Commit(r) \/ Fail(r)
      PROVE  PromotionOK'
  <2>1. /\ ~Idle(r) /\ overlaps' = overlaps /\ request'[r].pc # "updateReadiness"
        /\ \A s \in Requests : s # r /\ Idle(s) => request'[s] = request[s]
        /\ Open(r)' => Opens(r) /\ docs' = docs
    BY <1>3, Opening, Recomputing DEF Open, InTransaction
  <2> SUFFICES ASSUME overlaps = 0
               PROVE  /\ OneReady(docs')
                      /\ \A s \in Requests : Open(s)' => OneReady(Overlay(docs', request'[s].writes))
                      /\ \A s \in Requests : request'[s].pc # "updateReadiness"
    BY <2>1 DEF PromotionOK
  <2>2. \A s \in Requests : s # r => Idle(s)'
    BY <2>1 DEF SerialOK, Idle
  <2>3. OneReady(docs')
    <3>1. CASE \A x \in Versions : docs'[x] = docs[x]
      BY <3>1, Kinds DEF PromotionOK, OneReady, Promoted
    <3>2. CASE Open(r) /\ docs' = Overlay(docs, request[r].writes)
      BY <3>2 DEF PromotionOK
    <3> QED
      BY <1>3, <3>1, <3>2, VersionsWritten
  <2>4. ASSUME Open(r)'
        PROVE  OneReady(Overlay(docs', request'[r].writes))
    <3> DEFINE after == Overlay(docs, request'[r].writes)
    <3>1. docs' = docs /\ Opens(r) /\ OneReady(docs)
      BY <2>1, <2>4 DEF PromotionOK
    <3>2. CASE MoveFeature(r)
      <4> DEFINE one == IF request[r].to = PRODUCTION_READY THEN {request[r].on} ELSE {}
      <4>1. PromotesAtMost(docs, after, one)
        BY <2>4, <3>2, OnePromoted
      <4>2. \A f \in one : \A g \in Features :
                NamespaceOf[g] = NamespaceOf[f] /\ Promoted(docs, g) => g = f
        BY <3>2 DEF PromotionOK, MoveFeature
      <4>3. \A f, g \in one : f = g
        OBVIOUS
      <4> HIDE DEF after, one
      <4>4. OneReady(after)
        BY <3>1, <4>1, <4>2, <4>3 DEF OneReady, PromotesAtMost
      <4> QED
        BY <3>1, <4>4 DEF after
    <3>3. CASE ~MoveFeature(r)
      <4>1. PromotesAtMost(docs, after, {})
        BY <2>4, <3>1, <3>3, NobodyPromoted DEF Opens
      <4> HIDE DEF after
      <4>2. OneReady(after)
        BY <3>1, <4>1 DEF OneReady, PromotesAtMost
      <4> QED
        BY <3>1, <4>2 DEF after
    <3> QED
      BY <3>2, <3>3
  <2>5. \A s \in Requests : s # r => ~Open(s)' /\ request'[s].pc # "updateReadiness"
    BY <2>2 DEF Idle, Open, InTransaction
  <2> QED
    BY <2>1, <2>2, <2>3, <2>4, <2>5
<1> QED
  BY <1>1, <1>2, <1>3, Steps

(* At most one version of a feature is production ready as long as requests*)
(* do not overlap, although this is checked before the transaction that    *)
(* changes the readiness, and any request may fail at any point.           *)
THEOREM OneReadyWhenSerial == Spec => []OneProductionReadySerially
<1>1. Init => SerialOK /\ PromotionOK
  <2> SUFFICES ASSUME Init PROVE PromotionOK
    BY InitSerial
  <2>1. /\ \A x \in Ids : docs[x] = NoDoc
        /\ \A r \in Requests : request[r].pc = "idle"
    BY DEF Init, IdleRequest
  <2> QED
    BY <2>1, Kinds DEF PromotionOK, OneReady, Promoted, Open, InTransaction
<1>2. IInv /\ SerialOK /\ PromotionOK /\ [Next]_vars => (SerialOK /\ PromotionOK)'
  BY SerialStep, PromotionStep
<1>3. PromotionOK => OneProductionReadySerially
  BY DEF PromotionOK, OneReady, Promoted, OneProductionReadySerially, Saved
<1> QED
  BY <1>1, <1>2, <1>3, CatalogSound, PTL DEF Spec

-----------------------------------------------------------------------------
(* What each namespace and each request holds *)

NamespaceModel(n) == IF n \in FeatureNamespaces THEN FeatureNamespaceModel
                     ELSE FeatureListNamespaceModel

(* What the default of a namespace may be: it need not be a version of it. *)
DefaultsOf(n) == IF n \in FeatureNamespaces THEN Features ELSE Lists

NamespaceOK(n, doc) == doc \in NamespaceModel(n) /\ doc.ids \subseteq Members(n)

Modelled(d) == \A n \in Namespaces : d[n] # NoDoc => NamespaceOK(n, d[n])

(* Recomputing leaves the features of a namespace of lists alone.          *)
SameSpaces(n, doc, other) == n \in ListNamespaces => other.spaces = doc.spaces

FieldsOK(q) ==
    /\ q.pc = "setField" =>
          q.value \in IF q.field = "manual" THEN BOOLEAN ELSE DefaultsOf(q.on)
    /\ q.pc = "transaction" => q.settled \subseteq Namespaces
    /\ q.pc = "choose" => NamespaceOK(q.on, q.seen)
    /\ q.pc = "write" => /\ NamespaceOK(q.on, q.seen) /\ NamespaceOK(q.on, q.after)
                         /\ SameSpaces(q.on, q.seen, q.after)

ModelsOK ==
    /\ Modelled(docs)
    /\ \A r \in Requests : Open(r) => Modelled(Overlay(docs, request[r].writes))
    /\ \A r \in Requests : FieldsOK(request[r])
    /\ outdated \in BOOLEAN
    /\ unsettled \subseteq Namespaces
    /\ overlaps \in 0..MaxOverlaps

-----------------------------------------------------------------------------
(* Lists of one namespace have as many features: one of each name. *)

OneEach(features) == \A f, g \in features : NamespaceOf[f] = NamespaceOf[g] => f = g

Counted(features, dist) == OneEach(features) /\ TotalCount(dist) = Cardinality(features)

Sized(d) ==
    \A l \in Lists : d[l] # NoDoc =>
        /\ Counted(d[l].features, d[l].readiness)
        /\ d[NamespaceOf[l]].spaces = Spaces(d[l].features)

KeepsSpaces(d, w) ==
    \A n \in ListNamespaces \cap DOMAIN w :
        d[n] # NoDoc /\ w[n] # NoDoc => w[n].spaces = d[n].spaces

CountsOK ==
    /\ Sized(docs)
    /\ \A r \in Requests : Open(r) => /\ Sized(Overlay(docs, request[r].writes))
                                      /\ KeepsSpaces(docs, request[r].writes)
    /\ \A r \in Requests : request[r].pc = "createList" =>
                              Counted(request[r].features, request[r].readiness)
    /\ \A r \in Requests : request[r].pc = "updateReadiness" => request[r].from # request[r].to

-----------------------------------------------------------------------------
(* Lists count their features exactly *)

Exact(d) ==
    \A l \in Lists : d[l] # NoDoc =>
        /\ \A f \in d[l].features : d[f] # NoDoc
        /\ d[l].readiness = CountReadiness(d, d[l].features)

(* Who changes the readiness of a feature, or deletes it, writes its lists.*)
Locks(d, w) ==
    \A f \in Features \cap DOMAIN w :
        d[f] # NoDoc /\ (w[f] = NoDoc \/ w[f].readiness # d[f].readiness) =>
            d[f].lists \subseteq DOMAIN w

ExactOK ==
    ~outdated =>
        /\ Exact(docs)
        /\ \A r \in Requests : Open(r) => /\ Exact(Overlay(docs, request[r].writes))
                                          /\ Locks(docs, request[r].writes)

-----------------------------------------------------------------------------
(* Defaults *)

Settled(d, n) ==
    /\ ~d[n].manual =>
         /\ d[n].default \in Saved(d, d[n].ids)
         /\ \A x \in Saved(d, Members(n)) : Preferred(d, d[n].default, x)
    /\ d[n].default \in Saved(d, d[n].ids) => d[n].readiness = d[d[n].default].readiness

SettledOutside(d, open) == \A n \in Namespaces \ open : d[n] # NoDoc => Settled(d, n)

DefaultsOK ==
    overlaps = 0 =>
        /\ SettledOutside(docs, unsettled)
        /\ \A r \in Requests : Open(r) =>
              SettledOutside(Overlay(docs, request[r].writes),
                             (unsettled \ request[r].settled) \cup request[r].next)
        /\ \A r \in Requests : request[r].pc \in {"choose", "write"} =>
              docs[request[r].on] # NoDoc /\ request[r].seen = docs[request[r].on]
        /\ \A r \in Requests : request[r].pc = "write" =>
              Settled([docs EXCEPT ![request[r].on] = request[r].after], request[r].on)

-----------------------------------------------------------------------------
(* The best version *)

(* Versions of one kind with a readiness each.                             *)
Graded(d, ids) ==
    \/ ids \subseteq Features /\ \A a \in ids : d[a].readiness \in Readiness
    \/ ids \subseteq Lists /\ \A a \in ids : d[a].readiness \in Distribution

(* The order of distributions is lexicographic, so it is total.            *)
LEMMA LessOrders ==
    ASSUME NEW x \in Distribution, NEW y \in Distribution, NEW z \in Distribution
    PROVE  /\ x = y \/ Less(x, y) \/ Less(y, x)
           /\ Less(x, y) /\ Less(y, z) => Less(x, z)
<1>1. Readiness = {0, 1, 2, 3}
  BY DEF Readiness, DEPRECATED, PRODUCTION_READY
<1>2. \A v \in Distribution : v = [k \in Readiness |-> v[k]] /\ \A k \in Readiness : v[k] \in Int
  BY DEF Distribution
<1>3. \A v, w \in Distribution :
         Less(v, w) <=> IF v[3] # w[3] THEN v[3] < w[3]
                        ELSE \/ v[0] > w[0]
                             \/ v[0] = w[0] /\ v[1] > w[1]
                             \/ v[0] = w[0] /\ v[1] = w[1] /\ v[2] > w[2]
  BY <1>1, <1>2 DEF Less, PRODUCTION_READY
<1>4. x[3] = y[3] /\ x[0] = y[0] /\ x[1] = y[1] /\ x[2] = y[2] => x = y
  BY <1>1, <1>2
<1>5. x = y \/ Less(x, y) \/ Less(y, x)
  BY <1>1, <1>2, <1>3, <1>4
<1>6. Less(x, y) /\ Less(y, z) => Less(x, z)
  BY <1>1, <1>2, <1>3
<1> QED
  BY <1>5, <1>6

LEMMA PreferredOrders ==
    ASSUME NEW d, NEW ids, Graded(d, ids), NEW a \in ids, NEW b \in ids, NEW c \in ids
    PROVE  /\ Preferred(d, a, b) \/ Preferred(d, b, a)
           /\ Preferred(d, a, b) /\ Preferred(d, b, c) => Preferred(d, a, c)
<1>1. a \in Nat /\ b \in Nat /\ c \in Nat
  BY FeatureCatalogAssumption DEF Graded
<1>2. CASE ids \subseteq Features /\ \A v \in ids : d[v].readiness \in Readiness
  <2>1. \A v \in ids : v \in Features /\ d[v].readiness \in Int
    BY <1>2 DEF Readiness, DEPRECATED, PRODUCTION_READY
  <2> QED
    BY <1>1, <2>1 DEF Preferred
<1>3. CASE ids \subseteq Lists /\ \A v \in ids : d[v].readiness \in Distribution
  <2>1. \A v \in ids : v \notin Features /\ d[v].readiness \in Distribution
    BY <1>3, Kinds
  <2>2. \A v, w \in ids : Preferred(d, v, w) <=> \/ Less(d[w].readiness, d[v].readiness)
                                                 \/ d[v].readiness = d[w].readiness /\ v >= w
    BY <2>1 DEF Preferred
  <2>3. Preferred(d, a, b) \/ Preferred(d, b, a)
    BY <1>1, <2>1, <2>2, LessOrders
  <2>4. ASSUME Preferred(d, a, b), Preferred(d, b, c) PROVE Preferred(d, a, c)
    BY <1>1, <2>1, <2>2, <2>4, LessOrders
  <2> QED
    BY <2>3, <2>4
<1> QED
  BY <1>2, <1>3 DEF Graded

(* A finite set of versions has a best one, so the default exists: there   *)
(* is no least set of versions without one.                                *)
LEMMA BestExists ==
    ASSUME NEW d, NEW ids, IsFiniteSet(ids), ids # {}, Graded(d, ids)
    PROVE  Best(d, ids) \in ids /\ \A b \in ids : Preferred(d, Best(d, ids), b)
<1> DEFINE Bad == {T \in SUBSET ids : T # {} /\ \A a \in T : \E b \in T : ~Preferred(d, a, b)}
<1>1. Bad = {}
  <2> SUFFICES ASSUME Bad # {} PROVE FALSE
    OBVIOUS
  <2> DEFINE R == StrictSubsetOrdering(ids)
  <2>1. IsWellFoundedOn(R, FiniteSubsetsOf(ids))
    BY FS_StrictSubsetOrderingWellFounded
  <2>2. Bad \subseteq FiniteSubsetsOf(ids)
    BY FS_FiniteSubsetsOfFinite
  <2> HIDE DEF R, Bad
  <2>3. \E T \in Bad : \A U \in Bad : ~(<<U, T>> \in R)
    BY <2>1, <2>2, WFMin
  <2>4. PICK T \in Bad : \A U \in Bad : ~(<<U, T>> \in R)
    BY <2>3
  <2>5. T \in SUBSET ids /\ T # {} /\ \A a \in T : \E b \in T : ~Preferred(d, a, b)
    BY DEF Bad
  <2>6. PICK x \in T : TRUE
    BY <2>5
  <2>7. T \ {x} \notin Bad
    <3> DEFINE U == T \ {x}
    <3>1. U \in SUBSET ids /\ U \subseteq T /\ U # T
      BY <2>5, <2>6
    <3>2. <<U, T>> \in R
      BY <2>5, <3>1 DEF R, StrictSubsetOrdering
    <3> QED
      BY <2>4, <3>2
  <2>8. \A a, b, c \in T : /\ Preferred(d, a, b) \/ Preferred(d, b, a)
                           /\ Preferred(d, a, b) /\ Preferred(d, b, c) => Preferred(d, a, c)
    BY <2>5, PreferredOrders
  <2>9. PICK m \in T : \A b \in T \ {x} : Preferred(d, m, b)
    BY <2>5, <2>6, <2>7, <2>8 DEF Bad
  <2>10. (\A b \in T : Preferred(d, m, b)) \/ (\A b \in T : Preferred(d, x, b))
    <3>1. CASE m = x
      BY <2>8, <2>9, <3>1
    <3>2. CASE m # x /\ Preferred(d, m, x)
      BY <2>9, <3>2
    <3>3. CASE m # x /\ Preferred(d, x, m)
      BY <2>8, <2>9, <3>3
    <3> QED
      BY <2>8, <3>1, <3>2, <3>3
  <2> QED
    BY <2>5, <2>10
<1>2. \E a \in ids : \A b \in ids : Preferred(d, a, b)
  BY <1>1
<1> QED
  BY <1>2 DEF Best

-----------------------------------------------------------------------------
(* What a step does to other requests, and a transaction to the documents *)

(* A step of one request at most dooms another; it changes no document that*)
(* a transaction which may still commit has written.                       *)
LEMMA Others ==
    ASSUME IInv, NEW r \in Requests, Starts(r) \/ Opens(r) \/ Recomputes(r) \/ Commit(r) \/ Fail(r),
           NEW s \in Requests, s # r, Modelled(docs)
    PROVE  /\ \/ request'[s] = request[s]
              \/ InTransaction(s) /\ request'[s] = [request[s] EXCEPT !.doomed = TRUE]
           /\ request'[s].pc = request[s].pc
           /\ Open(s)' => /\ Open(s) /\ request'[s] = request[s]
                          /\ \A x \in Ids \cap DOMAIN request[s].writes : docs'[x] = docs[x]
<1>1. request = [t \in Requests |-> request[t]] /\ docs = [x \in Ids |-> docs[x]]
  BY DEF IInv
<1>2. InTransaction(s) => TransactionForm(request[s])
  BY DEF IInv, RequestOK, InTransaction
<1>3. CASE request'[s] = request[s] /\ docs' = docs
  BY <1>3 DEF Open, InTransaction
<1>4. ASSUME NEW w, request'[s] = Doom(r, w)[s], \A x \in Ids : x \in w \/ docs'[x] = docs[x]
      PROVE  /\ \/ request'[s] = request[s]
                \/ InTransaction(s) /\ request'[s] = [request[s] EXCEPT !.doomed = TRUE]
             /\ request'[s].pc = request[s].pc
             /\ Open(s)' => /\ Open(s) /\ request'[s] = request[s]
                            /\ \A x \in Ids \cap DOMAIN request[s].writes : docs'[x] = docs[x]
  <2>1. CASE InTransaction(s) /\ DOMAIN request[s].writes \cap w # {}
    <3>1. request'[s] = [request[s] EXCEPT !.doomed = TRUE]
      BY <1>4, <2>1 DEF Doom
    <3>2. request'[s].doomed /\ request'[s].pc = request[s].pc
      BY <1>2, <2>1, <3>1 DEF TransactionForm
    <3> QED
      BY <2>1, <3>1, <3>2 DEF Open
  <2>2. CASE ~(InTransaction(s) /\ DOMAIN request[s].writes \cap w # {})
    <3>1. request'[s] = request[s]
      BY <1>4, <2>2 DEF Doom
    <3> QED
      BY <1>4, <2>2, <3>1 DEF Open, InTransaction
  <2> QED
    BY <2>1, <2>2
<1>5. CASE Starts(r)
  <2>1. docs' = docs /\ \E q : request' = [request EXCEPT ![r] = q]
    BY <1>5 DEF Starts, CreateFeature, CreateList, UpdateReadiness, DeleteFeature, DeleteList,
       SetMode, SetDefault, Start
  <2> QED
    BY <1>1, <1>3, <2>1
<1>6. CASE Opens(r)
  BY <1>3, <1>6, Opening
<1>7. CASE Abort(r)
  BY <1>1, <1>3, <1>7 DEF Abort
<1>8. CASE ReadNamespace(r) \/ ChooseDefault(r)
  <2>1. docs' = docs /\ \E q : request' = [request EXCEPT ![r] = q]
    BY <1>8 DEF ReadNamespace, ChooseDefault, Abort
  <2> QED
    BY <1>1, <1>3, <2>1
<1>9. CASE WriteNamespace(r) /\ ~Abort(r)
  <2> DEFINE n == request[r].on
  <2>1. PICK new : /\ docs' = [docs EXCEPT ![n] = new]
                   /\ request' = [Doom(r, IF new = docs[n] THEN {} ELSE {n}) EXCEPT ![r] = IdleRequest]
    BY <1>9 DEF WriteNamespace
  <2> DEFINE w == IF new = docs[n] THEN {} ELSE {n}
  <2>2. \A x \in Ids : x \in w \/ docs'[x] = docs[x]
    BY <1>1, <2>1
  <2> HIDE DEF w
  <2>3. request' = [Doom(r, w) EXCEPT ![r] = IdleRequest]
    BY <2>1 DEF w
  <2>4. request'[s] = Doom(r, w)[s]
    BY <2>3 DEF Doom
  <2> QED
    BY <1>4, <2>2, <2>4
<1>10. CASE SetField(r) /\ ~Abort(r)
  <2> DEFINE q == request[r]
             n == q.on
             new == [docs[n] EXCEPT ![q.field] = q.value]
             w == IF docs[n][q.field] = q.value THEN {} ELSE {n}
  <2>1. /\ docs' = [docs EXCEPT ![n] = new]
        /\ \E p : request' = [Doom(r, w) EXCEPT ![r] = p]
    BY <1>10 DEF SetField
  <2>2. docs[n][q.field] = q.value => new = docs[n]
    <3>1. n \in Namespaces /\ docs[n] # NoDoc /\ q.field \in {"manual", "default"}
      BY <1>10 DEF SetField, IInv, RequestOK
    <3>2. docs[n] \in FeatureNamespaceModel \cup FeatureListNamespaceModel
      BY <3>1 DEF Modelled, NamespaceOK, NamespaceModel
    <3> QED
      BY <3>1, <3>2 DEF FeatureNamespaceModel, FeatureListNamespaceModel
  <2>3. \A x \in Ids : x \in w \/ docs'[x] = docs[x]
    BY <1>1, <2>1, <2>2
  <2> HIDE DEF w
  <2>4. request'[s] = Doom(r, w)[s]
    BY <2>1 DEF Doom
  <2> QED
    BY <1>4, <2>3, <2>4
<1>11. CASE Commit(r) /\ ~Abort(r)
  <2> DEFINE w == DOMAIN request[r].writes
  <2>1. /\ docs' = [x \in Ids |-> IF x \in w THEN request[r].writes[x] ELSE docs[x]]
        /\ \E p : request' = [Doom(r, w) EXCEPT ![r] = p]
    BY <1>11 DEF Commit
  <2>2. \A x \in Ids : x \in w \/ docs'[x] = docs[x]
    BY <2>1
  <2> HIDE DEF w
  <2>3. request'[s] = Doom(r, w)[s]
    BY <2>1 DEF Doom
  <2> QED
    BY <1>4, <2>2, <2>3
<1> QED
  BY <1>5, <1>6, <1>7, <1>8, <1>9, <1>10, <1>11 DEF Recomputes, Fail

(* What the transaction that request q opens, as p, leaves as documents b. *)
FeatureCreated(q, p, b, f) ==
    LET n == q.on IN
    /\ f \in Features /\ n \in FeatureNamespaces /\ NamespaceOf[f] = n /\ docs[f] = NoDoc
    /\ b[f] = [readiness |-> DRAFT, lists |-> {}, version |-> q.version]
    /\ b[n] = Joined(n, f, [ids |-> {f}, default |-> f, manual |-> FALSE, readiness |-> DRAFT])
    /\ \A x \in Ids : x # f /\ x # n => b[x] = docs[x]
    /\ p.settled = {} /\ p.next = {n} /\ outdated' = outdated

ListCreated(q, p, b, l) ==
    LET n == q.on
        found == Saved(docs, q.features) IN
    /\ l \in Lists /\ n \in ListNamespaces /\ NamespaceOf[l] = n /\ docs[l] = NoDoc
    /\ q.features \subseteq Features
    /\ docs[n] = NoDoc \/ Consistent(n, q.features)
    /\ b[l] = [readiness |-> q.readiness, features |-> q.features, version |-> q.version]
    /\ b[n] = Joined(n, l, [ids |-> {l}, default |-> l, manual |-> FALSE, readiness |-> q.readiness,
                            spaces |-> Spaces(q.features)])
    /\ \A f \in found : b[f] = [docs[f] EXCEPT !.lists = @ \cup {l}]
    /\ \A x \in Ids : x # l /\ x # n /\ x \notin found => b[x] = docs[x]
    /\ p.settled = {} /\ p.next = {n}
    /\ outdated' = (outdated \/ found # q.features \/ CountReadiness(docs, found) # q.readiness)

FeatureMoved(q, p, b) ==
    LET f == q.on
        moved == Moved(docs, f, q.from, q.to)
        spaces == Spaces({f} \cup docs[f].lists) IN
    /\ f \in Features /\ docs[f] # NoDoc /\ \A l \in docs[f].lists : docs[l] # NoDoc
    /\ q.from \in Readiness /\ q.to \in Readiness
    /\ spaces \subseteq Namespaces /\ \A n \in spaces : MayRecompute(moved, n, {})
    /\ \A x \in Versions : b[x] = moved[x]
    /\ \A n \in Namespaces : /\ moved[n] = docs[n]
                             /\ b[n] = IF n \in spaces THEN Recomputed(moved, n, {}) ELSE docs[n]
    /\ p.settled = spaces /\ p.next = {}
    /\ outdated' = (outdated \/ (docs[f].lists # {} /\ docs[f].readiness # q.from))

FeatureRemoved(q, p, b) ==
    LET f == q.on
        n == NamespaceOf[f]
        removed == [docs EXCEPT ![f] = NoDoc] IN
    /\ f \in Features /\ docs[f] # NoDoc /\ MayRecompute(removed, n, {f})
    /\ b[f] = NoDoc /\ b[n] = Forgotten(Recomputed(removed, n, {f}), f)
    /\ \A x \in Ids : x # f /\ x # n => b[x] = docs[x]
    /\ p.settled = {n} /\ p.next = {}
    /\ outdated' = (outdated \/ docs[f].lists # {})

ListRemoved(q, p, b) ==
    LET l == q.on
        n == NamespaceOf[l] IN
    /\ l \in Lists /\ docs[l] # NoDoc /\ docs[n] # NoDoc
    /\ b[l] = NoDoc /\ b[n] = Forgotten([docs[n] EXCEPT !.ids = @ \ {l}], l)
    /\ \A f \in Saved(docs, docs[l].features) : b[f] = Pulled(docs[f], l)
    /\ \A x \in Ids : x # l /\ x # n /\ x \notin Saved(docs, docs[l].features) => b[x] = docs[x]
    /\ p.settled = {} /\ p.next = {n} /\ outdated' = outdated

LEMMA TransactionFields ==
    ASSUME IInv, NEW r \in Requests, NEW after, NEW settled, NEW next, NEW excluded,
           request' = [request EXCEPT ![r] = Transaction(after, settled, next, excluded)]
    PROVE  /\ request'[r].settled = settled /\ request'[r].next = next
           /\ \A x \in Ids : Overlay(docs, request'[r].writes)[x] = after[x]
<1>1. request'[r] = Transaction(after, settled, next, excluded)
  BY DEF IInv
<1>2. request'[r].settled = settled /\ request'[r].next = next
  BY <1>1 DEF Transaction
<1> QED
  BY <1>2, TransactionOverlay

LEMMA Opened ==
    ASSUME IInv, NEW r \in Requests, Opens(r), Open(r)'
    PROVE  LET b == Overlay(docs, request'[r].writes) IN
           /\ \/ \E f \in Features : FeatureCreated(request[r], request'[r], b, f)
              \/ \E l \in Lists : request[r].pc = "createList" /\ ListCreated(request[r], request'[r], b, l)
              \/ request[r].pc = "updateReadiness" /\ FeatureMoved(request[r], request'[r], b)
              \/ FeatureRemoved(request[r], request'[r], b)
              \/ ListRemoved(request[r], request'[r], b)
           /\ docs' = docs /\ unsettled' = unsettled /\ overlaps' = overlaps
<1> DEFINE q == request[r]
           p == request'[r]
           b == Overlay(docs, request'[r].writes)
<1>1. ~Abort(r)
  BY DEF Abort, Open, InTransaction, IInv, IdleRequest
<1>2. CASE InsertFeature(r)
  <2> DEFINE n == q.on
             new(f) == [ids |-> {f}, default |-> f, manual |-> FALSE, readiness |-> DRAFT]
             model == [readiness |-> DRAFT, lists |-> {}, version |-> q.version]
             after(f) == [docs EXCEPT ![f] = model, ![n] = Joined(n, f, new(f))]
  <2>1. n \in FeatureNamespaces
    BY <1>2 DEF InsertFeature, IInv, RequestOK
  <2>2. PICK f \in Features :
            NextId(f, n) /\ request' = [request EXCEPT ![r] = Transaction(after(f), {}, {n}, {})]
    BY <1>1, <1>2 DEF InsertFeature
  <2>3. docs' = docs /\ outdated' = outdated /\ unsettled' = unsettled /\ overlaps' = overlaps
    BY <1>1, <1>2 DEF InsertFeature
  <2>4. NamespaceOf[f] = n /\ f \notin issued /\ n # f /\ f \in Ids /\ n \in Ids /\ f \in Versions
    BY <2>1, <2>2, Kinds DEF NextId, Available, Members
  <2>5. docs[f] = NoDoc
    BY <2>4 DEF IInv, IssuedOK
  <2> DEFINE a == after(f)
  <2>6. a[f] = model /\ a[n] = Joined(n, f, new(f)) /\ \A x \in Ids : x # f /\ x # n => a[x] = docs[x]
    BY <2>4 DEF IInv
  <2> HIDE DEF a
  <2>7. request' = [request EXCEPT ![r] = Transaction(a, {}, {n}, {})]
    BY <2>2 DEF a
  <2>8. p.settled = {} /\ p.next = {n} /\ \A x \in Ids : b[x] = a[x]
    BY <2>7, TransactionFields
  <2>9. FeatureCreated(q, p, b, f)
    BY <2>1, <2>3, <2>4, <2>5, <2>6, <2>8 DEF FeatureCreated
  <2> QED
    BY <2>3, <2>9
<1>3. CASE InsertList(r)
  <2> DEFINE n == q.on
             found == Saved(docs, q.features)
             new(l) == [ids |-> {l}, default |-> l, manual |-> FALSE, readiness |-> q.readiness,
                        spaces |-> Spaces(q.features)]
             model == [readiness |-> q.readiness, features |-> q.features, version |-> q.version]
             after(l) == [x \in Ids |->
                 CASE x = l -> model
                   [] x = n -> Joined(n, l, new(l))
                   [] x \in found -> [docs[x] EXCEPT !.lists = @ \cup {l}]
                   [] OTHER -> docs[x]]
  <2>1. n \in ListNamespaces /\ q.features \subseteq Features /\ q.pc = "createList"
    BY <1>3 DEF InsertList, IInv, RequestOK
  <2>2. PICK l \in Lists :
            NextId(l, n) /\ request' = [request EXCEPT ![r] = Transaction(after(l), {}, {n}, {})]
    BY <1>1, <1>3 DEF InsertList
  <2>3. /\ docs' = docs /\ unsettled' = unsettled /\ overlaps' = overlaps
        /\ docs[n] = NoDoc \/ Consistent(n, q.features)
        /\ outdated' = (outdated \/ found # q.features \/ CountReadiness(docs, found) # q.readiness)
    BY <1>1, <1>3 DEF InsertList
  <2>4. NamespaceOf[l] = n /\ l \notin issued /\ n # l /\ l \in Ids /\ n \in Ids /\ l \in Versions
    BY <2>1, <2>2, Kinds DEF NextId, Available, Members
  <2>5. docs[l] = NoDoc
    BY <2>4 DEF IInv, IssuedOK
  <2>6. found \subseteq Features /\ l \notin found /\ n \notin found
    BY <2>1, <2>2, Kinds DEF Saved
  <2> HIDE DEF found
  <2> DEFINE a == after(l)
  <2>7. /\ a[l] = model /\ a[n] = Joined(n, l, new(l))
        /\ \A f \in found : a[f] = [docs[f] EXCEPT !.lists = @ \cup {l}]
        /\ \A x \in Ids : x # l /\ x # n /\ x \notin found => a[x] = docs[x]
    BY <2>4, <2>6, Kinds
  <2> HIDE DEF a
  <2>8. request' = [request EXCEPT ![r] = Transaction(a, {}, {n}, {})]
    BY <2>2 DEF a
  <2>9. p.settled = {} /\ p.next = {n} /\ \A x \in Ids : b[x] = a[x]
    BY <2>8, TransactionFields
  <2>10. ListCreated(q, p, b, l)
    <3>1. \A f \in found : b[f] = [docs[f] EXCEPT !.lists = @ \cup {l}]
      BY <2>6, <2>7, <2>9, Kinds
    <3>2. \A x \in Ids : x # l /\ x # n /\ x \notin found => b[x] = docs[x]
      BY <2>7, <2>9
    <3>3. b[l] = model /\ b[n] = Joined(n, l, new(l))
      BY <2>4, <2>7, <2>9
    <3> QED
      BY <2>1, <2>3, <2>4, <2>5, <2>9, <3>1, <3>2, <3>3 DEF ListCreated, found
  <2> QED
    BY <2>1, <2>3, <2>10
<1>4. CASE MoveFeature(r)
  <2> DEFINE f == q.on
             moved == Moved(docs, f, q.from, q.to)
             spaces == Spaces({f} \cup docs[f].lists)
             a == RecomputeAll(moved, spaces)
  <2>1. f \in Features /\ q.from \in Readiness /\ q.to \in Readiness /\ q.pc = "updateReadiness"
    BY <1>4 DEF MoveFeature, IInv, RequestOK
  <2>2. /\ docs[f] # NoDoc /\ \A l \in docs[f].lists : docs[l] # NoDoc
        /\ \A n \in spaces : MayRecompute(moved, n, {})
        /\ request' = [request EXCEPT ![r] = Transaction(a, spaces, {}, {})]
        /\ docs' = docs /\ unsettled' = unsettled /\ overlaps' = overlaps
        /\ outdated' = (outdated \/ (docs[f].lists # {} /\ docs[f].readiness # q.from))
    BY <1>1, <1>4 DEF MoveFeature
  <2>3. docs[f].lists \subseteq Lists
    BY <2>1, <2>2 DEF IInv, Sound, Typed, FeatureModel
  <2>4. spaces \subseteq Namespaces
    BY <2>1, <2>3, Kinds DEF Spaces
  <2>5. \A n \in Namespaces : moved[n] = docs[n]
    BY <2>1, <2>3, Kinds DEF Moved
  <2> HIDE DEF moved, spaces
  <2>6. /\ \A x \in Versions : a[x] = moved[x]
        /\ \A n \in Namespaces : a[n] = IF n \in spaces THEN Recomputed(moved, n, {}) ELSE docs[n]
    BY <2>4, <2>5, Kinds DEF RecomputeAll, Ids
  <2> HIDE DEF a
  <2>7. p.settled = spaces /\ p.next = {} /\ \A x \in Ids : b[x] = a[x]
    BY <2>2, TransactionFields, ZenonT(30)
  <2>8. FeatureMoved(q, p, b)
    BY <2>1, <2>2, <2>4, <2>5, <2>6, <2>7 DEF FeatureMoved, moved, spaces, Ids
  <2> QED
    BY <2>1, <2>2, <2>8
<1>5. CASE RemoveFeature(r)
  <2> DEFINE f == q.on
             n == NamespaceOf[f]
             removed == [docs EXCEPT ![f] = NoDoc]
             doc == Forgotten(Recomputed(removed, n, {f}), f)
             a == [removed EXCEPT ![n] = doc]
  <2>1. f \in Features /\ f \in Ids /\ n \in Ids /\ f # n
    BY <1>5, Kinds DEF RemoveFeature, IInv, RequestOK
  <2>2. /\ docs[f] # NoDoc /\ MayRecompute(removed, n, {f})
        /\ request' = [request EXCEPT ![r] = Transaction(a, {n}, {}, {})]
        /\ docs' = docs /\ unsettled' = unsettled /\ overlaps' = overlaps
        /\ outdated' = (outdated \/ docs[f].lists # {})
    BY <1>1, <1>5 DEF RemoveFeature
  <2> HIDE DEF doc
  <2>3. a[f] = NoDoc /\ a[n] = doc /\ \A x \in Ids : x # f /\ x # n => a[x] = docs[x]
    BY <2>1 DEF IInv
  <2> HIDE DEF a
  <2>4. p.settled = {n} /\ p.next = {} /\ \A x \in Ids : b[x] = a[x]
    BY <2>2, TransactionFields, ZenonT(30)
  <2>5. FeatureRemoved(q, p, b)
    BY <2>1, <2>2, <2>3, <2>4 DEF FeatureRemoved, doc
  <2> QED
    BY <2>2, <2>5
<1>6. CASE RemoveList(r)
  <2> DEFINE l == q.on
             n == NamespaceOf[l]
             kept == [docs[n] EXCEPT !.ids = @ \ {l}]
             pulled == Saved(docs, docs[l].features)
             a == [x \in Ids |->
                 CASE x = l -> NoDoc
                   [] x = n -> Forgotten(kept, l)
                   [] x \in pulled -> Pulled(docs[x], l)
                   [] OTHER -> docs[x]]
  <2>1. l \in Lists /\ l \in Ids /\ n \in Ids /\ l # n
    BY <1>6, Kinds DEF RemoveList, IInv, RequestOK
  <2>2. /\ docs[l] # NoDoc /\ docs[n] # NoDoc
        /\ request' = [request EXCEPT ![r] = Transaction(a, {}, {n}, {l})]
        /\ docs' = docs /\ unsettled' = unsettled /\ overlaps' = overlaps /\ outdated' = outdated
    BY <1>1, <1>6 DEF RemoveList
  <2>3. docs[l].features \subseteq Features
    BY <2>1, <2>2 DEF IInv, Sound, Typed, FeatureListModel
  <2>4. pulled \subseteq Features /\ l \notin pulled /\ n \notin pulled
    BY <2>1, <2>3, Kinds DEF Saved
  <2> HIDE DEF kept, pulled
  <2>5. /\ a[l] = NoDoc /\ a[n] = Forgotten(kept, l)
        /\ \A f \in pulled : a[f] = Pulled(docs[f], l)
        /\ \A x \in Ids : x # l /\ x # n /\ x \notin pulled => a[x] = docs[x]
    BY <2>1, <2>4, Kinds
  <2> HIDE DEF a
  <2>6. p.settled = {} /\ p.next = {n} /\ \A x \in Ids : b[x] = a[x]
    <3> HIDE DEF l, n
    <3>1. request' = [request EXCEPT ![r] = Transaction(a, {}, {n}, {l})]
      BY <2>2
    <3> QED
      BY <3>1, TransactionFields
  <2>7. \A f \in pulled : b[f] = Pulled(docs[f], l)
    BY <2>4, <2>5, <2>6, Kinds
  <2>8. b[l] = NoDoc /\ b[n] = Forgotten(kept, l)
    BY <2>1, <2>5, <2>6
  <2>9. \A x \in Ids : x # l /\ x # n /\ x \notin pulled => b[x] = docs[x]
    BY <2>5, <2>6
  <2>10. ListRemoved(q, p, b)
    BY <2>1, <2>2, <2>6, <2>7, <2>8, <2>9 DEF ListRemoved, kept, pulled
  <2> QED
    BY <2>2, <2>10
<1> QED
  BY <1>2, <1>3, <1>4, <1>5, <1>6 DEF Opens

-----------------------------------------------------------------------------
(* Every document keeps its form *)

Versioned(d) ==
    /\ \A f \in Features : d[f] # NoDoc => d[f] \in FeatureModel
    /\ \A l \in Lists : d[l] # NoDoc => d[l] \in FeatureListModel

(* The versions of a namespace can be compared: they are finitely many and *)
(* of one kind.                                                            *)
LEMMA MembersGraded ==
    ASSUME NEW d, Versioned(d), NEW n \in Namespaces, NEW ids \in SUBSET Members(n)
    PROVE  IsFiniteSet(Saved(d, ids)) /\ Graded(d, Saved(d, ids))
<1>1. ids \subseteq Features \/ ids \subseteq Lists
  <2>1. CASE n \in FeatureNamespaces
    BY <2>1, Kinds DEF Members
  <2>2. CASE n \in ListNamespaces
    BY <2>2, Kinds DEF Members
  <2> QED
    BY <2>1, <2>2 DEF Namespaces
<1>2. IsFiniteSet(Saved(d, ids))
  BY <1>1, FeatureCatalogAssumption, FS_Subset DEF Saved
<1>3. Graded(d, Saved(d, ids))
  BY <1>1 DEF Graded, Saved, Versioned, FeatureModel, FeatureListModel
<1> QED
  BY <1>2, <1>3

LEMMA ResizedOK ==
    ASSUME NEW n \in Namespaces, NEW doc, NamespaceOK(n, doc), NEW ids \in SUBSET Members(n)
    PROVE  /\ NamespaceOK(n, [doc EXCEPT !.ids = ids])
           /\ SameSpaces(n, doc, [doc EXCEPT !.ids = ids])
<1> DEFINE new == [doc EXCEPT !.ids = ids]
<1>1. CASE n \in FeatureNamespaces
  <2>1. doc \in FeatureNamespaceModel /\ ids \subseteq Features
    BY <1>1, Kinds DEF NamespaceOK, NamespaceModel, Members
  <2>2. new \in FeatureNamespaceModel /\ new.ids = ids /\ new.default = doc.default
    BY <2>1 DEF FeatureNamespaceModel
  <2> QED
    BY <1>1, <2>2, Kinds DEF NamespaceOK, NamespaceModel, SameSpaces
<1>2. CASE n \in ListNamespaces
  <2>1. doc \in FeatureListNamespaceModel /\ ids \subseteq Lists
    BY <1>2, Kinds DEF NamespaceOK, NamespaceModel, Members
  <2>2. /\ new \in FeatureListNamespaceModel /\ new.ids = ids /\ new.default = doc.default
        /\ new.spaces = doc.spaces
    BY <2>1 DEF FeatureListNamespaceModel
  <2> QED
    BY <1>2, <2>2, Kinds DEF NamespaceOK, NamespaceModel, SameSpaces
<1> QED
  BY <1>1, <1>2 DEF Namespaces

LEMMA RecomputedOK ==
    ASSUME NEW d, Versioned(d), NEW n \in Namespaces, NEW excluded,
           NamespaceOK(n, d[n]), MayRecompute(d, n, excluded)
    PROVE  /\ NamespaceOK(n, Recomputed(d, n, excluded))
           /\ SameSpaces(n, d[n], Recomputed(d, n, excluded))
<1> DEFINE ids == d[n].ids \ excluded
           default == IF d[n].manual THEN d[n].default ELSE Best(d, Saved(d, ids))
           new == Recomputed(d, n, excluded)
<1>1. d[n] \in NamespaceModel(n) /\ d[n].ids \subseteq Members(n) /\ d[n].default \in DefaultsOf(n)
  <2>1. d[n] \in NamespaceModel(n) /\ d[n].ids \subseteq Members(n)
    BY DEF NamespaceOK
  <2> QED
    BY <2>1 DEF NamespaceModel, DefaultsOf, FeatureNamespaceModel, FeatureListNamespaceModel
<1>2. CASE ids = {} /\ ~d[n].manual
  <2>1. new = [d[n] EXCEPT !.ids = {}] /\ {} \in SUBSET Members(n)
    BY <1>2 DEF Recomputed
  <2> QED
    BY <2>1, ResizedOK
<1>3. CASE ~(ids = {} /\ ~d[n].manual)
  <2>1. new = [d[n] EXCEPT !.ids = ids, !.default = default, !.readiness = d[default].readiness]
    BY <1>3 DEF Recomputed
  <2>2. default \in DefaultsOf(n) /\ d[default] # NoDoc
    <3>1. CASE d[n].manual
      BY <1>1, <3>1 DEF MayRecompute
    <3>2. CASE ~d[n].manual
      <4>1. Saved(d, ids) # {} /\ ids \in SUBSET Members(n)
        BY <1>1, <1>3, <3>2 DEF MayRecompute
      <4>2. IsFiniteSet(Saved(d, ids)) /\ Graded(d, Saved(d, ids))
        BY <4>1, MembersGraded
      <4>3. Best(d, Saved(d, ids)) \in Saved(d, ids)
        BY <4>1, <4>2, BestExists
      <4>4. Members(n) \subseteq DefaultsOf(n)
        BY Kinds DEF Members, DefaultsOf, Namespaces
      <4> QED
        BY <3>2, <4>1, <4>3, <4>4 DEF Saved
    <3> QED
      BY <3>1, <3>2
  <2> HIDE DEF default, new
  <2>3. CASE n \in FeatureNamespaces
    <3>1. default \in Features /\ d[default].readiness \in Readiness /\ ids \subseteq Features
      <4>1. Members(n) \subseteq Features /\ DefaultsOf(n) = Features
        BY <2>3, Kinds DEF Members, DefaultsOf
      <4> QED
        BY <1>1, <2>2, <4>1 DEF Versioned, FeatureModel
    <3>2. d[n] \in FeatureNamespaceModel
      BY <1>1, <2>3 DEF NamespaceModel
    <3>3. new \in FeatureNamespaceModel /\ new.ids = ids /\ new.default = default
      BY <2>1, <3>1, <3>2 DEF FeatureNamespaceModel
    <3> QED
      BY <1>1, <2>2, <2>3, <3>3, Kinds DEF NamespaceOK, NamespaceModel, SameSpaces, new
  <2>4. CASE n \in ListNamespaces
    <3>1. default \in Lists /\ d[default].readiness \in Distribution /\ ids \subseteq Lists
      <4>1. Members(n) \subseteq Lists /\ DefaultsOf(n) = Lists
        BY <2>4, Kinds DEF Members, DefaultsOf
      <4> QED
        BY <1>1, <2>2, <4>1 DEF Versioned, FeatureListModel
    <3>2. d[n] \in FeatureListNamespaceModel
      BY <1>1, <2>4, Kinds DEF NamespaceModel
    <3>3. /\ new \in FeatureListNamespaceModel /\ new.ids = ids /\ new.default = default
          /\ new.spaces = d[n].spaces
      BY <2>1, <3>1, <3>2 DEF FeatureListNamespaceModel
    <3> QED
      BY <1>1, <2>2, <2>4, <3>3, Kinds DEF NamespaceOK, NamespaceModel, SameSpaces, new
  <2> QED
    BY <2>3, <2>4 DEF Namespaces
<1> QED
  BY <1>2, <1>3

LEMMA SoundVersioned ==
    ASSUME NEW d, Sound(d)
    PROVE  Versioned(d)
BY DEF Sound, Typed, Versioned

LEMMA JoinedOK ==
    ASSUME ModelsOK, NEW n \in Namespaces, NEW x \in Members(n), NEW new, NamespaceOK(n, new)
    PROVE  NamespaceOK(n, Joined(n, x, new))
<1>1. CASE docs[n] = NoDoc
  BY <1>1 DEF Joined
<1>2. CASE docs[n] # NoDoc
  <2>1. NamespaceOK(n, docs[n])
    BY <1>2 DEF ModelsOK, Modelled
  <2>2. docs[n].ids \cup {x} \in SUBSET Members(n)
    BY <2>1 DEF NamespaceOK
  <2>3. Joined(n, x, new) = [docs[n] EXCEPT !.ids = docs[n].ids \cup {x}]
    BY <1>2 DEF Joined
  <2> QED
    BY <2>1, <2>2, <2>3, ResizedOK
<1> QED
  BY <1>1, <1>2

LEMMA OpenedModels ==
    ASSUME IInv, IInv', ModelsOK, NEW r \in Requests, Opens(r), Open(r)'
    PROVE  Modelled(Overlay(docs, request'[r].writes)) /\ request'[r].settled \subseteq Namespaces
<1> DEFINE q == request[r]
           p == request'[r]
           b == Overlay(docs, request'[r].writes)
<1>1. \A n \in Namespaces : docs[n] # NoDoc => NamespaceOK(n, docs[n])
  BY DEF ModelsOK, Modelled
<1>2. /\ \/ \E f \in Features : FeatureCreated(q, p, b, f)
         \/ \E l \in Lists : q.pc = "createList" /\ ListCreated(q, p, b, l)
         \/ q.pc = "updateReadiness" /\ FeatureMoved(q, p, b)
         \/ FeatureRemoved(q, p, b)
         \/ ListRemoved(q, p, b)
      /\ docs' = docs
  BY Opened
<1>3. Sound(b) /\ Versioned(b) /\ Versioned(docs)
  BY <1>2, SoundVersioned DEF IInv, OpenOK
<1> HIDE DEF b
<1>4. CASE \E f \in Features : FeatureCreated(q, p, b, f)
  <2>1. PICK f \in Features : FeatureCreated(q, p, b, f)
    BY <1>4
  <2> DEFINE n == q.on
             new == [ids |-> {f}, default |-> f, manual |-> FALSE, readiness |-> DRAFT]
  <2>2. /\ n \in FeatureNamespaces /\ NamespaceOf[f] = n /\ b[n] = Joined(n, f, new)
        /\ \A x \in Ids : x # f /\ x # n => b[x] = docs[x]
        /\ p.settled = {}
    BY <2>1 DEF FeatureCreated
  <2>3. f \in Members(n) /\ n \in Namespaces
    BY <2>2, Kinds DEF Members
  <2>4. NamespaceOK(n, new)
    BY <2>2, <2>3, Kinds DEF NamespaceOK, NamespaceModel, FeatureNamespaceModel, Readiness, DRAFT,
       DEPRECATED, PRODUCTION_READY
  <2>5. NamespaceOK(n, b[n])
    <3> HIDE DEF n, new
    <3> QED
      BY <2>2, <2>3, <2>4, JoinedOK
  <2> QED
    BY <1>1, <2>2, <2>5, Kinds DEF Modelled, b
<1>5. CASE \E l \in Lists : q.pc = "createList" /\ ListCreated(q, p, b, l)
  <2>1. PICK l \in Lists : q.pc = "createList" /\ ListCreated(q, p, b, l)
    BY <1>5
  <2> DEFINE n == q.on
             new == [ids |-> {l}, default |-> l, manual |-> FALSE, readiness |-> q.readiness,
                     spaces |-> Spaces(q.features)]
  <2>2. /\ n \in ListNamespaces /\ NamespaceOf[l] = n /\ q.features \subseteq Features
        /\ b[n] = Joined(n, l, new) /\ p.settled = {}
        /\ \A x \in Ids : x # l /\ x # n /\ x \notin Saved(docs, q.features) => b[x] = docs[x]
    BY <2>1 DEF ListCreated
  <2>3. l \in Members(n) /\ n \in Namespaces
    BY <2>2, Kinds DEF Members
  <2>4. q.readiness \in Distribution
    BY <2>1 DEF IInv, RequestOK
  <2>5. Spaces(q.features) \subseteq FeatureNamespaces
    BY <2>2, Kinds DEF Spaces
  <2>6. NamespaceOK(n, new)
    <3>1. new \in FeatureListNamespaceModel
      BY <2>4, <2>5 DEF FeatureListNamespaceModel
    <3> QED
      BY <2>2, <2>3, <3>1, Kinds DEF NamespaceOK, NamespaceModel
  <2>7. NamespaceOK(n, b[n])
    <3> HIDE DEF n, new
    <3> QED
      BY <2>2, <2>3, <2>6, JoinedOK
  <2>8. \A m \in Namespaces : m # n => b[m] = docs[m]
    BY <2>2, Kinds DEF Saved
  <2> QED
    BY <1>1, <2>2, <2>7, <2>8 DEF Modelled, b
<1>6. CASE q.pc = "updateReadiness" /\ FeatureMoved(q, p, b)
  <2> DEFINE moved == Moved(docs, q.on, q.from, q.to)
             spaces == Spaces({q.on} \cup docs[q.on].lists)
  <2>1. /\ spaces \subseteq Namespaces /\ \A n \in spaces : MayRecompute(moved, n, {})
        /\ \A x \in Versions : b[x] = moved[x]
        /\ \A n \in Namespaces : /\ moved[n] = docs[n]
                                 /\ b[n] = IF n \in spaces THEN Recomputed(moved, n, {}) ELSE docs[n]
        /\ p.settled = spaces
    BY <1>6 DEF FeatureMoved
  <2>2. Versioned(moved)
    BY <1>3, <2>1, Kinds DEF Versioned
  <2> HIDE DEF moved, spaces
  <2>3. ASSUME NEW n \in Namespaces, n \in spaces
        PROVE  NamespaceOK(n, b[n])
    <3>1. MayRecompute(moved, n, {}) /\ moved[n] = docs[n] /\ b[n] = Recomputed(moved, n, {})
      BY <2>1, <2>3
    <3>2. docs[n] # NoDoc
      BY <3>1 DEF MayRecompute
    <3> QED
      BY <1>1, <2>2, <3>1, <3>2, RecomputedOK
  <2> QED
    BY <1>1, <2>1, <2>3 DEF Modelled, b
<1>7. CASE FeatureRemoved(q, p, b)
  <2> DEFINE f == q.on
             n == NamespaceOf[f]
             removed == [docs EXCEPT ![f] = NoDoc]
             doc == Recomputed(removed, n, {f})
  <2>1. /\ f \in Features /\ MayRecompute(removed, n, {f}) /\ b[n] = Forgotten(doc, f)
        /\ \A x \in Ids : x # f /\ x # n => b[x] = docs[x]
        /\ p.settled = {n}
    BY <1>7 DEF FeatureRemoved
  <2>2. n \in Namespaces /\ n # f /\ f \in Ids /\ n \in Ids
    BY <2>1, Kinds
  <2>3. Versioned(removed) /\ removed[n] = docs[n]
    <3>1. \A x \in Ids : removed[x] = IF x = f THEN NoDoc ELSE docs[x]
      BY SMTT(30) DEF IInv
    <3> QED
      BY <1>3, <2>2, <3>1, Kinds, SMTT(30) DEF Versioned
  <2>4. docs[n] # NoDoc
    BY <2>1, <2>3 DEF MayRecompute
  <2> HIDE DEF removed, n, doc
  <2>5. NamespaceOK(n, doc)
    BY <1>1, <2>1, <2>2, <2>3, <2>4, RecomputedOK DEF doc
  <2>6. b[n] # NoDoc => NamespaceOK(n, b[n])
    BY <2>1, <2>5 DEF Forgotten
  <2>7. \A m \in Namespaces : m # n => b[m] = docs[m]
    BY <2>1, Kinds
  <2> QED
    BY <1>1, <2>1, <2>2, <2>6, <2>7 DEF Modelled, b
<1>8. CASE ListRemoved(q, p, b)
  <2> DEFINE l == q.on
             n == NamespaceOf[l]
             kept == [docs[n] EXCEPT !.ids = docs[n].ids \ {l}]
  <2>1. /\ l \in Lists /\ docs[l] # NoDoc /\ docs[n] # NoDoc /\ b[n] = Forgotten(kept, l)
        /\ \A x \in Ids : x # l /\ x # n /\ x \notin Saved(docs, docs[l].features) => b[x] = docs[x]
        /\ p.settled = {}
    BY <1>8 DEF ListRemoved
  <2>2. n \in Namespaces
    BY <2>1, Kinds
  <2>3. NamespaceOK(n, kept)
    <3>1. docs[n].ids \ {l} \in SUBSET Members(n)
      BY <1>1, <2>1, <2>2 DEF NamespaceOK
    <3> QED
      BY <1>1, <2>1, <2>2, <3>1, ResizedOK
  <2> HIDE DEF kept
  <2>4. b[n] # NoDoc => NamespaceOK(n, b[n])
    BY <2>1, <2>3 DEF Forgotten
  <2>5. \A m \in Namespaces : m # n => b[m] = docs[m]
    <3>1. docs[l].features \subseteq Features
      BY <1>3, <2>1 DEF Versioned, FeatureListModel
    <3> QED
      BY <2>1, <3>1, Kinds DEF Saved
  <2> QED
    BY <1>1, <2>1, <2>4, <2>5 DEF Modelled, b
<1> QED
  BY <1>2, <1>4, <1>5, <1>6, <1>7, <1>8

LEMMA OwnFields ==
    ASSUME IInv, ModelsOK, NEW r \in Requests, Starts(r) \/ Recomputes(r) \/ Commit(r) \/ Fail(r)
    PROVE  FieldsOK(request'[r])
<1>1. request = [s \in Requests |-> request[s]] /\ docs = [x \in Ids |-> docs[x]]
  BY SMTT(30) DEF IInv
<1>2. ASSUME request'[r].pc \in {"idle", "recompute"} PROVE FieldsOK(request'[r])
  BY <1>2 DEF FieldsOK
<1>3. CASE Starts(r)
  <2>1. ASSUME NEW q, Start(r, q), FieldsOK(q) PROVE FieldsOK(request'[r])
    BY <1>1, <2>1 DEF Start
  <2>2. CASE CreateFeature(r)
    BY <1>1, <2>2 DEF CreateFeature, Start, FieldsOK
  <2>3. CASE CreateList(r)
    BY <1>1, <2>3 DEF CreateList, Start, FieldsOK
  <2>4. CASE UpdateReadiness(r)
    BY <1>1, <2>4 DEF UpdateReadiness, Start, FieldsOK
  <2>5. CASE DeleteFeature(r)
    BY <1>1, <2>5 DEF DeleteFeature, Start, FieldsOK
  <2>6. CASE DeleteList(r)
    BY <1>1, <2>6 DEF DeleteList, Start, FieldsOK
  <2>7. CASE SetMode(r)
    <3>1. PICK n \in Saved(docs, Namespaces) :
              Start(r, [pc |-> "setField", on |-> n, field |-> "manual", value |-> ~docs[n].manual])
      BY <2>7 DEF SetMode
    <3>2. (~docs[n].manual) \in BOOLEAN
      OBVIOUS
    <3> QED
      BY <2>1, <3>1, <3>2 DEF FieldsOK
  <2>8. CASE SetDefault(r)
    <3>a. PICK n \in Saved(docs, Namespaces) : \E x \in Choosable(n) :
              Start(r, [pc |-> "setField", on |-> n, field |-> "default", value |-> x])
      BY <2>8 DEF SetDefault
    <3>1. PICK x \in Choosable(n) :
              Start(r, [pc |-> "setField", on |-> n, field |-> "default", value |-> x])
      BY <3>a
    <3>2. x \in DefaultsOf(n)
      BY Kinds DEF Choosable, DefaultsOf, Saved, Namespaces
    <3> QED
      BY <2>1, <3>1, <3>2 DEF FieldsOK
  <2> QED
    BY <1>3, <2>2, <2>3, <2>4, <2>5, <2>6, <2>7, <2>8 DEF Starts
<1>4. CASE Abort(r)
  BY <1>1, <1>2, <1>4 DEF Abort, IdleRequest
<1>5. CASE ReadNamespace(r) /\ ~Abort(r)
  <2>1. PICK n \in request[r].next :
            /\ docs[n] # NoDoc
            /\ request' = [request EXCEPT ![r] = [pc |-> "choose", on |-> n, seen |-> docs[n],
                                                  excluded |-> request[r].excluded]]
    BY <1>5 DEF ReadNamespace
  <2>2. n \in Namespaces
    BY <1>5 DEF ReadNamespace, IInv, RequestOK
  <2>3. NamespaceOK(n, docs[n])
    BY <2>1, <2>2 DEF ModelsOK, Modelled
  <2> QED
    BY <1>1, <2>1, <2>3 DEF FieldsOK
<1>6. CASE ChooseDefault(r) /\ ~Abort(r)
  <2> DEFINE q == request[r]
             n == q.on
             d == [docs EXCEPT ![n] = q.seen]
             after == Recomputed(d, n, q.excluded)
  <2>1. /\ MayRecompute(d, n, q.excluded)
        /\ request' = [request EXCEPT ![r] = [pc |-> "write", on |-> n, seen |-> q.seen, after |-> after]]
        /\ q.pc = "choose"
    BY <1>6 DEF ChooseDefault
  <2>2. n \in Namespaces /\ NamespaceOK(n, q.seen)
    BY <2>1 DEF IInv, RequestOK, ModelsOK, FieldsOK
  <2>3. d[n] = q.seen /\ \A x \in Versions : d[x] = docs[x]
    BY <1>1, <2>2, Kinds DEF Ids
  <2>4. Versioned(d)
    <3>1. Versioned(docs)
      BY SoundVersioned DEF IInv
    <3> QED
      BY <2>3, <3>1, Kinds DEF Versioned
  <2>5. NamespaceOK(n, after) /\ SameSpaces(n, q.seen, after)
    <3> HIDE DEF d, n
    <3>1. NamespaceOK(n, d[n])
      BY <2>2, <2>3
    <3>2. NamespaceOK(n, Recomputed(d, n, q.excluded)) /\ SameSpaces(n, d[n], Recomputed(d, n, q.excluded))
      BY <2>1, <2>2, <2>4, <3>1, RecomputedOK
    <3> QED
      BY <2>3, <3>2
  <2> HIDE DEF after
  <2> QED
    BY <1>1, <2>1, <2>2, <2>5 DEF FieldsOK
<1>7. CASE WriteNamespace(r) \/ SetField(r) \/ Commit(r)
  <2>1. request'[r].pc \in {"idle", "recompute", "choose", "write"}
    BY <1>7, Recomputing DEF Recomputes
  <2>2. CASE WriteNamespace(r) /\ ~Abort(r)
    <3>1. \E w : request' = [Doom(r, w) EXCEPT ![r] = IdleRequest]
      BY <2>2 DEF WriteNamespace
    <3>2. request'[r] = IdleRequest
      BY <3>1 DEF Doom
    <3> QED
      BY <1>2, <3>2 DEF IdleRequest
  <2>3. CASE SetField(r) /\ ~Abort(r)
    <3>1. \E w, n : request' = [Doom(r, w) EXCEPT ![r] = [pc |-> "recompute", next |-> n, excluded |-> {}]]
      BY <2>3 DEF SetField
    <3>2. request'[r].pc = "recompute"
      BY <3>1 DEF Doom
    <3> QED
      BY <1>2, <3>2
  <2>4. CASE Commit(r) /\ ~Abort(r)
    <3>1. PICK w, n, x : request' = [Doom(r, w) EXCEPT ![r] =
              IF n = {} THEN IdleRequest ELSE [pc |-> "recompute", next |-> n, excluded |-> x]]
      BY <2>4 DEF Commit
    <3>2. request'[r] = IF n = {} THEN IdleRequest ELSE [pc |-> "recompute", next |-> n, excluded |-> x]
      BY <3>1 DEF Doom
    <3>3. request'[r].pc \in {"idle", "recompute"}
      BY <3>2 DEF IdleRequest
    <3> QED
      BY <1>2, <3>3
  <2> QED
    BY <1>4, <1>7, <2>2, <2>3, <2>4
<1> QED
  BY <1>3, <1>4, <1>5, <1>6, <1>7 DEF Recomputes, Fail

(* Namespaces are also written outside of transactions: neither what they  *)
(* list nor, for lists, the features they are for changes then.            *)
LEMMA NamespacesWritten ==
    ASSUME IInv, ModelsOK, NEW r \in Requests, Recomputes(r), NEW n \in Namespaces
    PROVE  \/ docs'[n] = docs[n]
           \/ docs[n] # NoDoc /\ NamespaceOK(n, docs'[n]) /\ SameSpaces(n, docs[n], docs'[n])
<1> DEFINE q == request[r]
<1>1. docs = [x \in Ids |-> docs[x]] /\ n \in Ids
  BY Kinds DEF IInv
<1>2. CASE ReadNamespace(r) \/ ChooseDefault(r) \/ Abort(r)
  BY <1>2 DEF ReadNamespace, ChooseDefault, Abort
<1>3. CASE WriteNamespace(r) /\ ~Abort(r)
  <2> DEFINE doc == [x \in DOMAIN docs[n] |-> IF x \in FieldsToWrite(q.seen, q.after) THEN q.after[x]
                                              ELSE docs[n][x]]
  <2>1. docs'[n] = docs[n] \/ (q.on = n /\ docs[n] # NoDoc /\ docs'[n] = doc)
    BY <1>1, <1>3 DEF WriteNamespace
  <2> SUFFICES ASSUME q.on = n, docs[n] # NoDoc
               PROVE  NamespaceOK(n, doc) /\ SameSpaces(n, docs[n], doc)
    BY <2>1
  <2>2. /\ NamespaceOK(n, docs[n]) /\ NamespaceOK(n, q.seen) /\ NamespaceOK(n, q.after)
        /\ SameSpaces(n, q.seen, q.after)
    BY <1>3 DEF ModelsOK, Modelled, FieldsOK, WriteNamespace
  <2>3. CASE n \in FeatureNamespaces
    <3>1. docs[n] \in FeatureNamespaceModel /\ q.after \in FeatureNamespaceModel
      BY <2>2, <2>3 DEF NamespaceOK, NamespaceModel
    <3>2. doc = [ids |-> doc.ids, default |-> doc.default, manual |-> doc.manual,
                 readiness |-> doc.readiness]
      BY <3>1 DEF FeatureNamespaceModel
    <3>3. /\ doc.ids \in {docs[n].ids, q.after.ids}
          /\ doc.default \in {docs[n].default, q.after.default}
          /\ doc.manual \in {docs[n].manual, q.after.manual}
          /\ doc.readiness \in {docs[n].readiness, q.after.readiness}
      BY <3>1 DEF FeatureNamespaceModel
    <3> HIDE DEF doc
    <3>4. doc \in FeatureNamespaceModel
      BY <3>1, <3>2, <3>3 DEF FeatureNamespaceModel
    <3> QED
      BY <2>2, <2>3, <3>3, <3>4, Kinds DEF NamespaceOK, NamespaceModel, SameSpaces
  <2>4. CASE n \in ListNamespaces
    <3>1. /\ docs[n] \in FeatureListNamespaceModel /\ q.after \in FeatureListNamespaceModel
          /\ q.seen \in FeatureListNamespaceModel
      BY <2>2, <2>4, Kinds DEF NamespaceOK, NamespaceModel
    <3>2. doc = [ids |-> doc.ids, default |-> doc.default, manual |-> doc.manual,
                 readiness |-> doc.readiness, spaces |-> doc.spaces]
      BY <3>1 DEF FeatureListNamespaceModel
    <3>3. /\ doc.ids \in {docs[n].ids, q.after.ids}
          /\ doc.default \in {docs[n].default, q.after.default}
          /\ doc.manual \in {docs[n].manual, q.after.manual}
          /\ doc.readiness \in {docs[n].readiness, q.after.readiness}
      BY <3>1 DEF FeatureListNamespaceModel
    <3>4. doc.spaces = docs[n].spaces
      <4>1. "spaces" \notin FieldsToWrite(q.seen, q.after)
        BY <2>2, <2>4 DEF FieldsToWrite, SameSpaces
      <4> QED
        BY <3>1, <4>1 DEF FeatureListNamespaceModel
    <3> HIDE DEF doc
    <3>5. doc \in FeatureListNamespaceModel
      BY <3>1, <3>2, <3>3, <3>4 DEF FeatureListNamespaceModel
    <3> QED
      BY <2>2, <2>4, <3>3, <3>4, <3>5, Kinds DEF NamespaceOK, NamespaceModel, SameSpaces
  <2> QED
    BY <2>3, <2>4 DEF Namespaces
<1>4. CASE SetField(r) /\ ~Abort(r)
  <2> DEFINE doc == [docs[n] EXCEPT ![q.field] = q.value]
  <2>1. docs'[n] = docs[n] \/ (q.on = n /\ docs[n] # NoDoc /\ docs'[n] = doc)
    BY <1>1, <1>4 DEF SetField
  <2> SUFFICES ASSUME q.on = n, docs[n] # NoDoc
               PROVE  NamespaceOK(n, doc) /\ SameSpaces(n, docs[n], doc)
    BY <2>1
  <2>2. /\ NamespaceOK(n, docs[n]) /\ q.field \in {"manual", "default"}
        /\ q.value \in IF q.field = "manual" THEN BOOLEAN ELSE DefaultsOf(n)
    BY <1>4 DEF ModelsOK, Modelled, FieldsOK, SetField, IInv, RequestOK
  <2>3. CASE n \in FeatureNamespaces
    <3>1. docs[n] \in FeatureNamespaceModel /\ DefaultsOf(n) = Features
      BY <2>2, <2>3, Kinds DEF NamespaceOK, NamespaceModel, DefaultsOf
    <3>2. /\ doc \in FeatureNamespaceModel /\ doc.ids = docs[n].ids
          /\ doc.default = IF q.field = "default" THEN q.value ELSE docs[n].default
      BY <2>2, <3>1 DEF FeatureNamespaceModel
    <3> QED
      BY <2>2, <2>3, <3>2, Kinds DEF NamespaceOK, NamespaceModel, SameSpaces
  <2>4. CASE n \in ListNamespaces
    <3>1. docs[n] \in FeatureListNamespaceModel /\ DefaultsOf(n) = Lists
      BY <2>2, <2>4, Kinds DEF NamespaceOK, NamespaceModel, DefaultsOf
    <3>2. /\ doc \in FeatureListNamespaceModel /\ doc.ids = docs[n].ids
          /\ doc.default = IF q.field = "default" THEN q.value ELSE docs[n].default
          /\ doc.spaces = docs[n].spaces
      BY <2>2, <3>1 DEF FeatureListNamespaceModel
    <3> QED
      BY <2>2, <2>4, <3>2, Kinds DEF NamespaceOK, NamespaceModel, SameSpaces
  <2> QED
    BY <2>3, <2>4 DEF Namespaces
<1> QED
  BY <1>2, <1>3, <1>4 DEF Recomputes

LEMMA HistoryTyped ==
    ASSUME IInv, ModelsOK, NEW r \in Requests,
           Starts(r) \/ Opens(r) \/ Recomputes(r) \/ Commit(r) \/ Fail(r)
    PROVE  outdated' \in BOOLEAN /\ unsettled' \subseteq Namespaces /\ overlaps' \in 0..MaxOverlaps
<1>1. outdated \in BOOLEAN /\ unsettled \subseteq Namespaces /\ overlaps \in 0..MaxOverlaps
  BY DEF ModelsOK
<1>2. CASE Starts(r)
  <2>1. \E q : Start(r, q)
    BY <1>2 DEF Starts, CreateFeature, CreateList, UpdateReadiness, DeleteFeature, DeleteList,
       SetMode, SetDefault
  <2> QED
    BY <1>1, <2>1, FeatureCatalogAssumption DEF Start
<1>3. CASE Abort(r)
  BY <1>1, <1>3 DEF Abort
<1>4. CASE Opens(r) /\ ~Abort(r)
  <2>1. InsertFeature(r) => UNCHANGED <<outdated, unsettled, overlaps>>
    BY <1>4 DEF InsertFeature
  <2>2. InsertList(r) => outdated' \in BOOLEAN /\ UNCHANGED <<unsettled, overlaps>>
    BY <1>1, <1>4 DEF InsertList
  <2>3. MoveFeature(r) => outdated' \in BOOLEAN /\ UNCHANGED <<unsettled, overlaps>>
    BY <1>1, <1>4 DEF MoveFeature
  <2>4. RemoveFeature(r) => outdated' \in BOOLEAN /\ UNCHANGED <<unsettled, overlaps>>
    BY <1>1, <1>4 DEF RemoveFeature
  <2>5. RemoveList(r) => UNCHANGED <<outdated, unsettled, overlaps>>
    BY <1>4 DEF RemoveList
  <2> QED
    BY <1>1, <1>4, <2>1, <2>2, <2>3, <2>4, <2>5 DEF Opens
<1>5. CASE ~Abort(r) /\ (ReadNamespace(r) \/ ChooseDefault(r))
  BY <1>1, <1>5 DEF ReadNamespace, ChooseDefault
<1>6. CASE ~Abort(r) /\ WriteNamespace(r)
  BY <1>1, <1>6 DEF WriteNamespace, Unsettled
<1>7. CASE ~Abort(r) /\ SetField(r)
  <2>1. request[r].on \in Namespaces
    BY <1>7 DEF SetField, IInv, RequestOK
  <2> QED
    BY <1>1, <1>7, <2>1 DEF SetField, Unsettled
<1>8. CASE ~Abort(r) /\ Commit(r)
  <2>1. request[r].next \subseteq Namespaces
    BY <1>8 DEF Commit, InTransaction, IInv, RequestOK, TransactionForm
  <2> QED
    BY <1>1, <1>8, <2>1 DEF Commit, Unsettled
<1> QED
  BY <1>2, <1>3, <1>4, <1>5, <1>6, <1>7, <1>8 DEF Recomputes, Fail

LEMMA OpensOpen ==
    ASSUME IInv, NEW r \in Requests, Opens(r), request'[r].pc # "idle"
    PROVE  Open(r)'
<1>1. ~Abort(r)
  BY DEF Abort, IInv, IdleRequest
<1>2. ASSUME NEW after, NEW settled, NEW next, NEW excluded,
             request' = [request EXCEPT ![r] = Transaction(after, settled, next, excluded)]
      PROVE  Open(r)'
  <2>1. request'[r] = Transaction(after, settled, next, excluded)
    BY <1>2 DEF IInv
  <2>2. request'[r].pc = "transaction" /\ request'[r].doomed = FALSE
    BY <2>1 DEF Transaction
  <2> QED
    BY <2>2 DEF Open, InTransaction
<1>3. CASE InsertFeature(r)
  <2>1. \E after, next : request' = [request EXCEPT ![r] = Transaction(after, {}, next, {})]
    BY <1>1, <1>3 DEF InsertFeature
  <2> QED
    BY <1>2, <2>1
<1>4. CASE InsertList(r)
  <2>1. \E after, next : request' = [request EXCEPT ![r] = Transaction(after, {}, next, {})]
    BY <1>1, <1>4 DEF InsertList
  <2> QED
    BY <1>2, <2>1
<1>5. CASE MoveFeature(r)
  <2>1. \E after, settled : request' = [request EXCEPT ![r] = Transaction(after, settled, {}, {})]
    BY <1>1, <1>5 DEF MoveFeature
  <2> QED
    BY <1>2, <2>1
<1>6. CASE RemoveFeature(r)
  <2>1. \E after, settled : request' = [request EXCEPT ![r] = Transaction(after, settled, {}, {})]
    BY <1>1, <1>6 DEF RemoveFeature
  <2> QED
    BY <1>2, <2>1
<1>7. CASE RemoveList(r)
  <2>1. \E after, next, excluded : request' = [request EXCEPT ![r] = Transaction(after, {}, next, excluded)]
    BY <1>1, <1>7 DEF RemoveList
  <2> QED
    BY <1>2, <2>1, ZenonT(30)
<1> QED
  BY <1>3, <1>4, <1>5, <1>6, <1>7 DEF Opens

(* Documents change when a transaction commits, or one namespace is        *)
(* recomputed outside of one.                                              *)
LEMMA DocsWritten ==
    ASSUME IInv, ModelsOK, NEW r \in Requests,
           Starts(r) \/ Opens(r) \/ Recomputes(r) \/ Commit(r) \/ Fail(r)
    PROVE  \/ Commit(r) /\ Open(r) /\ \A x \in Ids : docs'[x] = Overlay(docs, request[r].writes)[x]
           \/ /\ \A x \in Versions : docs'[x] = docs[x]
              /\ \A n \in Namespaces :
                    \/ docs'[n] = docs[n]
                    \/ docs[n] # NoDoc /\ NamespaceOK(n, docs'[n]) /\ SameSpaces(n, docs[n], docs'[n])
<1>1. CASE Starts(r) \/ Opens(r)
  <2>1. docs' = docs
    BY <1>1, Opening DEF Starts, CreateFeature, CreateList, UpdateReadiness, DeleteFeature, DeleteList,
       SetMode, SetDefault, Start
  <2> QED
    BY <2>1
<1>2. CASE Recomputes(r)
  <2>1. ~Commit(r)
    BY <1>2 DEF Recomputes, ReadNamespace, ChooseDefault, WriteNamespace, SetField, Commit, InTransaction
  <2> QED
    BY <1>2, <2>1, VersionsWritten, NamespacesWritten
<1>3. CASE Commit(r)
  <2>1. CASE Open(r)
    BY <1>3, <2>1 DEF Commit, Open, Overlay
  <2>2. CASE ~Open(r)
    BY <1>3, <2>2 DEF Commit, Open, Abort
  <2> QED
    BY <2>1, <2>2
<1>4. CASE Fail(r)
  BY <1>4 DEF Fail, Abort
<1> QED
  BY <1>1, <1>2, <1>3, <1>4

LEMMA ModelsStep == IInv /\ IInv' /\ ModelsOK /\ [Next]_vars => ModelsOK'
<1> SUFFICES ASSUME IInv, IInv', ModelsOK, [Next]_vars PROVE ModelsOK'
  OBVIOUS
<1>1. CASE UNCHANGED vars
  BY <1>1 DEF vars, ModelsOK, Open, InTransaction
<1>2. ASSUME NEW r \in Requests, Starts(r) \/ Opens(r) \/ Recomputes(r) \/ Commit(r) \/ Fail(r)
      PROVE  ModelsOK'
  <2>1. Modelled(docs')
    <3>1. CASE Open(r) /\ \A x \in Ids : docs'[x] = Overlay(docs, request[r].writes)[x]
      BY <3>1, Kinds DEF ModelsOK, Modelled
    <3>2. CASE \A n \in Namespaces :
                  docs'[n] = docs[n] \/ (docs[n] # NoDoc /\ NamespaceOK(n, docs'[n]))
      BY <3>2 DEF ModelsOK, Modelled
    <3> QED
      BY <1>2, <3>1, <3>2, DocsWritten
  <2>2. ASSUME NEW s \in Requests, s # r PROVE FieldsOK(request'[s])
    <3>0. Modelled(docs)
      BY DEF ModelsOK
    <3>1. \/ request'[s] = request[s]
          \/ InTransaction(s) /\ request'[s] = [request[s] EXCEPT !.doomed = TRUE]
      BY <1>2, <2>2, <3>0, Others
    <3>2. FieldsOK(request[s])
      BY DEF ModelsOK
    <3>3. CASE InTransaction(s) /\ request'[s] = [request[s] EXCEPT !.doomed = TRUE]
      <4>1. TransactionForm(request[s]) /\ request[s].pc = "transaction"
        BY <3>3 DEF IInv, RequestOK, InTransaction
      <4>2. request'[s].pc = "transaction" /\ request'[s].settled = request[s].settled
        BY <3>3, <4>1 DEF TransactionForm
      <4> QED
        BY <3>2, <4>1, <4>2 DEF FieldsOK
    <3> QED
      BY <3>1, <3>2, <3>3
  <2>3. FieldsOK(request'[r])
    <3>1. CASE Opens(r)
      <4>1. CASE Open(r)'
        <5>1. request'[r].settled \subseteq Namespaces
          BY <3>1, <4>1, OpenedModels
        <5> QED
          BY <4>1, <5>1 DEF FieldsOK, Open, InTransaction
      <4>2. CASE ~Open(r)'
        <5>1. request'[r].pc = "idle"
          BY <3>1, <4>2, OpensOpen
        <5> QED
          BY <5>1 DEF FieldsOK
      <4> QED
        BY <4>1, <4>2
    <3> QED
      BY <1>2, <3>1, OwnFields
  <2>4. ASSUME NEW s \in Requests, Open(s)' PROVE Modelled(Overlay(docs', request'[s].writes))
    <3>1. CASE s = r
      <4>1. Opens(r)
        <5>1. CASE Starts(r)
          BY <2>4, <3>1, <5>1 DEF Starts, CreateFeature, CreateList, UpdateReadiness, DeleteFeature,
             DeleteList, SetMode, SetDefault, Start, Open, InTransaction, IInv
        <5>2. CASE Recomputes(r) \/ Commit(r) \/ Fail(r)
          BY <2>4, <3>1, <5>2, Recomputing DEF Open, InTransaction
        <5> QED
          BY <1>2, <5>1, <5>2
      <4>2. docs' = docs
        BY <4>1, Opening
      <4> QED
        BY <2>4, <3>1, <4>1, <4>2, OpenedModels
    <3>2. CASE s # r
      <4>0. Modelled(docs)
        BY DEF ModelsOK
      <4>1. Open(s) /\ request'[s] = request[s]
        BY <1>2, <2>4, <3>2, <4>0, Others
      <4>2. Modelled(Overlay(docs, request[s].writes))
        BY <4>1 DEF ModelsOK
      <4>3. \A n \in Namespaces : Overlay(docs', request[s].writes)[n] \in
                                      {Overlay(docs, request[s].writes)[n], docs'[n]}
        BY Kinds, Overlaid
      <4> QED
        BY <2>1, <4>1, <4>2, <4>3 DEF Modelled
    <3> QED
      BY <3>1, <3>2
  <2>5. outdated' \in BOOLEAN /\ unsettled' \subseteq Namespaces /\ overlaps' \in 0..MaxOverlaps
    BY <1>2, HistoryTyped
  <2> QED
    BY <2>1, <2>2, <2>3, <2>4, <2>5 DEF ModelsOK
<1> QED
  BY <1>1, <1>2, Steps

LEMMA InitModels == Init => ModelsOK
<1> SUFFICES ASSUME Init PROVE ModelsOK
  OBVIOUS
<1>1. /\ \A x \in Ids : docs[x] = NoDoc
      /\ \A r \in Requests : request[r].pc = "idle"
      /\ outdated = FALSE /\ unsettled = {} /\ overlaps = 0
  BY DEF Init, IdleRequest
<1>2. Modelled(docs)
  BY <1>1, Kinds DEF Modelled
<1>3. \A r \in Requests : FieldsOK(request[r]) /\ ~Open(r)
  BY <1>1 DEF FieldsOK, Open, InTransaction
<1>4. outdated \in BOOLEAN
  BY <1>1
<1>5. 0 \in 0..MaxOverlaps
  BY FeatureCatalogAssumption
<1> QED
  BY <1>1, <1>2, <1>3, <1>4, <1>5 DEF ModelsOK

(* The documents have their types, for any number of requests, versions    *)
(* and namespaces, although a namespace is computed from versions that may *)
(* be changing meanwhile, and written back field by field.  The default of *)
(* a namespace is only known to be an id of the right kind: by hand any    *)
(* feature can be chosen, and of lists even one that does not exist.       *)
THEOREM TypeCorrect == Spec => []TypeOK
<1>1. Init => IInv /\ ModelsOK
  BY InitOK, InitModels
<1>2. IInv /\ ModelsOK /\ [Next]_vars => IInv' /\ ModelsOK'
  BY NextOK, ModelsStep
<1>3. IInv /\ ModelsOK => TypeOK
  <2> SUFFICES ASSUME IInv, ModelsOK PROVE TypeOK
    OBVIOUS
  <2>1. DOMAIN docs = Ids
    BY DEF IInv
  <2>2. /\ \A f \in Features : docs[f] \in FeatureModel \cup {NoDoc}
        /\ \A l \in Lists : docs[l] = NoDoc \/ docs[l] \in FeatureListModel
        /\ \A x \in Versions : docs[x] # NoDoc => x \in issued
    BY DEF IInv, Sound, Typed, IssuedOK
  <2>3. \A n \in FeatureNamespaces : docs[n] \in FeatureNamespaceModel \cup {NoDoc}
    BY Kinds DEF ModelsOK, Modelled, NamespaceOK, NamespaceModel
  <2>4. \A n \in ListNamespaces : docs[n] = NoDoc \/ docs[n] \in FeatureListNamespaceModel
    BY Kinds DEF ModelsOK, Modelled, NamespaceOK, NamespaceModel
  <2> QED
    BY <2>1, <2>2, <2>3, <2>4 DEF ModelsOK, TypeOK
<1> QED
  BY <1>1, <1>2, <1>3, PTL DEF Spec

-----------------------------------------------------------------------------
(* Counting features *)

(* Every feature is counted under exactly one readiness.                   *)
LEMMA TotalIsSize ==
    ASSUME NEW d, NEW features \in SUBSET Features, \A f \in features : d[f].readiness \in Readiness
    PROVE  TotalCount(CountReadiness(d, features)) = Cardinality(features)
<1> DEFINE At(k) == {f \in features : d[f].readiness = k}
           low == At(0) \cup At(1)
           high == At(2) \cup At(3)
<1>1. Readiness = {0, 1, 2, 3}
  BY DEF Readiness, DEPRECATED, PRODUCTION_READY
<1>2. IsFiniteSet(features)
  BY FeatureCatalogAssumption, FS_Subset
<1>3. \A k \in Readiness : At(k) \in SUBSET features
  OBVIOUS
<1>4. \A k \in Readiness : IsFiniteSet(At(k)) /\ Cardinality(At(k)) \in Nat
  <2> TAKE k \in Readiness
  <2> HIDE DEF At
  <2>1. IsFiniteSet(At(k))
    BY <1>2, <1>3, FS_Subset
  <2> QED
    BY <2>1, FS_CardinalityType
<1>5. CountReadiness(d, features) = [k \in Readiness |-> Cardinality(At(k))]
  BY DEF CountReadiness
<1>6. At(0) \cap At(1) = {} /\ At(2) \cap At(3) = {} /\ low \cap high = {} /\ low \cup high = features
  BY <1>1
<1> HIDE DEF At
<1>7. /\ IsFiniteSet(At(0)) /\ Cardinality(At(0)) \in Nat
      /\ IsFiniteSet(At(1)) /\ Cardinality(At(1)) \in Nat
      /\ IsFiniteSet(At(2)) /\ Cardinality(At(2)) \in Nat
      /\ IsFiniteSet(At(3)) /\ Cardinality(At(3)) \in Nat
  BY <1>1, <1>4
<1>8. ASSUME NEW S, NEW T, IsFiniteSet(S), IsFiniteSet(T), Cardinality(S) \in Nat,
             Cardinality(T) \in Nat, S \cap T = {}
      PROVE  Cardinality(S \cup T) = Cardinality(S) + Cardinality(T) /\ IsFiniteSet(S \cup T)
  <2>1. /\ IsFiniteSet(S \cup T)
        /\ Cardinality(S \cup T) = Cardinality(S) + Cardinality(T) - Cardinality(S \cap T)
    BY <1>8, FS_Union
  <2>2. Cardinality({}) = 0
    BY FS_EmptySet
  <2>3. Cardinality(S \cap T) = 0
    BY <1>8, <2>2
  <2>4. ASSUME NEW x \in Nat, NEW y \in Nat, NEW z, z = 0 PROVE x + y - z = x + y
    BY <2>4
  <2>5. Cardinality(S) + Cardinality(T) - Cardinality(S \cap T) = Cardinality(S) + Cardinality(T)
    BY <1>8, <2>3, <2>4
  <2> QED
    BY <2>1, <2>5
<1>9. Cardinality(low) = Cardinality(At(0)) + Cardinality(At(1)) /\ IsFiniteSet(low)
  BY <1>6, <1>7, <1>8
<1>10. Cardinality(high) = Cardinality(At(2)) + Cardinality(At(3)) /\ IsFiniteSet(high)
  BY <1>6, <1>7, <1>8
<1> HIDE DEF low, high
<1>11. Cardinality(low) \in Nat /\ Cardinality(high) \in Nat
  BY <1>7, <1>9, <1>10
<1>12. Cardinality(features) = Cardinality(low) + Cardinality(high)
  BY <1>6, <1>8, <1>9, <1>10, <1>11
<1>13. TotalCount(CountReadiness(d, features)) =
         Cardinality(At(0)) + Cardinality(At(1)) + Cardinality(At(2)) + Cardinality(At(3))
  BY <1>1, <1>5 DEF TotalCount
<1> QED
  BY <1>7, <1>9, <1>10, <1>12, <1>13

LEMMA ShiftKeepsTotal ==
    ASSUME NEW dist \in Distribution, NEW from \in Readiness, NEW to \in Readiness, from # to
    PROVE  TotalCount(Shift(dist, from, to)) = TotalCount(dist)
<1>1. Readiness = {0, 1, 2, 3}
  BY DEF Readiness, DEPRECATED, PRODUCTION_READY
<1>2. \A k \in Readiness : dist[k] \in Int /\ dist = [j \in Readiness |-> dist[j]]
  BY DEF Distribution
<1> DEFINE new == Shift(dist, from, to)
<1>3. new = [k \in Readiness |-> IF k = from THEN dist[k] - 1
                                 ELSE IF k = to THEN dist[k] + 1 ELSE dist[k]]
  BY <1>2 DEF Shift
<1> HIDE DEF new
<1>4. /\ new[from] = dist[from] - 1 /\ new[to] = dist[to] + 1
      /\ \A k \in Readiness : k # from /\ k # to => new[k] = dist[k]
  BY <1>3
<1>5. dist[0] \in Int /\ dist[1] \in Int /\ dist[2] \in Int /\ dist[3] \in Int
  BY <1>1, <1>2
<1>6. TotalCount(new) = TotalCount(dist)
  BY <1>1, <1>4, <1>5 DEF TotalCount
<1> QED
  BY <1>6 DEF new

(* Lists with one feature of each of the same names are of one size.       *)
LEMMA SameSize ==
    ASSUME NEW fs \in SUBSET Features, NEW gs \in SUBSET Features, OneEach(fs), OneEach(gs),
           Spaces(fs) = Spaces(gs)
    PROVE  Cardinality(fs) = Cardinality(gs)
<1> DEFINE twin == [f \in fs |-> CHOOSE g \in gs : NamespaceOf[g] = NamespaceOf[f]]
<1>1. IsFiniteSet(fs)
  BY FeatureCatalogAssumption, FS_Subset
<1>2. \A f \in fs : \E g \in gs : NamespaceOf[g] = NamespaceOf[f]
  BY DEF Spaces
<1>3. \A g \in gs : \E f \in fs : NamespaceOf[f] = NamespaceOf[g]
  BY DEF Spaces
<1>4. \A f \in fs : twin[f] \in gs /\ NamespaceOf[twin[f]] = NamespaceOf[f]
  BY <1>2
<1>5. twin \in [fs -> gs]
  BY <1>4
<1> HIDE DEF twin
<1>6. \A a, b \in fs : twin[a] = twin[b] => a = b
  BY <1>4 DEF OneEach
<1>7. \A g \in gs : \E f \in fs : twin[f] = g
  BY <1>3, <1>4 DEF OneEach
<1>8. twin \in Bijection(fs, gs)
  BY <1>5, <1>6, <1>7 DEF Bijection, Injection, Surjection, IsInjective
<1> QED
  BY <1>1, <1>8, FS_Bijection DEF ExistsBijection

-----------------------------------------------------------------------------
(* Lists of one namespace stay of one size *)

SpacesKept(d, b) ==
    \A n \in ListNamespaces : d[n] # NoDoc /\ b[n] # NoDoc => b[n].spaces = d[n].spaces

LEMMA SizedAfter ==
    ASSUME NEW d, NEW b, Sized(d), Listed(d), Listed(b), SpacesKept(d, b),
           \A l \in Lists : b[l] # NoDoc =>
               /\ Counted(b[l].features, b[l].readiness)
               /\ \/ d[l] # NoDoc /\ b[l].features = d[l].features
                  \/ b[NamespaceOf[l]].spaces = Spaces(b[l].features)
    PROVE  Sized(b)
<1> SUFFICES ASSUME NEW l \in Lists, b[l] # NoDoc, d[l] # NoDoc, b[l].features = d[l].features
             PROVE  b[NamespaceOf[l]].spaces = Spaces(b[l].features)
  BY DEF Sized
<1> DEFINE n == NamespaceOf[l]
<1>1. n \in ListNamespaces /\ n \in Namespaces /\ l \in Members(n)
  BY Kinds DEF Members
<1>2. d[n] # NoDoc /\ b[n] # NoDoc
  BY <1>1 DEF Listed
<1> QED
  BY <1>1, <1>2 DEF Sized, SpacesKept

LEMMA MovedSized ==
    ASSUME IInv, ModelsOK, CountsOK, NEW r \in Requests, NEW b, Versioned(b),
           request[r].pc = "updateReadiness", FeatureMoved(request[r], request'[r], b)
    PROVE  /\ SpacesKept(docs, b)
           /\ \A l \in Lists : b[l] # NoDoc =>
                  /\ Counted(b[l].features, b[l].readiness)
                  /\ docs[l] # NoDoc /\ b[l].features = docs[l].features
<1> DEFINE q == request[r]
           f == q.on
           moved == Moved(docs, f, q.from, q.to)
           spaces == Spaces({f} \cup docs[f].lists)
<1>1. /\ f \in Features /\ docs[f] # NoDoc /\ \A l \in docs[f].lists : docs[l] # NoDoc
      /\ q.from \in Readiness /\ q.to \in Readiness
      /\ \A n \in spaces : MayRecompute(moved, n, {})
      /\ \A x \in Versions : b[x] = moved[x]
      /\ \A n \in Namespaces : /\ moved[n] = docs[n]
                               /\ b[n] = IF n \in spaces THEN Recomputed(moved, n, {}) ELSE docs[n]
  BY DEF FeatureMoved
<1>2. q.from # q.to
  BY DEF CountsOK
<1>3. SpacesKept(docs, b)
  <2> SUFFICES ASSUME NEW n \in ListNamespaces, docs[n] # NoDoc, n \in spaces
               PROVE  Recomputed(moved, n, {}).spaces = docs[n].spaces
    BY <1>1, Kinds DEF SpacesKept
  <2>1. n \in Namespaces /\ moved[n] = docs[n] /\ MayRecompute(moved, n, {})
    BY <1>1, Kinds
  <2>2. Versioned(moved)
    BY <1>1, Kinds DEF Versioned
  <2>3. NamespaceOK(n, moved[n])
    BY <2>1 DEF ModelsOK, Modelled
  <2> HIDE DEF moved
  <2>4. SameSpaces(n, moved[n], Recomputed(moved, n, {}))
    BY <2>1, <2>2, <2>3, RecomputedOK
  <2> QED
    BY <2>1, <2>4 DEF SameSpaces
<1>4. ASSUME NEW l \in Lists, b[l] # NoDoc
      PROVE  /\ Counted(b[l].features, b[l].readiness)
             /\ docs[l] # NoDoc /\ b[l].features = docs[l].features
  <2>1. l \in Versions /\ l \in Ids /\ l # f
    BY <1>1, Kinds
  <2>2. b[l] = IF l \in docs[f].lists THEN [docs[l] EXCEPT !.readiness = Shift(@, q.from, q.to)]
               ELSE docs[l]
    BY <1>1, <2>1 DEF Moved
  <2>3. docs[l] # NoDoc
    BY <1>1, <1>4, <2>2
  <2>4. docs[l] \in FeatureListModel
    BY <2>3 DEF IInv, Sound, Typed
  <2>5. docs[l].readiness \in Distribution
    BY <2>4 DEF FeatureListModel
  <2>6. TotalCount(Shift(docs[l].readiness, q.from, q.to)) = TotalCount(docs[l].readiness)
    BY <1>1, <1>2, <2>5, ShiftKeepsTotal
  <2>7. b[l].features = docs[l].features /\ TotalCount(b[l].readiness) = TotalCount(docs[l].readiness)
    BY <2>2, <2>4, <2>6 DEF FeatureListModel
  <2> QED
    BY <2>3, <2>7 DEF CountsOK, Sized, Counted
<1> QED
  BY <1>3, <1>4

LEMMA OpenedSized ==
    ASSUME IInv, IInv', ModelsOK, CountsOK, NEW r \in Requests, Opens(r), Open(r)'
    PROVE  LET b == Overlay(docs, request'[r].writes) IN Sized(b) /\ SpacesKept(docs, b)
<1> DEFINE q == request[r]
           p == request'[r]
           b == Overlay(docs, p.writes)
<1>1. /\ \/ \E f \in Features : FeatureCreated(q, p, b, f)
         \/ \E l \in Lists : q.pc = "createList" /\ ListCreated(q, p, b, l)
         \/ q.pc = "updateReadiness" /\ FeatureMoved(q, p, b)
         \/ FeatureRemoved(q, p, b)
         \/ ListRemoved(q, p, b)
      /\ docs' = docs
  BY Opened
<1>2. Sound(b) /\ Versioned(b) /\ Listed(b) /\ Listed(docs) /\ Versioned(docs) /\ Sized(docs)
  BY <1>1, SoundVersioned DEF IInv, OpenOK, Sound, CountsOK
<1> HIDE DEF b
<1>3. \A l \in Lists : docs[l] # NoDoc => Counted(docs[l].features, docs[l].readiness)
  BY <1>2 DEF Sized
<1>4. \A n \in ListNamespaces : docs[n] # NoDoc => docs[n] \in FeatureListNamespaceModel
  BY Kinds DEF ModelsOK, Modelled, NamespaceOK, NamespaceModel
<1>5. CASE \E f \in Features : FeatureCreated(q, p, b, f)
  <2>1. PICK f \in Features : FeatureCreated(q, p, b, f)
    BY <1>5
  <2>2. \A x \in Lists \cup ListNamespaces : b[x] = docs[x]
    BY <2>1, Kinds DEF FeatureCreated
  <2>3. SpacesKept(docs, b)
    BY <2>2 DEF SpacesKept
  <2>4. Sized(b)
    BY <1>2, <1>3, <2>2, <2>3, SizedAfter
  <2> QED
    BY <2>3, <2>4 DEF b
<1>6. CASE \E l \in Lists : q.pc = "createList" /\ ListCreated(q, p, b, l)
  <2>1. PICK l \in Lists : q.pc = "createList" /\ ListCreated(q, p, b, l)
    BY <1>6
  <2> DEFINE n == q.on
             new == [ids |-> {l}, default |-> l, manual |-> FALSE, readiness |-> q.readiness,
                     spaces |-> Spaces(q.features)]
  <2>2. /\ n \in ListNamespaces /\ NamespaceOf[l] = n /\ q.features \subseteq Features
        /\ docs[n] = NoDoc \/ Consistent(n, q.features)
        /\ b[l] = [readiness |-> q.readiness, features |-> q.features, version |-> q.version]
        /\ b[n] = Joined(n, l, new)
        /\ \A x \in Ids : x # l /\ x # n /\ x \notin Saved(docs, q.features) => b[x] = docs[x]
    BY <2>1 DEF ListCreated
  <2>3. \A x \in Lists \cup ListNamespaces : x # l /\ x # n => b[x] = docs[x]
    BY <2>2, Kinds DEF Saved
  <2>4. Counted(q.features, q.readiness)
    BY <2>1 DEF CountsOK
  <2>5. b[n].spaces = Spaces(q.features) /\ (docs[n] # NoDoc => docs[n].spaces = Spaces(q.features))
    BY <1>4, <2>2 DEF Joined, Consistent, FeatureListNamespaceModel
  <2>6. SpacesKept(docs, b)
    <3> HIDE DEF n
    <3>1. \A m \in ListNamespaces : m = n \/ b[m] = docs[m]
      BY <2>1, <2>3, Kinds
    <3> QED
      BY <2>5, <3>1 DEF SpacesKept
  <2>7. b[l].features = q.features /\ b[l].readiness = q.readiness
    BY <2>2
  <2>8. Sized(b)
    BY <1>2, <1>3, <2>2, <2>3, <2>4, <2>5, <2>6, <2>7, Kinds, SizedAfter
  <2> QED
    BY <2>6, <2>8 DEF b
<1>7. CASE q.pc = "updateReadiness" /\ FeatureMoved(q, p, b)
  <2>1. /\ SpacesKept(docs, b)
        /\ \A l \in Lists : b[l] # NoDoc =>
               /\ Counted(b[l].features, b[l].readiness)
               /\ docs[l] # NoDoc /\ b[l].features = docs[l].features
    BY <1>2, <1>7, MovedSized
  <2>2. Sized(b)
    BY <1>2, <2>1, SizedAfter
  <2> QED
    BY <2>1, <2>2 DEF b
<1>8. CASE FeatureRemoved(q, p, b)
  <2>1. \A x \in Lists \cup ListNamespaces : b[x] = docs[x]
    BY <1>8, Kinds DEF FeatureRemoved
  <2>2. SpacesKept(docs, b)
    BY <2>1 DEF SpacesKept
  <2>3. Sized(b)
    BY <1>2, <1>3, <2>1, <2>2, SizedAfter
  <2> QED
    BY <2>2, <2>3 DEF b
<1>9. CASE ListRemoved(q, p, b)
  <2> DEFINE l == q.on
             n == NamespaceOf[l]
             kept == [docs[n] EXCEPT !.ids = docs[n].ids \ {l}]
  <2>1. /\ l \in Lists /\ docs[l] # NoDoc /\ docs[n] # NoDoc
        /\ b[l] = NoDoc /\ b[n] = Forgotten(kept, l)
        /\ \A x \in Ids : x # l /\ x # n /\ x \notin Saved(docs, docs[l].features) => b[x] = docs[x]
    BY <1>9 DEF ListRemoved
  <2>2. docs[l].features \subseteq Features /\ n \in ListNamespaces
    BY <1>2, <2>1, Kinds DEF Versioned, FeatureListModel
  <2>3. \A x \in Lists \cup ListNamespaces : x # l /\ x # n => b[x] = docs[x]
    BY <2>1, <2>2, Kinds, SMTT(30) DEF Saved
  <2>4. b[n] # NoDoc => b[n].spaces = docs[n].spaces
    BY <1>4, <2>1, <2>2 DEF Forgotten, FeatureListNamespaceModel
  <2>5. SpacesKept(docs, b)
    <3> HIDE DEF n
    <3>1. \A m \in ListNamespaces : m = n \/ b[m] = docs[m]
      BY <2>1, <2>3, Kinds
    <3> QED
      BY <2>4, <3>1 DEF SpacesKept
  <2>6. \A m \in Lists : b[m] # NoDoc => b[m] = docs[m]
    BY <2>1, <2>2, <2>3, Kinds
  <2>7. Sized(b)
    BY <1>2, <1>3, <2>5, <2>6, SizedAfter
  <2> QED
    BY <2>5, <2>7 DEF b
<1> QED
  BY <1>1, <1>5, <1>6, <1>7, <1>8, <1>9

LEMMA StartCounted ==
    ASSUME IInv, NEW r \in Requests, Starts(r)
    PROVE  /\ request'[r].pc = "createList" => Counted(request'[r].features, request'[r].readiness)
           /\ request'[r].pc = "updateReadiness" => request'[r].from # request'[r].to
<1>1. request = [s \in Requests |-> request[s]]
  BY SMTT(30) DEF IInv
<1>2. CASE CreateFeature(r) \/ DeleteFeature(r) \/ DeleteList(r) \/ SetMode(r) \/ SetDefault(r)
  <2>1. \E q : Start(r, q) /\ q.pc \notin {"createList", "updateReadiness"}
    <3>1. CreateFeature(r) => \E q : Start(r, q) /\ q.pc \notin {"createList", "updateReadiness"}
      BY DEF CreateFeature
    <3>2. DeleteFeature(r) => \E q : Start(r, q) /\ q.pc \notin {"createList", "updateReadiness"}
      BY DEF DeleteFeature
    <3>3. DeleteList(r) => \E q : Start(r, q) /\ q.pc \notin {"createList", "updateReadiness"}
      BY DEF DeleteList
    <3>4. SetMode(r) => \E q : Start(r, q) /\ q.pc \notin {"createList", "updateReadiness"}
      BY DEF SetMode
    <3>5. SetDefault(r) => \E q : Start(r, q) /\ q.pc \notin {"createList", "updateReadiness"}
      BY DEF SetDefault
    <3> QED
      BY <1>2, <3>1, <3>2, <3>3, <3>4, <3>5
  <2> QED
    BY <1>1, <2>1 DEF Start
<1>3. CASE CreateList(r)
  <2>1. PICK n \in ListNamespaces : \E fs \in SUBSET Saved(docs, Features) \ {{}} :
            /\ \A f, g \in fs : NamespaceOf[f] = NamespaceOf[g] => f = g
            /\ Start(r, [pc |-> "createList", on |-> n, version |-> NextVersion(n), features |-> fs,
                         readiness |-> CountReadiness(docs, fs)])
    BY <1>3 DEF CreateList
  <2>2. PICK fs \in SUBSET Saved(docs, Features) \ {{}} :
            /\ \A f, g \in fs : NamespaceOf[f] = NamespaceOf[g] => f = g
            /\ Start(r, [pc |-> "createList", on |-> n, version |-> NextVersion(n), features |-> fs,
                         readiness |-> CountReadiness(docs, fs)])
    BY <2>1
  <2>3. fs \in SUBSET Features /\ \A f \in fs : docs[f].readiness \in Readiness
    BY <2>2 DEF Saved, IInv, Sound, Typed, FeatureModel
  <2>4. Counted(fs, CountReadiness(docs, fs))
    BY <2>2, <2>3, TotalIsSize DEF Counted, OneEach
  <2> DEFINE q == [pc |-> "createList", on |-> n, version |-> NextVersion(n), features |-> fs,
                   readiness |-> CountReadiness(docs, fs)]
  <2>5. request'[r] = q
    BY <1>1, <2>2 DEF Start
  <2>6. q.pc = "createList" /\ q.features = fs /\ q.readiness = CountReadiness(docs, fs)
    OBVIOUS
  <2> QED
    BY <2>4, <2>5, <2>6
<1>4. CASE UpdateReadiness(r)
  <2>1. \E f, from, to :
            /\ to # from
            /\ Start(r, [pc |-> "updateReadiness", on |-> f, from |-> from, to |-> to])
    BY <1>4 DEF UpdateReadiness
  <2> QED
    BY <1>1, <2>1 DEF Start
<1> QED
  BY <1>2, <1>3, <1>4 DEF Starts

(* What another request changes in a namespace of lists is never the       *)
(* features that the lists are for.                                        *)
LEMMA StepKeepsSpaces ==
    ASSUME IInv, ModelsOK, CountsOK, NEW r \in Requests,
           Starts(r) \/ Opens(r) \/ Recomputes(r) \/ Commit(r) \/ Fail(r)
    PROVE  SpacesKept(docs, docs')
<1>1. CASE Open(r) /\ \A x \in Ids : docs'[x] = Overlay(docs, request[r].writes)[x]
  <2>1. KeepsSpaces(docs, request[r].writes)
    BY <1>1 DEF CountsOK
  <2>2. \A n \in ListNamespaces : docs'[n] = IF n \in DOMAIN request[r].writes THEN request[r].writes[n]
                                             ELSE docs[n]
    BY <1>1, Kinds, Overlaid
  <2> QED
    BY <2>1, <2>2 DEF SpacesKept, KeepsSpaces
<1>2. CASE \A n \in Namespaces : \/ docs'[n] = docs[n]
                                 \/ docs[n] # NoDoc /\ SameSpaces(n, docs[n], docs'[n])
  BY <1>2, Kinds DEF SpacesKept, SameSpaces
<1> QED
  BY <1>1, <1>2, DocsWritten

LEMMA StepSized ==
    ASSUME IInv, IInv', ModelsOK, CountsOK, NEW r \in Requests,
           Starts(r) \/ Opens(r) \/ Recomputes(r) \/ Commit(r) \/ Fail(r)
    PROVE  Sized(docs')
<1>1. CASE Open(r) /\ \A x \in Ids : docs'[x] = Overlay(docs, request[r].writes)[x]
  <2>1. Sized(Overlay(docs, request[r].writes))
    BY <1>1 DEF CountsOK
  <2> QED
    BY <1>1, <2>1, Kinds DEF Sized
<1>2. CASE \A x \in Versions : docs'[x] = docs[x]
  <2>1. \A l \in Lists : docs'[l] = docs[l]
    BY <1>2, Kinds
  <2>2. SpacesKept(docs, docs') /\ Sized(docs) /\ Listed(docs) /\ Listed(docs')
    BY StepKeepsSpaces DEF CountsOK, IInv, Sound
  <2>3. \A l \in Lists : docs[l] # NoDoc => Counted(docs[l].features, docs[l].readiness)
    BY <2>2 DEF Sized
  <2> QED
    BY <2>1, <2>2, <2>3, SizedAfter
<1> QED
  BY <1>1, <1>2, DocsWritten

LEMMA OpenSized ==
    ASSUME IInv, IInv', ModelsOK, CountsOK, NEW r \in Requests,
           Starts(r) \/ Opens(r) \/ Recomputes(r) \/ Commit(r) \/ Fail(r),
           NEW s \in Requests, s # r, Open(s)'
    PROVE  Sized(Overlay(docs', request'[s].writes)) /\ KeepsSpaces(docs', request'[s].writes)
<1> DEFINE w == request[s].writes
           b == Overlay(docs, w)
           m == Overlay(docs', w)
<1>1. Open(s) /\ request'[s] = request[s] /\ \A x \in Ids \cap DOMAIN w : docs'[x] = docs[x]
  BY Others DEF ModelsOK
<1>2. Sized(b) /\ KeepsSpaces(docs, w) /\ Listed(b)
  BY <1>1 DEF CountsOK, IInv, OpenOK, Sound
<1>3. Sized(docs') /\ SpacesKept(docs, docs') /\ Listed(docs')
  BY StepSized, StepKeepsSpaces DEF IInv, Sound
<1>4. Listed(m)
  BY <1>1 DEF IInv, OpenOK, Sound
<1>5. \A x \in Ids : /\ b[x] = IF x \in DOMAIN w THEN w[x] ELSE docs[x]
                     /\ m[x] = IF x \in DOMAIN w THEN w[x] ELSE docs'[x]
  BY Overlaid
<1>6. KeepsSpaces(docs', w)
  BY <1>1, <1>2, Kinds DEF KeepsSpaces
<1> HIDE DEF w, b, m
<1>7. ASSUME NEW l \in Lists, m[l] # NoDoc
      PROVE  Counted(m[l].features, m[l].readiness) /\ m[NamespaceOf[l]].spaces = Spaces(m[l].features)
  <2> DEFINE n == NamespaceOf[l]
  <2>1. l \in Ids /\ n \in Ids /\ n \in Namespaces /\ n \in ListNamespaces /\ l \in Members(n)
    BY Kinds DEF Members
  <2>2. m[n] # NoDoc
    BY <1>4, <1>7, <2>1 DEF Listed
  <2> HIDE DEF n
  <2>3. CASE l \in DOMAIN w
    <3>1. m[l] = b[l] /\ b[l] # NoDoc
      BY <1>5, <1>7, <2>1, <2>3
    <3>2. Counted(b[l].features, b[l].readiness) /\ b[n].spaces = Spaces(b[l].features) /\ b[n] # NoDoc
      BY <1>2, <2>1, <3>1 DEF Sized, Listed, n
    <3>3. m[n].spaces = b[n].spaces
      BY <1>3, <1>5, <2>1, <2>2, <3>2 DEF SpacesKept
    <3> QED
      BY <3>1, <3>2, <3>3 DEF n
  <2>4. CASE l \notin DOMAIN w
    <3>1. m[l] = docs'[l] /\ docs'[l] # NoDoc
      BY <1>5, <1>7, <2>1, <2>4
    <3>2. /\ Counted(docs'[l].features, docs'[l].readiness)
          /\ docs'[n].spaces = Spaces(docs'[l].features) /\ docs'[n] # NoDoc
      BY <1>3, <2>1, <3>1 DEF Sized, Listed, n
    <3>3. m[n].spaces = docs'[n].spaces
      BY <1>5, <1>6, <2>1, <2>2, <3>2 DEF KeepsSpaces
    <3> QED
      BY <3>1, <3>2, <3>3 DEF n
  <2> QED
    BY <2>3, <2>4
<1>8. Sized(m)
  BY <1>7 DEF Sized
<1> QED
  BY <1>1, <1>6, <1>8 DEF m, w

LEMMA CountsStep == IInv /\ IInv' /\ ModelsOK /\ CountsOK /\ [Next]_vars => CountsOK'
<1> SUFFICES ASSUME IInv, IInv', ModelsOK, CountsOK, [Next]_vars PROVE CountsOK'
  OBVIOUS
<1>1. CASE UNCHANGED vars
  BY <1>1 DEF vars, CountsOK, Open, InTransaction
<1>2. ASSUME NEW r \in Requests, Starts(r) \/ Opens(r) \/ Recomputes(r) \/ Commit(r) \/ Fail(r)
      PROVE  CountsOK'
  <2>1. Sized(docs')
    BY <1>2, StepSized
  <2>2. ASSUME NEW s \in Requests, Open(s)'
        PROVE  Sized(Overlay(docs', request'[s].writes)) /\ KeepsSpaces(docs', request'[s].writes)
    <3>1. CASE s = r
      <4>1. Opens(r) /\ docs' = docs
        <5>1. CASE Starts(r)
          BY <2>2, <3>1, <5>1 DEF Starts, CreateFeature, CreateList, UpdateReadiness, DeleteFeature,
             DeleteList, SetMode, SetDefault, Start, Open, InTransaction, IInv
        <5>2. CASE Recomputes(r) \/ Commit(r) \/ Fail(r)
          BY <2>2, <3>1, <5>2, Recomputing DEF Open, InTransaction
        <5> QED
          BY <1>2, <5>1, <5>2, Opening
      <4>2. LET b == Overlay(docs, request'[r].writes) IN Sized(b) /\ SpacesKept(docs, b)
        BY <2>2, <3>1, <4>1, OpenedSized
      <4>3. KeepsSpaces(docs, request'[r].writes)
        BY <4>2, Kinds, Overlaid DEF KeepsSpaces, SpacesKept
      <4> QED
        BY <3>1, <4>1, <4>2, <4>3
    <3>2. CASE s # r
      BY <1>2, <2>2, <3>2, OpenSized
    <3> QED
      BY <3>1, <3>2
  <2>3. ASSUME NEW s \in Requests
        PROVE  /\ request'[s].pc = "createList" => Counted(request'[s].features, request'[s].readiness)
               /\ request'[s].pc = "updateReadiness" => request'[s].from # request'[s].to
    <3>1. CASE s # r
      <4>1. /\ \/ request'[s] = request[s]
               \/ InTransaction(s)
            /\ request'[s].pc = request[s].pc
        BY <1>2, <3>1, Others DEF ModelsOK
      <4> QED
        BY <4>1 DEF CountsOK, InTransaction
    <3>2. CASE s = r /\ Starts(r)
      BY <3>2, StartCounted
    <3>3. CASE s = r /\ ~Starts(r)
      BY <1>2, <3>3, Opening, Recomputing
    <3> QED
      BY <3>1, <3>2, <3>3
  <2> QED
    BY <2>1, <2>2, <2>3 DEF CountsOK
<1> QED
  BY <1>1, <1>2, Steps

LEMMA InitCounts == Init => CountsOK
<1> SUFFICES ASSUME Init PROVE CountsOK
  OBVIOUS
<1>1. /\ \A x \in Ids : docs[x] = NoDoc
      /\ \A r \in Requests : request[r].pc = "idle"
  BY DEF Init, IdleRequest
<1>2. Sized(docs)
  BY <1>1, Kinds DEF Sized
<1> QED
  BY <1>1, <1>2 DEF CountsOK, Open, InTransaction

(* Any two lists of one namespace can be compared by their distributions,  *)
(* whatever requests interleave: they have one feature of each of the names*)
(* that the namespace was created with, and each is counted once.          *)
THEOREM ListsAlwaysComparable == Spec => []ListsComparable
<1>1. Init => IInv /\ ModelsOK /\ CountsOK
  BY InitOK, InitModels, InitCounts
<1>2. IInv /\ ModelsOK /\ CountsOK /\ [Next]_vars => (IInv /\ ModelsOK /\ CountsOK)'
  BY NextOK, ModelsStep, CountsStep
<1>3. IInv /\ CountsOK => ListsComparable
  <2> SUFFICES ASSUME IInv, CountsOK, NEW l \in Lists, NEW m \in Lists, docs[l] # NoDoc,
                      docs[m] # NoDoc, NamespaceOf[l] = NamespaceOf[m]
               PROVE  TotalCount(docs[l].readiness) = TotalCount(docs[m].readiness)
    BY DEF ListsComparable, Saved
  <2>1. /\ Counted(docs[l].features, docs[l].readiness) /\ Counted(docs[m].features, docs[m].readiness)
        /\ Spaces(docs[l].features) = Spaces(docs[m].features)
    BY DEF CountsOK, Sized
  <2>2. docs[l].features \in SUBSET Features /\ docs[m].features \in SUBSET Features
    BY DEF IInv, Sound, Typed, FeatureListModel
  <2> QED
    BY <2>1, <2>2, SameSize DEF Counted
<1> QED
  BY <1>1, <1>2, <1>3, PTL DEF Spec

-----------------------------------------------------------------------------
(* Lists keep counting their features exactly *)

LEMMA SameCount ==
    ASSUME NEW a, NEW d, NEW features, \A f \in features : a[f].readiness = d[f].readiness
    PROVE  CountReadiness(a, features) = CountReadiness(d, features)
<1>1. \A k : {f \in features : a[f].readiness = k} = {f \in features : d[f].readiness = k}
  OBVIOUS
<1> QED
  BY <1>1 DEF CountReadiness

LEMMA MovedCount ==
    ASSUME NEW a, NEW d, NEW features \in SUBSET Features, NEW f \in features,
           NEW from \in Readiness, NEW to \in Readiness, from # to,
           d[f].readiness = from, a[f].readiness = to,
           \A g \in features : g # f => a[g].readiness = d[g].readiness
    PROVE  CountReadiness(a, features) = Shift(CountReadiness(d, features), from, to)
<1> DEFINE before(k) == {g \in features : d[g].readiness = k}
           after(k) == {g \in features : a[g].readiness = k}
           old == CountReadiness(d, features)
           new == CountReadiness(a, features)
<1>1. IsFiniteSet(features)
  BY FeatureCatalogAssumption, FS_Subset
<1>2. \A k : IsFiniteSet(before(k)) /\ Cardinality(before(k)) \in Nat
  <2> TAKE k
  <2>1. before(k) \in SUBSET features
    OBVIOUS
  <2> HIDE DEF before
  <2>2. IsFiniteSet(before(k))
    BY <1>1, <2>1, FS_Subset
  <2> QED
    BY <2>2, FS_CardinalityType
<1>3. after(from) = before(from) \ {f} /\ f \in before(from)
  OBVIOUS
<1>4. after(to) = before(to) \cup {f} /\ f \notin before(to)
  OBVIOUS
<1>5. \A k : k # from /\ k # to => after(k) = before(k)
  OBVIOUS
<1>6. /\ old = [k \in Readiness |-> Cardinality(before(k))]
      /\ new = [k \in Readiness |-> Cardinality(after(k))]
  BY DEF CountReadiness
<1> HIDE DEF before, after, old, new
<1>7. Cardinality(after(from)) = Cardinality(before(from)) - 1
  <2>1. IsFiniteSet(before(from))
    BY <1>2
  <2>2. Cardinality(before(from) \ {f}) = IF f \in before(from) THEN Cardinality(before(from)) - 1
                                          ELSE Cardinality(before(from))
    BY <2>1, FS_RemoveElement
  <2> QED
    BY <1>3, <2>2
<1>8. Cardinality(after(to)) = Cardinality(before(to)) + 1
  BY <1>2, <1>4, FS_AddElement
<1>9. new = [k \in Readiness |-> IF k = from THEN old[k] - 1 ELSE IF k = to THEN old[k] + 1 ELSE old[k]]
  <2>1. \A k \in Readiness : new[k] = IF k = from THEN old[k] - 1
                                      ELSE IF k = to THEN old[k] + 1 ELSE old[k]
    BY <1>5, <1>6, <1>7, <1>8
  <2> QED
    BY <1>6, <2>1
<1>10. Shift(old, from, to) =
         [k \in Readiness |-> IF k = from THEN old[k] - 1 ELSE IF k = to THEN old[k] + 1 ELSE old[k]]
  BY <1>6 DEF Shift
<1> QED
  BY <1>9, <1>10 DEF old, new

(* A list is only concerned by its features, and they by it.               *)
LEMMA ExactAfter ==
    ASSUME NEW d, NEW b, Exact(d),
           \A l \in Lists : b[l] # NoDoc =>
               \/ /\ d[l] # NoDoc /\ b[l].features = d[l].features /\ b[l].readiness = d[l].readiness
                  /\ \A f \in b[l].features : d[f] # NoDoc =>
                        b[f] # NoDoc /\ b[f].readiness = d[f].readiness
               \/ /\ \A f \in b[l].features : b[f] # NoDoc
                  /\ b[l].readiness = CountReadiness(b, b[l].features)
    PROVE  Exact(b)
<1> SUFFICES ASSUME NEW l \in Lists, b[l] # NoDoc, d[l] # NoDoc, b[l].features = d[l].features,
                    b[l].readiness = d[l].readiness,
                    \A f \in b[l].features : d[f] # NoDoc =>
                        b[f] # NoDoc /\ b[f].readiness = d[f].readiness
             PROVE  /\ \A f \in b[l].features : b[f] # NoDoc
                    /\ b[l].readiness = CountReadiness(b, b[l].features)
  BY DEF Exact
<1>1. (\A f \in d[l].features : d[f] # NoDoc) /\ d[l].readiness = CountReadiness(d, d[l].features)
  BY DEF Exact
<1>2. \A f \in b[l].features : b[f].readiness = d[f].readiness
  BY <1>1
<1> QED
  BY <1>1, <1>2, SameCount

(* Transactions that write different documents count exactly together: one *)
(* that changes the readiness of a feature writes its lists, so the other  *)
(* has neither created nor changed one of them.                            *)
LEMMA MergedExact ==
    ASSUME NEW d, NEW v, NEW w, DOMAIN v \cap DOMAIN w = {},
           Exact(Overlay(d, v)), Exact(Overlay(d, w)), Locks(d, v), Locks(d, w),
           Links(Overlay(d, v)), Links(Overlay(d, w)), Typed(Overlay(d, v)), Typed(Overlay(d, w))
    PROVE  Exact(Overlay(Overlay(d, v), w))
<1> DEFINE a == Overlay(d, v)
           b == Overlay(d, w)
           m == Overlay(a, w)
<1>1. \A x \in Ids : /\ a[x] = IF x \in DOMAIN v THEN v[x] ELSE d[x]
                     /\ b[x] = IF x \in DOMAIN w THEN w[x] ELSE d[x]
                     /\ m[x] = IF x \in DOMAIN w THEN w[x] ELSE a[x]
  BY Overlaid
<1>2. Exact(a) /\ Exact(b) /\ Links(a) /\ Links(b) /\ Typed(a) /\ Typed(b)
  OBVIOUS
<1> HIDE DEF a, b, m
<1> SUFFICES ASSUME NEW l \in Lists, m[l] # NoDoc
             PROVE  /\ \A f \in m[l].features : m[f] # NoDoc
                    /\ m[l].readiness = CountReadiness(m, m[l].features)
  BY DEF Exact, m, a
<1>3. l \in Ids
  BY Kinds
<1>4. CASE l \in DOMAIN w
  <2>1. m[l] = b[l] /\ l \notin DOMAIN v /\ b[l] # NoDoc
    BY <1>1, <1>3, <1>4
  <2>2. b[l].features \subseteq Features
    BY <1>2, <2>1 DEF Typed, FeatureListModel
  <2>3. (\A f \in b[l].features : b[f] # NoDoc) /\ b[l].readiness = CountReadiness(b, b[l].features)
    BY <1>2, <2>1 DEF Exact
  <2>4. ASSUME NEW f \in b[l].features
        PROVE  m[f] # NoDoc /\ m[f].readiness = b[f].readiness
    <3>1. f \in Features /\ f \in Ids /\ b[f] # NoDoc /\ l \in b[f].lists
      BY <1>2, <2>1, <2>2, <2>3, Kinds DEF Links
    <3>2. CASE f \in DOMAIN w \/ f \notin DOMAIN v
      BY <1>1, <3>1, <3>2
    <3>3. CASE f \notin DOMAIN w /\ f \in DOMAIN v
      <4>1. b[f] = d[f] /\ m[f] = v[f]
        BY <1>1, <3>1, <3>3
      <4>2. ~(d[f].lists \subseteq DOMAIN v)
        BY <2>1, <3>1, <4>1
      <4> QED
        BY <3>1, <3>3, <4>1, <4>2 DEF Locks
    <3> QED
      BY <3>2, <3>3
  <2> QED
    BY <2>1, <2>3, <2>4, SameCount
<1>5. CASE l \notin DOMAIN w
  <2>1. m[l] = a[l] /\ a[l] # NoDoc
    BY <1>1, <1>3, <1>5
  <2>2. a[l].features \subseteq Features
    BY <1>2, <2>1 DEF Typed, FeatureListModel
  <2>3. (\A f \in a[l].features : a[f] # NoDoc) /\ a[l].readiness = CountReadiness(a, a[l].features)
    BY <1>2, <2>1 DEF Exact
  <2>4. ASSUME NEW f \in a[l].features
        PROVE  m[f] # NoDoc /\ m[f].readiness = a[f].readiness
    <3>1. f \in Features /\ f \in Ids /\ a[f] # NoDoc /\ l \in a[f].lists
      BY <1>2, <2>1, <2>2, <2>3, Kinds DEF Links
    <3>2. CASE f \notin DOMAIN w
      BY <1>1, <3>1, <3>2
    <3>3. CASE f \in DOMAIN w
      <4>1. a[f] = d[f] /\ m[f] = w[f]
        BY <1>1, <3>1, <3>3
      <4>2. ~(d[f].lists \subseteq DOMAIN w)
        BY <1>5, <3>1, <4>1
      <4> QED
        BY <3>1, <3>3, <4>1, <4>2 DEF Locks
    <3> QED
      BY <3>2, <3>3
  <2> QED
    BY <2>1, <2>3, <2>4, SameCount
<1> QED
  BY <1>4, <1>5

LEMMA MovedExact ==
    ASSUME IInv, CountsOK, NEW r \in Requests, NEW b, Exact(docs), ~outdated',
           request[r].pc = "updateReadiness", FeatureMoved(request[r], request'[r], b)
    PROVE  /\ Exact(b)
           /\ \A f \in Features : docs[f] # NoDoc /\ (b[f] = NoDoc \/ b[f].readiness # docs[f].readiness) =>
                 \A l \in docs[f].lists : b[l] # docs[l]
<1> DEFINE q == request[r]
           f == q.on
           moved == Moved(docs, f, q.from, q.to)
<1>1. /\ f \in Features /\ docs[f] # NoDoc /\ \A l \in docs[f].lists : docs[l] # NoDoc
      /\ q.from \in Readiness /\ q.to \in Readiness
      /\ \A x \in Versions : b[x] = moved[x]
      /\ docs[f].lists = {} \/ docs[f].readiness = q.from
  BY DEF FeatureMoved
<1>2. q.from # q.to
  BY DEF CountsOK
<1>3. docs[f] \in FeatureModel /\ docs[f].lists \subseteq Lists
  BY <1>1 DEF IInv, Sound, Typed, FeatureModel
<1>4. b[f] = [docs[f] EXCEPT !.readiness = q.to] /\ \A g \in Features : g # f => b[g] = docs[g]
  BY <1>1, <1>3, Kinds DEF Moved
<1>5. b[f] # NoDoc /\ b[f].readiness = q.to
  BY <1>1, <1>3, <1>4, NoDocApart DEF FeatureModel
<1>6. \A l \in Lists : b[l] = IF l \in docs[f].lists THEN [docs[l] EXCEPT !.readiness = Shift(@, q.from, q.to)]
                              ELSE docs[l]
  BY <1>1, Kinds DEF Moved
<1>7. ASSUME NEW l \in docs[f].lists
      PROVE  /\ docs[l] # NoDoc /\ b[l].features = docs[l].features
             /\ b[l].readiness = Shift(docs[l].readiness, q.from, q.to) /\ b[l] # docs[l]
  <2>1. l \in Lists /\ docs[l] \in FeatureListModel
    BY <1>1, <1>3, <1>7 DEF IInv, Sound, Typed
  <2>2. docs[l].readiness \in Distribution
    BY <2>1 DEF FeatureListModel
  <2>3. Shift(docs[l].readiness, q.from, q.to) # docs[l].readiness
    BY <1>1, <1>2, <2>2 DEF Shift, Distribution
  <2>4. b[l].readiness = Shift(docs[l].readiness, q.from, q.to) /\ b[l].features = docs[l].features
    BY <1>6, <1>7, <2>1 DEF FeatureListModel
  <2> QED
    BY <1>1, <1>7, <2>3, <2>4
<1> HIDE DEF f, moved
<1>8. ASSUME NEW l \in Lists, b[l] # NoDoc
      PROVE  \/ /\ docs[l] # NoDoc /\ b[l].features = docs[l].features /\ b[l].readiness = docs[l].readiness
                /\ \A g \in b[l].features : docs[g] # NoDoc =>
                      b[g] # NoDoc /\ b[g].readiness = docs[g].readiness
             \/ /\ \A g \in b[l].features : b[g] # NoDoc
                /\ b[l].readiness = CountReadiness(b, b[l].features)
  <2>1. CASE l \in docs[f].lists
    <3>1. docs[l] # NoDoc /\ b[l].features = docs[l].features /\ docs[f].readiness = q.from
      BY <1>1, <1>7, <2>1
    <3>2. docs[l].features \in SUBSET Features /\ f \in docs[l].features
      BY <1>1, <2>1, <3>1 DEF IInv, Sound, Typed, FeatureListModel, Links
    <3>3. /\ \A g \in docs[l].features : docs[g] # NoDoc
          /\ docs[l].readiness = CountReadiness(docs, docs[l].features)
      BY <3>1 DEF Exact
    <3>4. CountReadiness(b, docs[l].features) = Shift(CountReadiness(docs, docs[l].features), q.from, q.to)
      <4>1. \A g \in docs[l].features : g # f => b[g].readiness = docs[g].readiness
        BY <1>4, <3>2
      <4> QED
        BY <1>1, <1>2, <1>5, <3>1, <3>2, <4>1, MovedCount
    <3> QED
      BY <1>4, <1>5, <1>7, <2>1, <3>1, <3>2, <3>3, <3>4
  <2>2. CASE l \notin docs[f].lists
    <3>1. b[l] = docs[l]
      BY <1>6, <2>2
    <3>2. docs[l].features \subseteq Features /\ f \notin docs[l].features
      BY <1>1, <1>8, <2>2, <3>1 DEF IInv, Sound, Typed, FeatureListModel, Links
    <3> QED
      BY <1>4, <1>8, <3>1, <3>2
  <2> QED
    BY <2>1, <2>2
<1>9. Exact(b)
  BY <1>8, ExactAfter
<1> QED
  BY <1>1, <1>4, <1>5, <1>7, <1>9

LEMMA OpenedExact ==
    ASSUME IInv, IInv', CountsOK, NEW r \in Requests, Opens(r), Open(r)', Exact(docs), ~outdated'
    PROVE  Exact(Overlay(docs, request'[r].writes)) /\ Locks(docs, request'[r].writes)
<1> DEFINE q == request[r]
           p == request'[r]
           b == Overlay(docs, p.writes)
<1>1. /\ \/ \E f \in Features : FeatureCreated(q, p, b, f)
         \/ \E l \in Lists : q.pc = "createList" /\ ListCreated(q, p, b, l)
         \/ q.pc = "updateReadiness" /\ FeatureMoved(q, p, b)
         \/ FeatureRemoved(q, p, b)
         \/ ListRemoved(q, p, b)
      /\ docs' = docs
  BY Opened
<1>2. /\ \A f \in Features : docs[f] # NoDoc => docs[f] \in FeatureModel
      /\ \A l \in Lists : docs[l] # NoDoc => docs[l].features \subseteq Features
  BY DEF IInv, Sound, Typed, FeatureListModel
<1>3. \A x \in Ids : b[x] = IF x \in DOMAIN p.writes THEN p.writes[x] ELSE docs[x]
  BY Overlaid
<1> HIDE DEF b
<1>4. ASSUME Exact(b),
             \A f \in Features :
                 docs[f] # NoDoc /\ (b[f] = NoDoc \/ b[f].readiness # docs[f].readiness) =>
                     \A l \in docs[f].lists : b[l] # docs[l]
      PROVE  Exact(Overlay(docs, p.writes)) /\ Locks(docs, p.writes)
  <2> SUFFICES ASSUME NEW f \in Features \cap DOMAIN p.writes, NEW l \in docs[f].lists, docs[f] # NoDoc,
                      p.writes[f] = NoDoc \/ p.writes[f].readiness # docs[f].readiness
               PROVE  l \in DOMAIN p.writes
    BY <1>4 DEF Locks, b
  <2>1. f \in Ids /\ l \in Ids
    BY <1>2, Kinds DEF FeatureModel
  <2> QED
    BY <1>3, <1>4, <2>1
<1>5. ASSUME \A f \in Features : docs[f] # NoDoc => b[f] # NoDoc /\ b[f].readiness = docs[f].readiness,
             \A l \in Lists : b[l] # NoDoc /\ b[l] # docs[l] =>
                 (\A f \in b[l].features : b[f] # NoDoc) /\ b[l].readiness = CountReadiness(b, b[l].features)
      PROVE  Exact(Overlay(docs, p.writes)) /\ Locks(docs, p.writes)
  <2>1. Exact(b)
    BY <1>2, <1>5, ExactAfter
  <2> QED
    BY <1>4, <1>5, <2>1
<1>6. CASE \E f \in Features : FeatureCreated(q, p, b, f)
  <2>1. PICK f \in Features : FeatureCreated(q, p, b, f)
    BY <1>6
  <2>2. docs[f] = NoDoc /\ \A x \in Versions : x # f => b[x] = docs[x]
    BY <2>1, Kinds DEF FeatureCreated
  <2>3. \A g \in Features : docs[g] # NoDoc => b[g] = docs[g]
    BY <2>2, Kinds
  <2>4. \A l \in Lists : b[l] = docs[l]
    BY <2>2, Kinds
  <2> QED
    BY <1>5, <2>3, <2>4
<1>7. CASE \E l \in Lists : q.pc = "createList" /\ ListCreated(q, p, b, l)
  <2>1. PICK l \in Lists : ListCreated(q, p, b, l)
    BY <1>7
  <2> DEFINE found == Saved(docs, q.features)
  <2>2. /\ q.features \subseteq Features /\ found = q.features
        /\ CountReadiness(docs, q.features) = q.readiness
        /\ b[l] = [readiness |-> q.readiness, features |-> q.features, version |-> q.version]
        /\ \A f \in found : b[f] = [docs[f] EXCEPT !.lists = @ \cup {l}]
        /\ \A x \in Versions : x # l /\ x \notin found => b[x] = docs[x]
    BY <2>1, Kinds DEF ListCreated
  <2>3. \A f \in Features : docs[f] # NoDoc => b[f] # NoDoc /\ b[f].readiness = docs[f].readiness
    <3> TAKE f \in Features
    <3> HAVE docs[f] # NoDoc
    <3>1. CASE f \in found
      <4>1. b[f] = [docs[f] EXCEPT !.lists = docs[f].lists \cup {l}]
        BY <2>2, <3>1
      <4> QED
        BY <1>2, <4>1 DEF FeatureModel, NoDoc
    <3>2. CASE f \notin found
      <4>1. b[f] = docs[f]
        BY <2>2, <3>2, Kinds
      <4> QED
        BY <4>1
    <3> QED
      BY <3>1, <3>2
  <2>4. \A f \in q.features : docs[f] # NoDoc
    BY <2>2 DEF Saved
  <2>5. b[l].features = q.features /\ b[l].readiness = q.readiness
    BY <2>2
  <2>6. CountReadiness(b, q.features) = CountReadiness(docs, q.features)
    BY <2>2, <2>3, <2>4, SameCount
  <2>7. \A k \in Lists : k # l => b[k] = docs[k]
    BY <2>2, Kinds
  <2> QED
    BY <1>5, <2>2, <2>3, <2>4, <2>5, <2>6, <2>7
<1>8. CASE q.pc = "updateReadiness" /\ FeatureMoved(q, p, b)
  BY <1>4, <1>8, MovedExact
<1>9. CASE FeatureRemoved(q, p, b)
  <2> DEFINE f == q.on
  <2>1. f \in Features /\ docs[f] # NoDoc /\ docs[f].lists = {}
    BY <1>9 DEF FeatureRemoved
  <2>2. \A x \in Versions : x # f => b[x] = docs[x]
    BY <1>9, <2>1, Kinds DEF FeatureRemoved
  <2>3. \A l \in Lists : b[l] = docs[l] /\ (docs[l] # NoDoc => f \notin docs[l].features)
    BY <2>1, <2>2, Kinds DEF IInv, Sound, Links
  <2>4. \A g \in Features : g # f => b[g] = docs[g]
    BY <2>2, Kinds
  <2> HIDE DEF f
  <2>5. Exact(b)
    <3>1. \A l \in Lists : b[l] # NoDoc => \A g \in b[l].features : b[g] = docs[g]
      BY <1>2, <2>3, <2>4
    <3> QED
      BY <2>3, <3>1, ExactAfter
  <2> QED
    BY <1>4, <2>1, <2>4, <2>5
<1>10. CASE ListRemoved(q, p, b)
  <2> DEFINE l == q.on
             pulled == Saved(docs, docs[l].features)
  <2>1. /\ l \in Lists /\ b[l] = NoDoc /\ \A f \in pulled : b[f] = Pulled(docs[f], l)
        /\ \A x \in Versions : x # l /\ x \notin pulled => b[x] = docs[x]
        /\ docs[l] # NoDoc
    BY <1>10, Kinds DEF ListRemoved
  <2>2. pulled \subseteq Features
    BY <1>2, <2>1 DEF Saved
  <2>3. \A f \in Features : docs[f] # NoDoc => b[f] # NoDoc /\ b[f].readiness = docs[f].readiness
    <3> TAKE f \in Features
    <3> HAVE docs[f] # NoDoc
    <3>1. CASE f \in pulled
      <4>1. b[f] = [docs[f] EXCEPT !.lists = docs[f].lists \ {l}]
        BY <2>1, <3>1 DEF Pulled
      <4> QED
        BY <1>2, <4>1 DEF FeatureModel, NoDoc
    <3>2. CASE f \notin pulled
      <4>1. b[f] = docs[f]
        BY <2>1, <3>2, Kinds
      <4> QED
        BY <4>1
    <3> QED
      BY <3>1, <3>2
  <2>4. \A k \in Lists : k # l => b[k] = docs[k]
    BY <2>1, <2>2, Kinds
  <2> QED
    BY <1>5, <2>1, <2>3, <2>4
<1> QED
  BY <1>1, <1>6, <1>7, <1>8, <1>9, <1>10

(* Transactions that one commit leaves open have written other documents.  *)
LEMMA CommitApart ==
    ASSUME IInv, NEW r \in Requests, Commit(r), Open(r), NEW s \in Requests, s # r, Open(s)'
    PROVE  DOMAIN request[r].writes \cap DOMAIN request[s].writes = {}
<1> DEFINE w == DOMAIN request[r].writes
<1>1. \E p : request' = [Doom(r, w) EXCEPT ![r] = p]
  BY DEF Commit, Open
<1> HIDE DEF w
<1>2. request'[s] = Doom(r, w)[s]
  BY <1>1 DEF Doom
<1>3. request[s].pc = "transaction"
  BY <1>2, Doomed DEF Open, InTransaction
<1> QED
  BY <1>2, <1>3, Doomed DEF Open, InTransaction, w

LEMMA OutdatedStays ==
    ASSUME NEW r \in Requests, Starts(r) \/ Opens(r) \/ Recomputes(r) \/ Commit(r) \/ Fail(r)
    PROVE  outdated => outdated'
<1>1. CASE Starts(r)
  <2>1. \E q : Start(r, q)
    BY <1>1, ZenonT(30) DEF Starts, CreateFeature, CreateList, UpdateReadiness, DeleteFeature, DeleteList,
       SetMode, SetDefault
  <2> QED
    BY <2>1 DEF Start
<1>2. CASE Opens(r)
  BY <1>2, ZenonT(30) DEF Opens, InsertFeature, InsertList, MoveFeature, RemoveFeature, RemoveList, Abort
<1>3. CASE Recomputes(r) \/ Commit(r) \/ Fail(r)
  BY <1>3 DEF Recomputes, ReadNamespace, ChooseDefault, WriteNamespace, SetField, Commit, Fail, Abort
<1> QED
  BY <1>1, <1>2, <1>3

(* Counts are kept in lists and taken from features: namespaces do not     *)
(* matter.                                                                 *)
LEMMA ExactVersions ==
    ASSUME NEW a, NEW d, Typed(d), Exact(d), \A x \in Versions : a[x] = d[x]
    PROVE  Exact(a)
<1>1. \A l \in Lists : d[l] # NoDoc => d[l].features \subseteq Features
  BY DEF Typed, FeatureListModel
<1>2. (\A l \in Lists : a[l] = d[l]) /\ \A f \in Features : a[f] = d[f]
  BY Kinds
<1> QED
  BY <1>1, <1>2, ExactAfter

LEMMA ExactStep == IInv /\ IInv' /\ ModelsOK /\ CountsOK /\ ExactOK /\ [Next]_vars => ExactOK'
<1> SUFFICES ASSUME IInv, IInv', ModelsOK, CountsOK, ExactOK, [Next]_vars PROVE ExactOK'
  OBVIOUS
<1>1. CASE UNCHANGED vars
  BY <1>1 DEF vars, ExactOK, Open, InTransaction
<1>2. ASSUME NEW r \in Requests, Starts(r) \/ Opens(r) \/ Recomputes(r) \/ Commit(r) \/ Fail(r)
      PROVE  ExactOK'
  <2> SUFFICES ASSUME ~outdated'
               PROVE  /\ Exact(docs')
                      /\ \A s \in Requests : Open(s)' => /\ Exact(Overlay(docs', request'[s].writes))
                                                         /\ Locks(docs', request'[s].writes)
    BY DEF ExactOK
  <2>1. /\ Exact(docs)
        /\ \A s \in Requests : Open(s) => /\ Exact(Overlay(docs, request[s].writes))
                                          /\ Locks(docs, request[s].writes)
    BY <1>2, OutdatedStays DEF ExactOK
  <2>2. \/ Commit(r) /\ Open(r) /\ \A x \in Ids : docs'[x] = Overlay(docs, request[r].writes)[x]
        \/ \A x \in Versions : docs'[x] = docs[x]
    BY <1>2, DocsWritten
  <2>3. Typed(docs) /\ \A s \in Requests : Open(s) => /\ Typed(Overlay(docs, request[s].writes))
                                                      /\ Links(Overlay(docs, request[s].writes))
    BY DEF IInv, OpenOK, Sound
  <2>4. Exact(docs')
    <3>1. CASE \A x \in Versions : docs'[x] = docs[x]
      BY <2>1, <2>3, <3>1, ExactVersions
    <3>2. CASE Open(r) /\ \A x \in Ids : docs'[x] = Overlay(docs, request[r].writes)[x]
      <4>1. \A x \in Versions : docs'[x] = Overlay(docs, request[r].writes)[x]
        BY <3>2, Kinds
      <4> QED
        BY <2>1, <2>3, <3>2, <4>1, ExactVersions
    <3> QED
      BY <2>2, <3>1, <3>2
  <2>5. ASSUME NEW s \in Requests, Open(s)', s # r
        PROVE  Exact(Overlay(docs', request'[s].writes)) /\ Locks(docs', request'[s].writes)
    <3> DEFINE w == request[s].writes
    <3>1. Open(s) /\ request'[s] = request[s] /\ \A x \in Ids \cap DOMAIN w : docs'[x] = docs[x]
      BY <1>2, <2>5, Others DEF ModelsOK
    <3>2. Exact(Overlay(docs, w)) /\ Locks(docs, w) /\ Typed(Overlay(docs, w)) /\ Links(Overlay(docs, w))
      BY <2>1, <2>3, <3>1
    <3>3. Locks(docs', w)
      BY <3>1, <3>2, Kinds DEF Locks
    <3>4. Exact(Overlay(docs', w))
      <4>1. CASE \A x \in Versions : docs'[x] = docs[x]
        <5>1. \A x \in Versions : Overlay(docs', w)[x] = Overlay(docs, w)[x]
          BY <4>1, Kinds, Overlaid DEF Ids
        <5> QED
          BY <3>2, <5>1, ExactVersions
      <4>2. CASE Commit(r) /\ Open(r) /\ \A x \in Ids : docs'[x] = Overlay(docs, request[r].writes)[x]
        <5> DEFINE v == request[r].writes
        <5>1. DOMAIN v \cap DOMAIN w = {}
          BY <2>5, <4>2, CommitApart
        <5>2. Exact(Overlay(docs, v)) /\ Locks(docs, v) /\ Typed(Overlay(docs, v)) /\ Links(Overlay(docs, v))
          BY <2>1, <2>3, <4>2
        <5> HIDE DEF v, w
        <5>3. Exact(Overlay(Overlay(docs, v), w))
          BY <3>2, <5>1, <5>2, MergedExact
        <5>4. Overlay(docs', w) = Overlay(Overlay(docs, v), w)
          BY <4>2 DEF Overlay, v
        <5> QED
          BY <5>3, <5>4
      <4> QED
        BY <2>2, <4>1, <4>2
    <3> QED
      BY <3>1, <3>3, <3>4
  <2>6. ASSUME Open(r)'
        PROVE  Exact(Overlay(docs', request'[r].writes)) /\ Locks(docs', request'[r].writes)
    <3>1. CASE Starts(r)
      BY <2>6, <3>1 DEF Starts, CreateFeature, CreateList, UpdateReadiness, DeleteFeature,
         DeleteList, SetMode, SetDefault, Start, Open, InTransaction, IInv
    <3>2. CASE Recomputes(r) \/ Commit(r) \/ Fail(r)
      BY <2>6, <3>2, Recomputing DEF Open, InTransaction
    <3>3. CASE Opens(r)
      BY <2>1, <2>6, <3>3, OpenedExact, Opening
    <3> QED
      BY <1>2, <3>1, <3>2, <3>3
  <2> QED
    BY <2>4, <2>5, <2>6
<1> QED
  BY <1>1, <1>2, Steps

LEMMA InitExact == Init => ExactOK
<1> SUFFICES ASSUME Init PROVE ExactOK
  OBVIOUS
<1>1. /\ \A x \in Ids : docs[x] = NoDoc
      /\ \A r \in Requests : request[r].pc = "idle"
  BY DEF Init, IdleRequest
<1> QED
  BY <1>1, Kinds DEF ExactOK, Exact, Open, InTransaction

(* As long as no transaction has started from a read that no longer held,  *)
(* the features of every list exist and its distribution counts them,      *)
(* although the counts are moved one by one, in transactions that commit   *)
(* in any order with others.                                               *)
THEOREM ListsAlwaysExact == Spec => []ListsExact
<1>1. Init => IInv /\ ModelsOK /\ CountsOK /\ ExactOK
  BY InitOK, InitModels, InitCounts, InitExact
<1>2. IInv /\ ModelsOK /\ CountsOK /\ ExactOK /\ [Next]_vars => (IInv /\ ModelsOK /\ CountsOK /\ ExactOK)'
  BY NextOK, ModelsStep, CountsStep, ExactStep
<1>3. IInv /\ ExactOK => ListsExact
  BY DEF IInv, Sound, Typed, FeatureListModel, ExactOK, Exact, ListsExact, Saved
<1> QED
  BY <1>1, <1>2, <1>3, PTL DEF Spec

-----------------------------------------------------------------------------
(* Defaults are settled by recomputing *)

(* Only the versions of a namespace matter for its default.                *)
LEMMA SettledSame ==
    ASSUME NEW d, NEW b, NEW n \in Namespaces, Settled(d, n), d[n].ids \subseteq Members(n), b[n] = d[n],
           \A x \in Members(n) : /\ b[x] # NoDoc <=> d[x] # NoDoc
                                 /\ d[x] # NoDoc => b[x].readiness = d[x].readiness
    PROVE  Settled(b, n)
<1> DEFINE default == d[n].default
<1>1. /\ ~d[n].manual => /\ default \in d[n].ids /\ d[default] # NoDoc
                         /\ \A x \in Members(n) : d[x] # NoDoc => Preferred(d, default, x)
      /\ default \in d[n].ids /\ d[default] # NoDoc => d[n].readiness = d[default].readiness
  BY DEF Settled, Saved
<1> HIDE DEF default
<1>2. default \in d[n].ids => /\ b[default] # NoDoc <=> d[default] # NoDoc
                              /\ d[default] # NoDoc => b[default].readiness = d[default].readiness
  OBVIOUS
<1>3. ASSUME default \in d[n].ids, d[default] # NoDoc
      PROVE  \A x \in Members(n) : b[x] # NoDoc /\ Preferred(d, default, x) => Preferred(b, default, x)
  <2> TAKE x \in Members(n)
  <2> HAVE b[x] # NoDoc /\ Preferred(d, default, x)
  <2>1. b[x].readiness = d[x].readiness
    OBVIOUS
  <2> QED
    BY <1>2, <1>3, <2>1 DEF Preferred
<1> QED
  BY <1>1, <1>2, <1>3 DEF Settled, Saved, default

(* What recomputing leaves is the best version, or the one chosen by hand. *)
LEMMA RecomputedSettled ==
    ASSUME NEW d, NEW b, NEW n \in Namespaces, NEW excluded, Versioned(d), NamespaceOK(n, d[n]),
           MayRecompute(d, n, excluded), b[n] = Recomputed(d, n, excluded),
           \A x \in Members(n) : b[x] = d[x],
           d[n].ids \ excluded = Saved(d, Members(n)), Saved(d, Members(n)) # {}
    PROVE  Settled(b, n)
<1> DEFINE ids == d[n].ids \ excluded
           default == IF d[n].manual THEN d[n].default ELSE Best(d, Saved(d, ids))
           new == [d[n] EXCEPT !.ids = ids, !.default = default, !.readiness = d[default].readiness]
<1>1. Recomputed(d, n, excluded) = new
  BY DEF Recomputed
<1>2. ids = Saved(d, Members(n)) /\ Saved(d, ids) = ids /\ ids \in SUBSET Members(n)
  BY DEF Saved
<1>3. ASSUME ~d[n].manual PROVE default \in ids /\ \A x \in ids : Preferred(d, default, x)
  <2>1. IsFiniteSet(ids) /\ Graded(d, ids)
    BY <1>2, MembersGraded
  <2>2. ids # {}
    BY <1>2
  <2>3. Best(d, ids) \in ids /\ \A x \in ids : Preferred(d, Best(d, ids), x)
    BY <2>1, <2>2, BestExists
  <2> QED
    BY <1>2, <1>3, <2>3
<1> HIDE DEF ids, default
<1>4. /\ new.ids = ids /\ new.default = default /\ new.readiness = d[default].readiness
      /\ new.manual = d[n].manual
  BY DEF NamespaceOK, NamespaceModel, FeatureNamespaceModel, FeatureListNamespaceModel
<1> HIDE DEF new
<1>5. default \in ids => \A x \in Members(n) : Preferred(d, default, x) => Preferred(b, default, x)
  BY <1>2 DEF Preferred
<1>6. Saved(b, ids) = ids /\ Saved(b, Members(n)) = ids
  BY <1>2 DEF Saved
<1>7. b[n].ids = ids /\ b[n].default = default /\ b[n].manual = d[n].manual
  BY <1>1, <1>4
<1>8. default \in ids => b[n].readiness = b[default].readiness
  BY <1>1, <1>2, <1>4
<1> QED
  BY <1>2, <1>3, <1>5, <1>6, <1>7, <1>8 DEF Settled

(* Namespaces whose versions a transaction leaves alone stay settled.      *)
LEMMA OthersSettled ==
    ASSUME IInv, ModelsOK, SettledOutside(docs, unsettled), NEW b, NEW on,
           \A n \in Namespaces \ on : b[n] = docs[n],
           \A n \in Namespaces \ on : \A x \in Members(n) :
               /\ b[x] # NoDoc <=> docs[x] # NoDoc
               /\ docs[x] # NoDoc => b[x].readiness = docs[x].readiness
    PROVE  \A n \in Namespaces \ (on \cup unsettled) : b[n] # NoDoc => Settled(b, n)
<1> TAKE n \in Namespaces \ (on \cup unsettled)
<1> HAVE b[n] # NoDoc
<1>1. b[n] = docs[n] /\ Settled(docs, n) /\ docs[n].ids \subseteq Members(n)
  BY DEF SettledOutside, ModelsOK, Modelled, NamespaceOK
<1>2. \A x \in Members(n) : /\ b[x] # NoDoc <=> docs[x] # NoDoc
                            /\ docs[x] # NoDoc => b[x].readiness = docs[x].readiness
  OBVIOUS
<1> QED
  BY <1>1, <1>2, SettledSame

LEMMA MovedSettled ==
    ASSUME IInv, ModelsOK, SettledOutside(docs, unsettled), NEW r \in Requests, NEW b, Versioned(b),
           FeatureMoved(request[r], request'[r], b)
    PROVE  SettledOutside(b, (unsettled \ request'[r].settled) \cup request'[r].next)
<1> DEFINE q == request[r]
           p == request'[r]
           f == q.on
           moved == Moved(docs, f, q.from, q.to)
           spaces == Spaces({f} \cup docs[f].lists)
<1>1. /\ f \in Features /\ docs[f] # NoDoc /\ \A l \in docs[f].lists : docs[l] # NoDoc
      /\ spaces \subseteq Namespaces /\ \A n \in spaces : MayRecompute(moved, n, {})
      /\ \A x \in Versions : b[x] = moved[x]
      /\ \A n \in Namespaces : /\ moved[n] = docs[n]
                               /\ b[n] = IF n \in spaces THEN Recomputed(moved, n, {}) ELSE docs[n]
      /\ p.settled = spaces /\ p.next = {}
  BY DEF FeatureMoved
<1>2. docs[f] \in FeatureModel /\ docs[f].lists \subseteq Lists
  BY <1>1 DEF IInv, Sound, Typed, FeatureModel
<1>3. \A n \in Namespaces : \A x \in Members(n) :
         x \in Versions /\ (n \notin spaces => x # f /\ x \notin docs[f].lists)
  BY DEF Spaces, Members
<1>4. \A x \in Versions :
         moved[x] = IF x = f THEN [docs[f] EXCEPT !.readiness = q.to]
                    ELSE IF x \in docs[f].lists
                         THEN [docs[x] EXCEPT !.readiness = Shift(docs[x].readiness, q.from, q.to)]
                         ELSE docs[x]
  BY <1>1, <1>2, Kinds DEF Moved, Ids
<1>5. Versioned(moved)
  BY <1>1, Kinds DEF Versioned
<1> HIDE DEF f, moved, spaces
<1>6. \A l \in docs[f].lists : docs[l] \in FeatureListModel
  BY <1>1, <1>2 DEF IInv, Sound, Typed
<1>7. \A x \in Versions : moved[x] # NoDoc <=> docs[x] # NoDoc
  BY <1>1, <1>2, <1>4, <1>6 DEF FeatureModel, FeatureListModel, NoDoc
<1>8. \A n \in Namespaces \ spaces : \A x \in Members(n) : b[x] = docs[x]
  BY <1>1, <1>3, <1>4
<1>9. ASSUME NEW n \in spaces PROVE Settled(b, n)
  <2>1. n \in Namespaces /\ moved[n] = docs[n] /\ MayRecompute(moved, n, {}) /\ b[n] = Recomputed(moved, n, {})
    BY <1>1, <1>9
  <2>2. docs[n] # NoDoc /\ NamespaceOK(n, moved[n])
    BY <2>1 DEF MayRecompute, ModelsOK, Modelled
  <2>3. \A x \in Members(n) : x \in Versions
    BY DEF Members
  <2>4. Saved(moved, Members(n)) = Saved(docs, Members(n))
    BY <1>7, <2>3 DEF Saved
  <2>5. docs[n].ids = Saved(docs, Members(n)) /\ Saved(docs, Members(n)) # {}
    BY <2>1, <2>2 DEF IInv, Sound, Listed, Saved
  <2>6. moved[n].ids \ {} = Saved(moved, Members(n)) /\ Saved(moved, Members(n)) # {}
    BY <2>1, <2>4, <2>5
  <2>7. \A x \in Members(n) : b[x] = moved[x]
    BY <1>1, <2>3
  <2> QED
    BY <1>5, <2>1, <2>2, <2>6, <2>7, RecomputedSettled
<1>10. \A n \in Namespaces \ spaces : b[n] = docs[n]
  BY <1>1
<1>11. \A n \in Namespaces \ (spaces \cup unsettled) : b[n] # NoDoc => Settled(b, n)
  BY <1>8, <1>10, OthersSettled
<1> QED
  BY <1>1, <1>9, <1>11 DEF SettledOutside

LEMMA RemovedSettled ==
    ASSUME IInv, ModelsOK, SettledOutside(docs, unsettled), NEW r \in Requests, NEW b, Versioned(b),
           FeatureRemoved(request[r], request'[r], b)
    PROVE  SettledOutside(b, (unsettled \ request'[r].settled) \cup request'[r].next)
<1> DEFINE p == request'[r]
           f == request[r].on
           n == NamespaceOf[f]
           removed == [docs EXCEPT ![f] = NoDoc]
           doc == Recomputed(removed, n, {f})
<1>1. /\ f \in Features /\ docs[f] # NoDoc /\ MayRecompute(removed, n, {f})
      /\ b[f] = NoDoc /\ b[n] = Forgotten(doc, f)
      /\ \A x \in Ids : x # f /\ x # n => b[x] = docs[x]
      /\ p.settled = {n} /\ p.next = {}
  BY DEF FeatureRemoved
<1>2. f \in Ids /\ n \in Namespaces /\ n # f /\ f \in Members(n)
  BY <1>1, Kinds DEF Members
<1>3. \A x \in Ids : removed[x] = IF x = f THEN NoDoc ELSE docs[x]
  BY DEF IInv
<1>4. \A x \in Versions : x \in Ids /\ x # n
  BY <1>2, Kinds DEF Ids
<1> HIDE DEF removed, doc, n, f
<1>5. \A x \in Versions : b[x] = removed[x]
  BY <1>1, <1>3, <1>4
<1>6. removed[n] = docs[n]
  BY <1>2, <1>3, Kinds
<1>7. Versioned(removed)
  BY <1>5, Kinds DEF Versioned
<1>8. ASSUME b[n] # NoDoc PROVE Settled(b, n)
  <2>1. docs[n] # NoDoc /\ NamespaceOK(n, removed[n])
    BY <1>1, <1>2, <1>6 DEF MayRecompute, ModelsOK, Modelled
  <2>2. \A x \in Members(n) : x \in Versions /\ x \in Ids
    BY <1>4 DEF Members
  <2>3. Saved(removed, Members(n)) = Saved(docs, Members(n)) \ {f}
    BY <1>3, <2>2 DEF Saved
  <2>4. docs[n].ids = Saved(docs, Members(n))
    BY <1>2, <2>1 DEF IInv, Sound, Listed
  <2>5. removed[n].ids \ {f} = Saved(removed, Members(n))
    BY <1>6, <2>3, <2>4
  <2>6. b[n] = doc
    BY <1>1, <1>8 DEF Forgotten
  <2>7. Saved(removed, Members(n)) # {}
    <3>1. ASSUME removed[n].ids \ {f} = {} PROVE doc.ids = {}
      BY <2>1, <3>1 DEF doc, Recomputed, NamespaceOK, NamespaceModel, FeatureNamespaceModel,
                        FeatureListNamespaceModel
    <3>2. doc.ids # {}
      BY <1>1, <1>8 DEF Forgotten
    <3> QED
      BY <2>5, <3>1, <3>2
  <2>8. \A x \in Members(n) : b[x] = removed[x]
    BY <1>5, <2>2
  <2> QED
    BY <1>1, <1>2, <1>7, <2>1, <2>5, <2>6, <2>7, <2>8, RecomputedSettled DEF doc
<1>9. \A m \in Namespaces \ {n} : b[m] = docs[m]
  BY <1>1, <1>2, Kinds DEF f
<1>10. \A m \in Namespaces \ {n} : \A x \in Members(m) : b[x] = docs[x]
  <2> TAKE m \in Namespaces \ {n}
  <2> TAKE x \in Members(m)
  <2>1. x \in Versions /\ NamespaceOf[x] = m
    BY DEF Members
  <2>2. x # f
    BY <2>1 DEF n
  <2> QED
    BY <1>1, <1>4, <2>1, <2>2
<1>11. \A m \in Namespaces \ ({n} \cup unsettled) : b[m] # NoDoc => Settled(b, m)
  BY <1>9, <1>10, OthersSettled
<1> QED
  BY <1>1, <1>8, <1>11 DEF SettledOutside

LEMMA OpenedSettled ==
    ASSUME IInv, IInv', ModelsOK, SettledOutside(docs, unsettled), NEW r \in Requests, Opens(r), Open(r)'
    PROVE  SettledOutside(Overlay(docs, request'[r].writes),
                          (unsettled \ request'[r].settled) \cup request'[r].next)
<1> DEFINE q == request[r]
           p == request'[r]
           b == Overlay(docs, p.writes)
<1>1. /\ \/ \E f \in Features : FeatureCreated(q, p, b, f)
         \/ \E l \in Lists : q.pc = "createList" /\ ListCreated(q, p, b, l)
         \/ q.pc = "updateReadiness" /\ FeatureMoved(q, p, b)
         \/ FeatureRemoved(q, p, b)
         \/ ListRemoved(q, p, b)
      /\ docs' = docs
  BY Opened
<1>2. Versioned(b)
  BY <1>1, SoundVersioned DEF IInv, OpenOK
<1>3. \A f \in Features : docs[f] # NoDoc => docs[f] \in FeatureModel
  BY DEF IInv, Sound, Typed
<1> HIDE DEF b
<1>4. ASSUME NEW n, p.next = {n}, p.settled = {},
             \A m \in Namespaces \ {n} : b[m] = docs[m],
             \A x \in Versions : NamespaceOf[x] # n =>
                 /\ b[x] # NoDoc <=> docs[x] # NoDoc
                 /\ docs[x] # NoDoc => b[x].readiness = docs[x].readiness
      PROVE  SettledOutside(Overlay(docs, p.writes), (unsettled \ p.settled) \cup p.next)
  <2>1. \A m \in Namespaces \ {n} : \A x \in Members(m) :
            /\ b[x] # NoDoc <=> docs[x] # NoDoc
            /\ docs[x] # NoDoc => b[x].readiness = docs[x].readiness
    BY <1>4 DEF Members
  <2>2. \A m \in Namespaces \ ({n} \cup unsettled) : b[m] # NoDoc => Settled(b, m)
    BY <1>4, <2>1, OthersSettled
  <2> QED
    BY <1>4, <2>2 DEF SettledOutside, b
<1>5. CASE \E f \in Features : FeatureCreated(q, p, b, f)
  <2>1. PICK f \in Features : FeatureCreated(q, p, b, f)
    BY <1>5
  <2> DEFINE n == q.on
  <2>2. /\ NamespaceOf[f] = n /\ p.settled = {} /\ p.next = {n}
        /\ \A x \in Ids : x # f /\ x # n => b[x] = docs[x]
        /\ n \in Namespaces
    BY <2>1, Kinds DEF FeatureCreated
  <2> HIDE DEF n
  <2>3. \A m \in Namespaces \ {n} : b[m] = docs[m]
    BY <2>2, Kinds
  <2>4. \A x \in Versions : NamespaceOf[x] # n => b[x] = docs[x]
    BY <2>2, Kinds DEF Ids
  <2> QED
    BY <1>4, <2>2, <2>3, <2>4
<1>6. CASE \E l \in Lists : q.pc = "createList" /\ ListCreated(q, p, b, l)
  <2>1. PICK l \in Lists : ListCreated(q, p, b, l)
    BY <1>6
  <2> DEFINE n == q.on
             found == Saved(docs, q.features)
  <2>2. /\ NamespaceOf[l] = n /\ p.settled = {} /\ p.next = {n} /\ q.features \subseteq Features
        /\ \A f \in found : b[f] = [docs[f] EXCEPT !.lists = docs[f].lists \cup {l}]
        /\ \A x \in Ids : x # l /\ x # n /\ x \notin found => b[x] = docs[x]
        /\ n \in Namespaces
    BY <2>1, Kinds DEF ListCreated
  <2>3. found \subseteq Features /\ \A f \in found : docs[f] # NoDoc
    BY <2>2 DEF Saved
  <2> HIDE DEF n, found
  <2>4. \A m \in Namespaces \ {n} : b[m] = docs[m]
    BY <2>2, <2>3, Kinds
  <2>5. \A f \in found : b[f] # NoDoc /\ b[f].readiness = docs[f].readiness
    BY <1>3, <2>2, <2>3, ZenonT(30) DEF FeatureModel, NoDoc
  <2>6. \A x \in Versions : NamespaceOf[x] # n => x \in found \/ b[x] = docs[x]
    BY <2>2, Kinds DEF Ids
  <2>7. \A x \in Versions : NamespaceOf[x] # n =>
            /\ b[x] # NoDoc <=> docs[x] # NoDoc
            /\ docs[x] # NoDoc => b[x].readiness = docs[x].readiness
    BY <2>3, <2>5, <2>6
  <2> QED
    BY <1>4, <2>2, <2>4, <2>7, ZenonT(30)
<1>7. CASE q.pc = "updateReadiness" /\ FeatureMoved(q, p, b)
  BY <1>2, <1>7, MovedSettled DEF b
<1>8. CASE FeatureRemoved(q, p, b)
  BY <1>2, <1>8, RemovedSettled DEF b
<1>9. CASE ListRemoved(q, p, b)
  <2> DEFINE l == q.on
             n == NamespaceOf[l]
             pulled == Saved(docs, docs[l].features)
  <2>1. /\ l \in Lists /\ docs[l] # NoDoc /\ p.settled = {} /\ p.next = {n}
        /\ \A f \in pulled : b[f] = [docs[f] EXCEPT !.lists = docs[f].lists \ {l}]
        /\ \A x \in Ids : x # l /\ x # n /\ x \notin pulled => b[x] = docs[x]
        /\ n \in Namespaces
    BY <1>9, Kinds DEF ListRemoved, Pulled
  <2>2. pulled \subseteq Features /\ \A f \in pulled : docs[f] # NoDoc
    BY <2>1 DEF Saved, IInv, Sound, Typed, FeatureListModel
  <2>3. \A x \in Versions : NamespaceOf[x] # n => x # l
    OBVIOUS
  <2> HIDE DEF n, pulled, l
  <2>4. \A m \in Namespaces \ {n} : b[m] = docs[m]
    BY <2>1, <2>2, Kinds
  <2>5. \A f \in pulled : b[f] # NoDoc /\ b[f].readiness = docs[f].readiness
    BY <1>3, <2>1, <2>2 DEF FeatureModel, NoDoc
  <2>6. \A x \in Versions : NamespaceOf[x] # n => x \in pulled \/ b[x] = docs[x]
    BY <2>1, <2>3, Kinds DEF Ids
  <2>7. \A x \in Versions : NamespaceOf[x] # n =>
            /\ b[x] # NoDoc <=> docs[x] # NoDoc
            /\ docs[x] # NoDoc => b[x].readiness = docs[x].readiness
    BY <2>2, <2>5, <2>6
  <2> QED
    BY <1>4, <2>1, <2>4, <2>7
<1> QED
  BY <1>1, <1>5, <1>6, <1>7, <1>8, <1>9

(* What is written outside of a transaction is what was recomputed: nobody *)
(* has changed the namespace since it was read.                            *)
LEMMA ChosenSettled ==
    ASSUME IInv, ModelsOK, NEW r \in Requests, request[r].pc = "choose",
           docs[request[r].on] # NoDoc, request[r].seen = docs[request[r].on],
           MayRecompute(docs, request[r].on, request[r].excluded)
    PROVE  Settled([docs EXCEPT ![request[r].on] = Recomputed(docs, request[r].on, request[r].excluded)],
                   request[r].on)
<1> DEFINE n == request[r].on
           excluded == request[r].excluded
           b == [docs EXCEPT ![n] = Recomputed(docs, n, excluded)]
<1>1. n \in Namespaces /\ docs[n].ids \cap excluded = {}
  BY DEF IInv, RequestOK
<1>2. docs[n].ids = Saved(docs, Members(n)) /\ Saved(docs, Members(n)) # {}
  BY <1>1 DEF IInv, Sound, Listed, Saved
<1>3. docs[n].ids \ excluded = Saved(docs, Members(n))
  BY <1>1, <1>2
<1>4. NamespaceOK(n, docs[n]) /\ Versioned(docs)
  BY <1>1, SoundVersioned DEF ModelsOK, Modelled, IInv
<1>5. b[n] = Recomputed(docs, n, excluded)
  BY <1>1, Kinds DEF IInv
<1>6. \A x \in Members(n) : b[x] = docs[x]
  BY <1>1, Kinds DEF Members, IInv, Ids
<1> HIDE DEF b
<1>7. MayRecompute(docs, n, excluded)
  OBVIOUS
<1> HIDE DEF n, excluded
<1>8. Settled(b, n)
  BY <1>1, <1>2, <1>3, <1>4, <1>5, <1>6, <1>7, RecomputedSettled
<1> QED
  BY <1>8 DEF b, n, excluded

(* The first requirement of DefaultsOK survives writes of one namespace,   *)
(* which is settled by the write or marked as unsettled.                   *)
LEMMA OneWritten ==
    ASSUME IInv, ModelsOK, SettledOutside(docs, unsettled), NEW n \in Namespaces, NEW doc,
           docs' = [docs EXCEPT ![n] = doc],
           \/ n \in unsettled' /\ unsettled \subseteq unsettled'
           \/ Settled(docs', n) /\ unsettled \ {n} \subseteq unsettled'
    PROVE  SettledOutside(docs', unsettled')
<1>1. /\ \A m \in Namespaces \ {n} : docs'[m] = docs[m]
      /\ \A m \in Namespaces \ {n} : \A x \in Members(m) : docs'[x] = docs[x]
  BY Kinds DEF IInv, Members, Ids
<1>2. \A m \in Namespaces \ ({n} \cup unsettled) : docs'[m] # NoDoc => Settled(docs', m)
  BY <1>1, OthersSettled
<1> QED
  BY <1>2 DEF SettledOutside

LEMMA RecomputeSettles ==
    ASSUME IInv, ModelsOK, DefaultsOK, overlaps = 0, NEW r \in Requests, Recomputes(r)
    PROVE  /\ SettledOutside(docs', unsettled')
           /\ request'[r].pc \in {"choose", "write"} =>
                 docs'[request'[r].on] # NoDoc /\ request'[r].seen = docs'[request'[r].on]
           /\ request'[r].pc = "write" =>
                 Settled([docs' EXCEPT ![request'[r].on] = request'[r].after], request'[r].on)
<1> DEFINE q == request[r]
           n == q.on
<1>1. request = [s \in Requests |-> request[s]] /\ docs = [x \in Ids |-> docs[x]]
  BY SMTT(30) DEF IInv
<1>2. SettledOutside(docs, unsettled)
  BY DEF DefaultsOK
<1>3. q.pc \in {"choose", "write"} => n \in Namespaces /\ docs[n] # NoDoc /\ q.seen = docs[n]
  BY DEF DefaultsOK, IInv, RequestOK
<1>4. CASE Abort(r)
  BY <1>1, <1>2, <1>4 DEF Abort, IdleRequest
<1>5. CASE ReadNamespace(r) /\ ~Abort(r)
  <2>1. PICK m \in q.next :
            /\ docs[m] # NoDoc
            /\ request' = [request EXCEPT ![r] = [pc |-> "choose", on |-> m, seen |-> docs[m],
                                                  excluded |-> q.excluded]]
    BY <1>5 DEF ReadNamespace
  <2>2. docs' = docs /\ unsettled' = unsettled
    BY <1>5 DEF ReadNamespace
  <2>3. request'[r] = [pc |-> "choose", on |-> m, seen |-> docs[m], excluded |-> q.excluded]
    BY <1>1, <2>1
  <2>4. request'[r].pc = "choose" /\ request'[r].on = m /\ request'[r].seen = docs[m]
    BY <2>3
  <2> QED
    BY <1>2, <2>1, <2>2, <2>4
<1>6. CASE ChooseDefault(r) /\ ~Abort(r)
  <2> DEFINE d == [docs EXCEPT ![n] = q.seen]
  <2>1. /\ q.pc = "choose" /\ MayRecompute(d, n, q.excluded)
        /\ request' = [request EXCEPT ![r] = [pc |-> "write", on |-> n, seen |-> q.seen,
                                              after |-> Recomputed(d, n, q.excluded)]]
        /\ docs' = docs /\ unsettled' = unsettled
    BY <1>6 DEF ChooseDefault
  <2>2. d = docs
    BY <1>1, <1>3, <2>1
  <2>3. request'[r] = [pc |-> "write", on |-> n, seen |-> q.seen, after |-> Recomputed(docs, n, q.excluded)]
    BY <1>1, <2>1, <2>2
  <2>4. /\ request'[r].pc = "write" /\ request'[r].on = n /\ request'[r].seen = q.seen
        /\ request'[r].after = Recomputed(docs, n, q.excluded)
    BY <2>3
  <2>5. MayRecompute(docs, n, q.excluded)
    BY <2>1, <2>2
  <2>6. Settled([docs EXCEPT ![n] = Recomputed(docs, n, q.excluded)], n)
    BY <1>3, <2>1, <2>5, ChosenSettled
  <2> QED
    BY <1>2, <1>3, <2>1, <2>4, <2>6
<1>7. CASE WriteNamespace(r) /\ ~Abort(r)
  <2> DEFINE doc == [x \in DOMAIN docs[n] |-> IF x \in FieldsToWrite(q.seen, q.after) THEN q.after[x]
                                              ELSE docs[n][x]]
             written == IF n \in FeatureNamespaces /\ q.after = q.seen THEN docs[n] ELSE doc
  <2>1. /\ q.pc = "write" /\ docs' = [docs EXCEPT ![n] = written] /\ unsettled' = Unsettled({n}, {})
        /\ \E w : request' = [Doom(r, w) EXCEPT ![r] = IdleRequest]
    BY <1>7 DEF WriteNamespace
  <2>2. q.seen = docs[n] /\ NamespaceOK(n, q.seen) /\ NamespaceOK(n, q.after)
    BY <1>3, <2>1 DEF ModelsOK, FieldsOK
  <2>3. q.seen = [x \in DOMAIN q.seen |-> q.seen[x]] /\ q.after = [x \in DOMAIN q.seen |-> q.after[x]]
    BY <2>2 DEF NamespaceOK, NamespaceModel, FeatureNamespaceModel, FeatureListNamespaceModel
  <2>4. \A x \in DOMAIN q.seen : x \notin FieldsToWrite(q.seen, q.after) => q.seen[x] = q.after[x]
    BY DEF FieldsToWrite
  <2>5. doc = q.after
    BY <2>2, <2>3, <2>4
  <2>6. written = q.after
    BY <2>2, <2>5
  <2> HIDE DEF doc, written
  <2>7. docs' = [docs EXCEPT ![n] = q.after] /\ Settled(docs', n)
    BY <2>1, <2>6 DEF DefaultsOK
  <2>8. unsettled' = unsettled \ {n}
    BY <2>1 DEF Unsettled
  <2>9. request'[r].pc = "idle"
    BY <2>1 DEF Doom, IdleRequest
  <2>10. n \in Namespaces
    BY <1>3, <2>1
  <2> HIDE DEF n
  <2>11. SettledOutside(docs', unsettled')
    BY <1>2, <2>7, <2>8, <2>10, OneWritten
  <2> QED
    BY <2>9, <2>11
<1>8. CASE SetField(r) /\ ~Abort(r)
  <2> DEFINE doc == [docs[n] EXCEPT ![q.field] = q.value]
  <2>0. n \in Namespaces
    BY <1>8 DEF SetField, IInv, RequestOK
  <2>1. /\ docs' = [docs EXCEPT ![n] = doc] /\ unsettled' = Unsettled({}, {n})
        /\ \E w, p : request' = [Doom(r, w) EXCEPT ![r] = [pc |-> "recompute", next |-> p, excluded |-> {}]]
    BY <1>8 DEF SetField
  <2>2. unsettled' = unsettled \cup {n}
    BY <2>1 DEF Unsettled
  <2>3. request'[r].pc = "recompute"
    BY <2>1 DEF Doom
  <2> HIDE DEF n, doc
  <2>4. SettledOutside(docs', unsettled')
    BY <1>2, <2>0, <2>1, <2>2, OneWritten
  <2> QED
    BY <2>3, <2>4
<1> QED
  BY <1>4, <1>5, <1>6, <1>7, <1>8 DEF Recomputes

LEMMA CommitSettles ==
    ASSUME IInv, DefaultsOK, overlaps = 0, NEW r \in Requests, Commit(r) \/ Fail(r)
    PROVE  SettledOutside(docs', unsettled') /\ request'[r].pc \in {"idle", "recompute"}
<1>1. SettledOutside(docs, unsettled)
  BY DEF DefaultsOK
<1>2. CASE Abort(r)
  BY <1>1, <1>2 DEF Abort, IInv, IdleRequest
<1>3. CASE Commit(r) /\ ~Abort(r)
  <2> DEFINE q == request[r]
             b == Overlay(docs, q.writes)
  <2>1. /\ Open(r) /\ docs' = b /\ unsettled' = Unsettled(q.settled, q.next)
        /\ \E w, n, x : request' = [Doom(r, w) EXCEPT ![r] =
               IF n = {} THEN IdleRequest ELSE [pc |-> "recompute", next |-> n, excluded |-> x]]
    BY <1>3 DEF Commit, Open, Overlay
  <2>2. SettledOutside(b, (unsettled \ q.settled) \cup q.next)
    BY <2>1 DEF DefaultsOK
  <2>3. unsettled' = (unsettled \ q.settled) \cup q.next
    BY <2>1 DEF Unsettled
  <2>4. \E n, x : request'[r] = IF n = {} THEN IdleRequest
                                ELSE [pc |-> "recompute", next |-> n, excluded |-> x]
    BY <2>1 DEF Doom
  <2>5. request'[r].pc \in {"idle", "recompute"}
    BY <2>4 DEF IdleRequest
  <2> HIDE DEF b
  <2> QED
    BY <2>1, <2>2, <2>3, <2>5
<1> QED
  BY <1>2, <1>3 DEF Fail

LEMMA DefaultsStep == IInv /\ IInv' /\ ModelsOK /\ SerialOK /\ DefaultsOK /\ [Next]_vars => DefaultsOK'
<1> SUFFICES ASSUME IInv, IInv', ModelsOK, SerialOK, DefaultsOK, [Next]_vars PROVE DefaultsOK'
  OBVIOUS
<1>1. CASE UNCHANGED vars
  BY <1>1 DEF vars, DefaultsOK, Open, InTransaction
<1>2. ASSUME overlaps' = 0, SettledOutside(docs', unsettled'),
             NEW r \in Requests, \A s \in Requests : s # r => request'[s].pc = "idle",
             Open(r)' => SettledOutside(Overlay(docs', request'[r].writes),
                                        (unsettled' \ request'[r].settled) \cup request'[r].next),
             request'[r].pc \in {"choose", "write"} =>
                 docs'[request'[r].on] # NoDoc /\ request'[r].seen = docs'[request'[r].on],
             request'[r].pc = "write" =>
                 Settled([docs' EXCEPT ![request'[r].on] = request'[r].after], request'[r].on)
      PROVE  DefaultsOK'
  <2>1. \A s \in Requests : s # r => ~Open(s)'
    BY <1>2 DEF Open, InTransaction
  <2> QED
    BY <1>2, <2>1 DEF DefaultsOK
<1>3. ASSUME NEW r \in Requests, Starts(r)
      PROVE  DefaultsOK'
  <2>1. \E q : Start(r, q) /\ q.pc \notin {"transaction", "choose", "write"}
    <3>1. CreateFeature(r) => \E q : Start(r, q) /\ q.pc \notin {"transaction", "choose", "write"}
      BY DEF CreateFeature
    <3>2. CreateList(r) => \E q : Start(r, q) /\ q.pc \notin {"transaction", "choose", "write"}
      BY DEF CreateList
    <3>3. UpdateReadiness(r) => \E q : Start(r, q) /\ q.pc \notin {"transaction", "choose", "write"}
      BY DEF UpdateReadiness
    <3>4. DeleteFeature(r) => \E q : Start(r, q) /\ q.pc \notin {"transaction", "choose", "write"}
      BY DEF DeleteFeature
    <3>5. DeleteList(r) => \E q : Start(r, q) /\ q.pc \notin {"transaction", "choose", "write"}
      BY DEF DeleteList
    <3>6. SetMode(r) => \E q : Start(r, q) /\ q.pc \notin {"transaction", "choose", "write"}
      BY DEF SetMode
    <3>7. SetDefault(r) => \E q : Start(r, q) /\ q.pc \notin {"transaction", "choose", "write"}
      BY DEF SetDefault
    <3> QED
      BY <1>3, <3>1, <3>2, <3>3, <3>4, <3>5, <3>6, <3>7 DEF Starts
  <2>2. CASE overlaps' = 0
    <3>1. /\ docs' = docs /\ unsettled' = unsettled /\ overlaps = 0
          /\ \A s \in Requests : s # r => request'[s].pc = "idle"
      BY <2>1, <2>2 DEF Start, SerialOK, Idle, IInv
    <3>2. request'[r].pc \notin {"transaction", "choose", "write"}
      BY <2>1 DEF Start, IInv
    <3>3. SettledOutside(docs', unsettled')
      BY <3>1 DEF DefaultsOK
    <3> QED
      BY <1>2, <2>2, <3>1, <3>2, <3>3 DEF Open, InTransaction
  <2> QED
    BY <2>2 DEF DefaultsOK
<1>4. ASSUME NEW r \in Requests, Opens(r) \/ Recomputes(r) \/ Commit(r) \/ Fail(r)
      PROVE  DefaultsOK'
  <2>1. ~Idle(r) /\ overlaps' = overlaps /\ \A s \in Requests : s # r /\ Idle(s) => request'[s] = request[s]
    BY <1>4, Opening, Recomputing
  <2>2. CASE overlaps = 0
    <3>1. \A s \in Requests : s # r => request'[s].pc = "idle"
      BY <2>1, <2>2 DEF SerialOK, Idle
    <3>2. SettledOutside(docs, unsettled)
      BY <2>2 DEF DefaultsOK
    <3>3. CASE Opens(r)
      <4>1. docs' = docs /\ request'[r].pc \in {"idle", "transaction"}
        BY <3>3, Opening, SMTT(30)
      <4>2. unsettled' = unsettled
        BY <3>3 DEF Opens, InsertFeature, InsertList, MoveFeature, RemoveFeature, RemoveList, Abort
      <4>3. Open(r)' => SettledOutside(Overlay(docs, request'[r].writes),
                                       (unsettled \ request'[r].settled) \cup request'[r].next)
        BY <3>2, <3>3, OpenedSettled
      <4> QED
        BY <1>2, <2>1, <2>2, <3>1, <3>2, <4>1, <4>2, <4>3
    <3>4. CASE Recomputes(r)
      <4>1. ~Open(r)'
        BY <3>4, Recomputing DEF Open, InTransaction
      <4> QED
        BY <1>2, <2>1, <2>2, <3>1, <3>4, <4>1, RecomputeSettles
    <3>5. CASE Commit(r) \/ Fail(r)
      <4>1. SettledOutside(docs', unsettled') /\ request'[r].pc \in {"idle", "recompute"}
        BY <2>2, <3>5, CommitSettles
      <4> QED
        BY <1>2, <2>1, <2>2, <3>1, <4>1 DEF Open, InTransaction
    <3> QED
      BY <1>4, <3>3, <3>4, <3>5
  <2> QED
    BY <2>1, <2>2 DEF DefaultsOK
<1> QED
  BY <1>1, <1>3, <1>4, Steps

(* When requests do not overlap, a namespace that has been recomputed since*)
(* it was last changed has the best of its versions as its default, unless *)
(* it was chosen by hand, and shows the readiness of the default, unless a *)
(* chosen one is no version of it: although creating a version, deleting a *)
(* list and choosing a default recompute it only after they have committed,*)
(* and may fail in between.                                                *)
THEOREM DefaultsAlwaysSettled == Spec => []DefaultsSettled
<1>1. Init => IInv /\ ModelsOK /\ SerialOK /\ DefaultsOK
  <2> SUFFICES ASSUME Init PROVE DefaultsOK
    BY InitOK, InitModels, InitSerial
  <2>1. /\ \A x \in Ids : docs[x] = NoDoc
        /\ \A r \in Requests : request[r].pc = "idle"
    BY DEF Init, IdleRequest
  <2> QED
    BY <2>1, Kinds DEF DefaultsOK, SettledOutside, Open, InTransaction
<1>2. IInv /\ ModelsOK /\ SerialOK /\ DefaultsOK /\ [Next]_vars =>
          (IInv /\ ModelsOK /\ SerialOK /\ DefaultsOK)'
  BY NextOK, ModelsStep, SerialStep, DefaultsStep
<1>3. DefaultsOK => DefaultsSettled
  BY DEF DefaultsOK, SettledOutside, Settled, DefaultsSettled, Saved
<1> QED
  BY <1>1, <1>2, <1>3, PTL DEF Spec
=============================================================================
