------------------------------ MODULE Registry ------------------------------
(***************************************************************************)
(* ThingSetRegistry: the hash table of all node objects and the lists of   *)
(* children of the parent nodes.  Nodes register themselves when they are  *)
(* constructed, in whatever order the program constructs them, and leave   *)
(* when they are destroyed.                                                *)
(***************************************************************************)
EXTENDS NodeList
LOCAL INSTANCE SequencesExt

CONSTANTS
  Root, Metadata,   \* the two nodes the registry itself owns
  Id, Parent,       \* the template arguments of each node: raw ids
  Name,             \* its name within its parent
  Kind,             \* what it can be cast to
  NumberOf,         \* the path components that are numbers
  RecordSize,       \* elements of a record array
  Static,           \* the nodes constructed before main, in that order
  Asserts,          \* is assert() compiled in?
  MaxRefs           \* bound: record elements alive at one time

Kinds == {"root", "group", "record", "function", "value", "parameter", "member"}

ASSUME RegistryAssumption ==
  /\ IsFiniteSet(Node) /\ Nil \notin Node
  /\ Root \in Node /\ Metadata \in Node /\ Root # Metadata
  /\ Id \in [Node -> 0..65535] /\ Parent \in [Node -> 0..65535]
  /\ Kind \in [Node -> Kinds] /\ DOMAIN Name = Node
  /\ Id[Root] = 0 /\ Parent[Root] = 0 /\ Id[Metadata] = 25 /\ Parent[Metadata] = 0
  /\ Kind[Root] = "root" /\ Kind[Metadata] = "root"
  /\ Static \in Seq(Node \ {Root, Metadata})
  /\ Asserts \in BOOLEAN /\ MaxRefs \in Nat /\ RecordSize \in Nat

VARIABLES
  reg,          \* buckets and children lists, with the links through the nodes
  refs,         \* objects alive: of a record member, how many elements hold one
  stale,        \* nodes whose parent was destroyed before them (history)
  aborted       \* the assertion against duplicates has failed

regVars == <<reg, refs, stale, aborted>>

Buckets == 0..7

Reg == [map : [Buckets -> [head : Ptr, tail : Ptr]], link : [Node -> Ptr],
        kids : [Node -> [head : Ptr, tail : Ptr]], sib : [Node -> Ptr]]

Live == {n \in Node : refs[n] > 0}

-----------------------------------------------------------------------------
(* Identity and lookup.                                                    *)

\* What the node classes can be cast to (tryCastTo).
OverlayCasts   == {"hasChildren"}
GroupCasts     == {"encodable", "group", "hasChildren"}
PropertyCasts  == {"encodable", "decodable"}
RecordCasts    == {"encodable", "decodable", "requestHandler", "record", "hasChildren"}
FunctionCasts  == {"function", "hasChildren"}
ParameterCasts == {}
ProxyCasts     == {"recordMember"}

Casts(n) ==
  CASE Kind[n] = "root"     -> OverlayCasts
    [] Kind[n] = "group"    -> GroupCasts
    [] Kind[n] = "value"    -> PropertyCasts
    [] Kind[n] = "record"   -> RecordCasts
    [] Kind[n] = "function" -> FunctionCasts
    [] Kind[n] = "member"   -> ProxyCasts
    [] OTHER                -> ParameterCasts

HasChildren(n) == "hasChildren" \in Casts(n)

\* calculateId: record members live in buckets of their own.
CalculateId(id, parent) == (parent % 255) * 65536 + id + 1

EffectiveId(n) == IF "recordMember" \in Casts(n) THEN CalculateId(Id[n], Parent[n]) ELSE Id[n]

Bucket(id) == id % 8

InBucket(r, id) == Elems(r.map[Bucket(id)], r.link)

\* The first node of list s that is among these, or a null pointer.
FirstIn(s, these) ==
  LET hits == {i \in DOMAIN s : s[i] \in these} IN
  IF hits = {} THEN Nil ELSE s[CHOOSE i \in hits : \A j \in hits : i <= j]

\* findById with a raw id; the bucket of a record member is never looked into.
FindById(r, id) == FirstIn(InBucket(r, id), {n \in Node : Id[n] = id})

FindParentById(r, id) ==
  LET n == FindById(r, id) IN IF n # Nil /\ HasChildren(n) THEN n ELSE Nil

FindMember_FirstComer(r, id, parent) ==      \* mutant: the parent is not compared
  LET p == FindParentById(r, parent) IN
  IF p = Nil \/ "record" \notin Casts(p) THEN Nil
  ELSE FirstIn(InBucket(r, CalculateId(id, parent)), {n \in Node : Id[n] = id})

\* findById with the id of the record: the proxy of one of its members.
FindMember(r, id, parent) ==
  LET p == FindParentById(r, parent) IN
  IF p = Nil \/ "record" \notin Casts(p) THEN Nil
  ELSE FirstIn(InBucket(r, CalculateId(id, parent)),
               {n \in Node : Id[n] = id /\ Parent[n] = parent})

\* The children an iteration of node p shows; a record array hides them.
Children(r, p) ==
  IF Kind[p] = "record" THEN <<>> ELSE Elems(r.kids[p], r.sib)

NoIndex == -1
Found(n, i) == [node |-> n, index |-> i]
Missing == Found(Nil, NoIndex)

\* findByName from node p: the remainder of the path is looked up in the first child
\* that bears the name; a node answers to its own name, and a record array to a number
\* within its bounds, whatever follows it.
FindByName(r, p, path) ==
  LET d == Len(path)
      at[i \in 1..d] ==
        [n \in Node |->
           LET child == FirstIn(Children(r, n), {c \in Node : Name[c] = path[i]})
           IN IF Kind[n] = "record" /\ path[i] \in DOMAIN NumberOf
              THEN IF NumberOf[path[i]] < RecordSize THEN Found(n, NumberOf[path[i]])
                   ELSE Missing
              ELSE IF i = d /\ Name[n] = path[i] THEN Found(n, NoIndex)
              ELSE IF child = Nil THEN Missing
              ELSE IF i = d THEN Found(child, NoIndex)
              ELSE IF HasChildren(child) THEN at[i + 1][child] ELSE Missing]
  IN at[1][p]

\* The nodes a loop over the registry visits, bucket after bucket.
AllRegistered(r) == FlattenSeq([i \in 1..8 |-> Elems(r.map[i - 1], r.link)])

-----------------------------------------------------------------------------
(* Registration.                                                           *)

Duplicate(r, n) == \E e \in ToSet(InBucket(r, EffectiveId(n))) : EffectiveId(e) = EffectiveId(n)

IntoBucket(r, n) ==
  LET b == Bucket(EffectiveId(n)) l == PushBack(r.map[b], r.link, n) IN
  [r EXCEPT !.map[b] = l.list, !.link = l.next]

AddChild(r, p, n) ==
  LET l == PushBack(r.kids[p], r.sib, n) IN [r EXCEPT !.kids[p] = l.list, !.sib = l.next]

RemoveChild(r, p, n) ==
  LET l == Unlink(r.kids[p], r.sib, n) IN [r EXCEPT !.kids[p] = l.list, !.sib = l.next]

\* The parent that is told of a node's coming and going, if it is there.
ParentFor(r, n) == IF Parent[n] = EffectiveId(n) THEN Nil ELSE FindParentById(r, Parent[n])

\* A new parent takes in the nodes that were registered before it.
Adopt(r, p) ==
  FoldLeft(LAMBDA acc, n : IF Parent[n] = Id[p] THEN AddChild(acc, p, n) ELSE acc,
           r, AllRegistered(r))

\* registerNode; a duplicate does not enter the table, but its parent is told of it.
Registered(r, n) ==
  LET r1 == IF Duplicate(r, n) THEN r ELSE IntoBucket(r, n)
      p  == ParentFor(r1, n)
      r2 == IF p = Nil THEN r1 ELSE AddChild(r1, p, n)
  IN IF HasChildren(n) THEN Adopt(r2, n) ELSE r2

\* unregisterNode
Unregistered(r, n) ==
  LET b  == Bucket(EffectiveId(n))
      l  == Unlink(r.map[b], r.link, n)
      r1 == [r EXCEPT !.map[b] = l.list, !.link = l.next]
      p  == ParentFor(r1, n)
  IN IF p = Nil THEN r1 ELSE RemoveChild(r1, p, n)

\* The constructors of IntrusiveLinkedListNode and ThingSetParentNode.
Fresh(r, n) == [r EXCEPT !.link[n] = Nil, !.sib[n] = Nil, !.kids[n] = EmptyList]

\* The registry's constructor, then those of the static nodes.
RegistryInit ==
  /\ reg = LET none == [map |-> [b \in Buckets |-> EmptyList], link |-> [n \in Node |-> Nil],
                        kids |-> [n \in Node |-> EmptyList], sib |-> [n \in Node |-> Nil]]
           IN FoldLeft(Registered, IntoBucket(IntoBucket(none, Root), Metadata), Static)
  /\ refs = [n \in Node |-> IF n \in {Root, Metadata} \cup ToSet(Static) THEN 1 ELSE 0]
  /\ stale = {}
  /\ aborted = FALSE

\* A node object is constructed.  The proxy of a record member is static: it is
\* registered with the first element that holds the member, and its links are as the
\* last removal left them.
Construct(n) ==
  /\ ~aborted
  /\ IF Kind[n] = "member" THEN refs[n] < MaxRefs ELSE refs[n] = 0
  /\ refs' = [refs EXCEPT ![n] = @ + 1]
  /\ LET r == IF Kind[n] = "member" THEN reg ELSE Fresh(reg, n) IN
     IF refs[n] > 0 THEN UNCHANGED <<reg, aborted>>
     ELSE /\ reg' = Registered(r, n)
          /\ aborted' = (Asserts /\ Duplicate(r, n))
  /\ stale' = IF Kind[n] = "member" THEN stale ELSE stale \ {n}

DestroyProxy_Early(n) == refs[n] >= 1        \* mutant: any element takes the proxy away
DestroyProxy(n) == refs[n] = 1

\* A node object is destroyed.
Destroy(n) ==
  /\ ~aborted
  /\ n \notin {Root, Metadata} \cup ToSet(Static) /\ refs[n] > 0
  /\ refs' = [refs EXCEPT ![n] = @ - 1]
  /\ reg' = IF DestroyProxy(n) THEN Unregistered(reg, n) ELSE reg
  /\ stale' = IF HasChildren(n)
              THEN stale \cup {c \in Live \ {n} : Parent[c] = Id[n]}
              ELSE stale
  /\ UNCHANGED aborted

-----------------------------------------------------------------------------
(* Properties.                                                             *)

RegTypeOK ==
  /\ reg \in Reg
  /\ refs \in [Node -> 0..MaxRefs]
  /\ stale \subseteq Node
  /\ aborted \in BOOLEAN

ListSound(l, nx) ==
  /\ Ends(l, nx)
  /\ (l.head = Nil) = (l.tail = Nil)
  /\ l.head # Nil => LET s == Elems(l, nx) IN l.tail = s[Len(s)]

\* IntrusiveLinkedList: every loop over a bucket or over the children of a live node
\* ends, and ends at the tail, whatever was registered, destroyed and adopted before.
ListsEnd ==
  /\ \A b \in Buckets : ListSound(reg.map[b], reg.link)
  /\ \A p \in Live : HasChildren(p) => ListSound(reg.kids[p], reg.sib)

\* No loop over the registry meets an object that has been destroyed.
NothingDeadListed ==
  ~aborted =>
    /\ ToSet(AllRegistered(reg)) \subseteq Live
    /\ \A p \in Live : HasChildren(p) => Among(reg.kids[p], reg.sib) \subseteq Live

\* findById finds every live node by its id, and nothing else under it; the members of
\* a record are found through the record, each under its own (registerNode, findById).
LookupCorrect ==
  ~aborted =>
    /\ \A n \in Live : Kind[n] # "member" => FindById(reg, Id[n]) = n
    /\ \A n \in Node \ Live : Kind[n] # "member" => FindById(reg, Id[n]) \in {Nil} \cup (Live \ {n})
    /\ \A n \in Node : Kind[n] = "member" =>
         LET p == FindById(reg, Parent[n]) IN
         p # Nil /\ Kind[p] = "record" =>
           FindMember(reg, Id[n], Parent[n]) = IF n \in Live THEN n ELSE Nil

\* Whichever of them is constructed first, a live parent lists each of its live
\* children exactly once, unless a child has outlived an earlier parent.
ChildrenComplete ==
  ~aborted =>
    \A p \in Live : \A c \in Live \ {p, Metadata} :
      HasChildren(p) /\ Parent[c] = Id[p] /\ c \notin stale =>
        Cardinality({i \in DOMAIN Elems(reg.kids[p], reg.sib) :
                       Elems(reg.kids[p], reg.sib)[i] = c}) = 1

\* The assertion in registerNode refuses only a node whose identity is taken: the same
\* raw id, and for a record member the same record.
RefusesOnlyDuplicates ==
  aborted => \E m, n \in Live : m # n /\ Id[m] = Id[n]
                                /\ (Kind[m] = "member" => Parent[m] = Parent[n])
=============================================================================
