---------------------------- MODULE StoryTopology ----------------------------
(***************************************************************************)
(* The book tree of a project: volumes, units and chapters, and how        *)
(* requests that are repeated with their idempotency key create each of    *)
(* them once (create_chapter and create_story_container in core/store.rs,  *)
(* core/story.rs).                                                         *)
(*                                                                         *)
(* A creation is one immediate transaction of one request, and requests    *)
(* exclude each other.  A client that had no answer asks again, at any     *)
(* later time.  Scenes are never created by the program and are left out.  *)
(***************************************************************************)
EXTENDS Naturals, FiniteSets, FiniteSetsExt

CONSTANTS
  Titles,       \* titles a request may give
  Keys,         \* idempotency keys
  MaxCreations  \* bound: nodes created after the project itself

VARIABLES
  nodes,            \* story_nodes: id -> parent, ordinal, title
  documents,        \* the chapters that own a manuscript document
  chapterReceipts,  \* chapter_creation_receipts: key -> receipt
  receipts,         \* receipts: key -> receipt of a container or of another operation
  refused,          \* a creation was rolled back by the final validation
  asked             \* the requests that created a node, with the node each was answered

vars == <<nodes, documents, chapterReceipts, receipts, refused, asked>>

Kinds == {"book", "volume", "unit", "chapter"}
ExpectedParent == [volume |-> "book", unit |-> "volume", chapter |-> "unit"]

\* VOL001, UNIT001, CH001, ...: a kind and a number.
Ids == [kind : Kinds, n : 1..MaxCreations + 1]
Root == [kind |-> "book", n |-> 1]
NoNode == [kind |-> "none", n |-> 0]

Nodes == [parent : Ids \cup {NoNode}, ordinal : 1..MaxCreations + 1, title : Titles]
Requests == [kind : DOMAIN ExpectedParent, parent : Ids \cup {NoNode}, title : Titles, key : Keys]
Receipts == [kind : DOMAIN ExpectedParent, node : Ids, parent : Ids, ordinal : 1..MaxCreations + 1,
             title : Titles]

\* No receipt under a key, and the receipt of some other operation.
NoReceipt == [kind |-> "none", node |-> NoNode, parent |-> NoNode, ordinal |-> 0, title |-> "none"]
OtherReceipt == [NoReceipt EXCEPT !.kind = "other"]

OfKind(tree, kind) == {i \in DOMAIN tree : i.kind = kind}
Children(tree, parent, kind) == {i \in OfKind(tree, kind) : tree[i].parent = parent}

\* Requests that name no parent or one that exists; any other is refused
\* unless it is compared with a receipt, which it then differs from.
PossibleRequests ==
  [kind : DOMAIN ExpectedParent, parent : DOMAIN nodes \cup {NoNode}, title : Titles, key : Keys]

\* The tree, its documents and the receipts are well typed (story_nodes).
TypeOK ==
  /\ DOMAIN nodes \subseteq Ids /\ \A i \in DOMAIN nodes : nodes[i] \in Nodes
  /\ documents \subseteq Ids
  /\ chapterReceipts \in [Keys -> Receipts \cup {NoReceipt}]
  /\ receipts \in [Keys -> Receipts \cup {NoReceipt, OtherReceipt}]
  /\ refused \in BOOLEAN
  /\ asked \subseteq [request : Requests, node : Ids]

(***************************************************************************)
(* Reading order                                                           *)
(***************************************************************************)

\* Where a chapter is: the ordinals of its volume, its unit and itself.
Position(tree, c) ==
  LET unit == tree[c].parent
      volume == tree[unit].parent
  IN <<tree[volume].ordinal, tree[unit].ordinal, tree[c].ordinal>>

Precedes(p, q) ==
  \/ p[1] < q[1]
  \/ p[1] = q[1] /\ p[2] < q[2]
  \/ p[1] = q[1] /\ p[2] = q[2] /\ p[3] < q[3]

\* The place of chapter c among the chapters, from 1 (the query of
\* apply_settlement and of load_current_source).
ReadingOrder(tree, c) ==
  Cardinality({d \in OfKind(tree, "chapter") :
                 d = c \/ Precedes(Position(tree, d), Position(tree, c))})

(***************************************************************************)
(* Validation                                                              *)
(***************************************************************************)

\* Every node has a place of its own under a node of the expected kind.
WellFormed(tree) ==
  /\ \A i, j \in DOMAIN tree :
       i.kind = j.kind /\ tree[i].parent = tree[j].parent /\ tree[i].ordinal = tree[j].ordinal
       => i = j
  /\ \A i \in DOMAIN tree :
       /\ tree[i].ordinal > 0
       /\ IF i.kind = "book" THEN tree[i].parent = NoNode
          ELSE tree[i].parent \in OfKind(tree, ExpectedParent[i.kind])

\* validate_novel_topology, after every creation and at every opening.
ValidateNovelTopology(tree, docs) ==
  /\ WellFormed(tree)
  /\ Cardinality(OfKind(tree, "book")) = 1
  /\ OfKind(tree, "chapter") # {} /\ docs = OfKind(tree, "chapter")

(***************************************************************************)
(* Creation                                                                *)
(***************************************************************************)

\* insert_initial_project.
Init ==
  /\ \E t \in Titles :
       nodes = [i \in {[kind |-> k, n |-> 1] : k \in Kinds} |->
                  [parent |-> IF i.kind = "book" THEN NoNode
                              ELSE [kind |-> ExpectedParent[i.kind], n |-> 1],
                   ordinal |-> 1, title |-> t]]
  /\ documents = {[kind |-> "chapter", n |-> 1]}
  /\ chapterReceipts = [k \in Keys |-> NoReceipt]
  /\ receipts = [k \in Keys |-> NoReceipt]
  /\ refused = FALSE
  /\ asked = {}

\* The parent when the request names none: the book, the last volume, or the
\* last unit of the last volume that has units.
DefaultParent(kind) ==
  LET candidates == OfKind(nodes, ExpectedParent[kind])
      place(i) == IF i.kind = "unit" THEN <<nodes[nodes[i].parent].ordinal, nodes[i].ordinal, 0>>
                  ELSE <<nodes[i].ordinal, 0, 0>>
  IN CHOOSE i \in candidates : \A j \in candidates : ~Precedes(place(i), place(j))

\* A named parent must be an existing node of the kind above.
ParentOf(r) ==
  IF r.parent = NoNode THEN DefaultParent(r.kind)
  ELSE r.parent

\* The number of a new node, CH004 after CH003, and its place among its
\* siblings; nothing is ever removed.
NextId(kind) == [kind |-> kind, n |-> Max({i.n : i \in OfKind(nodes, kind)} \cup {0}) + 1]

\* Mutant: the place of the last sibling.
NextOrdinalLast(parent, kind) ==
  Max({nodes[i].ordinal : i \in Children(nodes, parent, kind)} \cup {1})

NextOrdinal(parent, kind) ==
  Max({nodes[i].ordinal : i \in Children(nodes, parent, kind)} \cup {0}) + 1

\* Chapters have receipts of their own; volumes and units share the table of
\* the other operations.
ReceiptOf(r) == IF r.kind = "chapter" THEN chapterReceipts[r.key] ELSE receipts[r.key]

\* Mutant: a request without a parent is compared with the present default.
SameRequestDefault(r) ==
  LET receipt == ReceiptOf(r)
  IN /\ receipt.kind = r.kind /\ receipt.title = r.title
     /\ receipt.parent = ParentOf(r)

\* The receipt under the key is that of this request; a request without a
\* parent is compared with the parent that was chosen for it.
SameRequest(r) ==
  LET receipt == ReceiptOf(r)
  IN /\ receipt.kind = r.kind /\ receipt.title = r.title
     /\ r.parent \in {NoNode, receipt.parent}

\* A request under a key that is bound changes nothing: it is answered from
\* the receipt, or refused as a conflict.
Replay(k) ==
  /\ chapterReceipts[k] # NoReceipt \/ receipts[k] # NoReceipt
  /\ UNCHANGED vars

\* What it is answered.
ReplayedNode(r) == IF SameRequest(r) THEN ReceiptOf(r).node ELSE NoNode

\* The node, its manuscript and the receipt are inserted; the transaction is
\* rolled back if the tree is not valid then.
Create(r) ==
  LET parent == ParentOf(r)
      id == NextId(r.kind)
      node == [parent |-> parent, ordinal |-> NextOrdinal(parent, r.kind), title |-> r.title]
      tree == [i \in DOMAIN nodes \cup {id} |-> IF i = id THEN node ELSE nodes[i]]
      docs == IF r.kind = "chapter" THEN documents \cup {id} ELSE documents
      receipt == [kind |-> r.kind, node |-> id, parent |-> parent, ordinal |-> node.ordinal,
                  title |-> r.title]
  IN /\ ReceiptOf(r) = NoReceipt
     /\ Cardinality(asked) < MaxCreations
     /\ parent \in OfKind(nodes, ExpectedParent[r.kind])
     /\ IF ValidateNovelTopology(tree, docs)
        THEN /\ nodes' = tree
             /\ documents' = docs
             /\ IF r.kind = "chapter"
                THEN chapterReceipts' = [chapterReceipts EXCEPT ![r.key] = receipt]
                     /\ UNCHANGED receipts
                ELSE receipts' = [receipts EXCEPT ![r.key] = receipt]
                     /\ UNCHANGED chapterReceipts
             /\ asked' = asked \cup {[request |-> r, node |-> id]}
             /\ UNCHANGED refused
        ELSE /\ refused' = TRUE
             /\ UNCHANGED <<nodes, documents, chapterReceipts, receipts, asked>>

\* project.chapter.create.
CreateChapter(r) == r.kind = "chapter" /\ Create(r)

\* project.volume.create and project.unit.create.
CreateStoryContainer(r) == r.kind # "chapter" /\ Create(r)

\* Another operation of the project uses a key: settlements, plans and
\* activations have their receipts in the same table.
BindOtherReceipt(k) ==
  /\ receipts[k] = NoReceipt
  /\ receipts' = [receipts EXCEPT ![k] = OtherReceipt]
  /\ UNCHANGED <<nodes, documents, chapterReceipts, refused, asked>>

Next ==
  \/ \E r \in PossibleRequests : CreateChapter(r) \/ CreateStoryContainer(r)
  \/ \E k \in Keys : BindOtherReceipt(k) \/ Replay(k)

Spec == Init /\ [][Next]_vars

(***************************************************************************)
(* Properties                                                              *)
(***************************************************************************)

\* What a creation inserts is always a valid tree: no sequence of creations
\* leads to a book whose growth validate_novel_topology refuses.
CreationsAreValid == ~refused

\* A request that was answered is answered with the same node whenever it is
\* repeated, however the book has grown meanwhile: also when the parent that
\* was chosen for it would now be another one.  A request with another title
\* or parent is never answered with a node that is not what it asked for
\* (create_chapter, create_story_container).
RetriesNameOneNode ==
  /\ \A a \in asked : ReplayedNode(a.request) = a.node
  /\ \A r \in PossibleRequests : ReplayedNode(r) # NoNode =>
         /\ ReplayedNode(r).kind = r.kind /\ nodes[ReplayedNode(r)].title = r.title
         /\ r.parent \in {NoNode, nodes[ReplayedNode(r)].parent}

=============================================================================
