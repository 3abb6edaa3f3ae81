------------------------- MODULE DecisionTreeProofs -------------------------
(***************************************************************************)
(* What holds of the trees of every kind, for any samples and parameters.  *)
(* Five inductive invariants, each on top of the ones before it:           *)
(*   IInv      the numbers of the nodes stay among the MaxNodes that       *)
(*             fit_initialize made room for: the bound is tested once for  *)
(*             two nodes, so the parity of their number is part of it; the *)
(*             links are, too, since a sample's node is used as an index   *)
(*   TreeInv   children and parents point at each other, and the nodes     *)
(*             ahead of the passes are leaves                              *)
(*   RouteInv  the way from the root to the node of a sample               *)
(*   CauseInv  why a node is without a cut, and a sample left behind       *)
(*   SizeInv   the numbers of samples of the nodes and of their halves     *)
(***************************************************************************)
EXTENDS DecisionTree, FiniteSetTheorems, WellFoundedInduction, TLAPS

Shape(r) == r = [left |-> r.left, right |-> r.right, parent |-> r.parent,
                 level |-> r.level, indnum |-> r.indnum, leftMax |-> r.leftMax,
                 input |-> r.input, cut |-> r.cut]
Linked(t) ==
    \A z \in DOMAIN t :
        /\ Shape(t[z])
        /\ t[z].left \in DOMAIN t \union {None}
        /\ t[z].right \in DOMAIN t \union {None}
        /\ t[z].left # None => t[z].right # None

IInv ==
    /\ TypeOK
    /\ NodesInRoom
    /\ pc # "create" => newEnd = end
    /\ pc = "create" => begin <= i
    /\ Linked(nodes)

LEMMA MaxNodesOdd == MaxNodes \in Int /\ MaxNodes % 2 = 1 /\ MaxNodes >= 1
<1>1. MaxLeafNodes \in Nat /\ MaxLeafNodes >= 1  BY TreeAssumption
<1>. QED  BY <1>1 DEF MaxNodes

\* A first node alone is a linked tree of one node, whoever starts it.
LEMMA RootLinked ==
    ASSUME NEW t, t = [z \in {0} |-> Node(0, None, 0)]
    PROVE Linked(t) /\ DOMAIN t = 0 .. 1 - 1
BY DEF Linked, Shape, Node, None

LEMMA InitIInv == Init => IInv
<1>. SUFFICES ASSUME Init PROVE IInv  OBVIOUS
<1>1. Linked(nodes) /\ DOMAIN nodes = 0 .. newEnd - 1  BY RootLinked DEF Init
<1>2. where \in [Samples -> DOMAIN nodes]  BY DEF Init
<1>. QED  BY <1>1, <1>2, MaxNodesOdd DEF Init, IInv, TypeOK, NodesInRoom

\* A pass that only rewrites other fields of the nodes keeps the links.
LEMMA SameLinks ==
    ASSUME Linked(nodes), NEW t, DOMAIN t = DOMAIN nodes,
           \A z \in DOMAIN t : /\ Shape(t[z])
                               /\ t[z].left = nodes[z].left /\ t[z].right = nodes[z].right
    PROVE Linked(t)
BY DEF Linked

LEMMA StatKeeps == ASSUME IInv, fit_node_stat
                   PROVE Linked(nodes') /\ DOMAIN nodes' = DOMAIN nodes
<1>1. DOMAIN nodes' = DOMAIN nodes  BY DEF fit_node_stat
<1>2. ASSUME NEW z \in DOMAIN nodes
      PROVE Shape(nodes'[z]) /\ nodes'[z].left = nodes[z].left /\ nodes'[z].right = nodes[z].right
  <2>1. Shape(nodes[z])  BY DEF IInv, Linked
  <2>. QED  BY <2>1 DEF fit_node_stat, Shape
<1>. QED  BY <1>1, <1>2, SameLinks DEF IInv

LEMMA StepIInv == IInv /\ [Next]_vars => IInv'
<1>. SUFFICES ASSUME IInv, [Next]_vars PROVE IInv'  OBVIOUS
<1>. USE DEF IInv, TypeOK, NodesInRoom
<1>1. CASE Stat  BY <1>1, StatKeeps DEF Stat
<1>2. CASE LastStat  BY <1>2, StatKeeps DEF LastStat
<1>3. CASE fit_node_cut
  <2>1. PICK c : nodes' = [z \in DOMAIN nodes |-> IF z \in New
                THEN [nodes[z] EXCEPT !.input = c[z].input, !.leftMax = c[z].leftMax, !.cut = c[z].cut]
                ELSE nodes[z]]
    BY <1>3 DEF fit_node_cut
  <2>2. DOMAIN nodes' = DOMAIN nodes  BY <2>1
  <2>3. ASSUME NEW z \in DOMAIN nodes
        PROVE Shape(nodes'[z]) /\ nodes'[z].left = nodes[z].left /\ nodes'[z].right = nodes[z].right
    <3>1. Shape(nodes[z])  BY DEF Linked
    <3>2. CASE z \in New
      <4>1. nodes'[z] = [nodes[z] EXCEPT !.input = c[z].input, !.leftMax = c[z].leftMax, !.cut = c[z].cut]
        BY <2>1, <3>2
      <4>. QED  BY <3>1, <4>1 DEF Shape
    <3>3. CASE z \notin New
      <4>1. nodes'[z] = nodes[z]  BY <2>1, <3>3
      <4>. QED  BY <3>1, <4>1
    <3>. QED  BY <3>2, <3>3
  <2>4. Linked(nodes')  BY <2>2, <2>3, SameLinks
  <2>5. /\ i' = begin /\ newEnd' = end /\ pc' \in {"undefined", "create"}
        /\ UNCHANGED <<nForceCutLevel, kind, where, begin, end>> /\ newEnd = end
    BY <1>3 DEF fit_node_cut
  <2>. QED  BY <2>2, <2>4, <2>5
<1>4. CASE CreateChildren
  <2>1. newEnd < MaxNodes /\ newEnd + 2 <= MaxNodes /\ (newEnd + 2) % 2 = 1
    <3>1. newEnd < MaxNodes /\ newEnd \in Nat /\ newEnd % 2 = 1
      BY <1>4 DEF CreateChildren, MayCreate
    <3>. QED  BY <3>1, MaxNodesOdd
  <2>2. PICK g1, g2 \in Garbage :
          nodes' = [z \in DOMAIN nodes \union {newEnd, newEnd + 1} |->
             IF z = newEnd THEN Node(nodes[i].level + 1, i, g1)
             ELSE IF z = newEnd + 1 THEN Node(nodes[i].level + 1, i, g2)
             ELSE IF z = i THEN [nodes[i] EXCEPT !.left = newEnd, !.right = newEnd + 1]
             ELSE nodes[z]]
    BY <1>4 DEF CreateChildren
  <2>3. DOMAIN nodes' = 0 .. newEnd' - 1  BY <1>4, <2>2 DEF CreateChildren
  <2>4. ASSUME NEW z \in DOMAIN nodes'
        PROVE /\ Shape(nodes'[z])
              /\ nodes'[z].left \in DOMAIN nodes' \union {None}
              /\ nodes'[z].right \in DOMAIN nodes' \union {None}
              /\ nodes'[z].left # None => nodes'[z].right # None
    <3>1. CASE z \in {newEnd, newEnd + 1}  BY <2>2, <2>3, <3>1 DEF Node, Shape, None
    <3>2. CASE z = i /\ z \notin {newEnd, newEnd + 1}
      <4>1. Shape(nodes[i])  BY <1>4 DEF Linked, CreateChildren
      <4>2. nodes'[z] = [nodes[i] EXCEPT !.left = newEnd, !.right = newEnd + 1]
        BY <2>2, <3>2
      <4>3. nodes'[z].left = newEnd /\ nodes'[z].right = newEnd + 1 /\ Shape(nodes'[z])
        BY <4>1, <4>2 DEF Shape
      <4>. QED  BY <4>3, <2>2 DEF None
    <3>3. CASE z # i /\ z \notin {newEnd, newEnd + 1}
      <4>1. z \in DOMAIN nodes /\ nodes'[z] = nodes[z]  BY <2>2, <3>3
      <4>2. DOMAIN nodes \subseteq DOMAIN nodes'  BY <2>2
      <4>. QED  BY <4>1, <4>2 DEF Linked
    <3>. QED  BY <3>1, <3>2, <3>3
  <2>5. Linked(nodes')  BY <2>4 DEF Linked
  <2>6. where' \in [Samples -> DOMAIN nodes']  BY <1>4, <2>2 DEF CreateChildren
  <2>. QED  BY <1>4, <2>1, <2>3, <2>5, <2>6 DEF CreateChildren
<1>5. CASE LeaveTerminal  BY <1>5 DEF LeaveTerminal
<1>6. CASE AssignSamples
  <2>1. where' \in [Samples -> DOMAIN nodes]
    <3>1. ASSUME NEW s \in Samples, ~ Leaf(where[s])  PROVE Child(where[s], s) \in DOMAIN nodes
      BY <3>1 DEF Leaf, Child, Linked
    <3>. QED  BY <1>6, <3>1 DEF AssignSamples
  <2>. QED  BY <1>6, <2>1 DEF AssignSamples
<1>7. CASE ListPrunable  BY <1>7 DEF ListPrunable
<1>8. CASE Prune
  <2>1. CASE UNCHANGED nodes  BY <1>8, <2>1 DEF Prune
  <2>2. CASE \E z \in prunable \ {0} : nodes' = Pruned(z)
    <3>1. PICK p : nodes' = Pruned(p)  BY <2>2
    <3>2. DOMAIN nodes' = DOMAIN nodes  BY <3>1 DEF Pruned
    <3>3. ASSUME NEW z \in DOMAIN nodes, z # p  PROVE nodes'[z] = nodes[z]
      BY <3>1, <3>3 DEF Pruned
    <3>4. ASSUME p \in DOMAIN nodes
          PROVE Shape(nodes'[p]) /\ nodes'[p].left = None /\ nodes'[p].right = None
      <4>1. Shape(nodes[p])  BY <3>4 DEF Linked
      <4>. QED  BY <3>1, <3>4, <4>1 DEF Pruned, Shape
    <3>5. Linked(nodes')  BY <3>2, <3>3, <3>4 DEF Linked
    <3>. QED  BY <1>8, <3>2, <3>5 DEF Prune
  <2>. QED  BY <1>8, <2>1, <2>2 DEF Prune
<1>9. CASE PruneEnd  BY <1>9 DEF PruneEnd
<1>10. CASE NextTree
  <2>1. Linked(nodes') /\ DOMAIN nodes' = 0 .. newEnd' - 1  BY <1>10, RootLinked DEF NextTree
  <2>2. where' \in [Samples -> DOMAIN nodes']  BY <1>10 DEF NextTree
  <2>. QED  BY <1>10, <2>1, <2>2, MaxNodesOdd DEF NextTree
<1>11. CASE UNCHANGED vars  BY <1>11 DEF vars
<1>. QED  BY <1>1, <1>2, <1>3, <1>4, <1>5, <1>6, <1>7, <1>8, <1>9, <1>10, <1>11 DEF Next

LEMMA SpecIInv == Spec => []IInv
BY InitIInv, StepIInv, PTL DEF Spec

\* The state is well formed: every index the passes use is that of a node.
THEOREM TreeTypeCorrect == Spec => []TypeOK
<1>1. IInv => TypeOK  BY DEF IInv
<1>. QED  BY SpecIInv, <1>1, PTL

\* Trees of every kind stay within the room of fit_initialize's statistics.
THEOREM TreeInRoom == Spec => []NodesInRoom
<1>1. IInv => NodesInRoom  BY DEF IInv
<1>. QED  BY SpecIInv, <1>1, PTL
-----------------------------------------------------------------------------
(***************************************************************************)
(* The shape of the tree while it grows and while it is pruned: a node is  *)
(* the parent of its children, and what the passes have yet to look at is  *)
(* a leaf.                                                                 *)
(***************************************************************************)
Growing == pc \in {"stat", "cut", "create", "last"}
Ahead   == IF pc = "create" THEN i ELSE begin

Tree(t) ==
    \A z \in DOMAIN t :
        /\ t[z].left # None => /\ t[z].left # t[z].right
                               /\ t[t[z].left].parent = z /\ t[t[z].right].parent = z
        /\ z # 0 => t[z].parent \in DOMAIN t

LeavesAhead == Growing => \A z \in DOMAIN nodes : z >= Ahead => Leaf(z)

TreeInv ==
    /\ Tree(nodes)
    /\ level \in Nat /\ (level = 0 => begin = 0)
    /\ pc \in {"list", "prune"} => kind = "prune"
    /\ LeavesAhead
    /\ PruneListExact

Root == [z \in {0} |-> Node(0, None, 0)]

LEMMA RootTree ==
    ASSUME NEW t, t = Root
    PROVE /\ Tree(t) /\ DOMAIN t = {0}
          /\ t[0].left = None /\ t[0].input = None /\ t[0].level = 0
          /\ t[0].leftMax = 0 /\ t[0].indnum = -1
BY DEF Tree, Root, Node, None

LEMMA InitTreeInv == Init => TreeInv
<1>. SUFFICES ASSUME Init PROVE TreeInv  OBVIOUS
<1>1. nodes = Root  BY DEF Init, Root
<1>. QED  BY <1>1, RootTree DEF Init, TreeInv, LeavesAhead, Ahead, Growing, Leaf, PruneListExact

\* What a pass that writes statistics does to one node.
LEMMA StatNode ==
    ASSUME IInv, fit_node_stat
    PROVE /\ DOMAIN nodes' = DOMAIN nodes
          /\ \A z \in DOMAIN nodes :
               /\ nodes'[z].left = nodes[z].left /\ nodes'[z].right = nodes[z].right
               /\ nodes'[z].parent = nodes[z].parent /\ nodes'[z].level = nodes[z].level
               /\ nodes'[z].input = nodes[z].input /\ nodes'[z].leftMax = nodes[z].leftMax
               /\ nodes'[z].cut = nodes[z].cut
               /\ nodes'[z].indnum = IF z \in New THEN Cardinality(In(z)) ELSE nodes[z].indnum
<1>1. DOMAIN nodes' = DOMAIN nodes  BY DEF fit_node_stat
<1>2. ASSUME NEW z \in DOMAIN nodes
      PROVE nodes'[z] = IF z \in New THEN [nodes[z] EXCEPT !.indnum = Cardinality(In(z))] ELSE nodes[z]
  BY DEF fit_node_stat
<1>3. ASSUME NEW z \in DOMAIN nodes  PROVE Shape(nodes[z])
  BY DEF IInv, Linked
<1>. QED  BY <1>1, <1>2, <1>3 DEF Shape

\* What the choice of the cuts does to one node.
LEMMA CutNode ==
    ASSUME IInv, fit_node_cut
    PROVE /\ DOMAIN nodes' = DOMAIN nodes
          /\ \A z \in DOMAIN nodes :
               /\ nodes'[z].left = nodes[z].left /\ nodes'[z].right = nodes[z].right
               /\ nodes'[z].parent = nodes[z].parent /\ nodes'[z].indnum = nodes[z].indnum
               /\ nodes'[z].level = nodes[z].level
               /\ IF z \in New
                  THEN \E c \in Offered(z) : /\ nodes'[z].input = c.input /\ nodes'[z].cut = c.cut
                                             /\ nodes'[z].leftMax = c.leftMax
                  ELSE nodes'[z] = nodes[z]
<1>1. PICK c : /\ \A z \in New : c[z] \in Offered(z)
               /\ nodes' = [z \in DOMAIN nodes |-> IF z \in New
                    THEN [nodes[z] EXCEPT !.input = c[z].input, !.leftMax = c[z].leftMax, !.cut = c[z].cut]
                    ELSE nodes[z]]
  BY DEF fit_node_cut
<1>2. DOMAIN nodes' = DOMAIN nodes  BY <1>1
<1>3. ASSUME NEW z \in DOMAIN nodes  PROVE Shape(nodes[z])
  BY DEF IInv, Linked
<1>4. ASSUME NEW z \in DOMAIN nodes, z \in New
      PROVE /\ nodes'[z].left = nodes[z].left /\ nodes'[z].right = nodes[z].right
            /\ nodes'[z].parent = nodes[z].parent /\ nodes'[z].indnum = nodes[z].indnum
            /\ nodes'[z].level = nodes[z].level
            /\ nodes'[z].input = c[z].input /\ nodes'[z].cut = c[z].cut
            /\ nodes'[z].leftMax = c[z].leftMax /\ c[z] \in Offered(z)
  <2>1. nodes'[z] = [nodes[z] EXCEPT !.input = c[z].input, !.leftMax = c[z].leftMax, !.cut = c[z].cut]
    BY <1>1, <1>4
  <2>2. Shape(nodes[z])  BY <1>3
  <2>3. c[z] \in Offered(z)  BY <1>1, <1>4
  <2>. QED  BY <2>1, <2>2, <2>3 DEF Shape
<1>5. ASSUME NEW z \in DOMAIN nodes, z \notin New  PROVE nodes'[z] = nodes[z]
  BY <1>1, <1>5
<1>. QED  BY <1>2, <1>4, <1>5

\* What two children more do to every node.
LEMMA ChildrenMade ==
    ASSUME IInv, CreateChildren
    PROVE /\ i \in DOMAIN nodes /\ newEnd \notin DOMAIN nodes /\ newEnd + 1 \notin DOMAIN nodes
          /\ DOMAIN nodes' = DOMAIN nodes \union {newEnd, newEnd + 1}
          /\ \A z \in DOMAIN nodes : z # i => nodes'[z] = nodes[z]
          /\ nodes'[i].left = newEnd /\ nodes'[i].right = newEnd + 1
          /\ nodes'[i].parent = nodes[i].parent /\ nodes'[i].indnum = nodes[i].indnum
          /\ nodes'[i].input = nodes[i].input /\ nodes'[i].leftMax = nodes[i].leftMax
          /\ nodes'[i].cut = nodes[i].cut /\ nodes'[i].level = nodes[i].level
          /\ \A z \in {newEnd, newEnd + 1} :
               /\ nodes'[z].left = None /\ nodes'[z].parent = i
               /\ nodes'[z].level = nodes[i].level + 1
               /\ nodes'[z].input = None /\ nodes'[z].leftMax \in Garbage
<1>1. PICK g1, g2 \in Garbage :
        nodes' = [z \in DOMAIN nodes \union {newEnd, newEnd + 1} |->
           IF z = newEnd THEN Node(nodes[i].level + 1, i, g1)
           ELSE IF z = newEnd + 1 THEN Node(nodes[i].level + 1, i, g2)
           ELSE IF z = i THEN [nodes[i] EXCEPT !.left = newEnd, !.right = newEnd + 1]
           ELSE nodes[z]]
  BY DEF CreateChildren
<1>2. /\ i \in DOMAIN nodes /\ newEnd \notin DOMAIN nodes /\ newEnd + 1 \notin DOMAIN nodes
      /\ newEnd + 1 # newEnd
  BY DEF CreateChildren, IInv, TypeOK
<1>3. nodes'[i] = [nodes[i] EXCEPT !.left = newEnd, !.right = newEnd + 1]  BY <1>1, <1>2
<1>4. Shape(nodes[i])  BY <1>2 DEF IInv, Linked
<1>5. /\ nodes'[i].left = newEnd /\ nodes'[i].right = newEnd + 1
      /\ nodes'[i].parent = nodes[i].parent /\ nodes'[i].indnum = nodes[i].indnum
      /\ nodes'[i].input = nodes[i].input /\ nodes'[i].leftMax = nodes[i].leftMax
      /\ nodes'[i].cut = nodes[i].cut /\ nodes'[i].level = nodes[i].level
  BY <1>3, <1>4 DEF Shape
<1>6. /\ nodes'[newEnd] = Node(nodes[i].level + 1, i, g1)
      /\ nodes'[newEnd + 1] = Node(nodes[i].level + 1, i, g2)
  BY <1>1, <1>2
<1>7. \A z \in {newEnd, newEnd + 1} :
               /\ nodes'[z].left = None /\ nodes'[z].parent = i
               /\ nodes'[z].level = nodes[i].level + 1
               /\ nodes'[z].input = None /\ nodes'[z].leftMax \in Garbage
  BY <1>6 DEF Node
<1>8. \A z \in DOMAIN nodes : z # i => nodes'[z] = nodes[z]
  BY <1>1, <1>2
<1>9. DOMAIN nodes' = DOMAIN nodes \union {newEnd, newEnd + 1}  BY <1>1
<1>. QED  BY <1>2, <1>5, <1>7, <1>8, <1>9
\* A tree with the same links is as well shaped, and has the same twigs.
LEMMA SameTree ==
    ASSUME Linked(nodes), Tree(nodes), NEW t, DOMAIN t = DOMAIN nodes,
           \A z \in DOMAIN t : /\ t[z].left = nodes[z].left /\ t[z].right = nodes[z].right
                               /\ t[z].parent = nodes[z].parent
    PROVE Tree(t)
BY DEF Linked, Tree

LEMMA StatTreeInv == ASSUME IInv, TreeInv, Stat \/ LastStat PROVE TreeInv'
<1>1. fit_node_stat /\ pc \in {"stat", "last"}  BY DEF Stat, LastStat
<1>2. Tree(nodes')  BY <1>1, StatNode, SameTree DEF IInv, TreeInv
<1>3. \A z \in DOMAIN nodes : z \in New => Leaf(z)
  BY <1>1 DEF TreeInv, LeavesAhead, Growing, Ahead, New, IInv, TypeOK
<1>4. /\ pc' \in {"cut", "list", "done"} /\ (pc' = "list" => kind' = "prune")
      /\ UNCHANGED <<kind, level, begin, end, prunable>>
  BY DEF Stat, LastStat
<1>5. LeavesAhead'
  BY <1>1, <1>4, StatNode DEF TreeInv, LeavesAhead, Growing, Ahead, Leaf
<1>. QED  BY <1>2, <1>4, <1>5 DEF TreeInv, PruneListExact

LEMMA CutTreeInv == ASSUME IInv, TreeInv, fit_node_cut PROVE TreeInv'
<1>1. Tree(nodes')  BY CutNode, SameTree DEF IInv, TreeInv
<1>2. /\ pc = "cut" /\ pc' \in {"create", "undefined"} /\ i' = begin
      /\ UNCHANGED <<kind, level, begin, end, where, prunable>>
  BY DEF fit_node_cut
<1>3. \A z \in DOMAIN nodes : z \in New => Leaf(z)
  BY <1>2 DEF TreeInv, LeavesAhead, Growing, Ahead, New, IInv, TypeOK
<1>4. LeavesAhead'
  BY <1>2, CutNode DEF TreeInv, LeavesAhead, Growing, Ahead, Leaf
<1>. QED  BY <1>1, <1>2, <1>4 DEF TreeInv, PruneListExact

LEMMA CreateTreeInv == ASSUME IInv, TreeInv, CreateChildren PROVE TreeInv'
<1>1. /\ pc = "create" /\ pc' = "create" /\ i' = i + 1 /\ newEnd' = newEnd + 2
      /\ i < end /\ MayCreate(i) /\ UNCHANGED <<kind, level, begin, end, where, prunable>>
  BY DEF CreateChildren
<1>2. i \in Nat /\ i < newEnd /\ newEnd \in Nat /\ DOMAIN nodes = 0 .. newEnd - 1 /\ end <= newEnd
  BY <1>1 DEF IInv, TypeOK
<1>3. Tree(nodes')
  <2>. SUFFICES ASSUME NEW z \in DOMAIN nodes'
       PROVE /\ nodes'[z].left # None =>
                  /\ nodes'[z].left # nodes'[z].right
                  /\ nodes'[nodes'[z].left].parent = z /\ nodes'[nodes'[z].right].parent = z
             /\ z # 0 => nodes'[z].parent \in DOMAIN nodes'
    BY DEF Tree
  <2>1. CASE z \in {newEnd, newEnd + 1}  BY <1>2, <2>1, ChildrenMade
  <2>2. CASE z = i  BY <1>2, <2>2, ChildrenMade DEF TreeInv, Tree
  <2>3. CASE z \in DOMAIN nodes \ {i}
    <3>1. nodes'[z] = nodes[z]  BY <2>3, ChildrenMade
    <3>2. \A y \in DOMAIN nodes : nodes'[y].parent = nodes[y].parent  BY ChildrenMade
    <3>3. nodes[z].left # None => nodes[z].left \in DOMAIN nodes /\ nodes[z].right \in DOMAIN nodes
      BY <2>3 DEF IInv, Linked
    <3>. QED  BY <2>3, <3>1, <3>2, <3>3, ChildrenMade DEF TreeInv, Tree
  <2>. QED  BY <2>1, <2>2, <2>3, ChildrenMade
<1>4. LeavesAhead'
  <2>. SUFFICES ASSUME NEW z \in DOMAIN nodes', z >= i + 1  PROVE nodes'[z].left = None
    BY <1>1 DEF LeavesAhead, Ahead, Leaf
  <2>. QED  BY <1>1, <1>2, ChildrenMade DEF TreeInv, LeavesAhead, Growing, Ahead, Leaf
<1>. QED  BY <1>1, <1>3, <1>4 DEF TreeInv, PruneListExact

LEMMA AssignTreeInv == ASSUME IInv, TreeInv, AssignSamples PROVE TreeInv'
<1>1. /\ pc = "create" /\ i = end /\ begin' = end /\ level' = level + 1
      /\ pc' \in {"undefined", "last", "stat"} /\ UNCHANGED <<kind, nodes, prunable>>
  BY DEF AssignSamples
<1>2. end \in Nat /\ end >= 1 /\ level \in Nat  BY DEF IInv, TypeOK, TreeInv
<1>3. LeavesAhead'  BY <1>1 DEF TreeInv, LeavesAhead, Growing, Ahead, Leaf
<1>. QED  BY <1>1, <1>2, <1>3 DEF TreeInv, PruneListExact

LEMMA ListTreeInv == ASSUME IInv, TreeInv, ListPrunable PROVE TreeInv'
<1>1. /\ pc = "list" /\ pc' = "prune" /\ UNCHANGED <<kind, level, nodes, begin, end, i>>
      /\ prunable' = {z \in DOMAIN nodes : Twig(nodes, z)}
  BY DEF ListPrunable
<1>. QED  BY <1>1 DEF TreeInv, LeavesAhead, PruneListExact, Growing

\* A twig becomes a leaf, and only its parent can become a twig.
LEMMA PruneTreeInv == ASSUME IInv, TreeInv, Prune PROVE TreeInv'
<1>1. /\ pc = "prune" /\ kind = "prune" /\ pc' \in {"prune", "undefined"}
      /\ UNCHANGED <<kind, level, begin, end, i>>
  BY DEF Prune, TreeInv
<1>2. CASE prunable \subseteq {0}
  <2>1. pc' = "undefined" /\ UNCHANGED <<nodes, prunable>>  BY <1>2 DEF Prune
  <2>. QED  BY <1>1, <1>2, <2>1
            DEF TreeInv, LeavesAhead, PruneListExact, Growing
<1>3. CASE ~ (prunable \subseteq {0})
  <2>1. PICK y \in prunable \ {0} :
          /\ nodes' = Pruned(y)
          /\ prunable' = (prunable \ {y}) \union
                         (IF Twig(nodes', nodes[y].parent) THEN {nodes[y].parent} ELSE {})
          /\ pc' = "prune"
    BY <1>1, <1>3 DEF Prune
  <2>2. y \in DOMAIN nodes /\ Twig(nodes, y) /\ y # 0
    BY <1>1, <2>1 DEF TreeInv, PruneListExact
  <2>3. DOMAIN nodes' = DOMAIN nodes  BY <2>1 DEF Pruned
  <2>4. ASSUME NEW z \in DOMAIN nodes, z # y  PROVE nodes'[z] = nodes[z]
    BY <2>1, <2>4 DEF Pruned
  <2>5. nodes'[y].left = None /\ nodes'[y].right = None /\ nodes'[y].parent = nodes[y].parent
    <3>1. Shape(nodes[y])  BY <2>2 DEF IInv, Linked
    <3>. QED  BY <2>1, <2>2, <3>1 DEF Pruned, Shape
  <2>6. nodes[y].parent \in DOMAIN nodes  BY <2>2 DEF TreeInv, Tree
  <2>7. ASSUME NEW z \in DOMAIN nodes, nodes[z].left # None
        PROVE /\ nodes[z].left \in DOMAIN nodes /\ nodes[z].right \in DOMAIN nodes
              /\ nodes[z].left # nodes[z].right
              /\ nodes[nodes[z].left].parent = z /\ nodes[nodes[z].right].parent = z
    BY <2>7 DEF IInv, Linked, TreeInv, Tree
  <2>8. Tree(nodes')
    BY <2>3, <2>4, <2>5, <2>7 DEF Tree, TreeInv
  <2>9. ASSUME NEW z \in DOMAIN nodes, z # nodes[y].parent, z # y
        PROVE Twig(nodes', z) <=> Twig(nodes, z)
    <3>1. CASE nodes[z].left = None  BY <2>4, <2>9, <3>1 DEF Twig
    <3>2. CASE nodes[z].left # None
      <4>1. nodes[z].left # y /\ nodes[z].right # y  BY <2>7, <2>9, <3>2
      <4>. QED  BY <2>4, <2>7, <2>9, <3>2, <4>1 DEF Twig
    <3>. QED  BY <3>1, <3>2
  <2>10. ~ Twig(nodes', y)  BY <2>5 DEF Twig
  <2>11. ASSUME Twig(nodes, nodes[y].parent), nodes[y].parent # y
         PROVE Twig(nodes', nodes[y].parent)
    <3>. DEFINE p == nodes[y].parent
    <3>1. nodes[p].left # None  BY <2>11 DEF Twig
    <3>2. nodes[p].left # y /\ nodes[p].right # y
      BY <2>2, <2>11 DEF Twig
    <3>. QED  BY <2>4, <2>6, <2>7, <2>11, <3>1, <3>2 DEF Twig
  <2>12. prunable = {z \in DOMAIN nodes : Twig(nodes, z)}  BY <1>1 DEF TreeInv, PruneListExact
  <2>13. prunable' = {z \in DOMAIN nodes' : Twig(nodes', z)}
    <3>1. ASSUME NEW z \in DOMAIN nodes  PROVE z \in prunable' <=> Twig(nodes', z)
      <4>1. CASE z = y  BY <2>1, <2>10, <4>1
      <4>2. CASE z # y /\ z = nodes[y].parent  BY <2>1, <2>11, <2>12, <4>2
      <4>3. CASE z # y /\ z # nodes[y].parent  BY <2>1, <2>9, <2>12, <4>3
      <4>. QED  BY <4>1, <4>2, <4>3
    <3>2. prunable' \subseteq DOMAIN nodes  BY <2>1, <2>6, <2>12
    <3>. QED  BY <2>3, <3>1, <3>2
  <2>. QED  BY <1>1, <2>1, <2>8, <2>13
            DEF TreeInv, LeavesAhead, PruneListExact, Growing
<1>. QED  BY <1>2, <1>3

LEMMA StepTreeInv == ASSUME IInv, TreeInv, [Next]_vars PROVE TreeInv'
<1>1. CASE LeaveTerminal
  <2>1. /\ pc = "create" /\ pc' = "create" /\ i' = i + 1 /\ UNCHANGED <<kind, level, nodes, begin, prunable>>
    BY <1>1 DEF LeaveTerminal
  <2>2. i \in Nat  /\ DOMAIN nodes \subseteq Int  BY DEF IInv, TypeOK
  <2>3. LeavesAhead'  BY <2>1, <2>2 DEF TreeInv, LeavesAhead, Growing, Ahead, Leaf
  <2>. QED  BY <2>1, <2>3 DEF TreeInv, PruneListExact, Growing, Leaf
<1>2. CASE PruneEnd
  BY <1>2 DEF PruneEnd, TreeInv, LeavesAhead, PruneListExact, Growing
<1>3. CASE NextTree
  <2>1. nodes' = Root  BY <1>3 DEF NextTree, Root
  <2>. QED  BY <1>3, <2>1, RootTree DEF NextTree, TreeInv, LeavesAhead, Ahead, Growing, Leaf, PruneListExact
<1>4. CASE UNCHANGED vars
  BY <1>4 DEF vars, TreeInv, LeavesAhead, Ahead, Growing, Leaf, PruneListExact
<1>. QED  BY <1>1, <1>2, <1>3, <1>4, StatTreeInv, CutTreeInv, CreateTreeInv, AssignTreeInv,
             ListTreeInv, PruneTreeInv DEF Next

LEMMA SpecTreeInv == Spec => []TreeInv
<1>1. IInv /\ TreeInv /\ [Next]_vars => TreeInv'  BY StepTreeInv
<1>. QED  BY InitTreeInv, SpecIInv, <1>1, PTL DEF Spec

\* While fit_node_prune takes nodes away its list is that of all the nodes with
\* two terminal children, whatever the tree and the order of the deviances.
THEOREM PruneListIsExact == Spec => []PruneListExact
<1>1. TreeInv => PruneListExact  BY DEF TreeInv
<1>. QED  BY SpecTreeInv, <1>1, PTL
-----------------------------------------------------------------------------
(***************************************************************************)
(* Traverse is recursive, and no induction is needed to follow it: however *)
(* the leaves are labelled there is a function that gives every inner node *)
(* the label of the child a sample goes to, and every such function has    *)
(* the same value at the root and at the node the sample has been moved    *)
(* to.  Both hold in every step, for all labels at once.                   *)
(***************************************************************************)
Labels(f, lab, s) == f = [z \in DOMAIN nodes |-> IF Leaf(z) THEN lab[z] ELSE f[Child(z, s)]]

Routed(s) ==
    \A lab : /\ \E f : Labels(f, lab, s)
             /\ \A f : Labels(f, lab, s) => f[0] = f[where[s]]

RouteInv ==
    /\ Growing \/ pc = "list" => \A s \in Samples : Routed(s)
    /\ pc \in {"stat", "cut", "last", "list"} => \A s \in Samples : Leaf(where[s])
    /\ pc = "create" => \A s \in Samples :
          ~ Leaf(where[s]) => nodes[where[s]].left >= end /\ nodes[where[s]].right >= end

\* A tree of its root alone, and all the samples there.
AtRoot == nodes = Root /\ \A s \in Samples : where[s] = 0
AllRouted == \A s \in Samples : Routed(s) /\ Leaf(where[s])
LEMMA RootRouted == AtRoot => AllRouted
<1>. SUFFICES ASSUME NEW s \in Samples, nodes = Root, where[s] = 0
     PROVE Routed(s) /\ Leaf(where[s])
  BY DEF AtRoot, AllRouted
<1>1. DOMAIN nodes = {0} /\ Leaf(0)  BY RootTree DEF Leaf
<1>2. ASSUME NEW lab  PROVE \E f : Labels(f, lab, s)
  <2>. DEFINE f == [z \in {0} |-> lab[z]]
  <2>1. Labels(f, lab, s)  BY <1>1 DEF Labels
  <2>. QED  BY <2>1
<1>. QED  BY <1>1, <1>2 DEF Routed

\* A step that leaves the links and the inner nodes' cuts alone.
LEMMA SameRoutes ==
    ASSUME NEW s \in Samples, DOMAIN nodes' = DOMAIN nodes, UNCHANGED <<x, where>>,
           \A z \in DOMAIN nodes :
              /\ nodes'[z].left = nodes[z].left /\ nodes'[z].right = nodes[z].right
              /\ ~ Leaf(z) => nodes'[z].input = nodes[z].input /\ nodes'[z].cut = nodes[z].cut,
           Routed(s)
    PROVE Routed(s)'
<1>1. ASSUME NEW z \in DOMAIN nodes
      PROVE (nodes'[z].left = None) = Leaf(z)  /\ (~ Leaf(z) => Child(z, s)' = Child(z, s))
  BY DEF Leaf, Child
<1>2. ASSUME NEW f, NEW lab  PROVE Labels(f, lab, s)' <=> Labels(f, lab, s)
  <2>1. [z \in DOMAIN nodes |-> IF Leaf(z) THEN lab[z] ELSE f[Child(z, s)]]
        = [z \in DOMAIN nodes' |-> IF nodes'[z].left = None THEN lab[z] ELSE f[Child(z, s)']]
    BY <1>1
  <2>. QED  BY <2>1 DEF Labels, Leaf
<1>. QED  BY <1>2 DEF Routed

\* A leaf that gets two children takes over the label of one of them.
LEMMA CreateRouted ==
    ASSUME IInv, TreeInv, CreateChildren, NEW s \in Samples, Routed(s)
    PROVE Routed(s)'
<1>1. /\ pc = "create" /\ UNCHANGED <<x, where, begin, end>> /\ newEnd \in Nat /\ i \in Nat
      /\ where[s] \in DOMAIN nodes /\ 0 \in DOMAIN nodes
  BY DEF CreateChildren, IInv, TypeOK
<1>. PICK p \in DOMAIN nodes : p = i  BY ChildrenMade
<1>. PICK c \in Nat : c = newEnd  BY <1>1
<1>2. Leaf(p)  BY <1>1, ChildrenMade DEF TreeInv, LeavesAhead, Growing, Ahead
<1>3. nodes'[p].left # None  BY <1>1, ChildrenMade DEF None
<1>4. Child(p, s)' \in {c, c + 1}  BY <1>1, ChildrenMade DEF Child
<1>5. ASSUME NEW z \in DOMAIN nodes, z # p
      PROVE Leaf(z)' = Leaf(z) /\ Child(z, s)' = Child(z, s)
  BY <1>1, <1>5, ChildrenMade DEF Leaf, Child
<1>6. ASSUME NEW z \in DOMAIN nodes, ~ Leaf(z)  PROVE Child(z, s) \in DOMAIN nodes
  BY <1>6 DEF IInv, Linked, Leaf, Child
<1>7. ~ Leaf(p)' /\ Leaf(c)' /\ Leaf(c + 1)'  BY <1>3, ChildrenMade DEF Leaf
<1>8. ASSUME NEW lab  PROVE \E f : Labels(f, lab, s)'
  <2>. DEFINE old == [z \in DOMAIN nodes |-> IF z = p THEN lab[Child(p, s)'] ELSE lab[z]]
  <2>1. PICK f : Labels(f, old, s)  BY DEF Routed
  <2>. PICK g : g = [z \in DOMAIN nodes' |-> IF z \in DOMAIN nodes THEN f[z] ELSE lab[z]]
    OBVIOUS
  <2>2. ASSUME NEW z \in DOMAIN nodes'
        PROVE g[z] = IF Leaf(z)' THEN lab[z] ELSE g[Child(z, s)']
    <3>1. CASE z \in {c, c + 1}  BY <1>7, <3>1, ChildrenMade
    <3>2. CASE z = p
      <4>1. f[p] = lab[Child(p, s)']  BY <1>2, <2>1, ChildrenMade DEF Labels
      <4>2. Child(p, s)' \in DOMAIN nodes' /\ Child(p, s)' \notin DOMAIN nodes
        BY <1>4, ChildrenMade
      <4>. QED  BY <1>7, <3>2, <4>1, <4>2, ChildrenMade
    <3>3. CASE z \in DOMAIN nodes \ {p}
      <4>1. f[z] = IF Leaf(z) THEN lab[z] ELSE f[Child(z, s)]  BY <2>1, <3>3 DEF Labels
      <4>2. ~ Leaf(z) => g[Child(z, s)] = f[Child(z, s)]  BY <1>6, <3>3, ChildrenMade
      <4>. QED  BY <1>5, <3>3, <4>1, <4>2
    <3>. QED  BY <3>1, <3>2, <3>3, ChildrenMade
  <2>3. g = [z \in DOMAIN nodes' |-> IF Leaf(z)' THEN lab[z] ELSE g[Child(z, s)']]
    BY <2>2
  <2>4. Labels(g, lab, s)'  BY <2>3 DEF Labels
  <2>. QED  BY <2>4
<1>9. ASSUME NEW lab, NEW g, Labels(g, lab, s)'  PROVE g[0] = g[where'[s]]
  <2>. DEFINE f == [z \in DOMAIN nodes |-> g[z]]
  <2>1. ASSUME NEW z \in DOMAIN nodes
        PROVE f[z] = IF Leaf(z) THEN f[z] ELSE f[Child(z, s)]
    <3>1. CASE z = p  BY <1>2, <3>1
    <3>2. CASE z # p
      <4>1. g[z] = IF Leaf(z)' THEN lab[z] ELSE g[Child(z, s)']
        BY <1>9, ChildrenMade DEF Labels
      <4>. QED  BY <1>5, <1>6, <3>2, <4>1
    <3>. QED  BY <3>1, <3>2
  <2>2. Labels(f, f, s)  BY <2>1 DEF Labels
  <2>3. f[0] = f[where[s]]  BY <2>2 DEF Routed
  <2>. QED  BY <1>1, <2>3
<1>. QED  BY <1>8, <1>9 DEF Routed

\* A sample moves along the link that Traverse follows.
LEMMA AssignRouted ==
    ASSUME IInv, AssignSamples, pc' # "undefined", NEW s \in Samples, Routed(s)
    PROVE Routed(s)'
<1>1. /\ UNCHANGED <<x, nodes>>
      /\ where'[s] = IF Leaf(where[s]) THEN where[s] ELSE Child(where[s], s)
      /\ where[s] \in DOMAIN nodes
  BY DEF AssignSamples, IInv, TypeOK
<1>2. ASSUME NEW f, NEW lab  PROVE Labels(f, lab, s)' <=> Labels(f, lab, s)
  BY <1>1 DEF Labels, Leaf, Child
<1>3. ASSUME NEW f, NEW lab, Labels(f, lab, s)  PROVE f[where'[s]] = f[where[s]]
  BY <1>1, <1>3 DEF Labels
<1>. QED  BY <1>2, <1>3 DEF Routed

LEMMA RootRoutedNext == AtRoot' => AllRouted'
BY RootRouted, PTL

LEMMA InitRouteInv == Init => RouteInv
<1>. SUFFICES ASSUME Init PROVE RouteInv  OBVIOUS
<1>1. nodes = Root /\ pc = "stat" /\ \A s \in Samples : where[s] = 0  BY DEF Init, Root
<1>. QED  BY <1>1, RootRouted DEF RouteInv, AtRoot, AllRouted

LEMMA StepRouteInv == ASSUME IInv, TreeInv, RouteInv, [Next]_vars PROVE RouteInv'
<1>1. CASE Stat \/ LastStat
  <2>1. /\ fit_node_stat /\ pc \in {"stat", "last"} /\ pc' \in {"cut", "list", "done"}
        /\ UNCHANGED <<x, where>>
    BY <1>1 DEF Stat, LastStat
  <2>2. ASSUME NEW s \in Samples, Routed(s)  PROVE Routed(s)'
    BY <2>1, <2>2, SameRoutes, StatNode
  <2>3. \A s \in Samples : Leaf(where[s])'
    BY <2>1, StatNode DEF RouteInv, Leaf, IInv, TypeOK
  <2>. QED  BY <2>1, <2>2, <2>3 DEF RouteInv, Growing
<1>2. CASE fit_node_cut
  <2>1. pc = "cut" /\ pc' \in {"create", "undefined"} /\ UNCHANGED <<x, where>>
    BY <1>2 DEF fit_node_cut
  <2>2. \A z \in New : Leaf(z) \/ z \notin DOMAIN nodes
    BY <2>1 DEF TreeInv, LeavesAhead, Growing, Ahead, New, IInv, TypeOK
  <2>3. ASSUME NEW s \in Samples, Routed(s)  PROVE Routed(s)'
    <3>1. ASSUME NEW z \in DOMAIN nodes, ~ Leaf(z)
          PROVE nodes'[z].input = nodes[z].input /\ nodes'[z].cut = nodes[z].cut
      BY <1>2, <2>2, <3>1, CutNode
    <3>. QED  BY <1>2, <2>1, <2>3, <3>1, SameRoutes, CutNode
  <2>4. \A s \in Samples : Leaf(where[s])'
    BY <1>2, <2>1, CutNode DEF RouteInv, Leaf, IInv, TypeOK
  <2>. QED  BY <2>1, <2>3, <2>4 DEF RouteInv, Growing
<1>3. CASE CreateChildren
  <2>1. /\ pc = "create" /\ pc' = "create" /\ UNCHANGED <<where, end>>
        /\ end \in Int /\ newEnd \in Int /\ end <= newEnd
    BY <1>3 DEF CreateChildren, IInv, TypeOK
  <2>2. ASSUME NEW s \in Samples, nodes'[where[s]].left # None
        PROVE nodes'[where[s]].left >= end /\ nodes'[where[s]].right >= end
    <3>1. where[s] \in DOMAIN nodes  BY DEF IInv, TypeOK
    <3>2. CASE where[s] = i  BY <1>3, <2>1, <3>2, ChildrenMade
    <3>3. CASE where[s] # i
      <4>1. nodes'[where[s]] = nodes[where[s]]  BY <1>3, <3>1, <3>3, ChildrenMade
      <4>. QED  BY <2>1, <2>2, <4>1 DEF RouteInv, Leaf
    <3>. QED  BY <3>2, <3>3
  <2>. QED  BY <1>3, <2>1, <2>2, CreateRouted DEF RouteInv, Growing, Leaf
<1>4. CASE LeaveTerminal
  BY <1>4 DEF LeaveTerminal, RouteInv, Growing, Leaf, Routed, Labels, Child
<1>5. CASE AssignSamples
  <2>1. /\ pc = "create" /\ i = end /\ UNCHANGED nodes
        /\ pc' \in {"undefined", "stat", "last"}
    BY <1>5 DEF AssignSamples
  <2>2. ASSUME pc' # "undefined", NEW s \in Samples  PROVE nodes[where'[s]].left = None
    <3>1. where'[s] = IF Leaf(where[s]) THEN where[s] ELSE Child(where[s], s)
      BY <1>5, <2>2 DEF AssignSamples
    <3>2. CASE ~ Leaf(where[s])
      <4>1. Child(where[s], s) >= end  BY <2>1, <3>2 DEF RouteInv, Child
      <4>2. Child(where[s], s) \in DOMAIN nodes
        BY <3>2 DEF IInv, TypeOK, Linked, Leaf, Child
      <4>. QED  BY <2>1, <3>1, <3>2, <4>1, <4>2 DEF TreeInv, LeavesAhead, Growing, Ahead, Leaf
    <3>. QED  BY <3>1, <3>2 DEF Leaf
  <2>. QED  BY <1>5, <2>1, <2>2, AssignRouted DEF RouteInv, Growing, Leaf
<1>6. CASE ListPrunable \/ Prune \/ PruneEnd
  <2>1. pc' \in {"prune", "undefined", "done"}  BY <1>6 DEF ListPrunable, Prune, PruneEnd
  <2>. QED  BY <2>1 DEF RouteInv, Growing
<1>7. CASE NextTree
  <2>1. nodes' = Root /\ pc' = "stat" /\ \A s \in Samples : where'[s] = 0
    BY <1>7 DEF NextTree, Root
  <2>2. AllRouted'  BY <2>1, RootRoutedNext DEF AtRoot
  <2>. QED  BY <2>1, <2>2 DEF RouteInv, AllRouted
<1>8. CASE UNCHANGED vars
  BY <1>8 DEF vars, RouteInv, Growing, Leaf, Routed, Labels, Child
<1>. QED  BY <1>1, <1>2, <1>3, <1>4, <1>5, <1>6, <1>7, <1>8 DEF Next

LEMMA SpecRouteInv == Spec => []RouteInv
<1>1. IInv /\ TreeInv /\ RouteInv /\ [Next]_vars => RouteInv'  BY StepRouteInv
<1>. QED  BY InitRouteInv, SpecIInv, SpecTreeInv, <1>1, PTL DEF Spec

\* The leaf that traverse_mu finds for a sample in the finished tree is the node
\* the passes moved the sample to: its prediction is that of its own leaf.
THEOREM SamplesAreRouted == Spec => []RoutedToLeaf
<1>1. RouteInv /\ IInv => RoutedToLeaf
  <2>. SUFFICES ASSUME IInv, RouteInv, pc \in {"stat", "cut", "last", "list"}, NEW s \in Samples
       PROVE Traverse(s) = where[s]
    BY DEF RoutedToLeaf
  <2>. DEFINE same == [z \in DOMAIN nodes |-> z]
              leafFrom == CHOOSE f : f = [z \in DOMAIN nodes |-> IF Leaf(z) THEN z ELSE f[Child(z, s)]]
  <2>1. Routed(s) /\ Leaf(where[s])  BY DEF RouteInv, Growing
  <2>2. ASSUME NEW f
        PROVE Labels(f, same, s) <=> f = [z \in DOMAIN nodes |-> IF Leaf(z) THEN z ELSE f[Child(z, s)]]
    BY DEF Labels
  <2>3. \E f : f = [z \in DOMAIN nodes |-> IF Leaf(z) THEN z ELSE f[Child(z, s)]]
    BY <2>1, <2>2 DEF Routed
  <2>4. leafFrom = [z \in DOMAIN nodes |-> IF Leaf(z) THEN z ELSE leafFrom[Child(z, s)]]
    BY <2>3
  <2>5. leafFrom[0] = leafFrom[where[s]]  BY <2>1, <2>2, <2>4 DEF Routed
  <2>6. leafFrom[where[s]] = where[s]  BY <2>1, <2>4 DEF IInv, TypeOK
  <2>. HIDE DEF leafFrom
  <2>7. Traverse(s) = leafFrom[0]  BY DEF Traverse, leafFrom
  <2>. QED  BY <2>5, <2>6, <2>7
<1>. QED  BY SpecIInv, SpecRouteInv, <1>1, PTL
-----------------------------------------------------------------------------
(***************************************************************************)
(* Why a fit can meet an undefined operation.  A node of the level that is *)
(* being split is without a cut only because none was offered to it; a     *)
(* forced level leaves samples behind only when the room is used up; and a *)
(* child has a higher number than its parent, so that the last node with   *)
(* children is a twig: an empty list means that only the root has some.    *)
(***************************************************************************)
Unset(z) == IF z = 0 THEN nodes[z].leftMax = 0 ELSE nodes[z].leftMax \in Garbage

AtLevel ==
    Growing => /\ \A z \in New : nodes[z].level = level
               /\ pc = "create" => \A z \in DOMAIN nodes : z >= end => nodes[z].level = level + 1

Uncut ==
    /\ Growing => \A z \in DOMAIN nodes :
          z >= (IF pc = "create" THEN end ELSE begin) => nodes[z].input = None /\ Unset(z)
    /\ pc = "create" => \A z \in New : nodes[z].input = None =>
          IF Forced THEN ForcedCuts(z) = {}
          ELSE /\ Cuts(z) = {} /\ Unset(z)
               /\ ~ Leaf(z) => TnodeCutFn(nodes[z].leftMax, nodes[z].indnum)

LeftBehind ==
    /\ /\ pc \in {"stat", "cut"} /\ kind = "force" /\ level <= nForceCutLevel
       /\ \E s \in Samples : where[s] < begin
       => newEnd >= MaxNodes
    /\ pc = "create" =>
          /\ \A s \in Samples : where[s] < end /\ (~ Leaf(where[s]) => where[s] >= begin)
          /\ Forced => /\ \A s \in Samples : where[s] >= begin
                       /\ \A z \in begin .. i - 1 : Leaf(z) => newEnd >= MaxNodes

Downward == \A z \in DOMAIN nodes : ~ Leaf(z) => z < nodes[z].left /\ z < nodes[z].right

CauseInv == AtLevel /\ Uncut /\ LeftBehind /\ Downward /\ UndefinedHasCause

\* A function on a finite set has a largest value: where the fewest are above.
LEMMA LargestValue ==
    ASSUME NEW S, IsFiniteSet(S), S # {}, NEW h \in [S -> Int]
    PROVE \E m \in S : \A s \in S : h[s] <= h[m]
<1>. DEFINE Above(m) == {s \in S : h[s] > h[m]}
            Counts == {Cardinality(Above(m)) : m \in S}
<1>1. ASSUME NEW m \in S  PROVE IsFiniteSet(Above(m)) /\ Cardinality(Above(m)) \in Nat
  BY FS_Subset, FS_CardinalityType
<1>2. Counts \subseteq Nat /\ Counts # {}  BY <1>1
<1>3. PICK c \in Counts : \A d \in Counts : ~ (<<d, c>> \in OpToRel(<, Nat))
  <2>. HIDE DEF Counts
  <2>. QED  BY <1>2, WFMin, NatLessThanWellFounded
<1>4. PICK m \in S : c = Cardinality(Above(m))  BY <1>3
<1>5. ASSUME NEW s \in S, h[s] > h[m]  PROVE FALSE
  <2>1. Above(s) \in SUBSET Above(m) /\ s \in Above(m) /\ s \notin Above(s)  BY <1>5
  <2>. HIDE DEF Above
  <2>2. Cardinality(Above(s)) <= Cardinality(Above(m)) /\ Cardinality(Above(s)) # Cardinality(Above(m))
    BY <1>1, <2>1, FS_Subset
  <2>3. Cardinality(Above(s)) < Cardinality(Above(m))  BY <1>1, <2>2
  <2>4. <<Cardinality(Above(s)), c>> \in OpToRel(<, Nat)  BY <1>1, <1>4, <2>3 DEF OpToRel
  <2>. QED  BY <1>3, <2>4
<1>. QED  BY <1>5

\* A list with no node but the root is that of a tree that is split only there.
LEMMA LastSplitIsTwig ==
    ASSUME IInv, TreeInv, Downward, pc = "prune", prunable \subseteq {0},
           NEW y \in DOMAIN nodes \ {0}
    PROVE Leaf(y)
<1>. SUFFICES ASSUME ~ Leaf(y) PROVE FALSE  OBVIOUS
<1>. DEFINE S == {z \in DOMAIN nodes : ~ Leaf(z)}
            h == [z \in S |-> z]
<1>1. DOMAIN nodes = 0 .. newEnd - 1 /\ newEnd \in Nat  BY DEF IInv, TypeOK
<1>2. IsFiniteSet(S) /\ S # {} /\ h \in [S -> Int]
  <2>1. IsFiniteSet(DOMAIN nodes)  BY <1>1, FS_Interval
  <2>2. S \in SUBSET DOMAIN nodes /\ y \in S /\ S \subseteq Int  BY <1>1
  <2>. QED  BY <2>1, <2>2, FS_Subset
<1>3. PICK m \in S : \A z \in S : h[z] <= h[m]
  <2>. HIDE DEF S, h
  <2>. QED  BY <1>2, LargestValue
<1>4. m \in DOMAIN nodes /\ ~ Leaf(m) /\ m \in Int /\ m >= y /\ y \in Int /\ y > 0  BY <1>1, <1>3
<1>5. /\ nodes[m].left \in DOMAIN nodes /\ nodes[m].right \in DOMAIN nodes
      /\ m < nodes[m].left /\ m < nodes[m].right
  BY <1>4 DEF IInv, Linked, Leaf, Downward
<1>6. ASSUME NEW z \in DOMAIN nodes, m < z  PROVE Leaf(z)  BY <1>1, <1>3, <1>6
<1>7. Twig(nodes, m)  BY <1>4, <1>5, <1>6 DEF Twig, Leaf
<1>. QED  BY <1>4, <1>7 DEF TreeInv, PruneListExact

\* A node for which there are cuts gets one.
LEMMA CutOffered ==
    ASSUME NEW z \in DOMAIN nodes, NEW c \in Offered(z), c.input = None
    PROVE /\ c.leftMax = nodes[z].leftMax
          /\ IF Forced THEN ForcedCuts(z) = {} ELSE Cuts(z) = {}
<1>1. \A f \in Inputs : f # None  BY TreeAssumption DEF None
<1>2. ASSUME c \in Cuts(z)  PROVE c.input \in Inputs  BY <1>2 DEF Cuts, Cut
<1>3. ASSUME c \in ForcedCuts(z)  PROVE c.input \in Inputs
  BY <1>3, TreeAssumption DEF ForcedCuts, Cut
<1>. QED  BY <1>1, <1>2, <1>3 DEF Offered, NoCut

\* Which cuts there are depends on the samples of the node and their number.
LEMMA SameCuts ==
    ASSUME NEW z, UNCHANGED <<x, where>>, nodes'[z].indnum = nodes[z].indnum
    PROVE ForcedCuts(z)' = ForcedCuts(z) /\ Cuts(z)' = Cuts(z)
<1>1. In(z)' = In(z)  BY DEF In
<1>2. \A f, v : Cut(f, v, z)' = Cut(f, v, z)  BY <1>1 DEF Cut, CutAt, Below
<1>3. \A f : Levels(f, z)' = Levels(f, z)  BY <1>1 DEF Levels, Below
<1>4. \A f, v : Below(f, v, In(z))' = Below(f, v, In(z))  BY <1>1 DEF Below
<1>5. \A f, v : InWindow(f, v, z)' <=> InWindow(f, v, z)  BY <1>1 DEF InWindow, Below
<1>6. ForcedCuts(z)' = ForcedCuts(z)  BY <1>2, <1>3, <1>4 DEF ForcedCuts
<1>7. Cuts(z)' = Cuts(z)  BY <1>2, <1>3, <1>4, <1>5 DEF Cuts
<1>. QED  BY <1>6, <1>7

LEMMA ForceLevels == IInv => nForceCutLevel \in Nat
BY TreeAssumption DEF IInv, TypeOK

LEMMA RootCaused == AtRoot /\ pc = "stat" /\ level = 0 /\ begin = 0 /\ end = 1 => CauseInv
<1>. SUFFICES ASSUME AtRoot, pc = "stat", level = 0, begin = 0, end = 1 PROVE CauseInv  OBVIOUS
<1>1. /\ DOMAIN nodes = {0} /\ New = {0} /\ Leaf(0)
      /\ nodes[0].leftMax = 0 /\ nodes[0].input = None /\ nodes[0].level = 0
  BY RootTree DEF AtRoot, New, Leaf
<1>2. \A s \in Samples : ~ (where[s] < begin)  BY DEF AtRoot
<1>. QED  BY <1>1, <1>2 DEF CauseInv, AtLevel, Uncut, Unset, LeftBehind, Downward, UndefinedHasCause

RootStarts == AtRoot /\ pc = "stat" /\ level = 0 /\ begin = 0 /\ end = 1
LEMMA RootCausedNext == RootStarts' => CauseInv'
<1>1. RootStarts => CauseInv  BY RootCaused DEF RootStarts
<1>. QED  BY <1>1, PTL

LEMMA StatCauseInv == ASSUME IInv, TreeInv, CauseInv, Stat \/ LastStat PROVE CauseInv'
<1>1. /\ fit_node_stat /\ pc \in {"stat", "last"} /\ pc' \in {"cut", "list", "done"}
      /\ pc' = "cut" => pc = "stat"
      /\ UNCHANGED <<x, nForceCutLevel, kind, level, where, begin, end, i, newEnd>>
  BY DEF Stat, LastStat
<1>2. New \subseteq DOMAIN nodes  BY <1>1 DEF IInv, TypeOK, New
<1>3. AtLevel'  BY <1>1, <1>2, StatNode DEF CauseInv, AtLevel, Growing, New
<1>4. Uncut'  BY <1>1, StatNode DEF CauseInv, Uncut, Unset, Growing
<1>5. LeftBehind'  BY <1>1 DEF CauseInv, LeftBehind
<1>6. Downward'  BY <1>1, StatNode DEF CauseInv, Downward, Leaf
<1>. QED  BY <1>1, <1>3, <1>4, <1>5, <1>6 DEF CauseInv, UndefinedHasCause

LEMMA CutCauseInv == ASSUME IInv, TreeInv, RouteInv, CauseInv, fit_node_cut PROVE CauseInv'
<1>1. /\ pc = "cut" /\ pc' \in {"create", "undefined"} /\ i' = begin /\ newEnd = end /\ newEnd' = end
      /\ UNCHANGED <<x, nForceCutLevel, kind, level, where, begin, end>>
      /\ pc' = IF Forced /\ \E s \in Samples : where[s] < begin THEN "undefined" ELSE "create"
  BY DEF fit_node_cut, IInv
<1>2. /\ DOMAIN nodes = 0 .. end - 1 /\ New \subseteq DOMAIN nodes /\ DOMAIN nodes' = DOMAIN nodes
      /\ begin \in Nat /\ end \in Nat /\ where \in [Samples -> DOMAIN nodes] /\ New' = New
  BY <1>1, CutNode DEF IInv, TypeOK, New
<1>3. \A z \in DOMAIN nodes : Leaf(z)' = Leaf(z) /\ (z \in New => Leaf(z))
  BY <1>1, <1>2, CutNode DEF TreeInv, LeavesAhead, Growing, Ahead, New, Leaf
<1>4. AtLevel'  BY <1>1, <1>2, CutNode DEF CauseInv, AtLevel, Growing
<1>5. Uncut'
  <2>1. ASSUME NEW z \in New, nodes'[z].input = None
        PROVE (IF Forced THEN ForcedCuts(z) = {} ELSE Cuts(z) = {}) /\ Unset(z)'
    <3>1. PICK c \in Offered(z) : nodes'[z].input = c.input /\ nodes'[z].leftMax = c.leftMax
      BY <1>2, CutNode
    <3>2. c.leftMax = nodes[z].leftMax /\ IF Forced THEN ForcedCuts(z) = {} ELSE Cuts(z) = {}
      BY <1>2, <2>1, <3>1, CutOffered
    <3>3. Unset(z)  BY <1>1, <1>2 DEF CauseInv, Uncut, Growing, New
    <3>. QED  BY <3>1, <3>2, <3>3 DEF Unset
  <2>2. \A z \in New : ForcedCuts(z)' = ForcedCuts(z) /\ Cuts(z)' = Cuts(z)
    BY <1>1, <1>2, CutNode, SameCuts
  <2>3. Forced' = Forced  BY <1>1 DEF Forced
  <2>. QED  BY <1>1, <1>2, <1>3, <2>1, <2>2, <2>3 DEF Uncut, Growing
<1>6. LeftBehind'
  <2>1. \A s \in Samples : where[s] < end /\ Leaf(where[s])'
    BY <1>1, <1>2, <1>3 DEF RouteInv
  <2>2. Forced' /\ pc' = "create" => \A s \in Samples : where[s] >= begin
    BY <1>1, <1>2 DEF Forced
  <2>. QED  BY <1>1, <1>2, <2>1, <2>2 DEF LeftBehind
<1>7. Downward'  BY <1>2, <1>3, CutNode DEF CauseInv, Downward
<1>8. UndefinedHasCause'
  <2>. SUFFICES ASSUME pc' = "undefined"
       PROVE /\ Forced /\ level > 0 /\ newEnd = MaxNodes
             /\ \E s \in Samples : where[s] < begin /\ Leaf(where[s])'
    BY <1>1 DEF UndefinedHasCause, Forced
  <2>forced. Forced  BY <1>1
  <2>behind. PICK s \in Samples : where[s] < begin  BY <1>1
  <2>leaf. Leaf(where[s])'  BY <1>1, <1>2, <1>3 DEF RouteInv
  <2>later. level \in Nat /\ level # 0  BY <1>2, <2>behind DEF TreeInv
  <2>enough. newEnd >= MaxNodes  BY <1>1, <2>forced, <2>behind, <2>later, ForceLevels DEF CauseInv, LeftBehind, Forced
  <2>full. newEnd = MaxNodes  BY <2>enough, MaxNodesOdd DEF IInv, TypeOK, NodesInRoom
  <2>. QED  BY <2>forced, <2>behind, <2>leaf, <2>later, <2>full
<1>. QED  BY <1>4, <1>5, <1>6, <1>7, <1>8 DEF CauseInv

LEMMA CreateCauseInv == ASSUME IInv, TreeInv, CauseInv, CreateChildren PROVE CauseInv'
<1>1. /\ pc = "create" /\ pc' = "create" /\ i' = i + 1 /\ newEnd' = newEnd + 2 /\ i < end
      /\ MayCreate(i) /\ UNCHANGED <<x, nForceCutLevel, kind, level, where, begin, end>>
  BY DEF CreateChildren
<1>2. /\ DOMAIN nodes = 0 .. newEnd - 1 /\ newEnd \in Nat /\ begin \in Nat /\ end \in Nat /\ i \in Nat
      /\ end <= newEnd /\ begin <= i /\ where \in [Samples -> DOMAIN nodes]
  BY <1>1 DEF IInv, TypeOK
<1>3. New' = New /\ New \subseteq DOMAIN nodes /\ i \in New  BY <1>1, <1>2 DEF New
<1>4. Leaf(i) /\ nodes'[i].left # None
  <2>1. Leaf(i)  BY <1>1, <1>2, ChildrenMade DEF TreeInv, LeavesAhead, Growing, Ahead
  <2>2. nodes'[i].left # None  BY <1>2, ChildrenMade DEF None
  <2>. QED  BY <2>1, <2>2
<1>5. \A z \in DOMAIN nodes : z # i => Leaf(z)' = Leaf(z)  BY ChildrenMade DEF Leaf
<1>6. \A z \in DOMAIN nodes :
        /\ nodes'[z].level = nodes[z].level /\ nodes'[z].indnum = nodes[z].indnum
        /\ nodes'[z].input = nodes[z].input /\ nodes'[z].leftMax = nodes[z].leftMax
  BY ChildrenMade
<1>7. AtLevel'
  <2>1. \A z \in New : nodes[z].level = level  BY <1>1 DEF CauseInv, AtLevel, Growing
  <2>2. \A z \in DOMAIN nodes : z >= end => nodes[z].level = level + 1
    BY <1>1 DEF CauseInv, AtLevel, Growing
  <2>. QED  BY <1>1, <1>3, <1>6, <2>1, <2>2, ChildrenMade DEF AtLevel
<1>8. Uncut'
  <2>1. \A z \in New : ForcedCuts(z)' = ForcedCuts(z) /\ Cuts(z)' = Cuts(z)
    BY <1>1, <1>3, <1>6, SameCuts
  <2>2. Forced' = Forced  BY <1>1 DEF Forced
  <2>3. \A z \in DOMAIN nodes : z >= end => nodes[z].input = None /\ Unset(z)
    BY <1>1 DEF CauseInv, Uncut, Growing
  <2>4. \A z \in DOMAIN nodes : Unset(z)' = Unset(z)  BY <1>6 DEF Unset
  <2>5. \A z \in {newEnd, newEnd + 1} : nodes'[z].input = None /\ Unset(z)'
    BY <1>1, <1>2, ChildrenMade DEF Unset
  <2>6. \A z \in DOMAIN nodes' : z >= end => nodes'[z].input = None /\ Unset(z)'
    BY <1>6, <2>3, <2>4, <2>5, ChildrenMade
  <2>7. ASSUME NEW z \in New, nodes'[z].input = None
        PROVE IF Forced THEN ForcedCuts(z) = {}
              ELSE /\ Cuts(z) = {} /\ Unset(z)
                   /\ ~ Leaf(z)' => TnodeCutFn(nodes[z].leftMax, nodes[z].indnum)
    <3>1. nodes[z].input = None  BY <1>3, <1>6, <2>7
    <3>2. IF Forced THEN ForcedCuts(z) = {}
          ELSE /\ Cuts(z) = {} /\ Unset(z)
               /\ ~ Leaf(z) => TnodeCutFn(nodes[z].leftMax, nodes[z].indnum)
      BY <1>1, <3>1 DEF CauseInv, Uncut
    <3>3. z = i /\ ~ Forced => TnodeCutFn(nodes[z].leftMax, nodes[z].indnum)
      BY <1>1 DEF MayCreate
    <3>. QED  BY <1>3, <1>5, <3>2, <3>3
  <2>. QED  BY <1>1, <1>3, <1>6, <2>1, <2>2, <2>4, <2>6, <2>7 DEF Uncut
<1>9. LeftBehind'
  <2>1. ASSUME NEW s \in Samples
        PROVE where[s] < end /\ (~ Leaf(where[s])' => where[s] >= begin)
    BY <1>1, <1>2, <1>5, <2>1 DEF CauseInv, LeftBehind
  <2>2. ASSUME Forced'  PROVE \A s \in Samples : where[s] >= begin
    BY <1>1, <2>2 DEF CauseInv, LeftBehind, Forced
  <2>3. ASSUME Forced', NEW z \in begin .. i, Leaf(z)'  PROVE newEnd + 2 >= MaxNodes
    <3>1. z # i  BY <1>4, <2>3 DEF Leaf
    <3>. PICK y \in DOMAIN nodes : y = z  BY <1>1, <1>2
    <3>2. Leaf(z)  BY <1>5, <2>3, <3>1
    <3>3. newEnd >= MaxNodes
      BY <1>1, <1>2, <2>3, <3>1, <3>2 DEF CauseInv, LeftBehind, Forced
    <3>. QED  BY <1>2, <3>3, MaxNodesOdd
  <2>. QED  BY <1>1, <1>2, <2>1, <2>2, <2>3 DEF LeftBehind
<1>10. Downward'
  <2>1. ASSUME NEW z \in DOMAIN nodes', ~ Leaf(z)'
        PROVE z < nodes'[z].left /\ z < nodes'[z].right
    <3>1. CASE z \in {newEnd, newEnd + 1}  BY <2>1, <3>1, ChildrenMade DEF Leaf
    <3>2. CASE z = i  BY <1>1, <1>2, <3>2, ChildrenMade
    <3>3. CASE z \in DOMAIN nodes \ {i}  BY <1>5, <2>1, <3>3, ChildrenMade DEF CauseInv, Downward
    <3>. QED  BY <3>1, <3>2, <3>3, ChildrenMade
  <2>. QED  BY <2>1 DEF Downward
<1>. QED  BY <1>1, <1>7, <1>8, <1>9, <1>10 DEF CauseInv, UndefinedHasCause

LEMMA LeaveCauseInv == ASSUME IInv, TreeInv, CauseInv, LeaveTerminal PROVE CauseInv'
<1>1. /\ pc = "create" /\ pc' = "create" /\ i' = i + 1 /\ ~ MayCreate(i)
      /\ UNCHANGED <<x, nForceCutLevel, kind, level, nodes, where, begin, end, newEnd>>
  BY DEF LeaveTerminal
<1>2. begin \in Nat /\ i \in Nat /\ newEnd \in Nat  BY DEF IInv, TypeOK
<1>3. Forced' = Forced  BY <1>1 DEF Forced
<1>4. LeftBehind'
  <2>1. Forced => newEnd >= MaxNodes  BY <1>1, <1>2, MaxNodesOdd DEF MayCreate
  <2>. QED  BY <1>1, <1>2, <1>3, <2>1 DEF CauseInv, LeftBehind, Leaf
<1>5. Uncut'
  <2>1. \A z : ForcedCuts(z)' = ForcedCuts(z) /\ Cuts(z)' = Cuts(z)  BY <1>1, SameCuts
  <2>. QED  BY <1>1, <1>3, <2>1 DEF CauseInv, Uncut, Unset, Growing, New, Leaf
<1>6. AtLevel' /\ Downward'  BY <1>1 DEF CauseInv, AtLevel, Growing, New, Downward, Leaf
<1>. QED  BY <1>1, <1>4, <1>5, <1>6 DEF CauseInv, UndefinedHasCause

LEMMA AssignCauseInv == ASSUME IInv, TreeInv, RouteInv, CauseInv, AssignSamples PROVE CauseInv'
<1>1. /\ pc = "create" /\ i = end /\ pc' \in {"undefined", "stat", "last"}
      /\ begin' = end /\ end' = newEnd /\ level' = level + 1
      /\ UNCHANGED <<x, nForceCutLevel, kind, nodes, newEnd>>
  BY DEF AssignSamples
<1>2. /\ DOMAIN nodes = 0 .. newEnd - 1 /\ newEnd \in Nat /\ begin \in Nat /\ end \in Nat
      /\ end >= 1 /\ end <= newEnd /\ where \in [Samples -> DOMAIN nodes] /\ level \in Nat
  BY DEF IInv, TypeOK, TreeInv
<1>3. AtLevel'  BY <1>1, <1>2 DEF CauseInv, AtLevel, Growing, New
<1>4. Uncut'  BY <1>1 DEF CauseInv, Uncut, Unset, Growing
<1>5. LeftBehind'
  <2>. SUFFICES ASSUME pc' = "stat", kind = "force", level + 1 <= nForceCutLevel,
                       NEW s \in Samples, where'[s] < end
       PROVE newEnd >= MaxNodes
    BY <1>1 DEF LeftBehind
  <2>1. Forced  BY <1>2, ForceLevels DEF Forced
  <2>2. where'[s] = IF Leaf(where[s]) THEN where[s] ELSE Child(where[s], s)  BY DEF AssignSamples
  <2>3. Leaf(where[s])
    <3>. SUFFICES ASSUME ~ Leaf(where[s]) PROVE FALSE  OBVIOUS
    <3>1. Child(where[s], s) >= end  BY <1>1 DEF RouteInv, Child
    <3>2. Child(where[s], s) \in DOMAIN nodes  BY <1>2 DEF IInv, Linked, Leaf, Child
    <3>. QED  BY <1>2, <2>2, <3>1, <3>2
  <2>4. where[s] \in begin .. i - 1  BY <1>1, <1>2, <2>1 DEF CauseInv, LeftBehind
  <2>. QED  BY <1>1, <2>1, <2>3, <2>4 DEF CauseInv, LeftBehind
<1>6. Downward'  BY <1>1 DEF CauseInv, Downward, Leaf
<1>7. UndefinedHasCause'
  <2>. SUFFICES ASSUME pc' = "undefined"  PROVE UndefinedHasCause'  BY DEF UndefinedHasCause
  <2>1. UNCHANGED where /\ \E s \in Samples : ~ Leaf(where[s]) /\ nodes[where[s]].input = None
    BY DEF AssignSamples
  <2>2. PICK s \in Samples : ~ Leaf(where[s]) /\ nodes[where[s]].input = None  BY <2>1
  <2>. PICK z \in DOMAIN nodes : z = where[s]  BY <1>2
  <2>3. z \in New /\ nodes[z].level = level
    <3>1. z \in New  BY <1>1, <1>2, <2>2 DEF CauseInv, LeftBehind, New
    <3>. QED  BY <1>1, <3>1 DEF CauseInv, AtLevel, Growing
  <2>4. IF Forced THEN ForcedCuts(z) = {}
        ELSE Cuts(z) = {} /\ Unset(z) /\ TnodeCutFn(nodes[z].leftMax, nodes[z].indnum)
    BY <1>1, <2>2, <2>3 DEF CauseInv, Uncut
  <2>5. ~ Forced => z # 0 /\ nodes[z].leftMax \in Garbage
    <3>. SUFFICES ASSUME ~ Forced PROVE z # 0 /\ nodes[z].leftMax \in Garbage  OBVIOUS
    <3>1. ~ (nodes[z].leftMax = 0)  BY <2>4, TreeAssumption DEF TnodeCutFn
    <3>. QED  BY <2>4, <3>1 DEF Unset
  <2>6. /\ ~ Leaf(z) /\ nodes[z].input = None
        /\ IF kind = "force" /\ nodes[z].level < nForceCutLevel
           THEN ForcedCuts(z) = {}
           ELSE /\ z # 0 /\ Cuts(z) = {}
                /\ nodes[z].leftMax \in Garbage
                /\ TnodeCutFn(nodes[z].leftMax, nodes[z].indnum)
    BY <2>2, <2>3, <2>4, <2>5 DEF Forced
  <2>7. ForcedCuts(z)' = ForcedCuts(z) /\ Cuts(z)' = Cuts(z) /\ Leaf(z)' = Leaf(z)
    BY <1>1, <2>1, SameCuts DEF Leaf
  <2>8. z \in {where'[r] : r \in Samples}  BY <2>1
  <2>. QED  BY <1>1, <2>6, <2>7, <2>8 DEF UndefinedHasCause
<1>. QED  BY <1>3, <1>4, <1>5, <1>6, <1>7 DEF CauseInv

LEMMA PruneCauseInv ==
    ASSUME IInv, TreeInv, CauseInv, ListPrunable \/ Prune \/ PruneEnd PROVE CauseInv'
<1>1. /\ pc \in {"list", "prune"} /\ pc' \in {"prune", "undefined", "done"} /\ kind = "prune"
      /\ UNCHANGED kind
  BY DEF ListPrunable, Prune, PruneEnd, TreeInv
<1>2. AtLevel' /\ Uncut' /\ LeftBehind'  BY <1>1 DEF AtLevel, Uncut, LeftBehind, Growing
<1>3. CASE UNCHANGED nodes
  <2>1. Downward'  BY <1>3 DEF CauseInv, Downward, Leaf
  <2>2. ASSUME pc' = "undefined"  PROVE \A z \in DOMAIN nodes \ {0} : Leaf(z)
    <3>1. pc = "prune" /\ prunable \subseteq {0}  BY <2>2 DEF ListPrunable, Prune, PruneEnd
    <3>. QED  BY <3>1, LastSplitIsTwig DEF CauseInv
  <2>. QED  BY <1>1, <1>2, <1>3, <2>1, <2>2 DEF CauseInv, UndefinedHasCause, Leaf
<1>4. CASE pc' # "undefined" /\ \E z \in prunable \ {0} : nodes' = Pruned(z)
  <2>1. PICK y : nodes' = Pruned(y)  BY <1>4
  <2>2. DOMAIN nodes' = DOMAIN nodes  BY <2>1 DEF Pruned
  <2>3. ASSUME NEW z \in DOMAIN nodes, z # y  PROVE nodes'[z] = nodes[z]  BY <2>1, <2>3 DEF Pruned
  <2>4. ASSUME y \in DOMAIN nodes  PROVE nodes'[y].left = None
    <3>1. Shape(nodes[y])  BY <2>4 DEF IInv, Linked
    <3>. QED  BY <2>1, <2>4, <3>1 DEF Pruned, Shape
  <2>5. Downward'  BY <2>2, <2>3, <2>4 DEF CauseInv, Downward, Leaf
  <2>. QED  BY <1>2, <1>4, <2>5 DEF CauseInv, UndefinedHasCause
<1>. QED  BY <1>1, <1>3, <1>4 DEF ListPrunable, Prune, PruneEnd

LEMMA StepCauseInv == ASSUME IInv, TreeInv, RouteInv, CauseInv, [Next]_vars PROVE CauseInv'
<1>1. CASE NextTree
  <2>1. RootStarts'  BY <1>1 DEF NextTree, RootStarts, AtRoot, Root
  <2>. QED  BY <2>1, RootCausedNext
<1>2. CASE UNCHANGED vars
  <2>. USE <1>2 DEF vars
  <2>1. \A z : ForcedCuts(z)' = ForcedCuts(z) /\ Cuts(z)' = Cuts(z)  BY SameCuts
  <2>2. AtLevel' /\ LeftBehind' /\ Downward'
    BY DEF CauseInv, AtLevel, LeftBehind, Downward, Growing, New, Leaf, Forced
  <2>3. Uncut'  BY <2>1 DEF CauseInv, Uncut, Unset, Growing, New, Leaf, Forced
  <2>4. UndefinedHasCause'  BY <2>1 DEF CauseInv, UndefinedHasCause, Leaf, Forced
  <2>. QED  BY <2>2, <2>3, <2>4 DEF CauseInv
<1>. QED  BY <1>1, <1>2, StatCauseInv, CutCauseInv, CreateCauseInv, LeaveCauseInv, AssignCauseInv,
             PruneCauseInv DEF Next

\* The undefined operations of a fit have the four causes of UndefinedHasCause
\* and no other, whatever the samples and the parameters.
THEOREM UndefinedIsCaused == Spec => []UndefinedHasCause
<1>1. Init => CauseInv
  <2>. SUFFICES ASSUME Init PROVE CauseInv  OBVIOUS
  <2>. QED  BY RootCaused DEF Init, AtRoot, Root
<1>2. IInv /\ TreeInv /\ RouteInv /\ CauseInv /\ [Next]_vars => CauseInv'  BY StepCauseInv
<1>3. CauseInv => UndefinedHasCause  BY DEF CauseInv
<1>. QED  BY SpecIInv, SpecTreeInv, SpecRouteInv, <1>1, <1>2, <1>3, PTL DEF Spec
-----------------------------------------------------------------------------
(***************************************************************************)
(* The sizes of the nodes.  The statistics of a node are written one pass  *)
(* after its samples have been moved to it, so its size is the number of   *)
(* its samples until then, and its indnum from then on.  The two sides of  *)
(* a split get the samples TnodeCutFn counted, because leftMax counts the  *)
(* samples below the cut that Child compares with.                         *)
(***************************************************************************)
Size(z) == IF z >= begin /\ pc \in {"stat", "last"} THEN Cardinality(In(z)) ELSE nodes[z].indnum

Halves(z) ==
    /\ Size(nodes[z].left) >= MinPtsNode /\ Size(nodes[z].right) >= MinPtsNode
    /\ Size(nodes[z].left) + Size(nodes[z].right) = nodes[z].indnum

LeftOf(z) == {s \in In(z) : 2 * x[nodes[z].input][s] < nodes[z].cut}

Counted == Growing \/ (pc = "done" /\ kind # "prune")

\* Every node whose samples are known has some, and the halves of a node are its own.
Sizes ==
    /\ Size(0) = Cardinality(Samples)
    /\ \A z \in DOMAIN nodes : z < end => Size(z) \in Nat \ {0}
    /\ \A z \in DOMAIN nodes : ~ Leaf(z) /\ nodes[z].left < end => Halves(z)
    /\ \A z \in DOMAIN nodes : ~ Leaf(z) => (nodes[z].left < end <=> nodes[z].right < end)
    /\ pc \in {"cut", "create"} => \A z \in New : nodes[z].indnum = Cardinality(In(z))
    /\ Growing => \A z \in DOMAIN nodes :
          z >= (IF pc = "create" THEN end ELSE begin) => nodes[z].input = None

\* While children are made: theirs are the nodes split in this pass, each with an
\* admissible cut or none, and no sample has been moved yet.
Splitting ==
    pc = "create" =>
        /\ \A s \in Samples : where[s] < end
        /\ \A z \in DOMAIN nodes : ~ Leaf(z) /\ nodes[z].left >= end => z \in New
        /\ \A z \in DOMAIN nodes : z >= end =>
              /\ nodes[z].parent \in New /\ ~ Leaf(nodes[z].parent)
              /\ z \in {nodes[nodes[z].parent].left, nodes[nodes[z].parent].right}
        /\ \A z \in New : nodes[z].input # None =>
              /\ nodes[z].leftMax = Cardinality(LeftOf(z))
              /\ TnodeCutFn(nodes[z].leftMax, nodes[z].indnum)

SizeInv ==
    /\ x \in [Inputs -> [Samples -> Values]]
    /\ Counted => Sizes /\ Splitting

LEMMA FiniteIn == \A z : IsFiniteSet(In(z)) /\ Cardinality(In(z)) \in Nat
<1>. SUFFICES ASSUME NEW z PROVE IsFiniteSet(In(z)) /\ Cardinality(In(z)) \in Nat  OBVIOUS
<1>1. In(z) \in SUBSET Samples  BY DEF In
<1>. QED  BY <1>1, TreeAssumption, FS_Subset, FS_CardinalityType

NodesCounted == \A z : Cardinality(In(z)) \in Nat
LEMMA FiniteInNext == NodesCounted'
<1>1. NodesCounted  BY FiniteIn DEF NodesCounted
<1>. QED  BY <1>1, PTL

\* The samples on the left of a chosen cut are those that leftMax counts.
LEMMA CutSides ==
    ASSUME x \in [Inputs -> [Samples -> Values]], NEW z, NEW f \in Inputs, NEW v \in Levels(f, z)
    PROVE {s \in In(z) : 2 * x[f][s] < CutAt(f, v, z)} = {s \in In(z) : x[f][s] < v}
<1>1. Values \subseteq Int /\ IsFiniteSet(Samples)  BY TreeAssumption
<1>2. \A s \in In(z) : s \in Samples /\ x[f][s] \in Int  BY <1>1 DEF In
<1>3. v \in Int /\ Below(f, v, In(z)) > 0  BY <1>2 DEF Levels
<1>. DEFINE S == {s \in In(z) : x[f][s] < v}
            h == [s \in S |-> x[f][s]]
<1>4. IsFiniteSet(S)  BY FiniteIn, FS_Subset
<1>5. S # {}
  <2>1. Cardinality(S) > 0  BY <1>3 DEF Below
  <2>. HIDE DEF S
  <2>. QED  BY <1>4, <2>1, FS_EmptySet
<1>6. PICK m \in S : \A s \in S : h[s] <= h[m]
  <2>1. h \in [S -> Int]  BY <1>2
  <2>. HIDE DEF S, h
  <2>. QED  BY <1>4, <1>5, <2>1, LargestValue
<1>. DEFINE w == CHOOSE w \in {x[f][s] : s \in In(z)} :
            w < v /\ \A s \in In(z) : x[f][s] < v => x[f][s] <= w
<1>7. w \in {x[f][s] : s \in In(z)} /\ w < v /\ \A s \in In(z) : x[f][s] < v => x[f][s] <= w
  <2>1. x[f][m] \in {x[f][s] : s \in In(z)}  BY <1>6
  <2>2. x[f][m] < v /\ \A s \in In(z) : x[f][s] < v => x[f][s] <= x[f][m]  BY <1>6
  <2>. QED  BY <2>1, <2>2
<1>8. CutAt(f, v, z) = v + w  BY DEF CutAt
<1>9. w \in Int  BY <1>2, <1>7
<1>. HIDE DEF w
<1>10. ASSUME NEW s \in In(z)  PROVE 2 * x[f][s] < v + w <=> x[f][s] < v
  <2>1. x[f][s] \in Int  BY <1>2
  <2>2. x[f][s] < v => x[f][s] <= w  BY <1>7
  <2>. QED  BY <1>3, <1>7, <1>9, <2>1, <2>2
<1>. QED  BY <1>8, <1>10

\* A cut that was chosen, not left: what it says of the samples of its node.
LEMMA OfferedCut ==
    ASSUME x \in [Inputs -> [Samples -> Values]], NEW z \in DOMAIN nodes, NEW c \in Offered(z),
           c.input # None, nodes[z].input = None, nodes[z].indnum = Cardinality(In(z))
    PROVE /\ c.leftMax = Cardinality({s \in In(z) : 2 * x[c.input][s] < c.cut})
          /\ TnodeCutFn(c.leftMax, nodes[z].indnum)
<1>1. c # NoCut(z)  BY DEF NoCut
<1>2. PICK f \in Inputs : \E v \in Levels(f, z) :
        c = Cut(f, v, z) /\ TnodeCutFn(Below(f, v, In(z)), nodes[z].indnum)
  <2>1. CASE c \in Cuts(z)  BY <2>1 DEF Cuts
  <2>2. CASE c \in ForcedCuts(z)  BY <2>2, TreeAssumption DEF ForcedCuts
  <2>. QED  BY <1>1, <2>1, <2>2 DEF Offered
<1>. PICK v \in Levels(f, z) : c = Cut(f, v, z) /\ TnodeCutFn(Below(f, v, In(z)), nodes[z].indnum)
  BY <1>2
<1>3. c.input = f /\ c.leftMax = Below(f, v, In(z)) /\ c.cut = CutAt(f, v, z)  BY <1>2 DEF Cut
<1>4. {s \in In(z) : 2 * x[f][s] < CutAt(f, v, z)} = {s \in In(z) : x[f][s] < v}  BY CutSides
<1>. QED  BY <1>2, <1>3, <1>4 DEF Below

LEMMA InitSizeInv == ASSUME Samples # {}, Init PROVE SizeInv
<1>1. /\ nodes = Root /\ pc = "stat" /\ (\A s \in Samples : where[s] = 0)
      /\ begin = 0 /\ end = 1 /\ x \in [Inputs -> [Samples -> Values]]
  BY DEF Init, Root
<1>2. DOMAIN nodes = {0} /\ nodes[0].left = None /\ nodes[0].input = None
  BY <1>1 DEF Root, Node
<1>3. In(0) = Samples  BY <1>1 DEF In
<1>4. Cardinality(Samples) # 0  BY TreeAssumption, FS_EmptySet
<1>5. Size(0) = Cardinality(Samples) /\ Size(0) \in Nat \ {0}
  BY <1>1, <1>3, <1>4, FiniteIn DEF Size
<1>6. Sizes  BY <1>1, <1>2, <1>5 DEF Sizes, Growing, Leaf
<1>. QED  BY <1>1, <1>6 DEF SizeInv, Splitting

LEMMA StatSizeInv == ASSUME IInv, TreeInv, SizeInv, Stat \/ LastStat PROVE SizeInv'
<1>1. /\ fit_node_stat /\ pc \in {"stat", "last"} /\ pc' \in {"cut", "list", "done"}
      /\ (pc' = "done" => kind # "prune") /\ UNCHANGED <<x, kind, begin, end, where>>
      /\ newEnd = end /\ DOMAIN nodes = 0 .. end - 1 /\ begin \in Nat /\ end \in Nat /\ end >= 1
  BY DEF Stat, LastStat, IInv, TypeOK
<1>2. \A z : In(z)' = In(z)  BY <1>1 DEF In
<1>3. ASSUME NEW z \in DOMAIN nodes
      PROVE /\ Size(z) = nodes'[z].indnum
            /\ z \in New <=> z >= begin
  <2>1. z \in Nat /\ z < end  BY <1>1
  <2>. QED  BY <1>1, <2>1, StatNode DEF Size, New
<1>. DEFINE n == nodes'
<1>4. ASSUME NEW z \in DOMAIN nodes, n[z].left # None
      PROVE /\ n[z].left \in DOMAIN nodes /\ n[z].right \in DOMAIN nodes
            /\ n[n[z].left].indnum >= MinPtsNode /\ n[n[z].right].indnum >= MinPtsNode
            /\ n[n[z].left].indnum + n[n[z].right].indnum = n[z].indnum
  <2>1. ~ Leaf(z) /\ nodes[z].left \in DOMAIN nodes /\ nodes[z].right \in DOMAIN nodes
    BY <1>1, <1>4, StatNode DEF Leaf, IInv, Linked
  <2>2. Halves(z)  BY <1>1, <2>1 DEF SizeInv, Counted, Growing, Sizes
  <2>3. n[z].left = nodes[z].left /\ n[z].right = nodes[z].right  BY <1>1, StatNode
  <2>4. n[z].indnum = nodes[z].indnum
    <3>1. z \notin New  BY <1>1, <1>3, <2>1 DEF TreeInv, LeavesAhead, Growing, Ahead
    <3>. QED  BY <1>1, <3>1, StatNode
  <2>. QED  BY <1>3, <2>1, <2>2, <2>3, <2>4 DEF Halves
<1>5. DOMAIN n = DOMAIN nodes /\ 0 \in DOMAIN nodes  BY <1>1, StatNode
<1>6. ASSUME Counted'  PROVE Sizes'
  <2>1. pc' \notin {"stat", "last", "create"}  BY <1>1
  <2>2. n[0].indnum = Cardinality(Samples)
    BY <1>1, <1>3, <1>5 DEF SizeInv, Counted, Growing, Sizes
  <2>3. \A z \in DOMAIN nodes : n[z].indnum \in Nat \ {0}
    BY <1>1, <1>3 DEF SizeInv, Counted, Growing, Sizes
  <2>4. \A z \in New : z \in DOMAIN nodes  BY <1>1 DEF New
  <2>5. \A z \in New : n[z].indnum = Cardinality(In(z))  BY <1>1, <2>4, StatNode
  <2>6. \A z \in DOMAIN nodes : z >= begin => n[z].input = None
    BY <1>1, StatNode DEF SizeInv, Counted, Growing, Sizes
  <2>7. \A z \in DOMAIN nodes : z < end  BY <1>1
  <2>. QED  BY <1>1, <1>2, <1>4, <1>5, <2>1, <2>2, <2>3, <2>5, <2>6, <2>7
            DEF Sizes, Size, Halves, Leaf, New, Growing
<1>. QED  BY <1>1, <1>6 DEF SizeInv, Splitting

LEMMA CutSizeInv == ASSUME IInv, TreeInv, SizeInv, fit_node_cut, pc' # "undefined" PROVE SizeInv'
<1>1. /\ pc = "cut" /\ pc' = "create" /\ UNCHANGED <<x, kind, begin, end, where>>
      /\ DOMAIN nodes = 0 .. end - 1 /\ begin \in Nat /\ end \in Nat /\ end >= 1
      /\ where \in [Samples -> DOMAIN nodes]
  <2>1. pc = "cut" /\ pc' = "create" /\ UNCHANGED <<x, kind, begin, end, where>>
    BY DEF fit_node_cut
  <2>. QED  BY <2>1 DEF IInv, TypeOK
<1>2. \A z : In(z)' = In(z)  BY <1>1 DEF In
<1>3. Sizes  BY <1>1 DEF SizeInv, Counted, Growing
<1>. DEFINE n == nodes'
<1>4. \A z \in New : z \in DOMAIN nodes /\ z >= begin BY <1>1 DEF New
<1>5. ASSUME NEW z \in DOMAIN nodes, n[z].left # None
      PROVE /\ n[z].left \in DOMAIN nodes /\ n[z].right \in DOMAIN nodes
            /\ n[n[z].left].indnum >= MinPtsNode /\ n[n[z].right].indnum >= MinPtsNode
            /\ n[n[z].left].indnum + n[n[z].right].indnum = n[z].indnum
  <2>1. ~ Leaf(z) /\ nodes[z].left \in DOMAIN nodes /\ nodes[z].right \in DOMAIN nodes
    BY <1>5, CutNode DEF Leaf, IInv, Linked
  <2>2. Halves(z)  BY <1>1, <1>3, <2>1 DEF Sizes
  <2>. QED  BY <1>1, <2>1, <2>2, CutNode DEF Halves, Size
<1>6. DOMAIN n = DOMAIN nodes /\ \A z \in DOMAIN nodes : n[z].indnum = nodes[z].indnum
  BY CutNode
<1>7. Sizes'
  <2>1. \A z \in DOMAIN nodes : nodes[z].indnum \in Nat \ {0}
    BY <1>1, <1>3 DEF Sizes, Size
  <2>2. nodes[0].indnum = Cardinality(Samples)  BY <1>1, <1>3 DEF Sizes, Size
  <2>3. \A z \in New : n[z].indnum = Cardinality(In(z))  BY <1>1, <1>3, <1>4, <1>6 DEF Sizes
  <2>4. \A z \in DOMAIN nodes : z < end /\ 0 \in DOMAIN nodes  BY <1>1
  <2>. QED  BY <1>1, <1>2, <1>5, <1>6, <2>1, <2>2, <2>3, <2>4 DEF Sizes, Size, Halves, Leaf, New
<1>8. Splitting'
  <2>1. ASSUME NEW z \in New, n[z].input # None
        PROVE n[z].leftMax = Cardinality(LeftOf(z)') /\ TnodeCutFn(n[z].leftMax, n[z].indnum)
    <3>1. PICK c \in Offered(z) : n[z].input = c.input /\ n[z].cut = c.cut /\ n[z].leftMax = c.leftMax
      BY <1>4, CutNode
    <3>2. nodes[z].input = None /\ nodes[z].indnum = Cardinality(In(z))
      BY <1>1, <1>3, <1>4 DEF Sizes, Growing
    <3>3. /\ c.leftMax = Cardinality({s \in In(z) : 2 * x[c.input][s] < c.cut})
          /\ TnodeCutFn(c.leftMax, nodes[z].indnum)
      BY <1>4, <2>1, <3>1, <3>2, OfferedCut DEF SizeInv
    <3>. QED  BY <1>1, <1>2, <1>4, <1>6, <3>1, <3>3 DEF LeftOf
  <2>behind. \A z \in DOMAIN nodes : z < end /\ ~ (z >= end)  BY <1>1
  <2>3. \A z \in DOMAIN nodes : n[z].left # None => ~ (n[z].left >= end)  BY <1>5, <2>behind
  <2>samples. \A s \in Samples : where[s] < end  BY <1>1, <2>behind
  <2>new. New' = New  BY <1>1 DEF New
  <2>. HIDE DEF n
  <2>6. n = nodes'  BY DEF n
  <2>. QED  BY <1>1, <1>6, <2>1, <2>behind, <2>3, <2>samples, <2>new, <2>6 DEF Splitting, Leaf
<1>. QED  BY <1>1, <1>7, <1>8 DEF SizeInv

LEMMA CreateSizeInv == ASSUME IInv, TreeInv, SizeInv, CreateChildren PROVE SizeInv'
<1>1. /\ pc = "create" /\ pc' = "create" /\ UNCHANGED <<x, kind, begin, end, where>> /\ i < end
  BY DEF CreateChildren
<1>2. /\ DOMAIN nodes = 0 .. newEnd - 1 /\ begin \in Nat /\ end \in Nat /\ end >= 1 /\ newEnd \in Nat
      /\ end <= newEnd /\ i \in Nat /\ begin <= i
  BY <1>1 DEF IInv, TypeOK
<1>3. (\A z : In(z)' = In(z)) /\ New' = New  BY <1>1 DEF In, New
<1>4. Sizes /\ Splitting  BY <1>1 DEF SizeInv, Counted, Growing
<1>. PICK p \in DOMAIN nodes : p = i  BY ChildrenMade
<1>. PICK c \in Nat : c = newEnd  BY <1>2
<1>5. Leaf(p) /\ p \in New /\ c \notin DOMAIN nodes /\ c + 1 \notin DOMAIN nodes
  BY <1>1, <1>2, ChildrenMade DEF TreeInv, LeavesAhead, Growing, Ahead, New
<1>. DEFINE n == nodes'
<1>6. /\ DOMAIN n = DOMAIN nodes \union {c, c + 1}
      /\ n[p].left = c /\ n[p].right = c + 1 /\ n[p].parent = nodes[p].parent
      /\ \A z \in {c, c + 1} : n[z].left = None /\ n[z].parent = p /\ n[z].input = None
  BY ChildrenMade
<1>7. ASSUME NEW z \in DOMAIN nodes
      PROVE /\ n[z].indnum = nodes[z].indnum /\ n[z].input = nodes[z].input
            /\ n[z].cut = nodes[z].cut /\ n[z].leftMax = nodes[z].leftMax
            /\ n[z].parent = nodes[z].parent
            /\ z # p => n[z].left = nodes[z].left /\ n[z].right = nodes[z].right
  BY ChildrenMade
<1>8. \A z \in New : z \in DOMAIN nodes  BY <1>2 DEF New
<1>9. ASSUME NEW z \in DOMAIN n, n[z].left # None
      PROVE \/ z = p /\ ~ (n[z].left < end) /\ ~ (n[z].right < end)
            \/ /\ z \in DOMAIN nodes /\ ~ Leaf(z)
               /\ n[z].left = nodes[z].left /\ n[z].right = nodes[z].right
               /\ nodes[z].left \in DOMAIN nodes /\ nodes[z].right \in DOMAIN nodes
  <2>1. z \in DOMAIN nodes  BY <1>6, <1>9
  <2>2. CASE z = p  BY <1>2, <1>6, <2>2
  <2>3. CASE z # p  BY <1>7, <1>9, <2>1, <2>3 DEF Leaf, IInv, Linked
  <2>. QED  BY <2>2, <2>3
<1>10. Sizes'
  <2>1. \A z : Size(z) = nodes[z].indnum /\ Size(z)' = n[z].indnum  BY <1>1 DEF Size
  <2>2. ASSUME NEW z \in DOMAIN n, z < end  PROVE z \in DOMAIN nodes  BY <1>2, <1>6, <2>2
  <2>3. ASSUME NEW z \in DOMAIN n, n[z].left # None, n[z].left < end  PROVE Halves(z)'
    <3>1. /\ z \in DOMAIN nodes /\ ~ Leaf(z)
          /\ n[z].left = nodes[z].left /\ n[z].right = nodes[z].right
          /\ nodes[z].left \in DOMAIN nodes /\ nodes[z].right \in DOMAIN nodes
      BY <1>9, <2>3
    <3>2. Halves(z)  BY <1>4, <2>3, <3>1 DEF Sizes
    <3>. QED  BY <1>7, <2>1, <3>1, <3>2 DEF Halves
  <2>4. ASSUME NEW z \in DOMAIN n, n[z].left # None  PROVE n[z].left < end <=> n[z].right < end
    BY <1>4, <1>9, <2>4 DEF Sizes
  <2>5. \A z \in DOMAIN n : z >= end => n[z].input = None
    BY <1>1, <1>4, <1>6, <1>7 DEF Sizes, Growing
  <2>6. \A z \in New : n[z].indnum = Cardinality(In(z))  BY <1>1, <1>4, <1>7, <1>8 DEF Sizes
  <2>7. \A z \in DOMAIN n : z < end => Size(z)' \in Nat \ {0}
    BY <1>4, <1>7, <2>1, <2>2 DEF Sizes
  <2>8. Size(0)' = Cardinality(Samples)  BY <1>2, <1>4, <1>7, <2>1 DEF Sizes
  <2>. HIDE DEF n
  <2>9. n = nodes'  BY DEF n
  <2>. QED  BY <1>1, <1>3, <2>3, <2>4, <2>5, <2>6, <2>7, <2>8, <2>9 DEF Sizes, Leaf
<1>11. Splitting'
  <2>1. \A s \in Samples : where[s] < end  BY <1>1, <1>4 DEF Splitting
  <2>2. ASSUME NEW z \in DOMAIN n, n[z].left # None, n[z].left >= end  PROVE z \in New
    BY <1>1, <1>4, <1>5, <1>9, <2>2 DEF Splitting
  <2>3. ASSUME NEW z \in DOMAIN n, z >= end
        PROVE /\ n[z].parent \in New /\ n[n[z].parent].left # None
              /\ z \in {n[n[z].parent].left, n[n[z].parent].right}
    <3>1. CASE z \in {c, c + 1}  BY <1>2, <1>5, <1>6, <3>1 DEF None
    <3>2. CASE z \in DOMAIN nodes
      <4>1. /\ nodes[z].parent \in New /\ ~ Leaf(nodes[z].parent)
            /\ z \in {nodes[nodes[z].parent].left, nodes[nodes[z].parent].right}
        BY <1>1, <1>4, <2>3, <3>2 DEF Splitting
      <4>2. nodes[z].parent # p /\ nodes[z].parent \in DOMAIN nodes  BY <1>5, <1>8, <4>1
      <4>. QED  BY <1>7, <3>2, <4>1, <4>2 DEF Leaf
    <3>. QED  BY <1>6, <3>1, <3>2
  <2>4. \A z \in New : LeftOf(z)' = LeftOf(z)
    BY <1>1, <1>3, <1>7, <1>8 DEF LeftOf
  <2>5. \A z \in New : n[z].input # None =>
              /\ n[z].leftMax = Cardinality(LeftOf(z)')
              /\ TnodeCutFn(n[z].leftMax, n[z].indnum)
    BY <1>1, <1>4, <1>7, <1>8, <2>4 DEF Splitting
  <2>. HIDE DEF n
  <2>6. n = nodes'  BY DEF n
  <2>. QED  BY <1>1, <1>3, <2>1, <2>2, <2>3, <2>5, <2>6 DEF Splitting, Leaf
<1>. QED  BY <1>1, <1>10, <1>11 DEF SizeInv

\* The samples of a node that was split are shared out among its children.
LEMMA SplitSides ==
    ASSUME IInv, TreeInv, SizeInv, AssignSamples, pc' # "undefined",
           NEW z \in DOMAIN nodes, ~ Leaf(z), nodes[z].left >= end
    PROVE /\ nodes[z].left \in DOMAIN nodes /\ nodes[z].right \in DOMAIN nodes
          /\ Cardinality(In(nodes[z].left)') >= MinPtsNode
          /\ Cardinality(In(nodes[z].right)') >= MinPtsNode
          /\ Cardinality(In(nodes[z].left)') + Cardinality(In(nodes[z].right)') = nodes[z].indnum
<1>1. /\ pc = "create" /\ UNCHANGED <<x, nodes>>
      /\ ~ \E s \in Samples : ~ Leaf(where[s]) /\ nodes[where[s]].input = None
      /\ where' = [s \in Samples |-> IF Leaf(where[s]) THEN where[s] ELSE Child(where[s], s)]
  BY DEF AssignSamples
<1>2. Sizes /\ Splitting  BY <1>1 DEF SizeInv, Counted, Growing
<1>. PICK l, r : l = nodes[z].left /\ r = nodes[z].right  OBVIOUS
<1>3. /\ l \in DOMAIN nodes /\ r \in DOMAIN nodes /\ l # r
      /\ nodes[l].parent = z /\ nodes[r].parent = z
  BY DEF Leaf, IInv, Linked, TreeInv, Tree
<1>4. DOMAIN nodes = 0 .. newEnd - 1 /\ newEnd \in Int /\ end \in Int /\ begin \in Int
      /\ where \in [Samples -> DOMAIN nodes]
  BY DEF IInv, TypeOK
<1>5. z \in New /\ nodes[z].indnum = Cardinality(In(z)) /\ Size(z) \in Nat \ {0}
  <2>1. z \in New  BY <1>1, <1>2 DEF Splitting
  <2>2. z < end  BY <1>4, <2>1 DEF New
  <2>. QED  BY <1>1, <1>2, <2>1, <2>2 DEF Sizes
<1>6. In(z) # {}
  <2>1. Cardinality(In(z)) # 0  BY <1>1, <1>5 DEF Size
  <2>. QED  BY <2>1, FiniteIn, FS_EmptySet
<1>7. nodes[z].input # None  BY <1>1, <1>6 DEF In
<1>8. /\ nodes[z].leftMax = Cardinality(LeftOf(z))
      /\ TnodeCutFn(nodes[z].leftMax, nodes[z].indnum)
  BY <1>1, <1>2, <1>5, <1>7 DEF Splitting
<1>9. l >= end /\ r >= end
  <2>1. ~ (r < end)  BY <1>2, <1>3, <1>4 DEF Sizes
  <2>. QED  BY <1>3, <1>4, <2>1
<1>10. ASSUME NEW s \in Samples, where'[s] \in {l, r}  PROVE where[s] = z
  <2>1. where[s] < end /\ where[s] \in DOMAIN nodes  BY <1>1, <1>2, <1>4 DEF Splitting
  <2>2. where'[s] >= end  BY <1>9, <1>10
  <2>3. ~ Leaf(where[s]) /\ where'[s] = Child(where[s], s)  BY <1>1, <1>4, <2>1, <2>2
  <2>4. nodes[where'[s]].parent = where[s]
    BY <2>1, <2>3 DEF TreeInv, Tree, Leaf, Child
  <2>. QED  BY <1>3, <1>10, <2>4
<1>11. ASSUME NEW s \in In(z)
       PROVE where'[s] = IF 2 * x[nodes[z].input][s] < nodes[z].cut THEN l ELSE r
  BY <1>1 DEF In, Child
<1>12. In(l)' = LeftOf(z)
  <2>1. \A s \in In(z) : where'[s] = l <=> 2 * x[nodes[z].input][s] < nodes[z].cut
    BY <1>3, <1>11
  <2>2. In(l)' = {s \in Samples : where'[s] = l}  BY DEF In
  <2>. QED  BY <1>10, <2>1, <2>2 DEF In, LeftOf
<1>13. In(r)' = In(z) \ LeftOf(z)
  <2>1. \A s \in In(z) : where'[s] = r <=> ~ (2 * x[nodes[z].input][s] < nodes[z].cut)
    BY <1>3, <1>11
  <2>2. In(r)' = {s \in Samples : where'[s] = r}  BY DEF In
  <2>. QED  BY <1>10, <2>1, <2>2 DEF In, LeftOf
<1>14. /\ Cardinality(LeftOf(z)) \in Nat /\ Cardinality(In(z)) \in Nat
       /\ Cardinality(In(z) \ LeftOf(z)) = Cardinality(In(z)) - Cardinality(LeftOf(z))
  <2>1. LeftOf(z) \in SUBSET In(z) /\ In(z) \cap LeftOf(z) = LeftOf(z)  BY DEF LeftOf
  <2>2. IsFiniteSet(In(z)) /\ Cardinality(In(z)) \in Nat  BY FiniteIn
  <2>3. IsFiniteSet(LeftOf(z))  BY <2>1, <2>2, FS_Subset
  <2>4. Cardinality(LeftOf(z)) \in Nat  BY <2>3, FS_CardinalityType
  <2>5. Cardinality(In(z) \ LeftOf(z)) = Cardinality(In(z)) - Cardinality(In(z) \cap LeftOf(z))
    BY <2>2, FS_Difference
  <2>. QED  BY <2>1, <2>2, <2>4, <2>5
<1>15. MinPtsNode \in Nat  BY TreeAssumption
<1>16. /\ Cardinality(In(l)') >= MinPtsNode /\ Cardinality(In(r)') >= MinPtsNode
       /\ Cardinality(In(l)') + Cardinality(In(r)') = nodes[z].indnum
  BY <1>5, <1>8, <1>12, <1>13, <1>14, <1>15 DEF TnodeCutFn
<1>17. In(nodes[z].left)' = In(l)' /\ In(nodes[z].right)' = In(r)'  BY <1>1 DEF In
<1>. QED  BY <1>3, <1>16, <1>17

LEMMA AssignSizeInv ==
    ASSUME IInv, TreeInv, SizeInv, AssignSamples, pc' # "undefined" PROVE SizeInv'
<1>1. /\ pc = "create" /\ i = end /\ pc' \in {"stat", "last"} /\ UNCHANGED <<x, kind, nodes>>
      /\ begin' = end /\ end' = newEnd
  BY DEF AssignSamples
<1>2. /\ DOMAIN nodes = 0 .. newEnd - 1 /\ begin \in Nat /\ end \in Nat /\ end >= 1 /\ newEnd \in Nat
      /\ end <= newEnd
  BY DEF IInv, TypeOK
<1>3. Sizes /\ Splitting  BY <1>1 DEF SizeInv, Counted, Growing
<1>4. \A z \in DOMAIN nodes : Size(z)' = IF z >= end THEN Cardinality(In(z)') ELSE Size(z)
  BY <1>1 DEF Size
<1>5. MinPtsNode \in Nat \ {0}  BY TreeAssumption
<1>6. ASSUME NEW z \in DOMAIN nodes, ~ Leaf(z)
      PROVE /\ nodes[z].left \in DOMAIN nodes /\ nodes[z].right \in DOMAIN nodes
            /\ Halves(z)'
  <2>1. nodes[z].left \in DOMAIN nodes /\ nodes[z].right \in DOMAIN nodes
    BY <1>6 DEF Leaf, IInv, Linked
  <2>2. nodes[z].left < end <=> nodes[z].right < end  BY <1>3, <1>6 DEF Sizes
  <2>3. CASE nodes[z].left < end
    <3>1. Halves(z)  BY <1>3, <1>6, <2>3 DEF Sizes
    <3>. QED  BY <1>1, <1>2, <1>4, <2>1, <2>2, <2>3, <3>1 DEF Halves
  <2>4. CASE ~ (nodes[z].left < end)
    <3>1. nodes[z].left >= end /\ nodes[z].right >= end  BY <1>2, <2>1, <2>2, <2>4
    <3>2. /\ Cardinality(In(nodes[z].left)') >= MinPtsNode
          /\ Cardinality(In(nodes[z].right)') >= MinPtsNode
          /\ Cardinality(In(nodes[z].left)') + Cardinality(In(nodes[z].right)') = nodes[z].indnum
      BY <1>1, <1>6, <3>1, SplitSides
    <3>3. /\ Size(nodes[z].left)' = Cardinality(In(nodes[z].left)')
          /\ Size(nodes[z].right)' = Cardinality(In(nodes[z].right)')
      BY <1>1, <1>2, <2>1, <3>1 DEF Size
    <3>. QED  BY <1>1, <2>1, <3>2, <3>3 DEF Halves
  <2>. QED  BY <2>1, <2>3, <2>4
<1>7. ASSUME NEW z \in DOMAIN nodes  PROVE Size(z)' \in Nat \ {0}
  <2>1. CASE z < end  BY <1>2, <1>3, <1>4, <2>1 DEF Sizes
  <2>2. CASE ~ (z < end)
    <3>. PICK p : p = nodes[z].parent  OBVIOUS
    <3>1. p \in New /\ ~ Leaf(p) /\ z \in {nodes[p].left, nodes[p].right} /\ z >= end
      BY <1>1, <1>2, <1>3, <2>2 DEF Splitting
    <3>2. p \in DOMAIN nodes  BY <1>2, <3>1 DEF New
    <3>3. Halves(p)'  BY <1>6, <3>1, <3>2
    <3>4. Size(z)' >= MinPtsNode  BY <1>1, <3>1, <3>3 DEF Halves
    <3>5. Cardinality(In(z)') \in Nat  BY FiniteInNext DEF NodesCounted
    <3>. QED  BY <1>4, <1>5, <3>1, <3>4, <3>5
  <2>. QED  BY <2>1, <2>2
<1>8. Sizes'
  <2>1. \A z \in DOMAIN nodes : z < newEnd  BY <1>2
  <2>2. Size(0)' = Cardinality(Samples)  BY <1>2, <1>3, <1>4 DEF Sizes
  <2>3. \A z \in DOMAIN nodes : z >= end => nodes[z].input = None
    BY <1>1, <1>3 DEF Sizes, Growing
  <2>. QED  BY <1>1, <1>6, <1>7, <2>1, <2>2, <2>3 DEF Sizes, Leaf
<1>. QED  BY <1>1, <1>8 DEF SizeInv, Splitting

LEMMA StepSizeInv ==
    ASSUME Samples # {}, IInv, TreeInv, SizeInv, [Next]_vars PROVE SizeInv'
<1>1. CASE LeaveTerminal
  <2>1. pc = "create" /\ pc' = "create" /\ UNCHANGED <<x, kind, nodes, where, begin, end>>
    BY <1>1 DEF LeaveTerminal
  <2>. QED  BY <2>1 DEF SizeInv, Counted, Growing, Sizes, Splitting, Size, Halves, LeftOf, Leaf, In, New
<1>2. CASE pc' = "undefined" /\ ~ UNCHANGED vars
  <2>1. UNCHANGED x
    BY <1>2 DEF Next, Stat, LastStat, fit_node_cut, CreateChildren, LeaveTerminal, AssignSamples,
                ListPrunable, Prune, PruneEnd, NextTree
  <2>. QED  BY <1>2, <2>1 DEF SizeInv, Counted, Growing
<1>3. CASE ListPrunable \/ Prune \/ PruneEnd
  <2>1. UNCHANGED <<x, kind>> /\ pc' \in {"prune", "done", "undefined"} /\ kind = "prune"
    BY <1>3 DEF ListPrunable, Prune, PruneEnd, TreeInv
  <2>. QED  BY <2>1 DEF SizeInv, Counted, Growing
<1>4. CASE NextTree
  <2>1. /\ nodes' = Root /\ pc' = "stat" /\ (\A s \in Samples : where'[s] = 0)
        /\ begin' = 0 /\ end' = 1 /\ UNCHANGED x
    BY <1>4 DEF NextTree, Root
  <2>2. DOMAIN nodes' = {0} /\ nodes'[0].left = None /\ nodes'[0].input = None
    BY <2>1 DEF Root, Node
  <2>3. In(0)' = Samples  BY <2>1 DEF In
  <2>4. Cardinality(Samples) \in Nat /\ Cardinality(Samples) # 0
    BY TreeAssumption, FS_EmptySet, FS_CardinalityType
  <2>5. Size(0)' = Cardinality(Samples)  BY <2>1, <2>3 DEF Size
  <2>6. Sizes'  BY <2>1, <2>2, <2>4, <2>5 DEF Sizes, Growing, Leaf
  <2>. QED  BY <2>1, <2>6 DEF SizeInv, Splitting
<1>5. CASE UNCHANGED vars
  <2>1. UNCHANGED <<x, kind, pc, nodes, where, begin, end>>  BY <1>5 DEF vars
  <2>2. (\A z : Size(z)' = Size(z) /\ In(z)' = In(z)) /\ New' = New  BY <2>1 DEF Size, In, New
  <2>3. Sizes <=> Sizes'  BY <2>1, <2>2 DEF Sizes, Growing, Halves, Leaf
  <2>4. Splitting <=> Splitting'  BY <2>1, <2>2 DEF Splitting, LeftOf, Leaf
  <2>. QED  BY <2>1, <2>3, <2>4 DEF SizeInv, Counted, Growing
<1>. QED  BY <1>1, <1>2, <1>3, <1>4, <1>5, StatSizeInv, CutSizeInv, CreateSizeInv, AssignSizeInv DEF Next

\* Both sides of every split of a fitted tree have at least MinPtsNode samples,
\* also of the splits of the forced levels, and no sample is lost between the
\* levels.  There must be samples: a forced level splits an empty root.
THEOREM SplitsAreBig == ASSUME Samples # {} PROVE Spec => []SplitsKeepMinPts
<1>1. IInv /\ TreeInv /\ SizeInv => SplitsKeepMinPts
  <2>. SUFFICES ASSUME IInv, TreeInv, SizeInv, pc = "done", kind # "prune"
       PROVE /\ nodes[0].indnum = Cardinality(Samples)
             /\ \A z \in DOMAIN nodes : ~ Leaf(z) =>
                  /\ nodes[nodes[z].left].indnum >= MinPtsNode
                  /\ nodes[nodes[z].right].indnum >= MinPtsNode
                  /\ nodes[nodes[z].left].indnum + nodes[nodes[z].right].indnum = nodes[z].indnum
    BY DEF SplitsKeepMinPts, Fitted, TreeInv
  <2>1. Sizes /\ \A z : Size(z) = nodes[z].indnum  BY DEF SizeInv, Counted, Size
  <2>2. ASSUME NEW z \in DOMAIN nodes, ~ Leaf(z)  PROVE nodes[z].left < end
    BY <2>2 DEF IInv, TypeOK, Linked, Leaf
  <2>. QED  BY <2>1, <2>2 DEF Sizes, Halves
<1>2. IInv /\ TreeInv /\ SizeInv /\ [Next]_vars => SizeInv'  BY StepSizeInv
<1>3. Init => SizeInv  BY InitSizeInv
<1>. QED  BY SpecIInv, SpecTreeInv, <1>1, <1>2, <1>3, PTL DEF Spec
=============================================================================
