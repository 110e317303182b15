------------------------ MODULE GraphValidate_proofs ------------------------
(***************************************************************************)
(* What GraphValidate's runs show on small graphs, for graphs of any size  *)
(* and any schema.  The inductive invariant says what each loop has found  *)
(* so far: the faults of the elements before its index, and of those of    *)
(* the loops before it.                                                    *)
(***************************************************************************)
EXTENDS GraphValidate, TLAPS

(* The ids that the node loop has put in its map once it has seen n nodes. *)
IdsOf(n) == {nodes[k].id : k \in 1..n} \ {""}

(* The map is complete before the first endpoint is looked up.             *)
Looked ==
  /\ pc = "nodes" => ids = IdsOf(i - 1)
  /\ pc \in {"edges", "nodeKinds", "edgeKinds"} => ids = IdsOf(Len(nodes))

Structural == NodeFaults(Len(nodes)) \union EdgeFaults(Len(edges))

Found ==
  /\ pc = "nodes" => problems = NodeFaults(i - 1)
  /\ pc = "edges" => problems = NodeFaults(Len(nodes)) \union EdgeFaults(i - 1)
  /\ pc = "nodeKinds" => problems = Structural \union NodeKindFaults(i - 1)
  /\ pc = "edgeKinds" =>
       problems = Structural \union NodeKindFaults(Len(nodes)) \union EdgeKindFaults(i - 1)

(* The schema's loops run for ValidateAgainst only, and a verdict is only  *)
(* held between two calls.                                                 *)
Control ==
  /\ pc \in {"nodeKinds", "edgeKinds"} => against
  /\ verdict # "none" => pc = "caller"

IInv == TypeOK /\ Looked /\ Found /\ Control /\ ReportsEveryProblem

-----------------------------------------------------------------------------
(* One element more: what a loop's body adds is what the element adds to   *)
(* the faults.                                                             *)

(* A prefix of length n + 1 is one of length n and its last element.       *)
LEMMA OneMore ==
  ASSUME NEW n \in Nat
  PROVE  1..(n + 1) = 1..n \union {n + 1}
  OBVIOUS

(* The node loop's body (validate.go:60-77).                               *)
LEMMA NodeStep ==
  ASSUME NEW n \in Nat, n + 1 \in DOMAIN nodes
  PROVE  NodeFaults(n + 1) = NodeFaults(n)
            \union IdProblems(IdsOf(n), nodes[n + 1], n + 1)
            \union KindProblems(nodes[n + 1], n + 1)
<1> DEFINE Empty(m) == {Problem("empty id", k, 0) : k \in {k \in 1..m : nodes[k].id = ""}}
           Again(k) == /\ nodes[k].id # ""
                       /\ \E j \in 1..(k - 1) : nodes[j].id = nodes[k].id
           Duplicate(m) == {Problem("duplicate id", k, 0) : k \in {k \in 1..m : Again(k)}}
           None(m) == {Problem("no kinds", k, 0) : k \in {k \in 1..m : nodes[k].kinds = <<>>}}
           Blank(k) == {Problem("empty kind", k, m) :
                          m \in {m \in DOMAIN nodes[k].kinds : nodes[k].kinds[m] = ""}}
           Blanks(m) == UNION {Blank(k) : k \in 1..m}
           x == nodes[n + 1]
<1>0. 1..(n + 1) = 1..n \union {n + 1}
  BY OneMore
<1>1. Empty(n + 1) = Empty(n) \union (IF x.id = "" THEN {Problem("empty id", n + 1, 0)} ELSE {})
  BY <1>0
<1>2. Duplicate(n + 1) = Duplicate(n) \union
        (IF Again(n + 1) THEN {Problem("duplicate id", n + 1, 0)} ELSE {})
  <2> HIDE DEF Again
  <2> QED
    BY <1>0
<1>3. None(n + 1) = None(n) \union
        (IF x.kinds = <<>> THEN {Problem("no kinds", n + 1, 0)} ELSE {})
  BY <1>0
<1>4. Blanks(n + 1) = Blanks(n) \union Blank(n + 1)
  <2> HIDE DEF Blank
  <2> QED
    BY <1>0
<1>5. Again(n + 1) <=> x.id # "" /\ x.id \in IdsOf(n)
  <2>1. (n + 1) - 1 = n
    OBVIOUS
  <2>2. Again(n + 1) <=> x.id # "" /\ \E j \in 1..n : nodes[j].id = x.id
    BY <2>1
  <2> QED
    BY <2>2 DEF IdsOf
<1>6. KindProblems(x, n + 1) =
        (IF x.kinds = <<>> THEN {Problem("no kinds", n + 1, 0)} ELSE {}) \union Blank(n + 1)
  <2>1. x.kinds = <<>> => Blank(n + 1) = {}
    OBVIOUS
  <2> QED
    BY <2>1 DEF KindProblems
<1>7. NodeFaults(n + 1) = Empty(n + 1) \union Duplicate(n + 1) \union None(n + 1) \union Blanks(n + 1)
  BY DEF NodeFaults
<1>8. NodeFaults(n) = Empty(n) \union Duplicate(n) \union None(n) \union Blanks(n)
  BY DEF NodeFaults
<1>9. IdProblems(IdsOf(n), x, n + 1) =
        (IF x.id = "" THEN {Problem("empty id", n + 1, 0)} ELSE {}) \union
        (IF Again(n + 1) THEN {Problem("duplicate id", n + 1, 0)} ELSE {})
  <2> HIDE DEF Again
  <2> QED
    BY <1>5 DEF IdProblems
<1> HIDE DEF Empty, Again, Duplicate, None, Blank, Blanks
<1> QED
  BY <1>1, <1>2, <1>3, <1>4, <1>6, <1>7, <1>8, <1>9

(* The edge loop's body (validate.go:81-96), once the map of ids is        *)
(* complete.                                                               *)
LEMMA EdgeStep ==
  ASSUME NEW n \in Nat, n + 1 \in DOMAIN edges, nodes \in Seq(Node)
  PROVE  EdgeFaults(n + 1) = EdgeFaults(n)
            \union EdgeProblems(IdsOf(Len(nodes)), edges[n + 1], n + 1)
<1> DEFINE e == edges[n + 1]
           Kind(m) == {Problem("empty edge kind", k, 0) : k \in {k \in 1..m : edges[k].kind = ""}}
           EmptyS(m) == {Problem("empty value", k, 1) : k \in {k \in 1..m : edges[k].start.value = ""}}
           EmptyE(m) == {Problem("empty value", k, 2) : k \in {k \in 1..m : edges[k].end.value = ""}}
           LostS(m) == {Problem("not a node", k, 1) : k \in {k \in 1..m : Dangling(edges[k].start)}}
           LostE(m) == {Problem("not a node", k, 2) : k \in {k \in 1..m : Dangling(edges[k].end)}}
<1>0. 1..(n + 1) = 1..n \union {n + 1}
  BY OneMore
<1>1. Kind(n + 1) = Kind(n) \union (IF e.kind = "" THEN {Problem("empty edge kind", n + 1, 0)} ELSE {})
  BY <1>0
<1>2. EmptyS(n + 1) = EmptyS(n) \union
        (IF e.start.value = "" THEN {Problem("empty value", n + 1, 1)} ELSE {})
  BY <1>0
<1>3. EmptyE(n + 1) = EmptyE(n) \union
        (IF e.end.value = "" THEN {Problem("empty value", n + 1, 2)} ELSE {})
  BY <1>0
<1>4. LostS(n + 1) = LostS(n) \union
        (IF Dangling(e.start) THEN {Problem("not a node", n + 1, 1)} ELSE {})
  BY <1>0
<1>5. LostE(n + 1) = LostE(n) \union
        (IF Dangling(e.end) THEN {Problem("not a node", n + 1, 2)} ELSE {})
  BY <1>0
<1>6. ASSUME NEW r, NEW side
      PROVE  EndpointProblems(IdsOf(Len(nodes)), r, n + 1, side) =
               (IF r.value = "" THEN {Problem("empty value", n + 1, side)} ELSE {}) \union
               (IF Dangling(r) THEN {Problem("not a node", n + 1, side)} ELSE {})
  <2>1. DOMAIN nodes = 1..Len(nodes)
    OBVIOUS
  <2>2. Dangling(r) <=> /\ r.value # ""
                        /\ matchesByID(r)
                        /\ r.value \notin IdsOf(Len(nodes))
    BY <2>1 DEF Dangling, IdsOf
  <2> QED
    BY <2>2 DEF EndpointProblems
<1>7. EdgeFaults(n + 1) = Kind(n + 1) \union EmptyS(n + 1) \union EmptyE(n + 1)
                            \union LostS(n + 1) \union LostE(n + 1)
  BY DEF EdgeFaults
<1>8. EdgeFaults(n) = Kind(n) \union EmptyS(n) \union EmptyE(n) \union LostS(n) \union LostE(n)
  BY DEF EdgeFaults
<1>9. EdgeProblems(IdsOf(Len(nodes)), e, n + 1) =
        (IF e.kind = "" THEN {Problem("empty edge kind", n + 1, 0)} ELSE {})
          \union EndpointProblems(IdsOf(Len(nodes)), e.start, n + 1, 1)
          \union EndpointProblems(IdsOf(Len(nodes)), e.end, n + 1, 2)
  BY DEF EdgeProblems
<1>10. EndpointProblems(IdsOf(Len(nodes)), e.start, n + 1, 1) =
         (IF e.start.value = "" THEN {Problem("empty value", n + 1, 1)} ELSE {}) \union
         (IF Dangling(e.start) THEN {Problem("not a node", n + 1, 1)} ELSE {})
  BY <1>6
<1>11. EndpointProblems(IdsOf(Len(nodes)), e.end, n + 1, 2) =
         (IF e.end.value = "" THEN {Problem("empty value", n + 1, 2)} ELSE {}) \union
         (IF Dangling(e.end) THEN {Problem("not a node", n + 1, 2)} ELSE {})
  BY <1>6
<1> HIDE DEF Kind, EmptyS, EmptyE, LostS, LostE
<1> QED
  BY <1>1, <1>2, <1>3, <1>4, <1>5, <1>7, <1>8, <1>9, <1>10, <1>11

(* The schema's loops (validate.go:264-275).                               *)
LEMMA KindStep ==
  ASSUME NEW n \in Nat
  PROVE  /\ NodeKindFaults(n + 1) = NodeKindFaults(n) \union UndeclaredKinds(nodes[n + 1], n + 1)
         /\ EdgeKindFaults(n + 1) = EdgeKindFaults(n) \union UndeclaredEdgeKind(edges[n + 1], n + 1)
<1>0. 1..(n + 1) = 1..n \union {n + 1}
  BY OneMore
<1> DEFINE At(k) == {Problem("undeclared kind", k, m) :
                       m \in {m \in DOMAIN nodes[k].kinds :
                                /\ nodes[k].kinds[m] # ""
                                /\ nodes[k].kinds[m] \notin DeclaredNodeKinds}}
           Unknown(k) == /\ edges[k].kind # ""
                         /\ edges[k].kind \notin DeclaredRelationshipKinds
           Undeclared(m) == UNION {At(k) : k \in 1..m}
           Typos(m) == {Problem("undeclared edge kind", k, 0) : k \in {k \in 1..m : Unknown(k)}}
<1>1. Undeclared(n + 1) = Undeclared(n) \union At(n + 1)
  <2> HIDE DEF At
  <2> QED
    BY <1>0
<1>2. At(n + 1) = UndeclaredKinds(nodes[n + 1], n + 1)
  BY DEF UndeclaredKinds
<1>3. Typos(n + 1) = Typos(n) \union
        (IF Unknown(n + 1) THEN {Problem("undeclared edge kind", n + 1, 0)} ELSE {})
  <2> HIDE DEF Unknown
  <2> QED
    BY <1>0
<1>4. UndeclaredEdgeKind(edges[n + 1], n + 1) =
        (IF Unknown(n + 1) THEN {Problem("undeclared edge kind", n + 1, 0)} ELSE {})
  BY DEF UndeclaredEdgeKind
<1>5. NodeKindFaults(n + 1) = NodeKindFaults(n) \union UndeclaredKinds(nodes[n + 1], n + 1)
  BY <1>1, <1>2 DEF NodeKindFaults
<1>6. EdgeKindFaults(n + 1) = Typos(n + 1) /\ EdgeKindFaults(n) = Typos(n)
  BY DEF EdgeKindFaults
<1> HIDE DEF Typos, Unknown
<1> QED
  BY <1>3, <1>4, <1>5, <1>6

(* A loop that has not begun has found nothing.                            *)
LEMMA NothingYet ==
  /\ NodeFaults(0) = {}
  /\ EdgeFaults(0) = {}
  /\ NodeKindFaults(0) = {}
  /\ EdgeKindFaults(0) = {}
  /\ IdsOf(0) = {}
<1>1. 1..0 = {}
  OBVIOUS
<1>2. NodeFaults(0) = {}
  BY <1>1 DEF NodeFaults
<1>3. EdgeFaults(0) = {}
  BY <1>1 DEF EdgeFaults
<1> QED
  BY <1>1, <1>2, <1>3 DEF NodeKindFaults, EdgeKindFaults, IdsOf

-----------------------------------------------------------------------------
(* What a loop looks at is a node, or an edge.                             *)
LEMMA Elements ==
  ASSUME TypeOK
  PROVE  /\ \A k \in DOMAIN nodes : k \in Nat /\ nodes[k] \in Node
         /\ \A k \in DOMAIN edges : k \in Nat /\ edges[k] \in Edge
         /\ DOMAIN nodes = 1..Len(nodes) /\ Len(nodes) \in Nat
         /\ DOMAIN edges = 1..Len(edges) /\ Len(edges) \in Nat
<1>1. nodes \in Seq(Node) /\ edges \in Seq(Edge)
  BY DEF TypeOK
<1> QED
  BY <1>1

(* Types.  A body's problems are problems, at the places it looked at.     *)
LEMMA ProblemTypes ==
  ASSUME TypeOK
  PROVE  /\ \A seen : \A k \in DOMAIN nodes :
              /\ IdProblems(seen, nodes[k], k) \subseteq Problems
              /\ KindProblems(nodes[k], k) \subseteq Problems
              /\ UndeclaredKinds(nodes[k], k) \subseteq Problems
         /\ \A seen : \A k \in DOMAIN edges :
              /\ EdgeProblems(seen, edges[k], k) \subseteq Problems
              /\ UndeclaredEdgeKind(edges[k], k) \subseteq Problems
<1>0. \A what \in Wrong, at \in Nat, sub \in Nat :
        Problem(what, at, sub) \in Problems
  BY DEF Problem, Problems
<1>1. ASSUME NEW k \in DOMAIN nodes, NEW seen
      PROVE  /\ IdProblems(seen, nodes[k], k) \subseteq Problems
             /\ KindProblems(nodes[k], k) \subseteq Problems
             /\ UndeclaredKinds(nodes[k], k) \subseteq Problems
  <2>1. k \in Nat /\ nodes[k].kinds \in Seq(STRING)
    BY Elements DEF Node
  <2>2. \A m \in DOMAIN nodes[k].kinds : m \in Nat
    BY <2>1
  <2>3. IdProblems(seen, nodes[k], k) \subseteq Problems
    BY <1>0, <2>1 DEF Wrong, IdProblems
  <2>4. KindProblems(nodes[k], k) \subseteq Problems
    BY <1>0, <2>1, <2>2 DEF Wrong, KindProblems
  <2>5. UndeclaredKinds(nodes[k], k) \subseteq Problems
    BY <1>0, <2>1, <2>2 DEF Wrong, UndeclaredKinds
  <2> QED
    BY <2>3, <2>4, <2>5
<1>2. ASSUME NEW k \in DOMAIN edges, NEW seen
      PROVE  /\ EdgeProblems(seen, edges[k], k) \subseteq Problems
             /\ UndeclaredEdgeKind(edges[k], k) \subseteq Problems
  <2>1. k \in Nat
    BY Elements
  <2>2. \A side \in Nat : \A r :
          EndpointProblems(seen, r, k, side) \subseteq Problems
    BY <1>0, <2>1 DEF Wrong, EndpointProblems
  <2>3. EdgeProblems(seen, edges[k], k) \subseteq Problems
    <3>1. /\ EndpointProblems(seen, edges[k].start, k, 1) \subseteq Problems
          /\ EndpointProblems(seen, edges[k].end, k, 2) \subseteq Problems
      BY <2>2
    <3> QED
      BY <1>0, <2>1, <3>1 DEF Wrong, EdgeProblems
  <2>4. UndeclaredEdgeKind(edges[k], k) \subseteq Problems
    BY <1>0, <2>1 DEF Wrong, UndeclaredEdgeKind
  <2> QED
    BY <2>3, <2>4
<1> QED
  BY <1>1, <1>2

(* UppercaseIDs keeps nodes nodes and edges edges, and leaves none out     *)
(* (graph.go:101).                                                         *)
LEMMA UppercaseTypes ==
  ASSUME TypeOK, UppercaseIDs
  PROVE  /\ nodes' \in Seq(Node) /\ Len(nodes') = Len(nodes)
         /\ edges' \in Seq(Edge) /\ Len(edges') = Len(edges)
<1>1. nodes' \in [1..Len(nodes) -> Node]
  <2>1. \A k \in 1..Len(nodes) : UpperNode(nodes[k]) \in Node
    BY GraphAssumption, Elements DEF UpperNode, Node
  <2> QED
    BY <2>1, Elements DEF UppercaseIDs
<1>2. \A r \in Ref : UpperRef(r) \in Ref
  BY GraphAssumption DEF UpperRef, Ref
<1>3. \A k \in DOMAIN edges : UpperEdge(edges[k]) \in Edge
  BY <1>2, Elements DEF UpperEdge, Edge
<1>4. edges' \in [1..Len(edges) -> Edge]
  BY <1>3, Elements DEF UppercaseIDs
<1>5. nodes' \in Seq(Node) /\ Len(nodes') = Len(nodes)
  BY <1>1, Elements
<1> QED
  BY <1>4, <1>5, Elements

LEMMA TypeStep ==
  ASSUME TypeOK, Next
  PROVE  TypeOK'
<1> USE DEF TypeOK
<1>1. ASSUME NEW x \in NodeChoice, AddNode(x)
      PROVE  TypeOK'
  <2>1. x \in Node
    BY GraphAssumption
  <2>2. nodes' \in Seq(Node) /\ nodesGiven' \in Seq(Node)
    BY <1>1, <2>1 DEF AddNode
  <2>3. LoopOver = edges /\ LoopOver' = edges
    BY <1>1 DEF AddNode, Building, LoopOver
  <2> QED
    BY <1>1, <2>2, <2>3 DEF AddNode, Building
<1>2. ASSUME NEW e \in EdgeChoice, AddEdge(e)
      PROVE  TypeOK'
  <2>1. e \in Edge
    BY GraphAssumption
  <2>2. edges' \in Seq(Edge) /\ edgesGiven' \in Seq(Edge)
    BY <1>2, <2>1 DEF AddEdge
  <2>3. LoopOver = edges /\ LoopOver' = edges' /\ Len(edges') = Len(edges) + 1
    BY <1>2 DEF AddEdge, Building, LoopOver
  <2>4. i' \in 1..(Len(LoopOver') + 1)
    BY <1>2, <2>3 DEF AddEdge, Building
  <2> QED
    BY <1>2, <2>2, <2>4 DEF AddEdge, Building
<1>3. CASE UppercaseIDs
  <2>1. /\ nodes' \in Seq(Node) /\ edges' \in Seq(Edge)
        /\ Len(edges') = Len(edges)
    BY <1>3, UppercaseTypes
  <2> QED
    BY <1>3, <2>1 DEF UppercaseIDs, Uppercasing, Building, LoopOver
<1>4. ASSUME NEW schema \in BOOLEAN, Validate(schema)
      PROVE  TypeOK'
  BY <1>4 DEF Validate, graphVars, LoopOver
<1>5. CASE CheckNode
  <2>0. i \in DOMAIN nodes
    <3>1. LoopOver = nodes
      BY <1>5 DEF CheckNode, LoopOver
    <3>2. i \in Nat /\ i >= 1
      OBVIOUS
    <3>3. i <= Len(nodes)
      BY <1>5 DEF CheckNode
    <3>4. DOMAIN nodes = 1..Len(nodes) /\ Len(nodes) \in Nat
      BY Elements
    <3> HIDE DEF TypeOK
    <3> QED
      BY <3>2, <3>3, <3>4
  <2>1. nodes[i].id \in Ids
    BY <2>0, Elements DEF Node
  <2>2. problems' \subseteq Problems
    BY <1>5, <2>0, ProblemTypes DEF CheckNode
  <2>3. ids' \subseteq Ids
    BY <1>5, <2>1 DEF CheckNode
  <2>4. LoopOver = nodes /\ LoopOver' = nodes
    BY <1>5 DEF CheckNode, graphVars, LoopOver
  <2>5. i' \in 1..(Len(LoopOver') + 1)
    <3>1. i' = i + 1
      BY <1>5 DEF CheckNode
    <3> QED
      BY <2>0, <2>4, <3>1
  <2> QED
    BY <1>5, <2>2, <2>3, <2>5 DEF CheckNode, graphVars
<1>6. CASE CheckEdge
  <2>1. i \in DOMAIN edges
    BY <1>6 DEF CheckEdge, LoopOver
  <2>2. problems' \subseteq Problems
    BY <1>6, <2>1, ProblemTypes DEF CheckEdge
  <2> QED
    BY <1>6, <2>1, <2>2 DEF CheckEdge, graphVars, LoopOver
<1>7. CASE CheckNodeKinds
  <2>1. i \in DOMAIN nodes
    BY <1>7 DEF CheckNodeKinds, LoopOver
  <2>2. problems' \subseteq Problems
    BY <1>7, <2>1, ProblemTypes DEF CheckNodeKinds
  <2> QED
    BY <1>7, <2>1, <2>2 DEF CheckNodeKinds, graphVars, LoopOver
<1>8. CASE CheckEdgeKind
  <2>1. i \in DOMAIN edges
    BY <1>8 DEF CheckEdgeKind, LoopOver
  <2>2. problems' \subseteq Problems
    BY <1>8, <2>1, ProblemTypes DEF CheckEdgeKind
  <2> QED
    BY <1>8, <2>1, <2>2 DEF CheckEdgeKind, graphVars, LoopOver
<1>9. CASE NextLoop
  BY <1>9 DEF NextLoop, Loops, graphVars, LoopOver
<1>10. CASE Return
  BY <1>10 DEF Return, graphVars, LoopOver
<1> QED
  BY <1>1, <1>2, <1>3, <1>4, <1>5, <1>6, <1>7, <1>8, <1>9, <1>10 DEF Next

-----------------------------------------------------------------------------
(* The loops do not touch the graph, so its faults stay what they are.     *)
LEMMA Frame ==
  ASSUME NEW CONSTANT n, UNCHANGED graphVars
  PROVE  /\ NodeFaults(n)' = NodeFaults(n)
         /\ EdgeFaults(n)' = EdgeFaults(n)
         /\ NodeKindFaults(n)' = NodeKindFaults(n)
         /\ EdgeKindFaults(n)' = EdgeKindFaults(n)
         /\ IdsOf(n)' = IdsOf(n)
  BY DEF graphVars, NodeFaults, EdgeFaults, Dangling, NodeKindFaults, EdgeKindFaults, IdsOf

(* No verdict is held while a call runs, nor after the graph changed.      *)
LEMMA NoVerdict ==
  ASSUME verdict' = "none"
  PROVE  ReportsEveryProblem'
  BY DEF ReportsEveryProblem

LEMMA InvStep ==
  ASSUME IInv, Next
  PROVE  IInv'
<1>0. TypeOK'
  BY TypeStep DEF IInv
<1>1. ASSUME Building, ~(pc \in {"nodes", "edges", "nodeKinds", "edgeKinds"})
      PROVE  IInv'
  <2>1. verdict' = "none" /\ pc' = pc
    BY <1>1 DEF Building
  <2>2. Looked' /\ Found' /\ Control'
    BY <1>1, <2>1 DEF Looked, Found, Control
  <2> QED
    BY <1>0, <2>1, <2>2, NoVerdict DEF IInv
<1>2. ASSUME NEW schema \in BOOLEAN, Validate(schema)
      PROVE  IInv'
  <2>1. /\ verdict' = "none" /\ pc' = "nodes" /\ i' = 1
        /\ ids' = {} /\ problems' = {} /\ UNCHANGED graphVars
    BY <1>2 DEF Validate
  <2>2. i' - 1 = 0
    BY <2>1
  <2>3. IdsOf(0)' = {} /\ NodeFaults(0)' = {}
    BY <2>1, Frame, NothingYet
  <2>4. Looked'
    BY <2>1, <2>2, <2>3 DEF Looked
  <2>5. Found'
    BY <2>1, <2>2, <2>3 DEF Found
  <2> QED
    BY <1>0, <2>1, <2>4, <2>5, NoVerdict DEF IInv, Control
<1>3. ASSUME pc # "caller", verdict' = verdict
      PROVE  ReportsEveryProblem'
  BY <1>3, NoVerdict DEF IInv, Control
<1>4. ASSUME i' = i + 1
      PROVE  \E m \in Nat : i = m + 1 /\ i - 1 = m /\ i' - 1 = m + 1
  <2>1. i \in Nat /\ i >= 1
    BY DEF IInv, TypeOK
  <2> i - 1 \in Nat
    BY <2>1
  <2> WITNESS i - 1 \in Nat
  <2> QED
    BY <1>4, <2>1
<1>5. CASE CheckNode
  <2>1. /\ pc = "nodes" /\ pc' = "nodes" /\ i' = i + 1 /\ verdict' = verdict
        /\ i <= Len(nodes) /\ UNCHANGED graphVars /\ against' = against
        /\ ids' = ids \union ({nodes[i].id} \ {""})
        /\ problems' = problems \union IdProblems(ids, nodes[i], i)
                                \union KindProblems(nodes[i], i)
    BY <1>5 DEF CheckNode
  <2>2. PICK m \in Nat : i = m + 1 /\ i - 1 = m /\ i' - 1 = m + 1
    BY <1>4, <2>1
  <2>3. ids = IdsOf(m) /\ problems = NodeFaults(m)
    BY <2>1, <2>2 DEF IInv, Looked, Found
  <2>4. m + 1 \in DOMAIN nodes
    <3>1. DOMAIN nodes = 1..Len(nodes) /\ Len(nodes) \in Nat
      BY Elements DEF IInv
    <3>2. m + 1 <= Len(nodes)
      BY <2>1, <2>2
    <3> QED
      BY <3>1, <3>2
  <2>5. IdsOf(m + 1) = IdsOf(m) \union ({nodes[m + 1].id} \ {""})
    BY OneMore DEF IdsOf
  <2>6. ids' = IdsOf(m + 1)
    BY <2>1, <2>2, <2>3, <2>5
  <2>7. problems' = NodeFaults(m + 1)
    BY <2>1, <2>2, <2>3, <2>4, NodeStep
  <2>8. IdsOf(m + 1)' = IdsOf(m + 1) /\ NodeFaults(m + 1)' = NodeFaults(m + 1)
    BY <2>1, Frame
  <2>9. Looked' /\ Found'
    BY <2>1, <2>2, <2>6, <2>7, <2>8 DEF Looked, Found
  <2>10. Control'
    BY <2>1 DEF IInv, Control
  <2> QED
    BY <1>0, <1>3, <2>1, <2>9, <2>10 DEF IInv
<1>6. CASE CheckEdge
  <2>1. /\ pc = "edges" /\ pc' = "edges" /\ i' = i + 1 /\ verdict' = verdict
        /\ i <= Len(edges) /\ UNCHANGED graphVars /\ against' = against /\ ids' = ids
        /\ problems' = problems \union EdgeProblems(ids, edges[i], i)
    BY <1>6 DEF CheckEdge
  <2>2. PICK m \in Nat : i = m + 1 /\ i - 1 = m /\ i' - 1 = m + 1
    BY <1>4, <2>1
  <2>3. PICK N \in Nat : N = Len(nodes) /\ N = Len(nodes)'
    BY <2>1, Elements DEF IInv, graphVars
  <2>4. ids = IdsOf(N) /\ problems = NodeFaults(N) \union EdgeFaults(m)
    BY <2>1, <2>2, <2>3 DEF IInv, Looked, Found
  <2>5. m + 1 \in DOMAIN edges
    BY <2>1, <2>2, Elements DEF IInv
  <2>6. EdgeFaults(m + 1) = EdgeFaults(m) \union EdgeProblems(IdsOf(N), edges[m + 1], m + 1)
    BY <2>3, <2>5, EdgeStep DEF IInv, TypeOK
  <2>7. problems' = NodeFaults(N) \union EdgeFaults(m + 1)
    BY <2>1, <2>2, <2>4, <2>6
  <2>8. /\ IdsOf(N)' = IdsOf(N) /\ NodeFaults(N)' = NodeFaults(N)
        /\ EdgeFaults(m + 1)' = EdgeFaults(m + 1)
    BY <2>1, Frame
  <2>9. Looked' /\ Found'
    BY <2>1, <2>2, <2>3, <2>4, <2>7, <2>8 DEF Looked, Found
  <2>10. Control'
    BY <2>1 DEF IInv, Control
  <2> QED
    BY <1>0, <1>3, <2>1, <2>9, <2>10 DEF IInv
<1>7. CASE CheckNodeKinds
  <2>1. /\ pc = "nodeKinds" /\ pc' = "nodeKinds" /\ i' = i + 1 /\ verdict' = verdict
        /\ UNCHANGED graphVars /\ against' = against /\ ids' = ids
        /\ problems' = problems \union UndeclaredKinds(nodes[i], i)
    BY <1>7 DEF CheckNodeKinds
  <2>2. PICK m \in Nat : i = m + 1 /\ i - 1 = m /\ i' - 1 = m + 1
    BY <1>4, <2>1
  <2>3. PICK N \in Nat, M \in Nat : /\ N = Len(nodes) /\ N = Len(nodes)'
                                    /\ M = Len(edges) /\ M = Len(edges)'
    BY <2>1, Elements DEF IInv, graphVars
  <2>4. /\ ids = IdsOf(N)
        /\ problems = NodeFaults(N) \union EdgeFaults(M) \union NodeKindFaults(m)
    BY <2>1, <2>2, <2>3 DEF IInv, Looked, Found, Structural
  <2>5. problems' = NodeFaults(N) \union EdgeFaults(M) \union NodeKindFaults(m + 1)
    BY <2>1, <2>2, <2>4, KindStep
  <2>6. /\ IdsOf(N)' = IdsOf(N) /\ NodeFaults(N)' = NodeFaults(N)
        /\ EdgeFaults(M)' = EdgeFaults(M) /\ NodeKindFaults(m + 1)' = NodeKindFaults(m + 1)
    BY <2>1, Frame
  <2>7. Looked' /\ Found'
    BY <2>1, <2>2, <2>3, <2>4, <2>5, <2>6 DEF Looked, Found, Structural
  <2>8. Control'
    BY <2>1 DEF IInv, Control
  <2> QED
    BY <1>0, <1>3, <2>1, <2>7, <2>8 DEF IInv
<1>8. CASE CheckEdgeKind
  <2>1. /\ pc = "edgeKinds" /\ pc' = "edgeKinds" /\ i' = i + 1 /\ verdict' = verdict
        /\ UNCHANGED graphVars /\ against' = against /\ ids' = ids
        /\ problems' = problems \union UndeclaredEdgeKind(edges[i], i)
    BY <1>8 DEF CheckEdgeKind
  <2>2. PICK m \in Nat : i = m + 1 /\ i - 1 = m /\ i' - 1 = m + 1
    BY <1>4, <2>1
  <2>3. PICK N \in Nat, M \in Nat : /\ N = Len(nodes) /\ N = Len(nodes)'
                                    /\ M = Len(edges) /\ M = Len(edges)'
    BY <2>1, Elements DEF IInv, graphVars
  <2>4. /\ ids = IdsOf(N)
        /\ problems = NodeFaults(N) \union EdgeFaults(M) \union NodeKindFaults(N)
                        \union EdgeKindFaults(m)
    BY <2>1, <2>2, <2>3 DEF IInv, Looked, Found, Structural
  <2>5. problems' = NodeFaults(N) \union EdgeFaults(M) \union NodeKindFaults(N)
                      \union EdgeKindFaults(m + 1)
    BY <2>1, <2>2, <2>4, KindStep
  <2>6. /\ IdsOf(N)' = IdsOf(N) /\ NodeFaults(N)' = NodeFaults(N)
        /\ EdgeFaults(M)' = EdgeFaults(M) /\ NodeKindFaults(N)' = NodeKindFaults(N)
        /\ EdgeKindFaults(m + 1)' = EdgeKindFaults(m + 1)
    BY <2>1, Frame
  <2>7. Looked' /\ Found'
    BY <2>1, <2>2, <2>3, <2>4, <2>5, <2>6 DEF Looked, Found, Structural
  <2>8. Control'
    BY <2>1 DEF IInv, Control
  <2> QED
    BY <1>0, <1>3, <2>1, <2>7, <2>8 DEF IInv
<1>9. CASE NextLoop \/ Return
  <2>1. /\ UNCHANGED graphVars /\ against' = against /\ ids' = ids /\ problems' = problems
        /\ i' = 1 /\ i' - 1 = 0
    BY <1>9 DEF NextLoop, Return
  <2>2. PICK N \in Nat, M \in Nat : /\ N = Len(nodes) /\ N = Len(nodes)'
                                    /\ M = Len(edges) /\ M = Len(edges)'
    BY <2>1, Elements DEF IInv, graphVars
  <2>3. /\ IdsOf(N)' = IdsOf(N) /\ NodeFaults(N)' = NodeFaults(N)
        /\ EdgeFaults(M)' = EdgeFaults(M) /\ NodeKindFaults(N)' = NodeKindFaults(N)
        /\ EdgeKindFaults(M)' = EdgeKindFaults(M)
        /\ EdgeFaults(0)' = {} /\ NodeKindFaults(0)' = {} /\ EdgeKindFaults(0)' = {}
    BY <2>1, Frame, NothingYet
  <2>4. /\ pc \in {"nodes", "nodeKinds"} => i - 1 = N
        /\ pc \in {"edges", "edgeKinds"} => i - 1 = M
    <3>1. i > Len(LoopOver) /\ i \in 1..(Len(LoopOver) + 1)
      BY <1>9 DEF NextLoop, Return, IInv, TypeOK
    <3>2. CASE pc \in {"nodes", "nodeKinds"}
      <4>1. Len(LoopOver) = N
        BY <2>2, <3>2 DEF LoopOver
      <4> QED
        BY <3>1, <3>2, <4>1
    <3>3. CASE pc \notin {"nodes", "nodeKinds"}
      <4>1. Len(LoopOver) = M
        BY <2>2, <3>3 DEF LoopOver
      <4> QED
        BY <3>1, <3>3, <4>1
    <3> QED
      BY <3>2, <3>3
  <2>5. /\ pc = "nodes" => ids = IdsOf(N) /\ problems = NodeFaults(N)
        /\ pc = "edges" => ids = IdsOf(N) /\ problems = NodeFaults(N) \union EdgeFaults(M)
        /\ pc = "nodeKinds" => /\ ids = IdsOf(N)
                               /\ problems = NodeFaults(N) \union EdgeFaults(M)
                                               \union NodeKindFaults(N)
        /\ pc = "edgeKinds" => /\ ids = IdsOf(N)
                               /\ problems = NodeFaults(N) \union EdgeFaults(M)
                                               \union NodeKindFaults(N)
                                               \union EdgeKindFaults(M)
    BY <2>2, <2>4 DEF IInv, Looked, Found, Structural
  <2>6. CASE NextLoop
    <3>1. /\ verdict' = verdict
          /\ \/ pc = "nodes" /\ pc' = "edges"
             \/ pc = "edges" /\ pc' = "nodeKinds" /\ against
             \/ pc = "nodeKinds" /\ pc' = "edgeKinds" /\ against
      BY <2>6 DEF NextLoop, Loops, IInv, Control
    <3>2. Looked' /\ Found'
      BY <2>1, <2>2, <2>3, <2>5, <3>1 DEF Looked, Found, Structural
    <3>3. Control'
      BY <2>1, <3>1 DEF IInv, Control
    <3> QED
      BY <1>0, <1>3, <3>1, <3>2, <3>3 DEF IInv
  <2>7. CASE Return
    <3>1. /\ pc' = "caller" /\ verdict' = IF problems = {} THEN "nil" ELSE "error"
          /\ pc = IF against THEN "edgeKinds" ELSE "edges"
      BY <2>7 DEF Return, Loops
    <3>2. /\ problems' = NodeFaults(N) \union EdgeFaults(M)
                           \union (IF against THEN NodeKindFaults(N) \union EdgeKindFaults(M)
                                              ELSE {})
          /\ verdict' = "nil" <=> problems' = {}
      BY <2>1, <2>5, <3>1
    <3>3. ReportsEveryProblem'
      BY <2>1, <2>2, <2>3, <3>2 DEF ReportsEveryProblem
    <3> QED
      BY <1>0, <3>1, <3>3 DEF IInv, Looked, Found, Control
  <2> QED
    BY <1>9, <2>6, <2>7
<1>10. pc = "caller" => ~(pc \in {"nodes", "edges", "nodeKinds", "edgeKinds"})
  OBVIOUS
<1> QED
  BY <1>1, <1>2, <1>5, <1>6, <1>7, <1>8, <1>9, <1>10
     DEF Next, AddNode, AddEdge, UppercaseIDs, Uppercasing, Building

LEMMA InvInit ==
  ASSUME Init
  PROVE  IInv
<1>1. TypeOK
  <2>1. /\ nodes \in Seq(Node) /\ edges \in Seq(Edge)
        /\ nodesGiven \in Seq(Node) /\ edgesGiven \in Seq(Edge)
    BY DEF Init
  <2>2. LoopOver = <<>>
    BY DEF Init, LoopOver
  <2>3. i \in 1..(Len(LoopOver) + 1)
    BY <2>2 DEF Init
  <2> QED
    BY <2>1, <2>3 DEF Init, TypeOK
<1> QED
  BY <1>1 DEF Init, IInv, Looked, Found, Control, ReportsEveryProblem

THEOREM Invariance == Spec => []IInv
<1>1. ASSUME IInv, UNCHANGED vars
      PROVE  IInv'
  <2> USE <1>1 DEF vars, graphVars
  <2>1. TypeOK'
    BY DEF IInv, TypeOK, LoopOver
  <2>2. Looked' /\ Control'
    BY DEF IInv, Looked, Control, IdsOf
  <2>3. PICK N \in Nat, M \in Nat : /\ N = Len(nodes) /\ N = Len(nodes)'
                                    /\ M = Len(edges) /\ M = Len(edges)'
    BY Elements DEF IInv
  <2>4. PICK m \in Int : m = i - 1 /\ m = i' - 1
    BY DEF IInv, TypeOK
  <2>5. UNCHANGED graphVars
    OBVIOUS
  <2>6. /\ NodeFaults(N)' = NodeFaults(N) /\ NodeFaults(m)' = NodeFaults(m)
        /\ EdgeFaults(M)' = EdgeFaults(M) /\ EdgeFaults(m)' = EdgeFaults(m)
        /\ NodeKindFaults(N)' = NodeKindFaults(N) /\ NodeKindFaults(m)' = NodeKindFaults(m)
        /\ EdgeKindFaults(M)' = EdgeKindFaults(M) /\ EdgeKindFaults(m)' = EdgeKindFaults(m)
    BY <2>5, Frame
  <2>7. Found'
    BY <2>3, <2>4, <2>6 DEF IInv, Found, Structural
  <2>8. ReportsEveryProblem'
    BY <2>3, <2>6 DEF IInv, ReportsEveryProblem
  <2> QED
    BY <2>1, <2>2, <2>7, <2>8 DEF IInv
<1> QED
  BY InvInit, InvStep, <1>1, PTL DEF Spec

(* Every variable of GraphValidate has its type (TypeOK), for every graph  *)
(* a caller builds.                                                        *)
THEOREM TypeCorrect == Spec => []TypeOK
  BY Invariance, PTL DEF IInv

(* validate and ValidateAgainst report exactly the faults of the graph     *)
(* they are given, whatever its size and whatever was called before.       *)
THEOREM ReportComplete == Spec => []ReportsEveryProblem
  BY Invariance, PTL DEF IInv

-----------------------------------------------------------------------------
(* Of two places, one is before the other.                                 *)
LEMMA Apart ==
  ASSUME NEW n \in Nat
  PROVE  \A p, q \in 1..n : p # q => p \in 1..(q - 1) \/ q \in 1..(p - 1)
  OBVIOUS

(* Nodes without faults have ids, each its own.                            *)
LEMMA FaultlessDistinct ==
  ASSUME TypeOK, NodeFaults(Len(nodes)) = {}
  PROVE  /\ \A k \in DOMAIN nodes : nodes[k].id # ""
         /\ \A j, k \in DOMAIN nodes : nodes[j].id = nodes[k].id => j = k
<1>1. \A k \in DOMAIN nodes :
        ~(nodes[k].id # "" /\ \E j \in 1..(k - 1) : nodes[j].id = nodes[k].id)
  <2> DEFINE Again(k) == /\ nodes[k].id # ""
                         /\ \E j \in 1..(k - 1) : nodes[j].id = nodes[k].id
             D == {Problem("duplicate id", k, 0) : k \in {k \in 1..Len(nodes) : Again(k)}}
  <2>1. D \subseteq NodeFaults(Len(nodes))
    BY DEF NodeFaults
  <2>2. \A k \in DOMAIN nodes : ~Again(k)
    <3> HIDE DEF Again
    <3> QED
      BY <2>1, Elements
  <2> QED
    BY <2>2
<1>2. \A j, k \in DOMAIN nodes : nodes[j].id = nodes[k].id /\ nodes[k].id # "" => j = k
  <2>1. \A j, k \in DOMAIN nodes : j # k => j \in 1..(k - 1) \/ k \in 1..(j - 1)
    BY Elements, Apart
  <2> QED
    BY <1>1, <2>1
<1>3. \A k \in DOMAIN nodes : nodes[k].id # ""
  <2> DEFINE E == {Problem("empty id", k, 0) : k \in {k \in 1..Len(nodes) : nodes[k].id = ""}}
  <2>1. E \subseteq NodeFaults(Len(nodes))
    BY DEF NodeFaults
  <2> QED
    BY <2>1, Elements
<1> QED
  BY <1>2, <1>3

(* A graph without faults resolves: an endpoint that does not dangle names *)
(* a node, and without duplicates it names one.                            *)
LEMMA FaultlessResolves ==
  ASSUME TypeOK, NodeFaults(Len(nodes)) = {}, EdgeFaults(Len(edges)) = {}
  PROVE  \A r \in Endpoints :
           /\ r.by # ""
           /\ r.value # ""
           /\ r.by = "id" =>
                \E k \in DOMAIN nodes :
                  \A j \in DOMAIN nodes : nodes[j].id = r.value <=> j = k
<1>2. \A j, k \in DOMAIN nodes : nodes[j].id = nodes[k].id => j = k
  BY FaultlessDistinct
<1>3. \A k \in DOMAIN edges :
        /\ edges[k].start.value # "" /\ ~Dangling(edges[k].start)
        /\ edges[k].end.value # "" /\ ~Dangling(edges[k].end)
  BY Elements DEF EdgeFaults
<1>4. ASSUME NEW r \in Ref, r.value # "", ~Dangling(r)
      PROVE  LET s == SpellOut(r)
             IN  /\ s.by # ""
                 /\ s.value # ""
                 /\ s.by = "id" =>
                      \E k \in DOMAIN nodes :
                        \A j \in DOMAIN nodes : nodes[j].id = s.value <=> j = k
  <2>1. /\ SpellOut(r).value = r.value
        /\ SpellOut(r).by = IF matchesByID(r) THEN "id" ELSE r.by
    BY DEF SpellOut, Ref
  <2>2. SpellOut(r).by # ""
    BY <2>1 DEF matchesByID
  <2>3. ASSUME SpellOut(r).by = "id"
        PROVE  \E k \in DOMAIN nodes :
                 \A j \in DOMAIN nodes : nodes[j].id = r.value <=> j = k
    <3>1. matchesByID(r)
      BY <2>1, <2>3 DEF matchesByID
    <3>2. PICK k \in DOMAIN nodes : nodes[k].id = r.value
      BY <1>4, <3>1 DEF Dangling
    <3>3. \A j \in DOMAIN nodes : nodes[j].id = r.value <=> j = k
      BY <1>2, <1>4, <3>2
    <3> QED
      BY <3>3
  <2> QED
    BY <1>4, <2>1, <2>2, <2>3
<1>5. \A k \in DOMAIN edges :
        /\ edges[k].start \in Ref /\ edges[k].end \in Ref
        /\ normalizeEdge(edges[k]).start = SpellOut(edges[k].start)
        /\ normalizeEdge(edges[k]).end = SpellOut(edges[k].end)
  BY Elements DEF Edge, normalizeEdge
<1>6. \A s \in Endpoints : \E r \in Ref : s = SpellOut(r) /\ r.value # "" /\ ~Dangling(r)
  BY <1>3, <1>5 DEF Endpoints
<1> SUFFICES ASSUME NEW s \in Endpoints
             PROVE  /\ s.by # ""
                    /\ s.value # ""
                    /\ s.by = "id" =>
                         \E k \in DOMAIN nodes :
                           \A j \in DOMAIN nodes : nodes[j].id = s.value <=> j = k
  OBVIOUS
<1>7. PICK r \in Ref : s = SpellOut(r) /\ r.value # "" /\ ~Dangling(r)
  BY <1>6
<1> QED
  BY <1>4, <1>7

(* A graph Validate accepted resolves on the wire, however it was built.   *)
THEOREM AcceptedResolves == Spec => []AcceptedGraphResolves
<1>1. ASSUME IInv
      PROVE  AcceptedGraphResolves
  <2> SUFFICES ASSUME verdict = "nil"
               PROVE  NodeFaults(Len(nodes)) = {} /\ EdgeFaults(Len(edges)) = {}
    BY <1>1, FaultlessResolves DEF IInv, AcceptedGraphResolves
  <2>1. problems = {}
    BY <1>1 DEF IInv, ReportsEveryProblem
  <2> QED
    BY <1>1, <2>1 DEF IInv, ReportsEveryProblem
<1> QED
  BY <1>1, Invariance, PTL

-----------------------------------------------------------------------------
(* What a graph holds of a ref that it was given: UppercaseIDs may have    *)
(* come over it, any number of times, and after it the value is the one    *)
(* BloodHound stores.                                                      *)
HeldRef(given, held) ==
  /\ given \in Ref /\ held \in Ref
  /\ matchesByID(held) <=> matchesByID(given)
  /\ matchesByID(given) => held.value \in {given.value, Upper[given.value]}
  /\ ~matchesByID(given) => held = given

SettledRef(given, held) == matchesByID(given) => held.value = Upper[given.value]

(* Everything given is held, in its place.                                 *)
Held ==
  /\ Len(nodesGiven) = Len(nodes)
  /\ Len(edgesGiven) = Len(edges)
  /\ \A k \in DOMAIN nodesGiven :
       nodes[k].id \in {nodesGiven[k].id, Upper[nodesGiven[k].id]}
  /\ \A k \in DOMAIN edgesGiven :
       /\ HeldRef(edgesGiven[k].start, edges[k].start)
       /\ HeldRef(edgesGiven[k].end, edges[k].end)

(* A graph uppercased as a whole holds what BloodHound stores.             *)
Settled ==
  uppercased =>
    /\ \A k \in DOMAIN nodesGiven : nodes[k].id = Upper[nodesGiven[k].id]
    /\ \A k \in DOMAIN edgesGiven :
         /\ SettledRef(edgesGiven[k].start, edges[k].start)
         /\ SettledRef(edgesGiven[k].end, edges[k].end)

(* What was given consists of nodes and edges, as what is held does.       *)
LEMMA GivenElements ==
  ASSUME TypeOK
  PROVE  /\ \A k \in DOMAIN nodesGiven : k \in Nat /\ nodesGiven[k] \in Node
         /\ \A k \in DOMAIN edgesGiven : k \in Nat /\ edgesGiven[k] \in Edge
         /\ DOMAIN nodesGiven = 1..Len(nodesGiven) /\ Len(nodesGiven) \in Nat
         /\ DOMAIN edgesGiven = 1..Len(edgesGiven) /\ Len(edgesGiven) \in Nat
<1>1. nodesGiven \in Seq(Node) /\ edgesGiven \in Seq(Edge)
  BY DEF TypeOK
<1> QED
  BY <1>1

(* Uppercasing a ref once more changes nothing that was uppercased, and    *)
(* settles what was not (graph.go:107-112).                                *)
LEMMA UpperRefHeld ==
  ASSUME NEW given, NEW held, HeldRef(given, held)
  PROVE  HeldRef(given, UpperRef(held)) /\ SettledRef(given, UpperRef(held))
<1>1. given \in Ref /\ held \in Ref
  BY DEF HeldRef
<1>2. given.value \in Ids /\ held.value \in Ids
  BY <1>1 DEF Ref
<1>3. CASE matchesByID(given)
  <2>1. matchesByID(held) /\ held.value \in {given.value, Upper[given.value]}
    BY <1>3 DEF HeldRef
  <2>2. UpperRef(held) = [held EXCEPT !.value = Upper[held.value]]
    BY <2>1 DEF UpperRef
  <2>3. /\ UpperRef(held) \in Ref
        /\ UpperRef(held).value = Upper[held.value]
        /\ UpperRef(held).by = held.by
    BY <1>1, <1>2, <2>2, GraphAssumption DEF Ref
  <2>4. Upper[held.value] = Upper[given.value]
    BY <1>2, <2>1, GraphAssumption
  <2>5. matchesByID(UpperRef(held))
    BY <2>1, <2>3 DEF matchesByID
  <2> QED
    BY <1>1, <1>3, <2>3, <2>4, <2>5 DEF HeldRef, SettledRef
<1>4. CASE ~matchesByID(given)
  <2>1. UpperRef(held) = held
    BY <1>4 DEF UpperRef, HeldRef
  <2> QED
    BY <1>4, <2>1 DEF SettledRef
<1> QED
  BY <1>3, <1>4

LEMMA HeldStep ==
  ASSUME TypeOK, Held, Settled, Next
  PROVE  Held' /\ Settled'
<1>1. ASSUME NEW x \in NodeChoice, AddNode(x)
      PROVE  Held' /\ Settled'
  <2>1. /\ nodes' = Append(nodes, x) /\ nodesGiven' = Append(nodesGiven, x)
        /\ UNCHANGED <<edges, edgesGiven>> /\ uppercased' = FALSE
    BY <1>1 DEF AddNode
  <2>2. /\ nodes \in Seq(Node) /\ nodesGiven \in Seq(Node) /\ x \in Node
        /\ Len(nodesGiven) = Len(nodes)
    BY GraphAssumption DEF TypeOK, Held
  <2>3. /\ Len(nodesGiven') = Len(nodes')
        /\ \A k \in DOMAIN nodesGiven' :
             \/ k \in DOMAIN nodesGiven /\ nodes'[k] = nodes[k] /\ nodesGiven'[k] = nodesGiven[k]
             \/ nodes'[k] = x /\ nodesGiven'[k] = x
    BY <2>1, <2>2
  <2>4. \A k \in DOMAIN nodesGiven' :
          nodes'[k].id \in {nodesGiven'[k].id, Upper[nodesGiven'[k].id]}
    BY <2>3 DEF Held
  <2>5. \A k \in DOMAIN edgesGiven' : /\ HeldRef(edgesGiven'[k].start, edges'[k].start)
                                      /\ HeldRef(edgesGiven'[k].end, edges'[k].end)
    BY <2>1 DEF Held
  <2> QED
    BY <2>1, <2>3, <2>4, <2>5 DEF Held, Settled
<1>2. ASSUME NEW e \in EdgeChoice, AddEdge(e)
      PROVE  Held' /\ Settled'
  <2>1. /\ edges' = Append(edges, e) /\ edgesGiven' = Append(edgesGiven, e)
        /\ UNCHANGED <<nodes, nodesGiven>> /\ uppercased' = FALSE
    BY <1>2 DEF AddEdge
  <2>2. /\ edges \in Seq(Edge) /\ edgesGiven \in Seq(Edge) /\ e \in Edge
        /\ Len(edgesGiven) = Len(edges)
    BY GraphAssumption DEF TypeOK, Held
  <2>3. /\ Len(edgesGiven') = Len(edges')
        /\ \A k \in DOMAIN edgesGiven' :
             \/ k \in DOMAIN edgesGiven /\ edges'[k] = edges[k] /\ edgesGiven'[k] = edgesGiven[k]
             \/ edges'[k] = e /\ edgesGiven'[k] = e
    BY <2>1, <2>2
  <2>4. HeldRef(e.start, e.start) /\ HeldRef(e.end, e.end)
    BY <2>2 DEF HeldRef, Edge
  <2>5. \A k \in DOMAIN edgesGiven' : /\ HeldRef(edgesGiven'[k].start, edges'[k].start)
                                      /\ HeldRef(edgesGiven'[k].end, edges'[k].end)
    BY <2>3, <2>4 DEF Held
  <2> QED
    BY <2>1, <2>3, <2>5 DEF Held, Settled
<1>3. CASE UppercaseIDs
  <2>1. /\ nodes' = [k \in DOMAIN nodes |-> UpperNode(nodes[k])]
        /\ edges' = [k \in DOMAIN edges |-> UpperEdge(edges[k])]
        /\ UNCHANGED <<nodesGiven, edgesGiven>>
    BY <1>3 DEF UppercaseIDs, Uppercasing
  <2>2. /\ DOMAIN nodesGiven = DOMAIN nodes /\ DOMAIN edgesGiven = DOMAIN edges
        /\ Len(nodesGiven') = Len(nodes') /\ Len(edgesGiven') = Len(edges')
    BY <1>3, <2>1, UppercaseTypes, Elements, GivenElements DEF Held
  <2>3. \A k \in DOMAIN nodesGiven : nodes'[k].id = Upper[nodesGiven[k].id]
    <3> SUFFICES ASSUME NEW k \in DOMAIN nodesGiven
                 PROVE  nodes'[k].id = Upper[nodesGiven[k].id]
      OBVIOUS
    <3>1. nodes[k] \in Node /\ nodesGiven[k].id \in Ids
      BY <2>2, Elements, GivenElements DEF Node
    <3>2. nodes'[k].id = Upper[nodes[k].id]
      BY <2>1, <2>2, <3>1 DEF UpperNode, Node
    <3>3. nodes[k].id \in {nodesGiven[k].id, Upper[nodesGiven[k].id]}
      BY DEF Held
    <3> QED
      BY <3>1, <3>2, <3>3, GraphAssumption
  <2>4. \A k \in DOMAIN edgesGiven :
          /\ edges'[k].start = UpperRef(edges[k].start)
          /\ edges'[k].end = UpperRef(edges[k].end)
    BY <2>1, <2>2, Elements DEF UpperEdge, Edge
  <2>5. \A k \in DOMAIN edgesGiven :
          /\ HeldRef(edgesGiven[k].start, edges[k].start)
          /\ HeldRef(edgesGiven[k].end, edges[k].end)
    BY DEF Held
  <2>6. \A k \in DOMAIN edgesGiven :
          /\ HeldRef(edgesGiven[k].start, edges'[k].start)
          /\ HeldRef(edgesGiven[k].end, edges'[k].end)
          /\ SettledRef(edgesGiven[k].start, edges'[k].start)
          /\ SettledRef(edgesGiven[k].end, edges'[k].end)
    BY <2>4, <2>5, UpperRefHeld
  <2> QED
    BY <2>1, <2>2, <2>3, <2>6 DEF Held, Settled
<1>4. ASSUME UNCHANGED graphVars
      PROVE  Held' /\ Settled'
  BY <1>4 DEF graphVars, Held, Settled
<1> QED
  BY <1>1, <1>2, <1>3, <1>4
     DEF Next, Validate, CheckNode, CheckEdge, CheckNodeKinds, CheckEdgeKind, NextLoop, Return

LEMMA HeldInvariance == Spec => [](Held /\ Settled)
<1>1. Init => Held /\ Settled
  BY DEF Init, Held, Settled
<1>2. ASSUME TypeOK, Held, Settled, [Next]_vars
      PROVE  Held' /\ Settled'
  <2>1. CASE UNCHANGED vars
    BY <1>2, <2>1 DEF vars, graphVars, Held, Settled
  <2> QED
    BY <1>2, <2>1, HeldStep
<1> QED
  BY <1>1, <1>2, TypeCorrect, PTL DEF Spec

(* A graph that was uppercased as a whole and accepted is stored as the    *)
(* caller meant it, for every graph, whatever the case of the ids given    *)
(* (graph.go:101, validate.go:66): the ids held are the ones stored, so    *)
(* the duplicates and danglings Validate looks for are the server's.       *)
THEOREM StoredWhole == Spec => []StoredAsGiven
<1>1. ASSUME IInv, Held, Settled, verdict = "nil", uppercased
      PROVE  /\ \A j, k \in DOMAIN nodesGiven :
                  Upper[nodesGiven[j].id] = Upper[nodesGiven[k].id] => j = k
             /\ \A k \in DOMAIN nodesGiven : nodes[k].id = Upper[nodesGiven[k].id]
             /\ \A k \in DOMAIN edgesGiven :
                  /\ StoredRef(edgesGiven[k].start, edges[k].start)
                  /\ StoredRef(edgesGiven[k].end, edges[k].end)
  <2>1. NodeFaults(Len(nodes)) = {} /\ EdgeFaults(Len(edges)) = {}
    BY <1>1 DEF IInv, ReportsEveryProblem
  <2>2. \A j, k \in DOMAIN nodes : nodes[j].id = nodes[k].id => j = k
    BY <1>1, <2>1, FaultlessDistinct DEF IInv
  <2>3. DOMAIN nodesGiven = DOMAIN nodes /\ DOMAIN edgesGiven = DOMAIN edges
    BY <1>1, Elements, GivenElements DEF IInv, Held
  <2>4. \A k \in DOMAIN nodesGiven : nodes[k].id = Upper[nodesGiven[k].id]
    BY <1>1 DEF Settled
  <2>5. \A k \in DOMAIN edges :
          /\ edges[k].start.value # "" /\ ~Dangling(edges[k].start)
          /\ edges[k].end.value # "" /\ ~Dangling(edges[k].end)
    BY <1>1, <2>1, Elements DEF EdgeFaults, IInv
  <2>6. ASSUME NEW given, NEW held, HeldRef(given, held), SettledRef(given, held),
               held.value # "", ~Dangling(held)
        PROVE  StoredRef(given, held)
    <3>1. CASE matchesByID(given)
      <4>1. matchesByID(held) /\ held.value = Upper[given.value]
        BY <2>6, <3>1 DEF HeldRef, SettledRef
      <4>2. PICK n \in DOMAIN nodes : nodes[n].id = held.value
        BY <2>6, <4>1 DEF Dangling
      <4> QED
        BY <2>3, <2>4, <3>1, <4>1, <4>2 DEF StoredRef
    <3>2. CASE ~matchesByID(given)
      BY <2>6, <3>2 DEF HeldRef, StoredRef
    <3> QED
      BY <3>1, <3>2
  <2>7. \A k \in DOMAIN edgesGiven :
          /\ HeldRef(edgesGiven[k].start, edges[k].start)
          /\ HeldRef(edgesGiven[k].end, edges[k].end)
          /\ SettledRef(edgesGiven[k].start, edges[k].start)
          /\ SettledRef(edgesGiven[k].end, edges[k].end)
    BY <1>1 DEF Held, Settled
  <2>8. \A k \in DOMAIN edgesGiven :
          /\ StoredRef(edgesGiven[k].start, edges[k].start)
          /\ StoredRef(edgesGiven[k].end, edges[k].end)
    BY <2>3, <2>5, <2>6, <2>7
  <2> QED
    BY <2>2, <2>3, <2>4, <2>8
<1>2. IInv /\ Held /\ Settled => StoredAsGiven
  BY <1>1 DEF StoredAsGiven
<1> QED
  BY <1>2, Invariance, HeldInvariance, PTL

(* UppercaseIDs cuts no edge off, whatever ToUpper does to an id: it is    *)
(* enough that the same function is applied to nodes and to endpoints.     *)
THEOREM UppercaseSafe == Spec => UppercaseKeepsResolution
<1> DEFINE Kept == UppercaseIDs =>
             \A k \in DOMAIN edges :
               /\ Named(edges[k].start) \subseteq Named(edges[k].start)'
               /\ Named(edges[k].end) \subseteq Named(edges[k].end)'
               /\ ~matchesByID(edges[k].start) => edges[k].start' = edges[k].start
               /\ ~matchesByID(edges[k].end) => edges[k].end' = edges[k].end
<1>1. ASSUME TypeOK, UppercaseIDs, NEW k \in DOMAIN edges
      PROVE  /\ Named(edges[k].start) \subseteq Named(edges[k].start)'
             /\ Named(edges[k].end) \subseteq Named(edges[k].end)'
             /\ ~matchesByID(edges[k].start) => edges[k].start' = edges[k].start
             /\ ~matchesByID(edges[k].end) => edges[k].end' = edges[k].end
  <2>1. /\ edges[k]' = UpperEdge(edges[k])
        /\ DOMAIN nodes' = DOMAIN nodes
        /\ \A j \in DOMAIN nodes : nodes'[j] = UpperNode(nodes[j])
    BY <1>1 DEF UppercaseIDs
  <2>2. \A j \in DOMAIN nodes : nodes'[j].id = Upper[nodes[j].id]
    BY <1>1, <2>1, Elements DEF UpperNode, Node
  <2>3. /\ edges[k].start \in Ref /\ edges[k].end \in Ref
        /\ edges[k].start' = UpperRef(edges[k].start)
        /\ edges[k].end' = UpperRef(edges[k].end)
    BY <1>1, <2>1, Elements DEF UpperEdge, Edge
  <2>4. \A r \in Ref : /\ matchesByID(UpperRef(r)) <=> matchesByID(r)
                       /\ matchesByID(r) => UpperRef(r).value = Upper[r.value]
                       /\ ~matchesByID(r) => UpperRef(r) = r
    BY DEF UpperRef, matchesByID, Ref
  <2>5. Named(edges[k].start) \subseteq Named(edges[k].start)'
    <3> SUFFICES ASSUME matchesByID(edges[k].start), NEW j \in DOMAIN nodes,
                        nodes[j].id = edges[k].start.value
                 PROVE  j \in Named(edges[k].start)'
      BY DEF Named
    <3>1. matchesByID(edges[k].start')
      BY <2>3, <2>4
    <3>2. nodes'[j].id = edges[k].start'.value
      BY <2>2, <2>3, <2>4
    <3> QED
      BY <2>1, <3>1, <3>2 DEF Named, matchesByID
  <2>6. Named(edges[k].end) \subseteq Named(edges[k].end)'
    <3> SUFFICES ASSUME matchesByID(edges[k].end), NEW j \in DOMAIN nodes,
                        nodes[j].id = edges[k].end.value
                 PROVE  j \in Named(edges[k].end)'
      BY DEF Named
    <3>1. matchesByID(edges[k].end')
      BY <2>3, <2>4
    <3>2. nodes'[j].id = edges[k].end'.value
      BY <2>2, <2>3, <2>4
    <3> QED
      BY <2>1, <3>1, <3>2 DEF Named, matchesByID
  <2> QED
    BY <2>3, <2>4, <2>5, <2>6
<1>2. ASSUME TypeOK
      PROVE  [Kept]_vars
  BY <1>1, <1>2
<1>3. Spec => []TypeOK
  BY TypeCorrect
<1>4. Spec => [][Kept]_vars
  BY <1>2, <1>3, PTL DEF Spec
<1> QED
  BY <1>4 DEF UppercaseKeepsResolution
=============================================================================
