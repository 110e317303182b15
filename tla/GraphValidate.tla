--------------------------- MODULE GraphValidate ---------------------------
(***************************************************************************)
(* A Graph (graph.go) in the hands of one caller, who adds to it,          *)
(* uppercases its ids, and validates it, alone or against an extension     *)
(* schema (validate.go), in any order.  Validation is the code's loops,    *)
(* one element at a time.                                                  *)
(*                                                                         *)
(* A problem is a record of what is wrong and where, so that the list of a *)
(* ValidationError is a set here; its wording is left out.  Properties of  *)
(* nodes and edges are never looked at, and are left out as well.          *)
(*                                                                         *)
(* What the caller handed over is kept beside the graph, as it was given,  *)
(* so that the properties can compare the ids held, and the ids that       *)
(* BloodHound stores, with the caller's own.                               *)
(***************************************************************************)
EXTENDS Integers, Sequences

CONSTANTS
  Ids,                (* the ids and names that occur                      *)
  NodeChoice,         (* the nodes a caller may add: [id, kinds]           *)
  EdgeChoice,         (* the edges: [kind, start, end], both [value, by]   *)
  Upper,              (* strings.ToUpper, on Ids                           *)
  DeclaredNodeKinds,  (* ext.declaredNodeKinds()                           *)
  DeclaredRelationshipKinds,  (* ext.declaredRelationshipKinds()           *)
  MaxNodes, MaxEdges  (* bounds: the size of a graph                       *)

Node == [id : Ids, kinds : Seq(STRING)]
Ref == [value : Ids, by : STRING]
Edge == [kind : STRING, start : Ref, end : Ref]

ASSUME GraphAssumption ==
  /\ NodeChoice \subseteq Node
  /\ EdgeChoice \subseteq Edge
  /\ Upper \in [Ids -> Ids]
  /\ \A s \in Ids : Upper[Upper[s]] = Upper[s]

VARIABLES
  nodes, edges,  (* g                                                      *)
  nodesGiven, edgesGiven,  (* history: what was added, never rewritten     *)
  uppercased,    (* history: nothing was added since UppercaseIDs          *)
  pc,            (* "caller", or the loop of validate and ValidateAgainst  *)
                 (* that runs: "nodes", "edges", "nodeKinds", "edgeKinds"  *)
  i,             (* its index                                              *)
  against,       (* whether ValidateAgainst runs it                        *)
  ids,           (* the node ids seen                                      *)
  problems,      (* v.Problems                                             *)
  verdict        (* what the last call found of the graph as it is now:    *)
                 (* "none", "nil" or "error"                               *)

graphVars == <<nodes, edges, nodesGiven, edgesGiven, uppercased>>
vars == <<graphVars, pc, i, against, ids, problems, verdict>>

Init ==
  /\ nodes = <<>>
  /\ edges = <<>>
  /\ nodesGiven = <<>>
  /\ edgesGiven = <<>>
  /\ uppercased = FALSE
  /\ pc = "caller"
  /\ i = 1
  /\ against = FALSE
  /\ ids = {}
  /\ problems = {}
  /\ verdict = "none"

(* A zero MatchBy means an id.                                             *)
matchesByID(r) == r.by \in {"", "id"}

-----------------------------------------------------------------------------
(* Building the graph.                                                     *)
Building ==
  /\ pc = "caller"
  /\ verdict' = "none"
  /\ UNCHANGED <<pc, i, against, ids, problems>>

AddNode(x) ==
  /\ Building
  /\ Len(nodes) < MaxNodes
  /\ nodes' = Append(nodes, x)
  /\ nodesGiven' = Append(nodesGiven, x)
  /\ uppercased' = FALSE
  /\ UNCHANGED <<edges, edgesGiven>>

AddEdge(e) ==
  /\ Building
  /\ Len(edges) < MaxEdges
  /\ edges' = Append(edges, e)
  /\ edgesGiven' = Append(edgesGiven, e)
  /\ uppercased' = FALSE
  /\ UNCHANGED <<nodes, nodesGiven>>

UpperRef(r) ==
  IF matchesByID(r) THEN [r EXCEPT !.value = Upper[r.value]] ELSE r

UpperNode(x) == [x EXCEPT !.id = Upper[x.id]]

UpperEdge(e) == [e EXCEPT !.start = UpperRef(e.start), !.end = UpperRef(e.end)]

Uppercasing ==
  /\ Building
  /\ uppercased' = TRUE
  /\ UNCHANGED <<nodesGiven, edgesGiven>>

(* Mutant: endpoints are not touched.                                      *)
UppercaseNodesOnly ==
  /\ Uppercasing
  /\ nodes' = [k \in DOMAIN nodes |-> UpperNode(nodes[k])]
  /\ UNCHANGED edges

(* Mutant: what changes is the loop's copy of an element.                  *)
UppercaseCopies ==
  /\ Uppercasing
  /\ UNCHANGED <<nodes, edges>>

UppercaseIDs ==
  /\ Uppercasing
  /\ nodes' = [k \in DOMAIN nodes |-> UpperNode(nodes[k])]
  /\ edges' = [k \in DOMAIN edges |-> UpperEdge(edges[k])]

-----------------------------------------------------------------------------
(* Validation.                                                             *)
Wrong == {"empty id", "duplicate id", "no kinds", "empty kind", "empty edge kind",
          "empty value", "not a node", "undeclared kind", "undeclared edge kind"}

Problems == [what : Wrong, at : Nat, sub : Nat]

Problem(what, at, sub) == [what |-> what, at |-> at, sub |-> sub]

(* Validate, or ValidateAgainst, is called.                                *)
Validate(schema) ==
  /\ pc = "caller"
  /\ pc' = "nodes"
  /\ i' = 1
  /\ against' = schema
  /\ ids' = {}
  /\ problems' = {}
  /\ verdict' = "none"
  /\ UNCHANGED graphVars

IdProblems(seen, x, k) ==
  IF x.id = "" THEN {Problem("empty id", k, 0)}
  ELSE IF x.id \in seen THEN {Problem("duplicate id", k, 0)}
  ELSE {}

KindProblems(x, k) ==
  IF x.kinds = <<>> THEN {Problem("no kinds", k, 0)}
  ELSE {Problem("empty kind", k, m) : m \in {m \in DOMAIN x.kinds : x.kinds[m] = ""}}

(* Mutant: a node with a bad id is not looked at any further.              *)
CheckNodeContinues ==
  /\ pc = "nodes"
  /\ i <= Len(nodes)
  /\ problems' = problems \union
       (IF IdProblems(ids, nodes[i], i) # {} THEN IdProblems(ids, nodes[i], i)
        ELSE KindProblems(nodes[i], i))
  /\ ids' = ids \union ({nodes[i].id} \ {""})
  /\ i' = i + 1
  /\ UNCHANGED <<graphVars, pc, against, verdict>>

CheckNode ==
  /\ pc = "nodes"
  /\ i <= Len(nodes)
  /\ problems' = problems \union IdProblems(ids, nodes[i], i)
                          \union KindProblems(nodes[i], i)
  /\ ids' = ids \union ({nodes[i].id} \ {""})
  /\ i' = i + 1
  /\ UNCHANGED <<graphVars, pc, against, verdict>>

(* Mutant: validation does not know that a zero MatchBy is an id.          *)
EndpointProblemsIfSpelled(seen, r, k, side) ==
  IF r.value = "" THEN {Problem("empty value", k, side)}
  ELSE IF r.by = "id" /\ r.value \notin seen
    THEN {Problem("not a node", k, side)}
  ELSE {}

(* checkEndpoint: only ids can be looked up locally.                       *)
EndpointProblems(seen, r, k, side) ==
  IF r.value = "" THEN {Problem("empty value", k, side)}
  ELSE IF matchesByID(r) /\ r.value \notin seen
    THEN {Problem("not a node", k, side)}
  ELSE {}

EdgeProblems(seen, e, k) ==
  (IF e.kind = "" THEN {Problem("empty edge kind", k, 0)} ELSE {})
    \union EndpointProblems(seen, e.start, k, 1)
    \union EndpointProblems(seen, e.end, k, 2)

CheckEdge ==
  /\ pc = "edges"
  /\ i <= Len(edges)
  /\ problems' = problems \union EdgeProblems(ids, edges[i], i)
  /\ i' = i + 1
  /\ UNCHANGED <<graphVars, pc, against, ids, verdict>>

(* ValidateAgainst: kinds that are there but not in the schema.            *)
UndeclaredKinds(x, k) ==
  {Problem("undeclared kind", k, m) :
     m \in {m \in DOMAIN x.kinds : x.kinds[m] \notin DeclaredNodeKinds \union {""}}}

CheckNodeKinds ==
  /\ pc = "nodeKinds"
  /\ i <= Len(nodes)
  /\ problems' = problems \union UndeclaredKinds(nodes[i], i)
  /\ i' = i + 1
  /\ UNCHANGED <<graphVars, pc, against, ids, verdict>>

UndeclaredEdgeKind(e, k) ==
  IF e.kind \in DeclaredRelationshipKinds \union {""} THEN {}
  ELSE {Problem("undeclared edge kind", k, 0)}

CheckEdgeKind ==
  /\ pc = "edgeKinds"
  /\ i <= Len(edges)
  /\ problems' = problems \union UndeclaredEdgeKind(edges[i], i)
  /\ i' = i + 1
  /\ UNCHANGED <<graphVars, pc, against, ids, verdict>>

(* A loop has run: the next one starts, or the problems are returned,      *)
(* which orNil turns into nil when there are none.                         *)
Loops == IF against THEN <<"nodes", "edges", "nodeKinds", "edgeKinds">>
                    ELSE <<"nodes", "edges">>

LoopOver == IF pc \in {"nodes", "nodeKinds"} THEN nodes ELSE edges

(* Mutant: the loops share one index.                                      *)
NextLoopSameIndex ==
  /\ \E l \in 1..(Len(Loops) - 1) : pc = Loops[l] /\ pc' = Loops[l + 1]
  /\ i > Len(LoopOver)
  /\ UNCHANGED <<graphVars, i, against, ids, problems, verdict>>

NextLoop ==
  /\ \E l \in 1..(Len(Loops) - 1) : pc = Loops[l] /\ pc' = Loops[l + 1]
  /\ i > Len(LoopOver)
  /\ i' = 1
  /\ UNCHANGED <<graphVars, against, ids, problems, verdict>>

Return ==
  /\ pc = Loops[Len(Loops)]
  /\ i > Len(LoopOver)
  /\ pc' = "caller"
  /\ i' = 1
  /\ verdict' = IF problems = {} THEN "nil" ELSE "error"
  /\ UNCHANGED <<graphVars, against, ids, problems>>

Next ==
  \/ \E x \in NodeChoice : AddNode(x)
  \/ \E e \in EdgeChoice : AddEdge(e)
  \/ UppercaseIDs
  \/ \E schema \in BOOLEAN : Validate(schema)
  \/ CheckNode
  \/ CheckEdge
  \/ CheckNodeKinds
  \/ CheckEdgeKind
  \/ NextLoop
  \/ Return

Spec == Init /\ [][Next]_vars

-----------------------------------------------------------------------------
(* The document that a graph becomes: normalizeEdge spells out the default *)
(* strategy.                                                               *)
SpellOut(r) == IF matchesByID(r) THEN [r EXCEPT !.by = "id"] ELSE r

normalizeEdge(e) == [e EXCEPT !.start = SpellOut(e.start), !.end = SpellOut(e.end)]

Endpoints == {normalizeEdge(edges[k]).start : k \in DOMAIN edges}
               \union {normalizeEdge(edges[k]).end : k \in DOMAIN edges}

-----------------------------------------------------------------------------
(* Properties.                                                             *)

(* What is wrong with the first n nodes, or edges, told without a loop.    *)
NodeFaults(n) ==
  {Problem("empty id", k, 0) : k \in {k \in 1..n : nodes[k].id = ""}}
  \union {Problem("duplicate id", k, 0) :
            k \in {k \in 1..n : /\ nodes[k].id # ""
                                /\ \E j \in 1..(k - 1) : nodes[j].id = nodes[k].id}}
  \union {Problem("no kinds", k, 0) : k \in {k \in 1..n : nodes[k].kinds = <<>>}}
  \union UNION {{Problem("empty kind", k, m) :
                   m \in {m \in DOMAIN nodes[k].kinds : nodes[k].kinds[m] = ""}} :
                k \in 1..n}

Dangling(r) ==
  /\ r.value # ""
  /\ matchesByID(r)
  /\ \A j \in DOMAIN nodes : nodes[j].id # r.value

EdgeFaults(n) ==
  {Problem("empty edge kind", k, 0) : k \in {k \in 1..n : edges[k].kind = ""}}
  \union {Problem("empty value", k, 1) : k \in {k \in 1..n : edges[k].start.value = ""}}
  \union {Problem("empty value", k, 2) : k \in {k \in 1..n : edges[k].end.value = ""}}
  \union {Problem("not a node", k, 1) : k \in {k \in 1..n : Dangling(edges[k].start)}}
  \union {Problem("not a node", k, 2) : k \in {k \in 1..n : Dangling(edges[k].end)}}

NodeKindFaults(n) ==
  UNION {{Problem("undeclared kind", k, m) :
            m \in {m \in DOMAIN nodes[k].kinds :
                     /\ nodes[k].kinds[m] # ""
                     /\ nodes[k].kinds[m] \notin DeclaredNodeKinds}} :
         k \in 1..n}

EdgeKindFaults(n) ==
  {Problem("undeclared edge kind", k, 0) :
     k \in {k \in 1..n : /\ edges[k].kind # ""
                         /\ edges[k].kind \notin DeclaredRelationshipKinds}}

(* Every variable has its type, and a loop's index stays within one of its *)
(* end (validate.go:60, 90, 264, 271).                                     *)
TypeOK ==
  /\ nodes \in Seq(Node)
  /\ edges \in Seq(Edge)
  /\ nodesGiven \in Seq(Node)
  /\ edgesGiven \in Seq(Edge)
  /\ uppercased \in BOOLEAN
  /\ pc \in {"caller", "nodes", "edges", "nodeKinds", "edgeKinds"}
  /\ i \in 1..(Len(LoopOver) + 1)
  /\ against \in BOOLEAN
  /\ ids \subseteq Ids
  /\ problems \subseteq Problems
  /\ verdict \in {"none", "nil", "error"}

(* A ValidationError "collects everything wrong with a graph or a schema,  *)
(* rather than stopping at the first problem" (validate.go:11): each call  *)
(* reports what is wrong with the graph as it stands, all of it, nothing   *)
(* besides, and nothing left from the call before; and it returns nil      *)
(* exactly when nothing is wrong.  An id is looked up in the whole graph,  *)
(* however the nodes and edges were added, and a duplicate is reported     *)
(* at its second place and not at its first.                               *)
ReportsEveryProblem ==
  verdict # "none" =>
    /\ problems = NodeFaults(Len(nodes)) \union EdgeFaults(Len(edges))
                    \union (IF against THEN NodeKindFaults(Len(nodes))
                                              \union EdgeKindFaults(Len(edges))
                                       ELSE {})
    /\ verdict = "nil" <=> problems = {}

(* What Validate accepted resolves on the wire: in the document WriteTo    *)
(* sends, every endpoint says how it is matched, and an endpoint matched   *)
(* by id names one node of the payload and no other.  It takes validation  *)
(* and serialization to agree on what a zero MatchBy is (graph.go:51).     *)
AcceptedGraphResolves ==
  verdict = "nil" =>
    \A r \in Endpoints :
      /\ r.by # ""
      /\ r.value # ""
      /\ r.by = "id" =>
           \E k \in DOMAIN nodes :
             \A j \in DOMAIN nodes : nodes[j].id = r.value <=> j = k

(* BloodHound keeps every id it is sent in upper case (graph.go:94).  Of   *)
(* an endpoint as the caller gave it and as the graph holds it: matched by *)
(* name it is what was given; matched by id it is what BloodHound makes of *)
(* the caller's id, and so is a node's.                                    *)
StoredRef(given, held) ==
  IF matchesByID(given)
  THEN /\ held.value = Upper[given.value]
       /\ \E n \in DOMAIN nodesGiven : Upper[nodesGiven[n].id] = Upper[given.value]
  ELSE held = given

(* "UppercaseIDs ... keeps the id you hold and the id the server stores    *)
(* from drifting apart" (graph.go:29, 91-100), and Validate compares ids   *)
(* as they are held (validate.go:66).  So of a graph that was uppercased   *)
(* as a whole and then accepted, with whatever ids the caller gave, in     *)
(* whatever case and order: no two nodes were given ids that BloodHound    *)
(* would merge, the ids held are the ones it stores, and each endpoint     *)
(* given by an id reaches a node there.                                    *)
StoredAsGiven ==
  verdict = "nil" /\ uppercased =>
    /\ \A j, k \in DOMAIN nodesGiven :
         Upper[nodesGiven[j].id] = Upper[nodesGiven[k].id] => j = k
    /\ \A k \in DOMAIN nodesGiven : nodes[k].id = Upper[nodesGiven[k].id]
    /\ \A k \in DOMAIN edgesGiven :
         /\ StoredRef(edgesGiven[k].start, edges[k].start)
         /\ StoredRef(edgesGiven[k].end, edges[k].end)

(* The nodes an endpoint names, by their places.                           *)
Named(r) == IF matchesByID(r) THEN {k \in DOMAIN nodes : nodes[k].id = r.value} ELSE {}

(* UppercaseIDs never cuts an edge off: an endpoint that named a node      *)
(* names it still, and one matched by name is as it was (graph.go:91,      *)
(* 100).  It may come to name more: nodes that differ in case only become  *)
(* duplicates, which is what they are to BloodHound.                       *)
UppercaseKeepsResolution ==
  [][UppercaseIDs =>
       \A k \in DOMAIN edges :
         /\ Named(edges[k].start) \subseteq Named(edges[k].start)'
         /\ Named(edges[k].end) \subseteq Named(edges[k].end)'
         /\ ~matchesByID(edges[k].start) => edges[k].start' = edges[k].start
         /\ ~matchesByID(edges[k].end) => edges[k].end' = edges[k].end]_vars
=============================================================================
