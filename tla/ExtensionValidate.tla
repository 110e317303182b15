------------------------- MODULE ExtensionValidate -------------------------
(***************************************************************************)
(* One call of Extension.Validate (validate.go): its loops over the kinds  *)
(* a schema declares, the Entity Panel sections of each kind, and its      *)
(* environments, one element at a time.                                    *)
(*                                                                         *)
(* A name is the sequence of its parts between underscores, so that what   *)
(* a prefix of it is depends on where its underscores are.  A problem is a *)
(* record of what is wrong and where; its wording is left out.             *)
(***************************************************************************)
EXTENDS Integers, Sequences, FiniteSets

CONSTANTS
  ExtensionChoice,  (* the schemas that may be validated                   *)
  Blank,            (* the texts that strings.TrimSpace makes empty        *)
  Keys,             (* the info keys that occur, in the order of their     *)
                    (* bytes, which is that of sort.Strings                *)
  GoodKey,          (* those that match infoKey                            *)
  maxInfo           (* how many sections BloodHound takes                  *)

Key == {Keys[k] : k \in DOMAIN Keys}
Name == Seq(STRING) \ {<<>>}

IsKind(r) ==
  /\ r.name \in Name
  /\ r.display \in BOOLEAN
  /\ DOMAIN r.info \subseteq Key
  /\ r.info \in [DOMAIN r.info -> [title : STRING, position : Int, parses : BOOLEAN]]

KindsIn(e) ==
  {e.nodeKinds[k] : k \in DOMAIN e.nodeKinds}
    \union {e.relationshipKinds[k] : k \in DOMAIN e.relationshipKinds}

ASSUME ExtensionAssumption ==
  /\ Keys \in Seq(STRING)
  /\ \A m, n \in DOMAIN Keys : Keys[m] = Keys[n] => m = n
  /\ Blank \subseteq STRING
  /\ maxInfo \in Nat
  /\ \A e \in ExtensionChoice :
       /\ e.namespace \in Name
       /\ {e.nodeKinds, e.relationshipKinds} \subseteq Seq(KindsIn(e))
       /\ \A r \in KindsIn(e) : IsKind(r)
       /\ e.environments \in Seq([kind : Name, principals : Seq(Name)])

VARIABLES
  ext,           (* e                                                      *)
  pc,            (* "schema", then the list whose loop runs, then "done"   *)
  i,             (* the index of the loop                                  *)
  seen,          (* the kind names seen                                    *)
  displayKinds,  (* how many node kinds are display kinds                  *)
  keys,          (* the info keys validateInfo has still to look at        *)
  positions,     (* the positions it has seen, each with its key           *)
  problems       (* v.Problems                                             *)

kindVars == <<seen, displayKinds>>
vars == <<ext, pc, i, kindVars, keys, positions, problems>>

Init ==
  /\ ext \in ExtensionChoice
  /\ pc = "schema"
  /\ i = 1
  /\ seen = {}
  /\ displayKinds = 0
  /\ keys = <<>>
  /\ positions = {}
  /\ problems = {}

Problem(what, list, at, sub) == [what |-> what, list |-> list, at |-> at, sub |-> sub]

Report(ps) == problems' = problems \union ps

When(condition, p) == IF condition THEN {p} ELSE {}

-----------------------------------------------------------------------------
(* The schema's own fields.                                                *)
EmptyName == <<"">>

SchemaProblems(e) ==
  When(e.name = "", Problem("no name", "schema", 0, <<>>))
    \union When(e.version = "", Problem("no version", "schema", 0, <<>>))
    \union When(e.namespace = EmptyName, Problem("no namespace", "schema", 0, <<>>))
    \union When(e.nodeKinds = <<>>, Problem("no node kinds", "schema", 0, <<>>))

CheckSchema ==
  /\ pc = "schema"
  /\ pc' = "nodeKind"
  /\ Report(SchemaProblems(ext))
  /\ UNCHANGED <<ext, i, kindVars, keys, positions>>

-----------------------------------------------------------------------------
(* checkNamespace.  The namespace and an underscore are a prefix of a name *)
(* when the namespace's parts are, and a part follows.                     *)
CarriesNamespace(ns, name) ==
  Len(ns) < Len(name) /\ SubSeq(name, 1, Len(ns)) = ns

(* Mutant: what follows is not trimmed before it is held to be nothing.    *)
NothingFollowsUntrimmed(ns, name) ==
  Len(name) = Len(ns) + 1 /\ name[Len(name)] = ""

NothingFollows(ns, name) ==
  Len(name) = Len(ns) + 1 /\ name[Len(name)] \in Blank

NamespaceProblems(ns, name, list, at) ==
  IF ns = EmptyName THEN {}
  ELSE IF ~CarriesNamespace(ns, name)
    THEN {Problem("not in the namespace", list, at, <<>>)}
  ELSE When(NothingFollows(ns, name), Problem("only the prefix", list, at, <<>>))

(* checkName.  A duplicate is held to the namespace as well.               *)
NameProblems(names, name, list, at) ==
  IF name = EmptyName THEN {Problem("empty name", list, at, <<>>)}
  ELSE When(name \in names, Problem("duplicate name", list, at, <<>>))
         \union NamespaceProblems(ext.namespace, name, list, at)

(* The list a loop goes over.                                              *)
Elements == CASE pc = "nodeKind" -> ext.nodeKinds
              [] pc = "relationshipKind" -> ext.relationshipKinds
              [] pc = "environment" -> ext.environments
              [] OTHER -> <<>>

(* The elements of order that are in D, in that order.                     *)
InOrder(order, D) ==
  LET upTo[k \in 0..Len(order)] ==
        IF k = 0 THEN <<>>
        ELSE IF order[k] \in D THEN Append(upTo[k - 1], order[k])
        ELSE upTo[k - 1]
  IN  upTo[Len(order)]

(* Mutant: the sections are looked at in another order, as the iteration   *)
(* over a Go map may have it.                                              *)
UnsortedKeys(info) ==
  InOrder([k \in DOMAIN Keys |-> Keys[Len(Keys) + 1 - k]], DOMAIN info)

sortedKeys(info) == InOrder(Keys, DOMAIN info)

(* A kind's name and the number of its sections; the sections come next.   *)
CheckKind ==
  /\ pc \in {"nodeKind", "relationshipKind"}
  /\ keys = <<>>
  /\ i <= Len(Elements)
  /\ LET kind == Elements[i]
     IN  /\ Report(NameProblems(seen, kind.name, pc, i)
                     \union When(Cardinality(DOMAIN kind.info) > maxInfo,
                                 Problem("too many sections", pc, i, <<>>)))
         /\ seen' = seen \union ({kind.name} \ {EmptyName})
         /\ displayKinds' = displayKinds + (IF pc = "nodeKind" /\ kind.display THEN 1 ELSE 0)
         /\ keys' = sortedKeys(kind.info)
  /\ positions' = {}
  /\ i' = i + 1
  /\ UNCHANGED <<ext, pc>>

-----------------------------------------------------------------------------
(* validateInfo, one section: the next key, of the kind before index i.    *)
PositionProblems(taken, key, p, at) ==
  IF p < 0 THEN {Problem("negative position", pc, at, <<key>>)}
  ELSE {Problem("shared position", pc, at, <<q.key, key>>) : q \in {q \in taken : q.at = p}}

CheckSection ==
  /\ keys # <<>>
  /\ LET key == Head(keys)
         section == Elements[i - 1].info[key]
         free == section.position >= 0 /\ \A q \in positions : q.at # section.position
     IN  /\ Report(When(key \notin GoodKey, Problem("bad key", pc, i - 1, <<key>>))
                     \union When(section.title \in Blank,
                                 Problem("no title", pc, i - 1, <<key>>))
                     \union PositionProblems(positions, key, section.position, i - 1)
                     \union When(~section.parses,
                                 Problem("not a template", pc, i - 1, <<key>>)))
         /\ positions' = IF free THEN positions \union {[at |-> section.position, key |-> key]}
                                 ELSE positions
  /\ keys' = Tail(keys)
  /\ UNCHANGED <<ext, pc, i, kindVars>>

-----------------------------------------------------------------------------
declaredNodeKinds == {ext.nodeKinds[k].name : k \in DOMAIN ext.nodeKinds}

CheckEnvironment ==
  /\ pc = "environment"
  /\ i <= Len(Elements)
  /\ LET env == Elements[i]
     IN  Report((IF env.kind = EmptyName
                   THEN {Problem("empty environment kind", pc, i, <<>>)}
                   ELSE NamespaceProblems(ext.namespace, env.kind, pc, i))
                  \union When(env.principals = <<>>, Problem("no principals", pc, i, <<>>))
                  \union {Problem("undeclared principal", pc, i, <<k>>) :
                            k \in {k \in DOMAIN env.principals :
                                     env.principals[k] \notin declaredNodeKinds}})
  /\ i' = i + 1
  /\ UNCHANGED <<ext, pc, kindVars, keys, positions>>

(* Mutant: the next loop does not start at its first element.              *)
LoopOverKeepsIndex == keys = <<>> /\ i > Len(Elements) /\ i' = i

(* A loop is over.  After the node kinds, one of them must be displayed.   *)
LoopOver == keys = <<>> /\ i > Len(Elements) /\ i' = 1

NodeKindsDone ==
  /\ pc = "nodeKind"
  /\ LoopOver
  /\ pc' = "relationshipKind"
  /\ Report(When(ext.nodeKinds # <<>> /\ displayKinds = 0,
                 Problem("no display kind", "schema", 0, <<>>)))
  /\ UNCHANGED <<ext, kindVars, keys, positions>>

RelationshipKindsDone ==
  /\ pc = "relationshipKind"
  /\ LoopOver
  /\ pc' = "environment"
  /\ UNCHANGED <<ext, kindVars, keys, positions, problems>>

(* orNil: the call returns nil exactly when there are no problems.         *)
Return ==
  /\ pc = "environment"
  /\ LoopOver
  /\ pc' = "done"
  /\ UNCHANGED <<ext, kindVars, keys, positions, problems>>

Next ==
  \/ CheckSchema
  \/ CheckKind
  \/ CheckSection
  \/ NodeKindsDone
  \/ RelationshipKindsDone
  \/ CheckEnvironment
  \/ Return

Spec == Init /\ [][Next]_vars

-----------------------------------------------------------------------------
(* Properties.                                                             *)

(* The loop's bookkeeping: an index is within one of its list's end, the   *)
(* names seen are names of kinds, and the positions taken are taken once.  *)
TypeOK ==
  /\ pc \in {"schema", "nodeKind", "relationshipKind", "environment", "done"}
  /\ i \in 1..(Len(Elements) + 1)
  /\ seen \subseteq declaredNodeKinds
       \union {ext.relationshipKinds[k].name : k \in DOMAIN ext.relationshipKinds}
  /\ displayKinds \in 0..Len(ext.nodeKinds)
  /\ \A p, q \in positions : p.at = q.at => p = q

Kinds == ext.nodeKinds \o ext.relationshipKinds

(* Where the k-th of all kinds is declared.                                *)
ListOf(k) == IF k <= Len(ext.nodeKinds) THEN "nodeKind" ELSE "relationshipKind"
PlaceOf(k) == IF k <= Len(ext.nodeKinds) THEN k ELSE k - Len(ext.nodeKinds)

(* key before other, and the first of its kind at its position.            *)
Before(a, b) == \E m, n \in DOMAIN Keys : m < n /\ Keys[m] = a /\ Keys[n] = b

FirstAt(info, key) ==
  /\ info[key].position >= 0
  /\ \A other \in DOMAIN info :
       info[other].position = info[key].position => ~Before(other, key)

SectionFaults(info, list, at) ==
  {Problem("bad key", list, at, <<key>>) : key \in DOMAIN info \ GoodKey}
  \union {Problem("no title", list, at, <<key>>) :
            key \in {key \in DOMAIN info : info[key].title \in Blank}}
  \union {Problem("not a template", list, at, <<key>>) :
            key \in {key \in DOMAIN info : ~info[key].parses}}
  \union {Problem("negative position", list, at, <<key>>) :
            key \in {key \in DOMAIN info : info[key].position < 0}}
  \union {Problem("shared position", list, at, pair) :
            pair \in {p \in (DOMAIN info) \X (DOMAIN info) :
                        /\ FirstAt(info, p[1])
                        /\ info[p[1]].position = info[p[2]].position
                        /\ p[1] # p[2]}}
  \union When(Cardinality(DOMAIN info) > maxInfo, Problem("too many sections", list, at, <<>>))

NameFaults(name, list, at) ==
  IF ext.namespace = EmptyName \/ name = EmptyName THEN {}
  ELSE When(~CarriesNamespace(ext.namespace, name),
            Problem("not in the namespace", list, at, <<>>))
         \union When(\E b \in Blank : name = Append(ext.namespace, b),
                     Problem("only the prefix", list, at, <<>>))

KindFaults(k) ==
  NameFaults(Kinds[k].name, ListOf(k), PlaceOf(k))
    \union SectionFaults(Kinds[k].info, ListOf(k), PlaceOf(k))
    \union When(Kinds[k].name = EmptyName, Problem("empty name", ListOf(k), PlaceOf(k), <<>>))
    \union When(/\ Kinds[k].name # EmptyName
                /\ \E j \in 1..(k - 1) : Kinds[j].name = Kinds[k].name,
                Problem("duplicate name", ListOf(k), PlaceOf(k), <<>>))

EnvironmentFaults(k) ==
  LET env == ext.environments[k]
  IN  NameFaults(env.kind, "environment", k)
        \union When(env.kind = EmptyName, Problem("empty environment kind", "environment", k, <<>>))
        \union When(env.principals = <<>>, Problem("no principals", "environment", k, <<>>))
        \union {Problem("undeclared principal", "environment", k, <<m>>) :
                  m \in {m \in DOMAIN env.principals :
                           \A j \in DOMAIN ext.nodeKinds :
                             ext.nodeKinds[j].name # env.principals[m]}}

(* validate.go:11: Validate "collects everything wrong with a graph or a   *)
(* schema, rather than stopping at the first problem", nothing besides,    *)
(* and the same each time: which of two sections is told to share the      *)
(* other's position does not depend on the order of a Go map.  Names are   *)
(* looked for across node kinds and relationship kinds (validate.go:138).  *)
ReportsEveryProblem ==
  pc = "done" =>
    problems = SchemaProblems(ext)
                 \union When(/\ ext.nodeKinds # <<>>
                             /\ \A k \in DOMAIN ext.nodeKinds : ~ext.nodeKinds[k].display,
                             Problem("no display kind", "schema", 0, <<>>))
                 \union (UNION {KindFaults(k) : k \in DOMAIN Kinds})
                 \union (UNION {EnvironmentFaults(k) : k \in DOMAIN ext.environments})

(* The rules of BloodHound's install, as validate.go:101-106, 138 and      *)
(* 190-201 give them, read off the schema alone.  A name is the namespace, *)
(* an underscore and a rest that is not blank.                             *)
InNamespace(name) ==
  \E n \in 1..(Len(name) - 1) :
    /\ SubSeq(name, 1, n) = ext.namespace
    /\ n + 1 < Len(name) \/ name[n + 1] \notin Blank

SectionsAllowed(info) ==
  /\ Cardinality(DOMAIN info) <= maxInfo
  /\ \A a \in DOMAIN info :
       /\ a \in GoodKey
       /\ info[a].title \notin Blank
       /\ info[a].parses
       /\ info[a].position >= 0
       /\ \A b \in DOMAIN info : info[a].position = info[b].position => a = b

SchemaAllowed ==
  /\ ext.name # "" /\ ext.version # "" /\ ext.namespace # EmptyName
  /\ \E k \in DOMAIN ext.nodeKinds : ext.nodeKinds[k].display

KindAllowed(k) ==
  /\ InNamespace(Kinds[k].name)
  /\ \A j \in DOMAIN Kinds : Kinds[j].name = Kinds[k].name => j = k
  /\ SectionsAllowed(Kinds[k].info)

EnvironmentAllowed(env) ==
  /\ InNamespace(env.kind)
  /\ env.principals # <<>>
  /\ \A m \in DOMAIN env.principals : env.principals[m] \in declaredNodeKinds

(* Validate accepts a schema exactly when it meets the rules of the        *)
(* install: none of a schema that breaks one, none too strictly.  Rules    *)
(* Validate does not check (which functions a template calls, what HTML    *)
(* Markdown holds, validate.go:203-207) are not among them: a schema       *)
(* accepted here may still be refused for those.                           *)
AcceptsByTheRules ==
  pc = "done" =>
    (problems = {} <=>
       /\ SchemaAllowed
       /\ \A k \in DOMAIN Kinds : KindAllowed(k)
       /\ \A k \in DOMAIN ext.environments : EnvironmentAllowed(ext.environments[k]))
=============================================================================
