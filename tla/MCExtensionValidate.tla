------------------------ MODULE MCExtensionValidate ------------------------
(* Small schemas: a namespace, one that ends in an underscore, and none;   *)
(* names in it, outside it, empty, and with nothing after the prefix;      *)
(* sections that share a position, one twice over, and faulty ones.        *)
EXTENDS ExtensionValidate

MCKeys == <<"B", "a", "b">>

Section(p) == [title |-> "t", position |-> p, parses |-> TRUE]
NoInfo == [key \in {} |-> Section(0)]
Crowded == [key \in {"B", "a", "b"} |-> Section(1)]
Faulty == [key \in {"a", "b"} |->
             IF key = "a" THEN [Section(-1) EXCEPT !.title = " "]
                          ELSE [Section(-1) EXCEPT !.parses = FALSE]]
Sound == [key \in {"a", "b"} |-> Section(IF key = "a" THEN 1 ELSE 0)]

Kind(name, display, info) == [name |-> name, display |-> display, info |-> info]

NodeKindChoice ==
  {Kind(<<"X", "User">>, TRUE, Sound),
   Kind(<<"X", "User">>, FALSE, Faulty),
   Kind(<<"X", "", "User">>, FALSE, NoInfo),
   Kind(<<"">>, TRUE, Crowded),
   Kind(<<"X", " ">>, FALSE, NoInfo)}

RelationshipKindChoice ==
  {Kind(<<"X", "User">>, FALSE, Sound),
   Kind(<<"X", "Owns">>, FALSE, Crowded),
   Kind(<<"Y", "Owns">>, FALSE, NoInfo)}

EnvironmentChoice ==
  {[kind |-> <<"X", "Tenant">>, principals |-> <<<<"X", "User">>>>],
   [kind |-> <<"X", "">>, principals |-> <<>>],
   [kind |-> <<"">>, principals |-> <<<<"X", "User">>, <<"X", "Owns">>>>]}

UpTo(n, S) == UNION {[1..m -> S] : m \in 0..n}

MCExtensionChoice ==
  [name : {"n"}, version : {"v"},
   namespace : {<<"X">>, <<"X", "">>, <<"">>},
   nodeKinds : UpTo(2, NodeKindChoice),
   relationshipKinds : UpTo(2, RelationshipKindChoice),
   environments : UpTo(1, EnvironmentChoice)]
  \union
  [name : {""}, version : {"", "v"}, namespace : {<<"">>},
   nodeKinds : UpTo(1, NodeKindChoice), relationshipKinds : {<<>>}, environments : {<<>>}]
=============================================================================
