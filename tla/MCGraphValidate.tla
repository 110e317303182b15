-------------------------- MODULE MCGraphValidate --------------------------
(* A small graph: ids that differ in case only, the empty id, kinds that   *)
(* are empty, declared and not, and endpoints that match by id, spelled    *)
(* out or not, and by name.                                                *)
EXTENDS GraphValidate

MCIds == {"", "a", "A", "b", "B"}

MCUpper == [s \in MCIds |-> CASE s = "a" -> "A" [] s = "b" -> "B" [] OTHER -> s]

User(id) == [id |-> id, kinds |-> <<"User">>]

MCNodeChoice ==
  {User("a"), User("A"), User("b"), User(""),
   [id |-> "a", kinds |-> <<>>],
   [id |-> "b", kinds |-> <<"User", "", "Typo">>]}

ByID == [value |-> "a", by |-> "id"]
Bare == [value |-> "A", by |-> ""]
ByName == [value |-> "a", by |-> "name"]
Nothing == [value |-> "", by |-> ""]

MCEdgeChoice ==
  {[kind |-> "Owns", start |-> s, end |-> e] : s \in {ByID, Bare}, e \in {Bare, ByName}}
    \union {[kind |-> "Typo", start |-> ByName, end |-> Nothing],
            [kind |-> "", start |-> Nothing, end |-> ByID]}
=============================================================================
