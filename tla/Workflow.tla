------------------------------ MODULE Workflow ------------------------------
(***************************************************************************)
(* The program examples/with-extension: install a schema, validate and     *)
(* ingest a graph, wait until a node of it can be queried, and then ask    *)
(* three shortest paths that are to tell whether the schema took effect.   *)
(*                                                                         *)
(* Client.Ingest is here by what it promises, IngestJob, which Ingest is   *)
(* shown to implement.  BloodHound is external: it may make of a schema    *)
(* something else than it declares, processes a graph in stages some time  *)
(* after the job has ended, and has a feature flag that is toggled.        *)
(***************************************************************************)
EXTENDS Integers, Sequences

CONSTANTS
  MaxPolls,   (* bound: queries before waitForNode's five minutes are over *)
  MaxToggles  (* bound: how often the flag is toggled                      *)

ASSUME WorkflowAssumption == MaxPolls \in Nat \ {0} /\ MaxToggles \in Nat

VARIABLES
  pc,       (* where run is; it has returned at "done" and at "failed"     *)
  polls,    (* queries waitForNode has made                                *)
  reports,  (* what was printed for each check so far                      *)
  effect,   (* IngestJob's, of the one call of Ingest                      *)
  told,
  flag,     (* whether opengraph_extension_management is on                *)
  toggles,  (* how often it was toggled                                    *)
  walkable, (* the kinds the server takes for traversable                  *)
  visible   (* how much of the graph queries see                           *)

programVars == <<pc, polls, reports>>
jobVars == <<effect, told>>
serverVars == <<flag, toggles, walkable, visible>>
vars == <<programVars, jobVars, serverVars>>

Job == INSTANCE IngestJob WITH Caller <- {"run"}

-----------------------------------------------------------------------------
(* schema: its relationship kinds.                                         *)
schema ==
  {[name |-> "EX_MemberOf", isTraversable |-> TRUE],
   [name |-> "EX_CanWrite", isTraversable |-> TRUE],
   [name |-> "EX_Watches", isTraversable |-> FALSE]}

Kinds == {rk.name : rk \in schema}
TraversableKinds == {rk.name : rk \in {rk \in schema : rk.isTraversable}}

(* graph: its edges.                                                       *)
Edge(kind, start, end) == [kind |-> kind, start |-> start, end |-> end]

Edges == {Edge("EX_MemberOf", "alice", "platform"),
          Edge("EX_CanWrite", "platform", "infra"),
          Edge("EX_Watches", "alice", "secret")}

Check(end, onlyTraversable, wantPath) ==
  [start |-> "alice", end |-> end,
   onlyTraversable |-> onlyTraversable, wantPath |-> wantPath]

(* Mutant: the control query comes second, not last.                       *)
ControlSecond ==
  <<Check("infra", TRUE, TRUE), Check("secret", FALSE, TRUE),
    Check("secret", TRUE, FALSE)>>

checks ==
  <<Check("infra", TRUE, TRUE), Check("secret", TRUE, FALSE),
    Check("secret", FALSE, TRUE)>>

(* Stages of processing.  An earlier run may have left the same graph.     *)
Stages == <<"nothing", "alice", "nodes", "edges">>
Stage(s) == CHOOSE i \in DOMAIN Stages : Stages[i] = s
Reached(s) == Stage(visible) >= Stage(s)

Init ==
  /\ pc = "install"
  /\ polls = 0
  /\ reports = <<>>
  /\ Job!Init
  /\ flag \in BOOLEAN
  /\ toggles = 0
  /\ walkable \in SUBSET Kinds
  /\ visible \in {"nothing", "edges"}

-----------------------------------------------------------------------------
(* InstallExtension, on an instance that routes it.  The answer may be an  *)
(* error all the same.                                                     *)
InstallExtension(kinds, ok) ==
  /\ pc = "install"
  /\ flag
  /\ walkable' = kinds
  /\ pc' = IF ok THEN "validate" ELSE "failed"
  /\ UNCHANGED <<polls, reports, jobVars, flag, toggles, visible>>

(* No credentials, a 404 with the flag off, or any failure before the      *)
(* request is served.                                                      *)
InstallFails ==
  /\ pc = "install"
  /\ pc' = "failed"
  /\ UNCHANGED <<polls, reports, jobVars, serverVars>>

(* ValidateAgainst accepts this graph, whose kinds the schema declares.    *)
ValidateAgainst ==
  /\ pc = "validate"
  /\ {e.kind : e \in Edges} \subseteq Kinds
  /\ pc' = "ingest"
  /\ UNCHANGED <<polls, reports, jobVars, serverVars>>

(* Ingest is under way, or its requests are still being served after it    *)
(* has returned an error.  This caller never ends a failed job itself.     *)
IngestProceeds ==
  /\ pc \in {"ingest", "failed"}
  /\ pc = "ingest" \/ told["run"] # "running"
  /\ Job!Open("run") \/ Job!Load("run") \/ Job!Ingest("run")
  /\ UNCHANGED <<programVars, serverVars>>

IngestReturns ==
  /\ pc = "ingest"
  /\ Job!Succeed("run") \/ Job!Fail("run") \/ Job!FailWithoutJob("run")
  /\ pc' = IF told'["run"] = "ok" THEN "wait" ELSE "failed"
  /\ UNCHANGED <<polls, reports, serverVars>>

(* waitForNode sleeps and asks.  A query that fails is one that has not    *)
(* found the node yet.                                                     *)
Poll(answered) ==
  /\ pc = "wait"
  /\ polls < MaxPolls
  /\ polls' = polls + 1
  /\ pc' = IF answered /\ Reached("alice") THEN "check" ELSE "wait"
  /\ UNCHANGED <<reports, jobVars, serverVars>>

(* Mutant: there is no deadline, only the node ends the wait.              *)
WaitsOn ==
  /\ pc = "wait"
  /\ polls = MaxPolls
  /\ Reached("alice")
  /\ pc' = "check"
  /\ UNCHANGED <<polls, reports, jobVars, serverVars>>

DeadlinePasses ==
  /\ pc = "wait"
  /\ polls = MaxPolls
  /\ pc' = "failed"
  /\ UNCHANGED <<polls, reports, jobVars, serverVars>>

(* BloodHound's search: edges of an installed schema count with the flag   *)
(* on, and among them, if asked for, the traversable ones.                 *)
Followed(ch) ==
  {e \in Edges : /\ flag
                 /\ Reached("edges")
                 /\ ch.onlyTraversable => e.kind \in walkable}

Connects(es, start, end) ==
  \/ \E e \in es : e.start = start /\ e.end = end
  \/ \E d, e \in es : d.start = start /\ d.end = e.start /\ e.end = end

(* hasPath: a 404 is no path, as is an answer without nodes; a query that  *)
(* fails, as one that names an unknown node does, finds none either.  The  *)
(* code tells the 404 by its error's text, and takes any that has "404" in *)
(* it; found is FALSE either way, and only the detail printed differs.     *)
hasPath(ch, answered) ==
  [found    |-> answered /\ Connects(Followed(ch), ch.start, ch.end),
   answered |-> answered]

RunCheck(answered) ==
  /\ pc = "check"
  /\ answered => Reached("nodes")
  /\ LET ch == checks[Len(reports) + 1]
         path == hasPath(ch, answered)
     IN  reports' = Append(reports,
           [status |-> IF path.found = ch.wantPath THEN "OK" ELSE "BAD",
            answered |-> path.answered, toggles |-> toggles])
  /\ pc' = IF Len(reports') = Len(checks) THEN "done" ELSE "check"
  /\ UNCHANGED <<polls, jobVars, serverVars>>

-----------------------------------------------------------------------------
(* An operator toggles the flag, and BloodHound processes an ended job.    *)
Toggle ==
  /\ toggles < MaxToggles
  /\ toggles' = toggles + 1
  /\ flag' = ~flag
  /\ UNCHANGED <<programVars, jobVars, walkable, visible>>

Process ==
  /\ effect["run"] = "ingested"
  /\ Stage(visible) < Len(Stages)
  /\ visible' = Stages[Stage(visible) + 1]
  /\ UNCHANGED <<programVars, jobVars, flag, toggles, walkable>>

Program ==
  \/ \E kinds \in SUBSET Kinds, ok \in BOOLEAN : InstallExtension(kinds, ok)
  \/ InstallFails
  \/ ValidateAgainst
  \/ IngestReturns
  \/ \E answered \in BOOLEAN : Poll(answered)
  \/ DeadlinePasses
  \/ \E answered \in BOOLEAN : RunCheck(answered)

Next == Program \/ IngestProceeds \/ Toggle \/ Process

(* The program runs, and each of its calls returns: Ingest's calls do, and *)
(* those of ClientCalls, with the timeout New sets.                        *)
Fairness == WF_vars(Program)

Spec == Init /\ [][Next]_vars /\ Fairness

-----------------------------------------------------------------------------
AllOk == Len(reports) = 3 /\ \A i \in 1..3 : reports[i].status = "OK"

TookEffect == walkable = TraversableKinds

(* main.go:5: three answered checks that come out OK do prove that the     *)
(* schema took effect, although nodes appear before edges, the graph may   *)
(* be an earlier run's, and a flag that is off looks like no path: the two *)
(* that find a path bracket the one that finds none.  Only a flag toggled  *)
(* off and on again between them goes unseen.                              *)
AnsweredOksMeanTookEffect ==
  /\ AllOk
  /\ \A i \in 1..3 : reports[i].answered
  /\ reports[3].toggles - reports[1].toggles < 2
  => TookEffect

(* main.go:7: "The three pathfinding queries at the end are what tells     *)
(* them apart", a kind declared traversable and one that is.               *)
OksMeanTookEffect ==
  AllOk /\ reports[3].toggles = reports[1].toggles => TookEffect

(* main.go:130, :191: whatever the server does, the program ends.          *)
Terminates == <>(pc \in {"done", "failed"})
=============================================================================
