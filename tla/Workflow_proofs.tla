-------------------------- MODULE Workflow_proofs --------------------------
(***************************************************************************)
(* Proofs about Workflow, for every deadline and however often the flag is *)
(* toggled.                                                                *)
(***************************************************************************)
EXTENDS Workflow, SequenceTheorems, TLAPS

-----------------------------------------------------------------------------
(***************************************************************************)
(* What the schema declares, what a graph's stages are, and which paths    *)
(* there are in the graph.                                                 *)
(***************************************************************************)
LEMMA KindsAre ==
  /\ Kinds = {"EX_MemberOf", "EX_CanWrite", "EX_Watches"}
  /\ TraversableKinds = {"EX_MemberOf", "EX_CanWrite"}
<1> DEFINE m == [name |-> "EX_MemberOf", isTraversable |-> TRUE]
           w == [name |-> "EX_CanWrite", isTraversable |-> TRUE]
           s == [name |-> "EX_Watches", isTraversable |-> FALSE]
<1>1. schema = {m, w, s}
  BY DEF schema
<1>2. /\ m.name = "EX_MemberOf" /\ m.isTraversable
      /\ w.name = "EX_CanWrite" /\ w.isTraversable
      /\ s.name = "EX_Watches" /\ ~s.isTraversable
  OBVIOUS
<1> HIDE DEF m, w, s
<1>3. Kinds = {"EX_MemberOf", "EX_CanWrite", "EX_Watches"}
  BY <1>1, <1>2 DEF Kinds
<1>4. {rk \in schema : rk.isTraversable} = {m, w}
  BY <1>1, <1>2
<1>5. TraversableKinds = {"EX_MemberOf", "EX_CanWrite"}
  BY <1>2, <1>4 DEF TraversableKinds
<1> QED
  BY <1>3, <1>5

AllStages == {"nothing", "alice", "nodes", "edges"}

LEMMA StagesAre ==
  /\ Stage("nothing") = 1 /\ Stage("alice") = 2 /\ Stage("nodes") = 3 /\ Stage("edges") = 4
  /\ Len(Stages) = 4
  /\ Stages[1] = "nothing" /\ Stages[2] = "alice" /\ Stages[3] = "nodes" /\ Stages[4] = "edges"
<1>1. DOMAIN Stages = 1..4 /\ Len(Stages) = 4
  BY DEF Stages
<1>2. Stages[1] = "nothing" /\ Stages[2] = "alice" /\ Stages[3] = "nodes" /\ Stages[4] = "edges"
  BY DEF Stages
<1>3. \A k \in 1..4 : k = 1 \/ k = 2 \/ k = 3 \/ k = 4
  OBVIOUS
<1>4. 1 \in 1..4 /\ 2 \in 1..4 /\ 3 \in 1..4 /\ 4 \in 1..4
  OBVIOUS
<1>5. Stage("nothing") = 1
  BY <1>1, <1>2, <1>3, <1>4 DEF Stage
<1>6. Stage("alice") = 2
  BY <1>1, <1>2, <1>3, <1>4 DEF Stage
<1>7. Stage("nodes") = 3
  BY <1>1, <1>2, <1>3, <1>4 DEF Stage
<1>8. Stage("edges") = 4
  BY <1>1, <1>2, <1>3, <1>4 DEF Stage
<1> QED
  BY <1>1, <1>2, <1>5, <1>6, <1>7, <1>8

LEMMA EdgesReached ==
  ASSUME visible \in AllStages
  PROVE  Reached("edges") <=> visible = "edges"
BY StagesAre DEF AllStages, Reached

(* The one path to infra takes two kinds, the one to secret the third.     *)
LEMMA PathsAre ==
  ASSUME visible \in AllStages, NEW ch
  PROVE  /\ Connects(Followed(ch), "alice", "infra") =>
              /\ flag /\ visible = "edges"
              /\ ch.onlyTraversable => "EX_MemberOf" \in walkable /\ "EX_CanWrite" \in walkable
         /\ Connects(Followed(ch), "alice", "secret") <=>
              /\ flag /\ visible = "edges"
              /\ ch.onlyTraversable => "EX_Watches" \in walkable
<1> DEFINE m == Edge("EX_MemberOf", "alice", "platform")
           w == Edge("EX_CanWrite", "platform", "infra")
           s == Edge("EX_Watches", "alice", "secret")
           F == Followed(ch)
<1>1. /\ m.kind = "EX_MemberOf" /\ m.start = "alice" /\ m.end = "platform"
      /\ w.kind = "EX_CanWrite" /\ w.start = "platform" /\ w.end = "infra"
      /\ s.kind = "EX_Watches" /\ s.start = "alice" /\ s.end = "secret"
  BY DEF Edge
<1>2. Edges = {m, w, s}
  BY DEF Edges
<1> HIDE DEF m, w, s
<1>3. \A e : e \in F <=> /\ e \in {m, w, s} /\ flag /\ visible = "edges"
                         /\ ch.onlyTraversable => e.kind \in walkable
  BY <1>2, EdgesReached DEF Followed
<1> HIDE DEF F
<1>4. Connects(F, "alice", "infra") => m \in F /\ w \in F
  BY <1>1, <1>3 DEF Connects
<1>5. Connects(F, "alice", "secret") <=> s \in F
  BY <1>1, <1>3 DEF Connects
<1> QED
  BY <1>1, <1>3, <1>4, <1>5 DEF F

-----------------------------------------------------------------------------
(***************************************************************************)
(* The inductive invariant.  That three answered checks came out OK says   *)
(* how the flag stood when each was made, but it is over then: the         *)
(* invariant keeps what it says of walkable, and of how often the flag has *)
(* been toggled since.                                                     *)
(***************************************************************************)
Report == [status : {"OK", "BAD"}, answered : BOOLEAN, toggles : Nat]

Typed ==
  /\ pc \in {"install", "validate", "ingest", "wait", "check", "done", "failed"}
  /\ reports \in Seq(Report)
  /\ flag \in BOOLEAN
  /\ toggles \in Nat
  /\ walkable \subseteq Kinds
  /\ visible \in AllStages

Progress ==
  /\ pc \notin {"check", "done"} => Len(reports) = 0
  /\ pc = "check" => Len(reports) < 3
  /\ \A j \in 1..Len(reports) : reports[j].toggles <= toggles

(* The j-th check was made, was answered and came out OK.                  *)
Ok(j) == j <= Len(reports) /\ reports[j].answered /\ reports[j].status = "OK"

(* The path to infra was found, so the flag was on.                        *)
First ==
  Ok(1) =>
    /\ "EX_MemberOf" \in walkable /\ "EX_CanWrite" \in walkable
    /\ visible = "edges"
    /\ toggles = reports[1].toggles => flag
    /\ toggles = reports[1].toggles + 1 => ~flag

(* No path to secret was, although it would have been with the flag on.    *)
Second ==
  Ok(1) /\ Ok(2) =>
    /\ reports[1].toggles <= reports[2].toggles
    /\ reports[2].toggles = reports[1].toggles => "EX_Watches" \notin walkable

(* It was then, with all kinds followed, so the flag was on once more.     *)
Third ==
  Ok(1) /\ Ok(2) /\ Ok(3) =>
    /\ reports[2].toggles <= reports[3].toggles
    /\ reports[3].toggles # reports[1].toggles + 1

IInv == Typed /\ Progress /\ First /\ Second /\ Third

-----------------------------------------------------------------------------
(***************************************************************************)
(* Every step preserves the invariant.                                     *)
(***************************************************************************)
LEMMA InitIInv ==
  ASSUME Init
  PROVE  IInv
<1>1. /\ pc = "install" /\ reports = <<>> /\ flag \in BOOLEAN /\ toggles = 0
      /\ walkable \subseteq Kinds /\ visible \in AllStages
  BY DEF Init, AllStages
<1>2. Len(reports) = 0 /\ reports \in Seq(Report)
  BY <1>1, EmptySeq
<1>3. \A j \in {1, 2, 3} : ~Ok(j)
  BY <1>2 DEF Ok
<1> QED
  BY <1>1, <1>2, <1>3 DEF IInv, Typed, Progress, First, Second, Third

(* A step that makes no check, where none was made or the server stays.    *)
LEMMA NoCheckKeeps ==
  ASSUME IInv, Typed', Progress', reports' = reports, flag' = flag, toggles' = toggles,
         Len(reports) = 0 \/ (walkable' = walkable /\ visible' = visible)
  PROVE  IInv'
<1>1. \A j \in {1, 2, 3} : Ok(j)' <=> Ok(j)
  BY DEF Ok
<1>2. CASE Len(reports) = 0
  <2>1. \A j \in {1, 2, 3} : ~Ok(j)
    BY <1>2 DEF Ok
  <2> QED
    BY <1>1, <2>1 DEF IInv, First, Second, Third
<1>3. CASE walkable' = walkable /\ visible' = visible
  BY <1>1, <1>3 DEF IInv, First, Second, Third
<1> QED
  BY <1>2, <1>3

LEMMA ProgramKeeps ==
  ASSUME IInv,
         \/ \E kinds \in SUBSET Kinds, ok \in BOOLEAN : InstallExtension(kinds, ok)
         \/ InstallFails
         \/ ValidateAgainst
         \/ IngestReturns
         \/ \E answered \in BOOLEAN : Poll(answered)
         \/ DeadlinePasses
         \/ IngestProceeds
  PROVE  IInv'
<1>1. /\ reports' = reports /\ flag' = flag /\ toggles' = toggles /\ visible' = visible
      /\ walkable' \subseteq Kinds
      /\ walkable' = walkable \/ pc = "install"
  BY DEF IInv, Typed, InstallExtension, InstallFails, ValidateAgainst, IngestReturns, Poll,
         DeadlinePasses, IngestProceeds, programVars, serverVars
<1>2. /\ pc' \in {"validate", "ingest", "wait", "check", "failed"} \/ pc' = pc
      /\ pc # "check" /\ pc # "done"
  BY DEF InstallExtension, InstallFails, ValidateAgainst, IngestReturns, Poll,
         DeadlinePasses, IngestProceeds, programVars
<1>3. Len(reports) = 0
  BY <1>2 DEF IInv, Progress
<1>4. Typed'
  BY <1>1, <1>2 DEF IInv, Typed
<1>5. Progress'
  BY <1>1, <1>3 DEF IInv, Progress
<1> QED
  BY <1>1, <1>3, <1>4, <1>5, NoCheckKeeps

LEMMA ToggleKeeps ==
  ASSUME IInv, Toggle
  PROVE  IInv'
<1>1. /\ toggles' = toggles + 1 /\ flag' = ~flag
      /\ pc' = pc /\ reports' = reports /\ walkable' = walkable /\ visible' = visible
  BY DEF Toggle, programVars
<1>2. /\ toggles \in Nat /\ flag \in BOOLEAN
      /\ reports \in Seq(Report) /\ Len(reports) \in Nat
      /\ \A j \in 1..Len(reports) : reports[j].toggles \in Nat /\ reports[j].toggles <= toggles
  <2>1. \A j \in 1..Len(reports) : reports[j] \in Report
    BY ElementOfSeq DEF IInv, Typed
  <2> QED
    BY <2>1, LenProperties DEF IInv, Typed, Progress, Report
<1>3. Typed' /\ Progress'
  <2>1. toggles' \in Nat /\ flag' \in BOOLEAN
    BY <1>1, <1>2
  <2>2. Typed'
    BY <1>1, <2>1 DEF IInv, Typed
  <2>3. \A j \in 1..Len(reports) : reports[j].toggles <= toggles + 1
    BY <1>2
  <2>4. Progress'
    BY <1>1, <2>3 DEF IInv, Progress
  <2> QED
    BY <2>2, <2>4
<1>4. \A j \in {1, 2, 3} : Ok(j)' <=> Ok(j)
  BY <1>1 DEF Ok
<1>5. First'
  <2> SUFFICES ASSUME Ok(1)
               PROVE  /\ "EX_MemberOf" \in walkable /\ "EX_CanWrite" \in walkable
                      /\ visible = "edges"
                      /\ toggles + 1 = reports[1].toggles => flag'
                      /\ toggles + 1 = reports[1].toggles + 1 => ~flag'
    BY <1>1, <1>4 DEF First
  <2>1. reports[1].toggles \in Nat /\ reports[1].toggles <= toggles
    BY <1>2 DEF Ok
  <2>2. toggles + 1 # reports[1].toggles
    BY <1>2, <2>1
  <2>3. toggles + 1 = reports[1].toggles + 1 => toggles = reports[1].toggles
    BY <1>2, <2>1
  <2> QED
    BY <1>1, <2>2, <2>3 DEF IInv, First
<1>6. Second' /\ Third'
  BY <1>1, <1>4 DEF IInv, Second, Third
<1> QED
  BY <1>3, <1>5, <1>6 DEF IInv

LEMMA ProcessKeeps ==
  ASSUME IInv, Process
  PROVE  IInv'
<1>1. /\ Stage(visible) < Len(Stages) /\ visible' = Stages[Stage(visible) + 1]
      /\ pc' = pc /\ reports' = reports /\ walkable' = walkable
      /\ flag' = flag /\ toggles' = toggles
  BY DEF Process, programVars
<1>2. visible \in AllStages
  BY DEF IInv, Typed
<1>3. visible' \in AllStages /\ visible # "edges"
  <2>1. visible # "edges"
    BY <1>1, StagesAre
  <2>2. CASE visible = "nothing"
    BY <1>1, <2>2, StagesAre DEF AllStages
  <2>3. CASE visible = "alice"
    BY <1>1, <2>3, StagesAre DEF AllStages
  <2>4. CASE visible = "nodes"
    BY <1>1, <2>4, StagesAre DEF AllStages
  <2> QED
    BY <1>2, <2>1, <2>2, <2>3, <2>4 DEF AllStages
<1>4. Typed' /\ Progress'
  BY <1>1, <1>3 DEF IInv, Typed, Progress
<1>5. ~Ok(1) /\ ~Ok(1)'
  <2>1. ~Ok(1)
    BY <1>3 DEF IInv, First
  <2> QED
    BY <1>1, <2>1 DEF Ok
<1> QED
  BY <1>4, <1>5 DEF IInv, First, Second, Third

(* What a check that is answered and comes out OK tells, by which it is.   *)
LEMMA CheckTells ==
  ASSUME visible \in AllStages, NEW n \in {0, 1, 2},
         LET path == hasPath(checks[n + 1], TRUE)
         IN  path.found = checks[n + 1].wantPath
  PROVE  /\ n = 0 => /\ flag /\ visible = "edges"
                     /\ "EX_MemberOf" \in walkable /\ "EX_CanWrite" \in walkable
         /\ n = 1 => ~(flag /\ visible = "edges" /\ "EX_Watches" \in walkable)
         /\ n = 2 => flag
<1> DEFINE ch == checks[n + 1]
<1>1. hasPath(ch, TRUE).found <=> Connects(Followed(ch), ch.start, ch.end)
  BY DEF hasPath
<1>2. CASE n = 0
  <2>1. ch = Check("infra", TRUE, TRUE)
    BY <1>2 DEF checks
  <2>2. ch.start = "alice" /\ ch.end = "infra" /\ ch.onlyTraversable /\ ch.wantPath
    BY <2>1 DEF Check
  <2> HIDE DEF ch
  <2>3. Connects(Followed(ch), "alice", "infra")
    BY <1>1, <2>2 DEF ch
  <2> QED
    BY <1>2, <2>2, <2>3, PathsAre
<1>3. CASE n = 1
  <2>1. ch = Check("secret", TRUE, FALSE)
    BY <1>3 DEF checks
  <2>2. ch.start = "alice" /\ ch.end = "secret" /\ ch.onlyTraversable /\ ~ch.wantPath
    BY <2>1 DEF Check
  <2> HIDE DEF ch
  <2>3. ~Connects(Followed(ch), "alice", "secret")
    BY <1>1, <2>2 DEF ch
  <2> QED
    BY <1>3, <2>2, <2>3, PathsAre
<1>4. CASE n = 2
  <2>1. ch = Check("secret", FALSE, TRUE)
    BY <1>4 DEF checks
  <2>2. ch.start = "alice" /\ ch.end = "secret" /\ ch.wantPath
    BY <2>1 DEF Check
  <2> HIDE DEF ch
  <2>3. Connects(Followed(ch), "alice", "secret")
    BY <1>1, <2>2 DEF ch
  <2> QED
    BY <1>4, <2>2, <2>3, PathsAre
<1> QED
  BY <1>2, <1>3, <1>4

LEMMA RunCheckKeeps ==
  ASSUME IInv, NEW answered \in BOOLEAN, RunCheck(answered)
  PROVE  IInv'
<1> DEFINE n == Len(reports)
           path == hasPath(checks[n + 1], answered)
           r == [status |-> IF path.found = checks[n + 1].wantPath THEN "OK" ELSE "BAD",
                 answered |-> path.answered, toggles |-> toggles]
<1>1. /\ pc = "check" /\ reports' = Append(reports, r)
      /\ pc' = IF Len(reports') = Len(checks) THEN "done" ELSE "check"
      /\ flag' = flag /\ toggles' = toggles /\ walkable' = walkable /\ visible' = visible
  BY DEF RunCheck, serverVars
<1>2. r.answered = answered /\ r.toggles = toggles /\ r.status \in {"OK", "BAD"}
  BY DEF hasPath
<1>3. Typed /\ reports \in Seq(Report) /\ n \in Nat /\ n < 3 /\ toggles \in Nat
  BY <1>1, LenProperties DEF IInv, Typed, Progress
<1>4. n \in {0, 1, 2}
  <2> HIDE DEF n, r
  <2>1. n \in Nat /\ n < 3
    BY <1>3
  <2> QED
    BY <2>1
<1>5. r \in Report
  BY <1>2, <1>3 DEF Report
<1>6. ASSUME r.answered, r.status = "OK"
      PROVE  /\ n = 0 => /\ flag /\ visible = "edges"
                         /\ "EX_MemberOf" \in walkable /\ "EX_CanWrite" \in walkable
             /\ n = 1 => ~(flag /\ visible = "edges" /\ "EX_Watches" \in walkable)
             /\ n = 2 => flag
  <2>1. answered = TRUE
    BY <1>2, <1>6
  <2>2. path.found = checks[n + 1].wantPath
    BY <1>6
  <2> HIDE DEF n
  <2>3. hasPath(checks[n + 1], TRUE).found = checks[n + 1].wantPath
    BY <2>1, <2>2
  <2> QED
    BY <1>3, <1>4, <2>3, CheckTells DEF Typed
<1> HIDE DEF r, n
<1>7. /\ reports' \in Seq(Report) /\ Len(reports') = n + 1 /\ reports'[n + 1] = r
      /\ \A j \in 1..n : reports'[j] = reports[j]
  BY <1>1, <1>3, <1>5, AppendProperties DEF n
<1>8. Len(checks) = 3
  BY DEF checks
<1>9. Typed'
  BY <1>1, <1>3, <1>7 DEF Typed
<1>10. Progress'
  <2>1. \A j \in 1..(n + 1) : j \in 1..n \/ j = n + 1
    BY <1>3
  <2>2. \A j \in 1..n : reports[j].toggles <= toggles
    BY DEF IInv, Progress, n
  <2>3. \A j \in 1..(n + 1) : reports'[j].toggles <= toggles
    BY <1>2, <1>3, <1>7, <2>1, <2>2
  <2>4. pc' = "check" => n + 1 < 3
    BY <1>1, <1>3, <1>7, <1>8
  <2>5. pc' \in {"check", "done"}
    BY <1>1
  <2> QED
    BY <1>1, <1>7, <2>3, <2>4, <2>5 DEF Progress
<1>11. ASSUME NEW j \in {1, 2, 3}
       PROVE  /\ j <= n => reports'[j] = reports[j] /\ (Ok(j)' <=> Ok(j))
              /\ j = n + 1 =>
                   /\ reports'[j] = r
                   /\ Ok(j)' <=> r.answered /\ r.status = "OK"
              /\ j > n + 1 => ~Ok(j)'
  <2>1. Ok(j)' <=> j <= n + 1 /\ reports'[j].answered /\ reports'[j].status = "OK"
    BY <1>7 DEF Ok
  <2>2. Ok(j) <=> j <= n /\ reports[j].answered /\ reports[j].status = "OK"
    BY DEF Ok, n
  <2>3. CASE j <= n
    <3>1. j \in 1..n /\ j <= n + 1 /\ j # n + 1 /\ ~(j > n + 1)
      BY <1>3, <2>3
    <3>2. reports'[j] = reports[j]
      BY <1>7, <3>1
    <3> QED
      BY <2>1, <2>2, <2>3, <3>1, <3>2
  <2>4. CASE j = n + 1
    <3>1. ~(j <= n) /\ j <= n + 1 /\ ~(j > n + 1)
      BY <1>3, <2>4
    <3>2. reports'[j] = r
      BY <1>7, <2>4
    <3> QED
      BY <2>1, <2>4, <3>1, <3>2
  <2>5. CASE j > n + 1
    <3>1. ~(j <= n) /\ ~(j <= n + 1) /\ j # n + 1
      BY <1>3, <2>5
    <3> QED
      BY <2>1, <3>1
  <2> QED
    BY <1>3, <2>3, <2>4, <2>5
<1>12. CASE n = 0
  <2>1. reports'[1] = r /\ (Ok(1)' => r.answered /\ r.status = "OK") /\ ~Ok(2)' /\ ~Ok(3)'
    BY <1>11, <1>12
  <2>2. toggles # toggles + 1
    BY <1>3
  <2>3. First'
    BY <1>1, <1>2, <1>6, <1>12, <2>1, <2>2 DEF First
  <2>4. Second' /\ Third'
    BY <2>1 DEF Second, Third
  <2> QED
    BY <1>9, <1>10, <2>3, <2>4 DEF IInv
<1>13. CASE n = 1
  <2>1. /\ reports'[1] = reports[1] /\ (Ok(1)' <=> Ok(1)) /\ reports'[2] = r
        /\ (Ok(2)' => r.answered /\ r.status = "OK") /\ ~Ok(3)'
    BY <1>11, <1>13
  <2>2. First'
    BY <1>1, <2>1 DEF IInv, First
  <2>3. ASSUME Ok(1)', Ok(2)'
        PROVE  /\ reports'[1].toggles <= reports'[2].toggles
               /\ reports'[2].toggles = reports'[1].toggles => "EX_Watches" \notin walkable'
    <3>1. Ok(1) /\ r.answered /\ r.status = "OK" /\ reports'[1] = reports[1] /\ reports'[2] = r
      BY <2>3, <2>1
    <3>2. reports[1].toggles <= toggles
      BY <1>13, <3>1 DEF IInv, Progress, n
    <3>3. toggles = reports[1].toggles => flag /\ visible = "edges"
      BY <3>1 DEF IInv, First
    <3> QED
      BY <1>1, <1>2, <1>6, <1>13, <3>1, <3>2, <3>3
  <2>4. Second'
    BY <2>3 DEF Second
  <2>5. Third'
    BY <2>1 DEF Third
  <2> QED
    BY <1>9, <1>10, <2>2, <2>4, <2>5 DEF IInv
<1>14. CASE n = 2
  <2>1. /\ reports'[1] = reports[1] /\ (Ok(1)' <=> Ok(1))
        /\ reports'[2] = reports[2] /\ (Ok(2)' <=> Ok(2))
        /\ reports'[3] = r /\ (Ok(3)' => r.answered /\ r.status = "OK")
    BY <1>11, <1>14
  <2>2. First' /\ Second'
    BY <1>1, <2>1 DEF IInv, First, Second
  <2>3. ASSUME Ok(1)', Ok(2)', Ok(3)'
        PROVE  /\ reports'[2].toggles <= reports'[3].toggles
               /\ reports'[3].toggles # reports'[1].toggles + 1
    <3>1. /\ Ok(1) /\ r.answered /\ r.status = "OK"
          /\ reports'[1] = reports[1] /\ reports'[2] = reports[2] /\ reports'[3] = r
      BY <2>3, <2>1
    <3>2. reports[2].toggles <= toggles
      BY <1>14 DEF IInv, Progress, n
    <3>3. toggles = reports[1].toggles + 1 => ~flag
      BY <3>1 DEF IInv, First
    <3> QED
      BY <1>1, <1>2, <1>6, <1>14, <3>1, <3>2, <3>3
  <2>4. Third'
    BY <2>3 DEF Third
  <2> QED
    BY <1>9, <1>10, <2>2, <2>4 DEF IInv
<1> QED
  BY <1>4, <1>12, <1>13, <1>14

LEMMA StutterKeeps ==
  ASSUME IInv, UNCHANGED vars
  PROVE  IInv'
<1>1. /\ pc' = pc /\ reports' = reports /\ flag' = flag /\ toggles' = toggles
      /\ walkable' = walkable /\ visible' = visible
  BY DEF vars, programVars, serverVars
<1>2. Typed' /\ Progress'
  BY <1>1 DEF IInv, Typed, Progress
<1> QED
  BY <1>1, <1>2, NoCheckKeeps

LEMMA Invariance == Spec => []IInv
<1>1. Init => IInv
  BY InitIInv
<1>2. IInv /\ [Next]_vars => IInv'
  BY ProgramKeeps, RunCheckKeeps, ToggleKeeps, ProcessKeeps, StutterKeeps DEF Next, Program
<1> QED
  BY <1>1, <1>2, PTL DEF Spec

-----------------------------------------------------------------------------
(* Three answered checks that come out OK prove that the schema took       *)
(* effect, whatever the server did and for however long the program        *)
(* waited, unless the flag was toggled off and on between the first and    *)
(* the last (examples/with-extension/main.go:5).                           *)
THEOREM OksProveEffect == Spec => []AnsweredOksMeanTookEffect
<1>1. IInv => AnsweredOksMeanTookEffect
  <2> SUFFICES ASSUME IInv, AllOk, \A j \in 1..3 : reports[j].answered,
                      reports[3].toggles - reports[1].toggles < 2
               PROVE  walkable = TraversableKinds
    BY DEF AnsweredOksMeanTookEffect, TookEffect
  <2>1. 1 \in 1..3 /\ 2 \in 1..3 /\ 3 \in 1..3
    OBVIOUS
  <2>2. Len(reports) = 3 /\ reports \in Seq(Report) /\ walkable \subseteq Kinds
    BY DEF AllOk, IInv, Typed
  <2>3. Ok(1) /\ Ok(2) /\ Ok(3)
    BY <2>1, <2>2 DEF Ok, AllOk
  <2>4. /\ reports[1].toggles \in Nat /\ reports[2].toggles \in Nat
        /\ reports[3].toggles \in Nat
    <3>1. reports[1] \in Report /\ reports[2] \in Report /\ reports[3] \in Report
      BY <2>1, <2>2, ElementOfSeq
    <3> QED
      BY <3>1 DEF Report
  <2>5. /\ reports[1].toggles <= reports[2].toggles
        /\ reports[2].toggles <= reports[3].toggles
        /\ reports[3].toggles # reports[1].toggles + 1
    BY <2>3 DEF IInv, Second, Third
  <2>6. reports[2].toggles = reports[1].toggles
    BY <2>4, <2>5
  <2>7. "EX_MemberOf" \in walkable /\ "EX_CanWrite" \in walkable /\ "EX_Watches" \notin walkable
    BY <2>3, <2>6 DEF IInv, First, Second
  <2> QED
    BY <2>2, <2>7, KindsAre
<1> QED
  BY <1>1, Invariance, PTL

-----------------------------------------------------------------------------
(***************************************************************************)
(* The program is bounded: each of its steps brings it nearer to its end,  *)
(* and nothing else that happens takes it back.  What is left of           *)
(* Terminates to TLC is that it can always take its next step.             *)
(***************************************************************************)
(* How many more steps the program takes, at most.                         *)
StepsToGo ==
  IF pc = "install" THEN MaxPolls + 7
  ELSE IF pc = "validate" THEN MaxPolls + 6
  ELSE IF pc = "ingest" THEN MaxPolls + 5
  ELSE IF pc = "wait" THEN MaxPolls + 4 - polls
  ELSE IF pc = "check" THEN 3 - Len(reports)
  ELSE 0

(* main.go:190: a step of the program brings its end nearer, a poll of     *)
(* waitForNode included, and what runs beside it does not put it off.      *)
EveryStepCounts ==
  [][/\ Program => StepsToGo' < StepsToGo
     /\ ~Program => StepsToGo' = StepsToGo]_vars

Polled == polls \in 0..MaxPolls

LEMMA PolledStep == Polled /\ [Next]_vars => Polled'
<1> SUFFICES ASSUME Polled, [Next]_vars PROVE Polled'
  OBVIOUS
<1>1. ASSUME NEW answered \in BOOLEAN, Poll(answered) PROVE Polled'
  BY <1>1, WorkflowAssumption DEF Polled, Poll
<1>2. ASSUME polls' = polls PROVE Polled'
  BY <1>2 DEF Polled
<1>3. CASE UNCHANGED vars
  BY <1>2, <1>3 DEF vars, programVars
<1>4. CASE Program
  BY <1>1, <1>2, <1>4 DEF Program, InstallExtension, InstallFails, ValidateAgainst,
     IngestReturns, DeadlinePasses, RunCheck
<1>5. CASE IngestProceeds \/ Toggle \/ Process
  BY <1>2, <1>5 DEF IngestProceeds, Toggle, Process, programVars
<1> QED
  BY <1>3, <1>4, <1>5 DEF Next

LEMMA PolledInit == Init => Polled
BY WorkflowAssumption DEF Init, Polled

LEMMA ProgramAdvances ==
  ASSUME IInv, Polled, Program
  PROVE  StepsToGo' < StepsToGo
<1>1. MaxPolls \in Nat /\ polls \in Nat /\ polls <= MaxPolls
  BY WorkflowAssumption DEF Polled
<1>2. CASE \/ \E kinds \in SUBSET Kinds, ok \in BOOLEAN : InstallExtension(kinds, ok)
           \/ InstallFails
  <2>1. pc = "install" /\ pc' \in {"validate", "failed"}
    BY <1>2 DEF InstallExtension, InstallFails
  <2> QED
    BY <1>1, <2>1 DEF StepsToGo
<1>3. CASE ValidateAgainst
  BY <1>1, <1>3 DEF StepsToGo, ValidateAgainst
<1>4. CASE IngestReturns
  <2>1. pc = "ingest" /\ pc' \in {"wait", "failed"} /\ polls' = polls
    BY <1>4 DEF IngestReturns
  <2> QED
    BY <1>1, <2>1 DEF StepsToGo
<1>5. CASE \E answered \in BOOLEAN : Poll(answered)
  <2>1. /\ pc = "wait" /\ pc' \in {"wait", "check"} /\ reports' = reports
        /\ polls' = polls + 1 /\ polls < MaxPolls
    BY <1>5 DEF Poll
  <2>2. Len(reports') = 0
    BY <2>1 DEF IInv, Progress
  <2>3. StepsToGo = MaxPolls + 4 - polls
    BY <2>1 DEF StepsToGo
  <2>4. StepsToGo' = MaxPolls + 4 - (polls + 1) \/ StepsToGo' = 3
    BY <2>1, <2>2 DEF StepsToGo
  <2> QED
    BY <1>1, <2>1, <2>3, <2>4
<1>6. CASE DeadlinePasses
  BY <1>1, <1>6 DEF StepsToGo, DeadlinePasses
<1>7. CASE \E answered \in BOOLEAN : RunCheck(answered)
  <2>1. PICK answered \in BOOLEAN : RunCheck(answered)
    BY <1>7
  <2>2. PICK r : reports' = Append(reports, r)
    BY <2>1 DEF RunCheck
  <2>3. pc = "check" /\ pc' \in {"done", "check"}
    BY <2>1 DEF RunCheck
  <2>4. reports \in Seq(Report \union {r}) /\ Len(reports) < 3
    BY <2>3 DEF IInv, Typed, Progress
  <2>5. Len(reports) \in Nat /\ Len(reports') = Len(reports) + 1
    BY <2>2, <2>4, AppendProperties, LenProperties
  <2>6. StepsToGo = 3 - Len(reports)
    BY <2>3 DEF StepsToGo
  <2>7. StepsToGo' = 3 - Len(reports') \/ StepsToGo' = 0
    BY <2>3 DEF StepsToGo
  <2> QED
    BY <2>4, <2>5, <2>6, <2>7
<1> QED
  BY <1>2, <1>3, <1>4, <1>5, <1>6, <1>7 DEF Program

LEMMA OthersWait ==
  ASSUME [Next]_vars, ~Program
  PROVE  StepsToGo' = StepsToGo
<1>1. UNCHANGED programVars
  BY DEF Next, IngestProceeds, Toggle, Process, vars
<1> QED
  BY <1>1 DEF programVars, StepsToGo

(* main.go:191: the program, its wait included, takes a bounded number of  *)
(* steps, whatever the server and the operator do and for every deadline.  *)
THEOREM StepsAreBounded == Spec => EveryStepCounts
<1>1. IInv /\ Polled /\ [Next]_vars =>
        [/\ Program => StepsToGo' < StepsToGo
         /\ ~Program => StepsToGo' = StepsToGo]_vars
  BY ProgramAdvances, OthersWait
<1> QED
  BY <1>1, Invariance, PolledInit, PolledStep, PTL DEF Spec, EveryStepCounts
=============================================================================
