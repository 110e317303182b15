------------------------------- MODULE Ingest -------------------------------
(***************************************************************************)
(* Concurrent calls of Client.Ingest (client/ingest.go) on one Client:     *)
(* validate, StartJob, UploadGraph, EndJob, each a request that do or      *)
(* doStream sends and send waits for.  A request may be served long after  *)
(* its sender has given up on it, or never; a reply may be lost, may be an *)
(* error although the request took effect, and the one to StartJob may     *)
(* lack an id.  Nothing is retried.                                        *)
(*                                                                         *)
(* The server is external: a table of ingest jobs.  A caller's graph goes  *)
(* by the caller's name.  How a graph gets to the server whole is the      *)
(* subject of Upload.  Nothing redirects StartJob or EndJob out of         *)
(* BloodHound, where any 2xx would pass for the reply (ClientCalls).       *)
(***************************************************************************)
EXTENDS Integers, Sequences

CONSTANT Caller  (* the goroutines that call Ingest, once each             *)

VARIABLES
  valid,     (* what Graph.Validate says of each caller's graph            *)
  pc,        (* where each call is; "failed" and "done" have returned      *)
  jobId,     (* the id each call has and returns, 0 for none               *)
  requests,  (* requests not served yet                                    *)
  replies,   (* replies not received yet                                   *)
  jobs       (* the server's jobs: their id is their index                 *)

callVars == <<valid, pc, jobId>>
vars == <<callVars, requests, replies, jobs>>

Init ==
  /\ valid \in [Caller -> BOOLEAN]
  /\ pc = [c \in Caller |-> "idle"]
  /\ jobId = [c \in Caller |-> 0]
  /\ requests = {}
  /\ replies = {}
  /\ jobs = <<>>

Goto(c, l) == pc' = [pc EXCEPT ![c] = l]

-----------------------------------------------------------------------------
(* do and doStream put a request on the wire; the call then waits at l.    *)
Do(c, op, job, l) ==
  /\ requests' = requests \union {[caller |-> c, op |-> op, job |-> job]}
  /\ Goto(c, l)
  /\ UNCHANGED <<valid, jobId, replies, jobs>>

(* send returns the reply to its own request.                              *)
Receive(c, op, r) ==
  /\ r \in replies
  /\ r.caller = c
  /\ r.op = op
  /\ replies' = replies \ {r}

RefuseInvalid(c) ==
  /\ pc[c] = "idle"
  /\ ~valid[c]
  /\ Goto(c, "failed")
  /\ UNCHANGED <<valid, jobId, requests, replies, jobs>>

StartJob(c) ==
  /\ pc[c] = "idle"
  /\ valid[c]
  /\ Do(c, "start", 0, "starting")

(* Mutants: the id is not looked at; -1 stands for no job; the Client      *)
(* holds the current job.                                                  *)
StartJobReturnsUnchecked(c, r) ==
  /\ pc[c] = "starting"
  /\ Receive(c, "start", r)
  /\ IF r.ok
       THEN Goto(c, "started") /\ jobId' = [jobId EXCEPT ![c] = r.job]
       ELSE Goto(c, "failed") /\ UNCHANGED jobId
  /\ UNCHANGED <<valid, requests, jobs>>

StartJobReturnsSentinel(c, r) ==
  /\ pc[c] = "starting"
  /\ Receive(c, "start", r)
  /\ LET ok == r.ok /\ r.job # 0
     IN  /\ Goto(c, IF ok THEN "started" ELSE "failed")
         /\ jobId' = [jobId EXCEPT ![c] = IF ok THEN r.job ELSE -1]
  /\ UNCHANGED <<valid, requests, jobs>>

StartJobReturnsToClient(c, r) ==
  /\ pc[c] = "starting"
  /\ Receive(c, "start", r)
  /\ IF r.ok /\ r.job # 0
       THEN Goto(c, "started") /\ jobId' = [d \in Caller |-> r.job]
       ELSE Goto(c, "failed") /\ UNCHANGED jobId
  /\ UNCHANGED <<valid, requests, jobs>>

(* A reply without an id is an error, although a job may exist.            *)
StartJobReturns(c, r) ==
  /\ pc[c] = "starting"
  /\ Receive(c, "start", r)
  /\ IF r.ok /\ r.job # 0
       THEN Goto(c, "started") /\ jobId' = [jobId EXCEPT ![c] = r.job]
       ELSE Goto(c, "failed") /\ UNCHANGED jobId
  /\ UNCHANGED <<valid, requests, jobs>>

UploadGraph(c) ==
  /\ pc[c] = "started"
  /\ Do(c, "upload", jobId[c], "uploading")

(* Mutants: Ingest returns 0 with an error; it ends the job all the same.  *)
UploadGraphReturnsNoId(c, r) ==
  /\ pc[c] = "uploading"
  /\ Receive(c, "upload", r)
  /\ Goto(c, IF r.ok THEN "uploaded" ELSE "failed")
  /\ jobId' = [jobId EXCEPT ![c] = IF r.ok THEN @ ELSE 0]
  /\ UNCHANGED <<valid, requests, jobs>>

UploadGraphReturnsAnyway(c, r) ==
  /\ pc[c] = "uploading"
  /\ Receive(c, "upload", r)
  /\ Goto(c, "uploaded")
  /\ UNCHANGED <<valid, jobId, requests, jobs>>

UploadGraphReturns(c, r) ==
  /\ pc[c] = "uploading"
  /\ Receive(c, "upload", r)
  /\ Goto(c, IF r.ok THEN "uploaded" ELSE "failed")
  /\ UNCHANGED <<valid, jobId, requests, jobs>>

EndJob(c) ==
  /\ pc[c] = "uploaded"
  /\ Do(c, "end", jobId[c], "ending")

(* Mutant: the answer to EndJob is not looked at.                          *)
EndJobReturnsAnyway(c, r) ==
  /\ pc[c] = "ending"
  /\ Receive(c, "end", r)
  /\ Goto(c, "done")
  /\ UNCHANGED <<valid, jobId, requests, jobs>>

EndJobReturns(c, r) ==
  /\ pc[c] = "ending"
  /\ Receive(c, "end", r)
  /\ Goto(c, IF r.ok THEN "done" ELSE "failed")
  /\ UNCHANGED <<valid, jobId, requests, jobs>>

(* A step fails before its request is on the wire: it cannot be built or   *)
(* signed, the graph cannot be encoded, the spool cannot be written.       *)
LocalFailure(c) ==
  /\ pc[c] \in {"idle", "started", "uploaded"}
  /\ valid[c]
  /\ Goto(c, "failed")
  /\ UNCHANGED <<valid, jobId, requests, replies, jobs>>

(* Mutants: StartJob is retried after a timeout; a timeout loses the id;   *)
(* EndJob has none.                                                        *)
DoFailsAndRetries(c) ==
  /\ pc[c] \in {"starting", "uploading", "ending"}
  /\ Goto(c, IF pc[c] = "starting" THEN "idle" ELSE "failed")
  /\ UNCHANGED <<valid, jobId, requests, replies, jobs>>

DoFailsAndForgets(c) ==
  /\ pc[c] \in {"starting", "uploading", "ending"}
  /\ Goto(c, "failed")
  /\ jobId' = [jobId EXCEPT ![c] = 0]
  /\ UNCHANGED <<valid, requests, replies, jobs>>

DoFailsButEndJob(c) ==
  /\ pc[c] \in {"starting", "uploading"}
  /\ Goto(c, "failed")
  /\ UNCHANGED <<valid, jobId, requests, replies, jobs>>

(* Do fails: the client's timeout, the context, a broken connection.  What *)
(* becomes of the request is not known to the caller.                      *)
DoFails(c) ==
  /\ pc[c] \in {"starting", "uploading", "ending"}
  /\ Goto(c, "failed")
  /\ UNCHANGED <<valid, jobId, requests, replies, jobs>>

(* A caller handed a job id along with an error may end that job itself.   *)
CleanUp(c) ==
  /\ pc[c] = "failed"
  /\ jobId[c] # 0
  /\ Do(c, "cleanup", jobId[c], "cleaning")

CleanUpReturns(c) ==
  /\ pc[c] = "cleaning"
  /\ Goto(c, "cleaned")
  /\ UNCHANGED <<valid, jobId, requests, replies, jobs>>

-----------------------------------------------------------------------------
(* The server.  Each request is served at most once; ok tells whether the  *)
(* reply is a 2xx, which it need not be even when the request took effect. *)
Serve(r, ok, job) ==
  /\ r \in requests
  /\ requests' = requests \ {r}
  /\ replies' = replies \union
       {[caller |-> r.caller, op |-> r.op, ok |-> ok, job |-> job]}
  /\ UNCHANGED callVars

ServeStart(r, ok, garbled) ==
  /\ r.op = "start"
  /\ jobs' = Append(jobs, [owner |-> r.caller, status |-> "open", graphs |-> {}])
  /\ Serve(r, ok, IF garbled THEN 0 ELSE Len(jobs) + 1)

ServeUpload(r, ok) ==
  /\ r.op = "upload"
  /\ r.job \in DOMAIN jobs
  /\ jobs[r.job].status = "open"
  /\ jobs' = [jobs EXCEPT ![r.job].graphs = @ \union {r.caller}]
  /\ Serve(r, ok, r.job)

(* EndJob, called by Ingest or by its caller.                              *)
ServeEnd(r, ok) ==
  /\ r.op \in {"end", "cleanup"}
  /\ r.job \in DOMAIN jobs
  /\ jobs[r.job].status = "open"
  /\ jobs' = [jobs EXCEPT ![r.job].status = "ended"]
  /\ Serve(r, ok, r.job)

ServerRefuses(r) ==
  /\ Serve(r, FALSE, r.job)
  /\ UNCHANGED jobs

-----------------------------------------------------------------------------
Ingest(c) ==
  \/ RefuseInvalid(c)
  \/ StartJob(c)
  \/ \E r \in replies : StartJobReturns(c, r)
  \/ UploadGraph(c)
  \/ \E r \in replies : UploadGraphReturns(c, r)
  \/ EndJob(c)
  \/ \E r \in replies : EndJobReturns(c, r)
  \/ LocalFailure(c)
  \/ DoFails(c)

Server ==
  \E r \in requests :
    \/ \E ok, garbled \in BOOLEAN : ServeStart(r, ok, garbled)
    \/ \E ok \in BOOLEAN : ServeUpload(r, ok)
    \/ \E ok \in BOOLEAN : ServeEnd(r, ok)
    \/ ServerRefuses(r)

Next ==
  \/ \E c \in Caller : Ingest(c)
  \/ \E c \in Caller : CleanUp(c) \/ CleanUpReturns(c)
  \/ Server

(* Each call is scheduled, and the client times out (DoFails).  Nothing is *)
(* asked of the server, nor that a caller cleans up.                       *)
Fairness == \A c \in Caller : WF_vars(Ingest(c))

Spec == Init /\ [][Next]_vars /\ Fairness

-----------------------------------------------------------------------------
Op == {"start", "upload", "end", "cleanup"}
Request == [caller : Caller, op : Op, job : Nat]
Reply == [caller : Caller, op : Op, ok : BOOLEAN, job : Nat]
Job == [owner : Caller, status : {"open", "ended"}, graphs : SUBSET Caller]
Label == {"idle", "starting", "started", "uploading", "uploaded", "ending",
          "done", "failed", "cleaning", "cleaned"}

(* The variables have the values the code and the server give them.        *)
TypeOK ==
  /\ valid \in [Caller -> BOOLEAN]
  /\ pc \in [Caller -> Label]
  /\ jobId \in [Caller -> 0..Len(jobs)]
  /\ requests \subseteq Request
  /\ replies \subseteq Reply
  /\ jobs \in Seq(Job)

(* ingest.go:16-23: an Ingest that reports success has a job of its own    *)
(* that was ended, so is processed, and holds its graph and nothing else.  *)
SuccessMeansIngested ==
  \A c \in Caller : pc[c] = "done" =>
    /\ jobId[c] # 0
    /\ jobs[jobId[c]] = [owner |-> c, status |-> "ended", graphs |-> {c}]

(* ingest.go:35-43: calls that run at the same time on one Client do not   *)
(* touch each other's jobs, whatever is late, lost or refused.             *)
NoCrosstalk ==
  /\ \A j \in DOMAIN jobs : jobs[j].graphs \subseteq {jobs[j].owner}
  /\ \A c \in Caller : jobId[c] # 0 => jobs[jobId[c]].owner = c

(* client_test.go:290, "the job id is still returned so the caller can     *)
(* look the job up or clean up": a job that holds a graph, or was ended,   *)
(* is known to the caller it was made for, also after every failure; one   *)
(* whose id was lost with the reply to StartJob is empty and stays so.     *)
LostJobsAreEmpty ==
  \A j \in DOMAIN jobs :
    jobId[jobs[j].owner] # j => jobs[j].status = "open" /\ jobs[j].graphs = {}

(* README.md:182: a call creates at most one job, since nothing is         *)
(* retried, and none at all for an invalid graph (ingest.go:31).           *)
OneJobPerCall ==
  /\ \A i, j \in DOMAIN jobs : jobs[i].owner = jobs[j].owner => i = j
  /\ \A j \in DOMAIN jobs : valid[jobs[j].owner]

(* ingest.go:39-41: Ingest itself never ends a job its graph is not in,    *)
(* which would be a success that quietly did nothing.                      *)
NothingEndedEmpty ==
  \A j \in DOMAIN jobs :
    jobs[j].status = "ended" /\ jobs[j].graphs = {} =>
      pc[jobs[j].owner] \in {"cleaning", "cleaned"}

(* ingest.go:62: what follows start, from Ingest or from its caller, names *)
(* a job the server made for that very caller, and never job 0, though the *)
(* reply to start may be a 2xx that carries no id.                         *)
RequestsNameTheirJob ==
  \A r \in requests : r.op # "start" =>
    /\ r.job \in DOMAIN jobs
    /\ jobs[r.job].owner = r.caller

(* client.go:72: every call returns, with the id or an error, whatever the *)
(* server does.                                                            *)
EveryCallReturns ==
  \A c \in Caller : <>(pc[c] \in {"done", "failed", "cleaning", "cleaned"})

-----------------------------------------------------------------------------
(* Ingest implements IngestJob.                                            *)
JobsOf(js, c) == {j \in DOMAIN js : js[j].owner = c}

Stage(job) ==
  IF job.status = "open"
    THEN IF job.graphs = {} THEN "open" ELSE "loaded"
    ELSE IF job.graphs = {} THEN "discarded" ELSE "ingested"

Effect(js, c) ==
  IF JobsOf(js, c) = {} THEN "none"
  ELSE Stage(js[CHOOSE j \in JobsOf(js, c) : TRUE])

Told(c) ==
  IF pc[c] = "done" THEN "ok"
  ELSE IF pc[c] \notin {"failed", "cleaning", "cleaned"} THEN "running"
  ELSE IF jobId[c] # 0 THEN "error" ELSE "orphan"

Jobs == INSTANCE IngestJob WITH
          effect <- [c \in Caller |-> Effect(jobs, c)],
          told   <- [c \in Caller |-> Told(c)]

(* ingest.go:30: what a caller is told agrees with what has become, and    *)
(* may still become, of its graph on the server.                           *)
ImplementsIngestJob == Jobs!Spec
=============================================================================
