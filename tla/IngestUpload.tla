---------------------------- MODULE IngestUpload ----------------------------
(***************************************************************************)
(* One call of Client.Ingest (client/ingest.go) with the UploadGraph of    *)
(* Upload inside it: start a job, spool, sign and send the document, end   *)
(* the job.  Ingest takes for granted that an upload the server accepts is *)
(* the caller's graph; here it is the bytes of the wire, and what the      *)
(* server takes into the job is a whole document or something else.        *)
(*                                                                         *)
(* The server is external.  It looks at the job when it has the whole      *)
(* body, may take the body and still answer with an error, and may serve   *)
(* any request after its sender has given up.                              *)
(***************************************************************************)
EXTENDS Upload

VARIABLES
  stage,   (* where Ingest is; "done", "failed" and "cleaning" are after   *)
           (* its return                                                   *)
  hasId,   (* whether it has the id of the job                             *)
  calls,   (* requests of StartJob and EndJob that are not served yet      *)
  answers, (* their answers that are not received yet                      *)
  job,     (* the server's job: "none", "open" or "ended"                  *)
  loaded   (* the bodies the server has taken into it                      *)

ingestVars == <<stage, hasId, calls, answers>>
jobVars == <<job, loaded>>
allVars == <<vars, ingestVars, jobVars>>

IngestInit ==
  /\ Init
  /\ stage = "idle"
  /\ hasId = FALSE
  /\ calls = {}
  /\ answers = {}
  /\ job = "none"
  /\ loaded = {}

-----------------------------------------------------------------------------
(* StartJob and EndJob send a request with no body, and wait at l.         *)
Send(op, l) ==
  /\ calls' = calls \union {op}
  /\ stage' = l
  /\ UNCHANGED <<vars, hasId, answers, jobVars>>

(* An invalid graph, or a request that cannot be made.                     *)
FailsLocally ==
  /\ stage \in {"idle", "uploaded"}
  /\ stage' = "failed"
  /\ UNCHANGED <<vars, hasId, calls, answers, jobVars>>

StartJob == stage = "idle" /\ Send("start", "starting")

(* An answer that lacks an id is an error too.                             *)
StartJobReturns(a) ==
  /\ stage = "starting"
  /\ a \in answers
  /\ a.op = "start"
  /\ hasId' = (a.ok /\ a.id)
  /\ stage' = IF hasId' THEN "uploading" ELSE "failed"
  /\ answers' = answers \ {a}
  /\ UNCHANGED <<vars, calls, jobVars>>

UploadProceeds ==
  /\ stage = "uploading"
  /\ UploadGraph
  /\ UNCHANGED <<ingestVars, jobVars>>

(* Mutant: Ingest ends the job whatever became of the upload.              *)
UploadReturnsAnyway ==
  /\ stage = "uploading"
  /\ pc = "returned"
  /\ stage' = "uploaded"
  /\ UNCHANGED <<vars, hasId, calls, answers, jobVars>>

UploadReturns ==
  /\ stage = "uploading"
  /\ pc = "returned"
  /\ stage' = IF outcome = "ok" THEN "uploaded" ELSE "failed"
  /\ UNCHANGED <<vars, hasId, calls, answers, jobVars>>

EndJob == stage = "uploaded" /\ Send("end", "ending")

EndJobReturns(a) ==
  /\ stage = "ending"
  /\ a \in answers
  /\ a.op = "end"
  /\ stage' = IF a.ok THEN "done" ELSE "failed"
  /\ answers' = answers \ {a}
  /\ UNCHANGED <<vars, hasId, calls, jobVars>>

(* The client's timeout, the context or the network.                       *)
JobCallFails ==
  /\ stage \in {"starting", "ending"}
  /\ stage' = "failed"
  /\ UNCHANGED <<vars, hasId, calls, answers, jobVars>>

(* A caller handed a job id along with an error may end that job itself,   *)
(* and waits for that or does not.                                         *)
CleanUp == stage = "failed" /\ hasId /\ Send("cleanup", "cleaning")

-----------------------------------------------------------------------------
Serve(op, ok, id) ==
  /\ op \in calls
  /\ calls' = calls \ {op}
  /\ answers' = answers \union {[op |-> op, ok |-> ok, id |-> id]}
  /\ UNCHANGED <<vars, stage, hasId>>

ServeStart(ok, id) ==
  /\ Serve("start", ok, id)
  /\ job' = "open"
  /\ UNCHANGED loaded

ServeEnd(op, ok) ==
  /\ op \in {"end", "cleanup"}
  /\ Serve(op, ok, TRUE)
  /\ job = "open"
  /\ job' = "ended"
  /\ UNCHANGED loaded

JobCallRefused(op) ==
  /\ Serve(op, FALSE, FALSE)
  /\ UNCHANGED jobVars

(* An authentic upload goes into the job while it is open, and its answer  *)
(* may be lost to an error.                                                *)
TakeUpload(ok) ==
  /\ tx = "sent"
  /\ verdict = "none"
  /\ job = "open"
  /\ Judgement = "accepted"
  /\ loaded' = loaded \union {wire}
  /\ IF ok THEN Answer ELSE Refuse
  /\ UNCHANGED <<ingestVars, job>>

RejectUpload ==
  /\ (Answer /\ Judgement # "accepted") \/ Refuse
  /\ UNCHANGED <<ingestVars, jobVars>>

TransportProceeds ==
  /\ SendByte \/ EndOfBody \/ TransportFails \/ CloseBody \/ Tick
  /\ UNCHANGED <<ingestVars, jobVars>>

-----------------------------------------------------------------------------
Ingest ==
  \/ FailsLocally
  \/ StartJob
  \/ \E a \in answers : StartJobReturns(a)
  \/ UploadProceeds
  \/ UploadReturns
  \/ EndJob
  \/ \E a \in answers : EndJobReturns(a)
  \/ JobCallFails

Server ==
  \/ \E ok, id \in BOOLEAN : ServeStart(ok, id)
  \/ \E op \in calls, ok \in BOOLEAN : ServeEnd(op, ok)
  \/ \E op \in calls : JobCallRefused(op)
  \/ \E ok \in BOOLEAN : TakeUpload(ok)
  \/ RejectUpload

IngestNext == Ingest \/ CleanUp \/ Server \/ TransportProceeds

IngestSpec == IngestInit /\ [][IngestNext]_allVars

-----------------------------------------------------------------------------
Whole == loaded = {Document(graph)}

Jobs == INSTANCE IngestJob WITH
  Caller <- {"call"},
  effect <- [c \in {"call"} |->
    CASE job = "none" -> "none"
      [] job = "open" -> IF Whole THEN "loaded" ELSE "open"
      [] OTHER -> IF Whole THEN "ingested" ELSE "discarded"],
  told <- [c \in {"call"} |->
    CASE stage = "done" -> "ok"
      [] stage \in {"failed", "cleaning"} -> IF hasId THEN "error" ELSE "orphan"
      [] OTHER -> "running"]

(* ingest.go:30: with a real upload inside it Ingest is still what         *)
(* IngestJob promises: ok is only said of a job that has been ended with   *)
(* the document of the graph in it, byte for byte and nothing else,        *)
(* whatever the spool, the signature, the transport and late requests have *)
(* done.                                                                   *)
ImplementsIngestJob == Jobs!Spec
=============================================================================
