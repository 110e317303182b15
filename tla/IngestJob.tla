----------------------------- MODULE IngestJob -----------------------------
(***************************************************************************)
(* What Client.Ingest promises its callers, without requests, replies or   *)
(* job ids: what has become of each caller's graph on the server, and what *)
(* the caller was told.                                                    *)
(*                                                                         *)
(* "ok" is only said of a graph that is being processed.  After an error   *)
(* the server may still be acting on what it was sent, but what the caller *)
(* was not given a job for ("orphan") is at worst an empty open job.       *)
(***************************************************************************)
CONSTANT Caller

VARIABLES
  effect,  (* "none", "open": an empty job; "loaded": an open job with the *)
           (* graph; "ingested": that job, ended; "discarded": ended empty *)
  told     (* "running"; "ok"; "error": with a job id; "orphan": without   *)

vars == <<effect, told>>

Init ==
  /\ effect = [c \in Caller |-> "none"]
  /\ told = [c \in Caller |-> "running"]

Become(c, e) == effect' = [effect EXCEPT ![c] = e] /\ UNCHANGED told
Tell(c, t) == told' = [told EXCEPT ![c] = t] /\ UNCHANGED effect

Open(c) ==
  /\ effect[c] = "none"
  /\ told[c] \in {"running", "orphan"}
  /\ Become(c, "open")

Load(c) ==
  /\ effect[c] = "open"
  /\ told[c] \in {"running", "error"}
  /\ Become(c, "loaded")

Ingest(c) ==
  /\ effect[c] = "loaded"
  /\ told[c] \in {"running", "error"}
  /\ Become(c, "ingested")

(* A caller that was handed the job of a failed call may end it.           *)
Discard(c) ==
  /\ effect[c] = "open"
  /\ told[c] = "error"
  /\ Become(c, "discarded")

Succeed(c) ==
  /\ told[c] = "running"
  /\ effect[c] = "ingested"
  /\ Tell(c, "ok")

Fail(c) ==
  /\ told[c] = "running"
  /\ effect[c] # "none"
  /\ Tell(c, "error")

FailWithoutJob(c) ==
  /\ told[c] = "running"
  /\ effect[c] \in {"none", "open"}
  /\ Tell(c, "orphan")

Next == \E c \in Caller :
  \/ Open(c)
  \/ Load(c)
  \/ Ingest(c)
  \/ Discard(c)
  \/ Succeed(c)
  \/ Fail(c)
  \/ FailWithoutJob(c)

Spec == Init /\ [][Next]_vars
=============================================================================
