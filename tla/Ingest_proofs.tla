--------------------------- MODULE Ingest_proofs ---------------------------
(***************************************************************************)
(* Proofs about Ingest, for any set of callers, finite or not.             *)
(***************************************************************************)
EXTENDS Ingest, SequenceTheorems, TLAPS

-----------------------------------------------------------------------------
(***************************************************************************)
(* The inductive invariant.  The safety properties speak of jobs and of    *)
(* what calls know; what makes them inductive is what every message still  *)
(* in flight would do if it were served or received now, however late.     *)
(***************************************************************************)
Loaded(c) == jobId[c] # 0 /\ jobs[jobId[c]].graphs = {c}
Ended(c) == jobId[c] # 0 /\ jobs[jobId[c]].status = "ended"

CleaningUp(c) == pc[c] \in {"cleaning", "cleaned"}

(* A call has an id from StartJob's return on, and the job it names is its *)
(* own.                                                                    *)
KnownJobs ==
  \A c \in Caller :
    /\ pc[c] \in {"idle", "starting"} => jobId[c] = 0
    /\ pc[c] \notin {"idle", "starting", "failed"} => jobId[c] # 0
    /\ pc[c] \notin {"idle", "failed"} => valid[c]
    /\ jobId[c] # 0 => jobs[jobId[c]].owner = c

(* A job belongs to a call that was made, which has no other.  Unless that *)
(* call knows it, it is as the server made it.                             *)
OwnedJobs ==
  \A j \in DOMAIN jobs :
    /\ valid[jobs[j].owner]
    /\ pc[jobs[j].owner] # "idle"
    /\ jobs[j].graphs \subseteq {jobs[j].owner}
    /\ jobId[jobs[j].owner] # j => jobs[j].status = "open" /\ jobs[j].graphs = {}
    /\ jobs[j].status = "ended" /\ jobs[j].graphs = {} =>
         CleaningUp(jobs[j].owner)
    /\ \A i \in DOMAIN jobs : jobs[i].owner = jobs[j].owner => i = j

(* A request to start a job can only be its caller's first; one to upload  *)
(* or end names the job of its caller, and Ingest only asks to end what it *)
(* knows to be loaded.                                                     *)
Justified(r) ==
  /\ r.op = "start" =>
       /\ r.job = 0
       /\ valid[r.caller]
       /\ pc[r.caller] # "idle"
       /\ \A j \in DOMAIN jobs : jobs[j].owner # r.caller
  /\ r.op # "start" => r.job = jobId[r.caller] /\ r.job # 0
  /\ r.op = "end" => Loaded(r.caller)
  /\ r.op = "cleanup" => CleaningUp(r.caller)

PendingRequests == \A r \in requests : Justified(r)

(* A positive reply tells the truth.                                       *)
Truthful(r) ==
  /\ r.op = "start" /\ r.job # 0 =>
       r.job \in DOMAIN jobs /\ jobs[r.job].owner = r.caller
  /\ r.op = "upload" /\ r.ok => Loaded(r.caller)
  /\ r.op = "end" /\ r.ok => Ended(r.caller)

PendingReplies == \A r \in replies : Truthful(r)

(* What a call has got through has happened.                               *)
Achieved ==
  \A c \in Caller :
    /\ pc[c] \in {"uploaded", "ending", "done"} => Loaded(c)
    /\ pc[c] = "done" => Ended(c)

IInv ==
  /\ TypeOK
  /\ KnownJobs
  /\ OwnedJobs
  /\ PendingRequests
  /\ PendingReplies
  /\ Achieved

LEMMA InitIInv == Init => IInv
<1> SUFFICES ASSUME Init PROVE IInv
  OBVIOUS
<1>1. <<>> \in Seq(Job) /\ Len(<<>>) = 0 /\ DOMAIN <<>> = {}
  BY EmptySeq
<1>2. TypeOK
  BY <1>1 DEF Init, TypeOK, Label
<1>3. KnownJobs /\ Achieved
  BY DEF Init, KnownJobs, Achieved
<1>4. OwnedJobs /\ PendingRequests /\ PendingReplies
  BY <1>1 DEF Init, OwnedJobs, PendingRequests, PendingReplies
<1> QED
  BY <1>2, <1>3, <1>4 DEF IInv

-----------------------------------------------------------------------------
LEMMA JobType ==
  ASSUME TypeOK, NEW j \in DOMAIN jobs
  PROVE  jobs[j] \in Job /\ jobs[j].owner \in Caller
<1>1. jobs[j] \in Job
  BY ElementOfSeq, LenProperties DEF TypeOK
<1> QED
  BY <1>1 DEF Job

LEMMA GotoChanges ==
  ASSUME TypeOK, NEW c \in Caller, NEW l, Goto(c, l)
  PROVE  \A d \in Caller : pc'[d] = IF d = c THEN l ELSE pc[d]
BY DEF TypeOK, Goto

LEMMA JobIdType ==
  ASSUME TypeOK, NEW c \in Caller
  PROVE  jobId[c] \in Nat
<1>1. Len(jobs) \in Nat
  BY LenProperties DEF TypeOK
<1> QED
  BY <1>1 DEF TypeOK

LEMMA JobOfKnownId ==
  ASSUME TypeOK, NEW c \in Caller, jobId[c] # 0
  PROVE  jobId[c] \in DOMAIN jobs
<1>1. Len(jobs) \in Nat /\ DOMAIN jobs = 1..Len(jobs)
  BY LenProperties DEF TypeOK
<1> QED
  BY <1>1 DEF TypeOK

(***************************************************************************)
(* A step of a call that leaves jobs and ids alone preserves the invariant *)
(* if the call may be at l given what has happened, and if what it may     *)
(* have sent is justified.                                                 *)
(***************************************************************************)
MayBeAt(c, l) ==
  /\ l \in Label \ {"idle"}
  /\ CleaningUp(c) => l \in {"cleaning", "cleaned"}
  /\ l = "starting" => jobId[c] = 0
  /\ l \notin {"starting", "failed"} => jobId[c] # 0
  /\ l # "failed" => valid[c]
  /\ l \in {"uploaded", "ending", "done"} => Loaded(c)
  /\ l = "done" => Ended(c)

LEMMA Moving ==
  ASSUME IInv, NEW c \in Caller, NEW l, MayBeAt(c, l), Goto(c, l),
         UNCHANGED <<valid, jobId, jobs>>, replies' \subseteq replies,
         requests' \subseteq Request,
         \A r \in requests' : r \in requests \/ Justified(r)'
  PROVE  IInv'
<1>1. TypeOK'
  BY DEF IInv, TypeOK, Goto, MayBeAt
<1>2. /\ \A d \in Caller : pc'[d] = IF d = c THEN l ELSE pc[d]
      /\ requests \subseteq Request
      /\ \A j \in DOMAIN jobs : jobs[j].owner \in Caller
  BY GotoChanges, JobType DEF IInv, TypeOK
<1>3. KnownJobs'
  BY <1>2 DEF IInv, KnownJobs, MayBeAt
<1>4. OwnedJobs'
  BY <1>2 DEF IInv, OwnedJobs, CleaningUp, MayBeAt
<1>5. PendingRequests'
  <2>1. ASSUME NEW r \in requests PROVE Justified(r)'
    <3>1. Justified(r) /\ r.caller \in Caller
      BY <1>2 DEF IInv, PendingRequests, Request
    <3> QED
      BY <3>1, <1>2 DEF Justified, CleaningUp, Loaded, MayBeAt
  <2> QED
    BY <2>1 DEF PendingRequests
<1>6. PendingReplies'
  BY DEF IInv, PendingReplies, Truthful, Loaded, Ended
<1>7. Achieved'
  BY <1>2 DEF IInv, Achieved, Loaded, Ended, MayBeAt
<1> QED
  BY <1>1, <1>3, <1>4, <1>5, <1>6, <1>7 DEF IInv

(* Most steps of a call neither send.                                      *)
LEMMA MovingSilently ==
  ASSUME IInv, NEW c \in Caller, NEW l, MayBeAt(c, l), Goto(c, l),
         UNCHANGED <<valid, jobId, requests, jobs>>, replies' \subseteq replies
  PROVE  IInv'
BY Moving DEF IInv, TypeOK

(* The others send one request.                                            *)
LEMMA Sending ==
  ASSUME IInv, NEW c \in Caller, NEW op \in Op, NEW job \in Nat, NEW l,
         Do(c, op, job, l), MayBeAt(c, l),
         Justified([caller |-> c, op |-> op, job |-> job])'
  PROVE  IInv'
<1> DEFINE new == [caller |-> c, op |-> op, job |-> job]
<1>1. requests' = requests \union {new} /\ new \in Request
  BY DEF Do, Request
<1>2. requests' \subseteq Request
  BY <1>1 DEF IInv, TypeOK
<1>3. ASSUME NEW r \in requests' PROVE r \in requests \/ Justified(r)'
  <2>1. CASE r = new
    BY <2>1 DEF Justified
  <2> QED
    BY <1>1, <2>1
<1> QED
  BY <1>2, <1>3, Moving DEF Do

-----------------------------------------------------------------------------
LEMMA CallPreserves ==
  ASSUME IInv, NEW c \in Caller,
         \/ RefuseInvalid(c)
         \/ LocalFailure(c)
         \/ DoFails(c)
         \/ CleanUpReturns(c)
         \/ \E r \in replies : UploadGraphReturns(c, r) \/ EndJobReturns(c, r)
  PROVE  IInv'
<1>1. CASE RefuseInvalid(c) \/ LocalFailure(c) \/ DoFails(c)
  <2>1. MayBeAt(c, "failed")
    BY <1>1
       DEF MayBeAt, Label, CleaningUp, RefuseInvalid, LocalFailure, DoFails
  <2> QED
    BY <1>1, <2>1, MovingSilently DEF RefuseInvalid, LocalFailure, DoFails
<1>2. CASE CleanUpReturns(c)
  <2>1. MayBeAt(c, "cleaned")
    BY <1>2
       DEF MayBeAt, Label, CleaningUp, CleanUpReturns, IInv, KnownJobs
  <2> QED
    BY <1>2, <2>1, MovingSilently DEF CleanUpReturns
<1>3. ASSUME NEW r \in replies, UploadGraphReturns(c, r) PROVE IInv'
  <2>1. MayBeAt(c, IF r.ok THEN "uploaded" ELSE "failed")
    BY <1>3
       DEF MayBeAt, Label, CleaningUp, UploadGraphReturns, Receive, IInv,
           KnownJobs, PendingReplies, Truthful
  <2> QED
    BY <1>3, <2>1, MovingSilently DEF UploadGraphReturns, Receive
<1>4. ASSUME NEW r \in replies, EndJobReturns(c, r) PROVE IInv'
  <2>1. MayBeAt(c, IF r.ok THEN "done" ELSE "failed")
    BY <1>4
       DEF MayBeAt, Label, CleaningUp, EndJobReturns, Receive, IInv,
           KnownJobs, PendingReplies, Truthful, Achieved
  <2> QED
    BY <1>4, <2>1, MovingSilently DEF EndJobReturns, Receive
<1> QED
  BY <1>1, <1>2, <1>3, <1>4

LEMMA StartJobPreserves ==
  ASSUME IInv, NEW c \in Caller, StartJob(c)
  PROVE  IInv'
<1>1. \A j \in DOMAIN jobs : jobs[j].owner # c
  BY DEF IInv, OwnedJobs, StartJob
<1>2. MayBeAt(c, "starting")
  BY DEF MayBeAt, Label, CleaningUp, StartJob, IInv, KnownJobs
<1>3. pc'[c] = "starting"
  BY GotoChanges DEF IInv, StartJob, Do
<1>4. Justified([caller |-> c, op |-> "start", job |-> 0])'
  BY <1>1, <1>3 DEF Justified, StartJob, Do
<1> QED
  BY <1>2, <1>4, Sending DEF StartJob, Op

LEMMA UploadGraphPreserves ==
  ASSUME IInv, NEW c \in Caller, UploadGraph(c)
  PROVE  IInv'
<1>1. jobId[c] \in Nat /\ jobId[c] # 0
  BY JobIdType DEF IInv, KnownJobs, UploadGraph
<1>2. MayBeAt(c, "uploading")
  BY <1>1 DEF MayBeAt, Label, CleaningUp, UploadGraph, IInv, KnownJobs
<1>3. PICK job \in Nat : job = jobId[c]
  BY <1>1
<1>4. Justified([caller |-> c, op |-> "upload", job |-> job])'
  BY <1>1, <1>3 DEF Justified, UploadGraph, Do
<1> QED
  BY <1>2, <1>3, <1>4, Sending DEF UploadGraph, Op

LEMMA EndJobPreserves ==
  ASSUME IInv, NEW c \in Caller, EndJob(c)
  PROVE  IInv'
<1>1. jobId[c] \in Nat /\ jobId[c] # 0 /\ Loaded(c)
  BY JobIdType DEF IInv, KnownJobs, Achieved, EndJob
<1>2. MayBeAt(c, "ending")
  BY <1>1 DEF MayBeAt, Label, CleaningUp, EndJob, IInv, KnownJobs
<1>3. PICK job \in Nat : job = jobId[c]
  BY <1>1
<1>4. Justified([caller |-> c, op |-> "end", job |-> job])'
  BY <1>1, <1>3 DEF Justified, EndJob, Do, Loaded
<1> QED
  BY <1>2, <1>3, <1>4, Sending DEF EndJob, Op

LEMMA CleanUpPreserves ==
  ASSUME IInv, NEW c \in Caller, CleanUp(c)
  PROVE  IInv'
<1>1. jobId[c] \in Nat /\ jobId[c] # 0
  BY JobIdType DEF IInv, CleanUp
<1>2. valid[c]
  BY <1>1, JobIdType, JobOfKnownId DEF IInv, KnownJobs, OwnedJobs
<1>3. MayBeAt(c, "cleaning")
  BY <1>1, <1>2 DEF MayBeAt, Label, CleaningUp, CleanUp
<1>4. PICK job \in Nat : job = jobId[c]
  BY <1>1
<1>5. pc'[c] = "cleaning"
  BY GotoChanges DEF IInv, CleanUp, Do
<1>6. Justified([caller |-> c, op |-> "cleanup", job |-> job])'
  BY <1>1, <1>4, <1>5 DEF Justified, CleanUp, Do, CleaningUp
<1> QED
  BY <1>3, <1>4, <1>6, Sending DEF CleanUp, Op

(* The reply to StartJob is the only way to learn an id.                   *)
LEMMA StartJobReturnsPreserves ==
  ASSUME IInv, NEW c \in Caller, NEW r \in replies, StartJobReturns(c, r)
  PROVE  IInv'
<1>1. pc[c] = "starting" /\ jobId[c] = 0 /\ valid[c]
  BY DEF StartJobReturns, IInv, KnownJobs
<1>2. CASE ~(r.ok /\ r.job # 0)
  <2>1. MayBeAt(c, "failed")
    BY <1>1 DEF MayBeAt, Label, CleaningUp
  <2> QED
    BY <1>2, <2>1, MovingSilently DEF StartJobReturns, Receive
<1>3. CASE r.ok /\ r.job # 0
  <2>1. /\ Goto(c, "started")
        /\ jobId' = [jobId EXCEPT ![c] = r.job]
        /\ replies' \subseteq replies
        /\ UNCHANGED <<valid, requests, jobs>>
    BY <1>3 DEF StartJobReturns, Receive
  <2>2. r.job \in DOMAIN jobs /\ jobs[r.job].owner = c
    BY <1>3 DEF StartJobReturns, Receive, IInv, PendingReplies, Truthful
  <2>3. /\ \A d \in Caller : pc'[d] = IF d = c THEN "started" ELSE pc[d]
        /\ \A d \in Caller : jobId'[d] = IF d = c THEN r.job ELSE jobId[d]
        /\ \A j \in DOMAIN jobs : jobs[j].owner \in Caller
        /\ \A s \in requests \union replies : s.caller \in Caller
    BY <2>1, GotoChanges, JobType DEF IInv, TypeOK, Request, Reply
  <2>4. TypeOK'
    <3>1. r.job \in 0..Len(jobs)
      BY <2>2, LenProperties DEF IInv, TypeOK
    <3> QED
      BY <2>1, <3>1 DEF IInv, TypeOK, Goto, Label
  <2>5. KnownJobs'
    BY <1>1, <1>3, <2>1, <2>2, <2>3 DEF IInv, KnownJobs
  <2>6. OwnedJobs'
    BY <1>1, <2>1, <2>2, <2>3 DEF IInv, OwnedJobs, CleaningUp
  <2>7. PendingRequests'
    BY <1>1, <2>1, <2>2, <2>3
       DEF IInv, PendingRequests, Justified, Loaded, CleaningUp
  <2>8. PendingReplies'
    BY <1>1, <2>1, <2>2, <2>3
       DEF IInv, PendingReplies, Truthful, Loaded, Ended
  <2>9. Achieved'
    BY <1>1, <2>1, <2>3 DEF IInv, Achieved, Loaded, Ended
  <2> QED
    BY <2>4, <2>5, <2>6, <2>7, <2>8, <2>9 DEF IInv
<1> QED
  BY <1>2, <1>3

-----------------------------------------------------------------------------
(***************************************************************************)
(* The server.  Serving a request removes it and adds a reply; what is     *)
(* left to show, for each kind of request, is about the jobs.              *)
(***************************************************************************)
LEMMA ServeType ==
  ASSUME IInv, NEW r \in requests, NEW ok \in BOOLEAN, NEW job \in Nat,
         Serve(r, ok, job), jobs' \in Seq(Job), Len(jobs') >= Len(jobs)
  PROVE  TypeOK'
<1> DEFINE reply == [caller |-> r.caller, op |-> r.op, ok |-> ok, job |-> job]
<1>1. requests' \subseteq Request /\ r \in Request
  BY DEF IInv, TypeOK, Serve
<1>2. reply \in Reply /\ replies' = replies \union {reply}
  BY <1>1 DEF Serve, Reply, Request
<1>3. replies' \subseteq Reply
  BY <1>2 DEF IInv, TypeOK
<1>4. jobId' \in [Caller -> 0..Len(jobs')]
  <2>1. Len(jobs) \in Nat /\ Len(jobs') \in Nat
    BY LenProperties DEF IInv, TypeOK
  <2>2. 0..Len(jobs) \subseteq 0..Len(jobs')
    BY <2>1
  <2> QED
    BY <2>2 DEF IInv, TypeOK, Serve, callVars
<1> QED
  BY <1>1, <1>3, <1>4 DEF IInv, TypeOK, Serve, callVars

(* Jobs are never forgotten, given away, emptied or reopened.              *)
JobsKept ==
  \A j \in DOMAIN jobs :
    /\ j \in DOMAIN jobs'
    /\ jobs'[j].owner = jobs[j].owner
    /\ jobs[j].graphs # {} => jobs'[j].graphs = jobs[j].graphs
    /\ jobs[j].status = "ended" => jobs'[j].status = "ended"

LEMMA Serving ==
  ASSUME IInv, NEW r \in requests, NEW ok \in BOOLEAN, NEW job \in Nat,
         Serve(r, ok, job), jobs' \in Seq(Job), JobsKept, OwnedJobs',
         NEW reply, reply = [caller |-> r.caller, op |-> r.op,
                             ok |-> ok, job |-> job], Truthful(reply)',
         \A s \in requests \ {r} : s.op = "start" =>
            \A j \in DOMAIN jobs' : jobs'[j].owner # s.caller
  PROVE  IInv'
<1>1. /\ UNCHANGED callVars
      /\ requests' = requests \ {r}
      /\ replies' = replies \union {reply}
  BY DEF Serve
<1>2. Len(jobs') >= Len(jobs)
  <2>1. /\ Len(jobs) \in Nat /\ DOMAIN jobs = 1..Len(jobs)
        /\ Len(jobs') \in Nat /\ DOMAIN jobs' = 1..Len(jobs')
    BY LenProperties DEF IInv, TypeOK
  <2>2. Len(jobs) # 0 => Len(jobs) \in DOMAIN jobs'
    BY <2>1 DEF JobsKept
  <2> QED
    BY <2>1, <2>2
<1>3. TypeOK'
  BY <1>2, ServeType
<1>4. ASSUME NEW c \in Caller, jobId[c] # 0
      PROVE  /\ jobId[c] \in DOMAIN jobs
             /\ jobs'[jobId[c]].owner = jobs[jobId[c]].owner
             /\ Loaded(c) => Loaded(c)'
             /\ Ended(c) => Ended(c)'
  BY <1>1, <1>4, JobOfKnownId
     DEF IInv, JobsKept, Loaded, Ended, callVars
<1>5. KnownJobs'
  BY <1>1, <1>4 DEF IInv, KnownJobs, callVars
<1>6. PendingRequests'
  <2>1. ASSUME NEW s \in requests, s # r PROVE Justified(s)'
    <3>1. Justified(s) /\ s.caller \in Caller
      BY DEF IInv, PendingRequests, TypeOK, Request
    <3>2. s.op = "end" => Loaded(s.caller)'
      BY <1>4, <3>1 DEF Justified, Loaded
    <3> QED
      BY <1>1, <2>1, <3>1, <3>2 DEF Justified, CleaningUp, callVars
  <2> QED
    BY <1>1, <2>1 DEF PendingRequests
<1>7. PendingReplies'
  <2>1. ASSUME NEW s \in replies PROVE Truthful(s)'
    <3>1. Truthful(s) /\ s.caller \in Caller
      BY DEF IInv, PendingReplies, TypeOK, Reply
    <3>2. Loaded(s.caller) => Loaded(s.caller)'
      BY <1>4, <3>1 DEF Loaded
    <3>3. Ended(s.caller) => Ended(s.caller)'
      BY <1>4, <3>1 DEF Ended
    <3> QED
      BY <3>1, <3>2, <3>3 DEF Truthful, JobsKept
  <2>2. ASSUME NEW s \in replies' PROVE Truthful(s)'
    <3>1. CASE s = reply
      BY <3>1 DEF Truthful
    <3> QED
      BY <1>1, <2>1, <2>2, <3>1
  <2> QED
    BY <2>2 DEF PendingReplies
<1>8. Achieved'
  BY <1>1, <1>4 DEF IInv, Achieved, Loaded, Ended, callVars
<1> QED
  BY <1>3, <1>5, <1>6, <1>7, <1>8 DEF IInv

LEMMA ServerRefusesPreserves ==
  ASSUME IInv, NEW r \in requests, ServerRefuses(r)
  PROVE  IInv'
<1>1. r \in Request /\ r.job \in Nat /\ Justified(r)
  BY DEF IInv, TypeOK, Request, PendingRequests
<1>2. PICK reply : reply = [caller |-> r.caller, op |-> r.op,
                            ok |-> FALSE, job |-> r.job]
  OBVIOUS
<1>3. UNCHANGED <<jobs, callVars>>
  BY DEF ServerRefuses, Serve
<1>4. jobs' \in Seq(Job) /\ JobsKept
  BY <1>3 DEF IInv, TypeOK, JobsKept
<1>5. OwnedJobs'
  BY <1>3 DEF IInv, OwnedJobs, CleaningUp, callVars
<1>6. Truthful(reply)'
  BY <1>1, <1>2 DEF Truthful, Justified
<1>7. \A s \in requests \ {r} : s.op = "start" =>
        \A j \in DOMAIN jobs' : jobs'[j].owner # s.caller
  BY <1>3 DEF IInv, PendingRequests, Justified
<1> QED
  BY <1>1, <1>2, <1>4, <1>5, <1>6, <1>7, Serving DEF ServerRefuses

(* What is known of a request to upload or to end, when it is served.      *)
LEMMA Addressed ==
  ASSUME IInv, NEW r \in requests, r.op # "start"
  PROVE  /\ r.caller \in Caller
         /\ r.job \in Nat
         /\ r.job = jobId[r.caller]
         /\ r.job \in DOMAIN jobs
         /\ jobs[r.job] \in Job
         /\ jobs[r.job].owner = r.caller
<1>1. r.caller \in Caller /\ r.job \in Nat
  BY DEF IInv, TypeOK, Request
<1>2. r.job = jobId[r.caller] /\ r.job # 0
  BY DEF IInv, PendingRequests, Justified
<1>3. r.job \in DOMAIN jobs
  BY <1>1, <1>2, JobOfKnownId DEF IInv
<1>4. jobs[r.job] \in Job
  BY <1>3, JobType DEF IInv
<1>5. jobs[r.job].owner = r.caller
  BY <1>1, <1>2 DEF IInv, KnownJobs
<1> QED
  BY <1>1, <1>2, <1>3, <1>4, <1>5

(* Changing one job for another of its type.                               *)
LEMMA Replacing ==
  ASSUME TypeOK, NEW i \in DOMAIN jobs, NEW new \in Job,
         jobs' = [jobs EXCEPT ![i] = new]
  PROVE  /\ jobs' \in Seq(Job)
         /\ DOMAIN jobs' = DOMAIN jobs
         /\ \A j \in DOMAIN jobs : jobs'[j] = IF j = i THEN new ELSE jobs[j]
<1>1. i \in 1..Len(jobs)
  BY LenProperties DEF TypeOK
<1>2. /\ jobs' \in Seq(Job)
      /\ Len(jobs') = Len(jobs)
  BY <1>1, ExceptSeq DEF TypeOK
<1> QED
  BY <1>2, LenProperties DEF TypeOK

LEMMA ServeUploadPreserves ==
  ASSUME IInv, NEW r \in requests, NEW ok \in BOOLEAN, ServeUpload(r, ok)
  PROVE  IInv'
<1>1. /\ r.op = "upload"
      /\ jobs[r.job].status = "open"
      /\ Serve(r, ok, r.job)
      /\ UNCHANGED callVars
  BY DEF ServeUpload, Serve
<1>2. /\ r.caller \in Caller
      /\ r.job \in Nat
      /\ r.job = jobId[r.caller]
      /\ r.job \in DOMAIN jobs
      /\ jobs[r.job] \in Job
      /\ jobs[r.job].owner = r.caller
  BY <1>1, Addressed
<1>3. /\ jobs[r.job].graphs \subseteq {r.caller}
      /\ r.job # 0
  BY <1>1, <1>2 DEF IInv, OwnedJobs, PendingRequests, Justified
<1>4. PICK new \in Job : new = [owner |-> r.caller, status |-> "open",
                                graphs |-> {r.caller}]
  BY <1>2 DEF Job
<1>5. jobs' = [jobs EXCEPT ![r.job] = new]
  <2>1. jobs[r.job].graphs \union {r.caller} = {r.caller}
    BY <1>3
  <2>2. new = [jobs[r.job] EXCEPT !.graphs = jobs[r.job].graphs \union {r.caller}]
    BY <1>1, <1>2, <1>4, <2>1 DEF Job
  <2> QED
    BY <2>2 DEF ServeUpload
<1>6. /\ jobs' \in Seq(Job)
      /\ DOMAIN jobs' = DOMAIN jobs
      /\ \A j \in DOMAIN jobs : jobs'[j] = IF j = r.job THEN new ELSE jobs[j]
  BY <1>2, <1>5, Replacing DEF IInv
<1>7. JobsKept
  <2>1. jobs[r.job].graphs # {} => jobs[r.job].graphs = {r.caller}
    BY <1>3
  <2>2. new.owner = r.caller /\ new.graphs = {r.caller}
    BY <1>4
  <2> QED
    BY <1>1, <1>2, <1>6, <2>1, <2>2 DEF JobsKept
<1>8. OwnedJobs'
  BY <1>1, <1>2, <1>4, <1>6 DEF IInv, OwnedJobs, CleaningUp, callVars
<1>9. PICK reply : reply = [caller |-> r.caller, op |-> r.op,
                            ok |-> ok, job |-> r.job]
  OBVIOUS
<1>10. Truthful(reply)'
  BY <1>1, <1>2, <1>3, <1>4, <1>6, <1>9 DEF Truthful, Loaded, callVars
<1>11. \A s \in requests \ {r} : s.op = "start" =>
         \A j \in DOMAIN jobs' : jobs'[j].owner # s.caller
  BY <1>2, <1>4, <1>6 DEF IInv, PendingRequests, Justified
<1> QED
  BY <1>1, <1>2, <1>6, <1>7, <1>8, <1>9, <1>10, <1>11, Serving

LEMMA ServeEndPreserves ==
  ASSUME IInv, NEW r \in requests, NEW ok \in BOOLEAN, ServeEnd(r, ok)
  PROVE  IInv'
<1>1. /\ r.op \in {"end", "cleanup"}
      /\ Serve(r, ok, r.job)
      /\ UNCHANGED callVars
  BY DEF ServeEnd, Serve
<1>2. /\ r.caller \in Caller
      /\ r.job \in Nat
      /\ r.job = jobId[r.caller]
      /\ r.job \in DOMAIN jobs
      /\ jobs[r.job] \in Job
      /\ jobs[r.job].owner = r.caller
  BY <1>1, Addressed
<1>3. r.job # 0
  BY <1>1 DEF IInv, PendingRequests, Justified
<1>4. PICK new \in Job : new = [jobs[r.job] EXCEPT !.status = "ended"]
  BY <1>2 DEF Job
<1>5. /\ new.owner = r.caller
      /\ new.graphs = jobs[r.job].graphs
      /\ new.status = "ended"
  BY <1>2, <1>4 DEF Job
<1>6. /\ jobs' \in Seq(Job)
      /\ DOMAIN jobs' = DOMAIN jobs
      /\ \A j \in DOMAIN jobs : jobs'[j] = IF j = r.job THEN new ELSE jobs[j]
  <2>1. jobs' = [jobs EXCEPT ![r.job] = new]
    BY <1>4 DEF ServeEnd
  <2> QED
    BY <1>2, <2>1, Replacing DEF IInv
<1>7. JobsKept
  BY <1>2, <1>5, <1>6 DEF JobsKept
<1>8. OwnedJobs'
  <2>1. new.graphs = {} => CleaningUp(r.caller)
    BY <1>1, <1>2, <1>5
       DEF IInv, PendingRequests, Justified, Loaded
  <2> QED
    BY <1>1, <1>2, <1>5, <1>6, <2>1
       DEF IInv, OwnedJobs, CleaningUp, callVars
<1>9. PICK reply : reply = [caller |-> r.caller, op |-> r.op,
                            ok |-> ok, job |-> r.job]
  OBVIOUS
<1>10. Truthful(reply)'
  BY <1>1, <1>2, <1>3, <1>5, <1>6, <1>9 DEF Truthful, Ended, callVars
<1>11. \A s \in requests \ {r} : s.op = "start" =>
         \A j \in DOMAIN jobs' : jobs'[j].owner # s.caller
  BY <1>2, <1>5, <1>6 DEF IInv, PendingRequests, Justified
<1> QED
  BY <1>1, <1>2, <1>6, <1>7, <1>8, <1>9, <1>10, <1>11, Serving

LEMMA ServeStartPreserves ==
  ASSUME IInv, NEW r \in requests, NEW ok \in BOOLEAN, NEW garbled \in BOOLEAN,
         ServeStart(r, ok, garbled)
  PROVE  IInv'
<1>1. /\ r.op = "start"
      /\ r \in Request
      /\ r.caller \in Caller
      /\ UNCHANGED callVars
  BY DEF ServeStart, Serve, IInv, TypeOK, Request
<1>2. /\ r.job = 0
      /\ valid[r.caller]
      /\ pc[r.caller] # "idle"
      /\ \A j \in DOMAIN jobs : jobs[j].owner # r.caller
  BY <1>1 DEF IInv, PendingRequests, Justified
<1>3. /\ Len(jobs) \in Nat
      /\ DOMAIN jobs = 1..Len(jobs)
  BY LenProperties DEF IInv, TypeOK
<1>4. PICK new \in Job : new = [owner |-> r.caller, status |-> "open",
                                graphs |-> {}]
  BY <1>1 DEF Job
<1>5. PICK last \in Nat : last = Len(jobs) + 1
  BY <1>3
<1>6. /\ jobs' \in Seq(Job)
      /\ DOMAIN jobs' = 1..last
      /\ \A j \in DOMAIN jobs : j \in 1..last /\ j # last /\ jobs'[j] = jobs[j]
      /\ jobs'[last] = new
      /\ \A j \in 1..last : j = last \/ j \in DOMAIN jobs
  <2>1. jobs' = Append(jobs, new) /\ jobs \in Seq(Job)
    BY <1>4 DEF ServeStart, IInv, TypeOK
  <2>2. /\ jobs' \in Seq(Job)
        /\ Len(jobs') = last
        /\ \A j \in 1..Len(jobs) : jobs'[j] = jobs[j]
        /\ jobs'[last] = new
    BY <1>5, <2>1, AppendProperties
  <2>3. DOMAIN jobs' = 1..last
    BY <2>2, LenProperties
  <2> QED
    BY <1>3, <1>5, <2>2, <2>3
<1>7. JobsKept
  BY <1>6 DEF JobsKept
<1>8. OwnedJobs'
  BY <1>1, <1>2, <1>4, <1>5, <1>6 DEF IInv, OwnedJobs, CleaningUp, callVars
<1>9. PICK job \in Nat : job = IF garbled THEN 0 ELSE last
  OBVIOUS
<1>10. PICK reply : reply = [caller |-> r.caller, op |-> r.op,
                             ok |-> ok, job |-> job]
  OBVIOUS
<1>11. Truthful(reply)'
  <2>1. job # 0 => job = last /\ last \in DOMAIN jobs'
    BY <1>3, <1>5, <1>6, <1>9
  <2> QED
    BY <1>1, <1>4, <1>6, <1>10, <2>1 DEF Truthful
<1>12. \A s \in requests \ {r} : s.op = "start" =>
         \A j \in DOMAIN jobs' : jobs'[j].owner # s.caller
  <2>1. ASSUME NEW s \in requests \ {r}, s.op = "start"
        PROVE  s.caller # r.caller
    <3>1. s \in Request /\ s.job = 0
      BY <2>1 DEF IInv, TypeOK, PendingRequests, Justified
    <3> QED
      BY <1>1, <1>2, <2>1, <3>1 DEF Request
  <2> QED
    BY <1>4, <1>6, <2>1 DEF IInv, PendingRequests, Justified
<1>13. Serve(r, ok, job)
  BY <1>5, <1>9 DEF ServeStart
<1> QED
  BY <1>6, <1>7, <1>8, <1>10, <1>11, <1>12, <1>13, Serving

-----------------------------------------------------------------------------
LEMMA NextIInv == IInv /\ [Next]_vars => IInv'
<1> SUFFICES ASSUME IInv, [Next]_vars PROVE IInv'
  OBVIOUS
<1>1. ASSUME NEW c \in Caller, Ingest(c) PROVE IInv'
  BY <1>1, CallPreserves, StartJobPreserves, StartJobReturnsPreserves,
     UploadGraphPreserves, EndJobPreserves
     DEF Ingest
<1>2. ASSUME NEW c \in Caller, CleanUp(c) \/ CleanUpReturns(c) PROVE IInv'
  BY <1>2, CallPreserves, CleanUpPreserves
<1>3. CASE Server
  BY <1>3, ServeStartPreserves, ServeUploadPreserves, ServeEndPreserves,
     ServerRefusesPreserves
     DEF Server
<1>4. CASE UNCHANGED vars
  BY <1>4
     DEF vars, callVars, IInv, TypeOK, KnownJobs, OwnedJobs, PendingRequests,
         PendingReplies, Achieved, Justified, Truthful, Loaded, Ended, CleaningUp
<1> QED
  BY <1>1, <1>2, <1>3, <1>4 DEF Next

LEMMA Invariance == Spec => []IInv
BY InitIInv, NextIInv, PTL DEF Spec

LEMMA IInvImplies ==
  IInv => /\ SuccessMeansIngested
          /\ NoCrosstalk
          /\ LostJobsAreEmpty
          /\ OneJobPerCall
          /\ NothingEndedEmpty
<1> SUFFICES ASSUME IInv
             PROVE  /\ SuccessMeansIngested
                    /\ NoCrosstalk
                    /\ LostJobsAreEmpty
                    /\ OneJobPerCall
                    /\ NothingEndedEmpty
  OBVIOUS
<1>1. ASSUME NEW c \in Caller, pc[c] = "done"
      PROVE  /\ jobId[c] # 0
             /\ jobs[jobId[c]] = [owner |-> c, status |-> "ended", graphs |-> {c}]
  <2>1. Loaded(c) /\ Ended(c)
    BY <1>1 DEF IInv, Achieved
  <2>2. jobId[c] \in DOMAIN jobs
    BY <2>1, JobOfKnownId DEF IInv, Loaded
  <2>3. jobs[jobId[c]] \in Job /\ jobs[jobId[c]].owner = c
    BY <2>1, <2>2, JobType DEF IInv, KnownJobs, Loaded
  <2> QED
    BY <2>1, <2>3 DEF Loaded, Ended, Job
<1>2. SuccessMeansIngested
  BY <1>1 DEF SuccessMeansIngested
<1>3. NoCrosstalk
  BY DEF IInv, KnownJobs, OwnedJobs, NoCrosstalk
<1>4. LostJobsAreEmpty /\ OneJobPerCall
  BY DEF IInv, OwnedJobs, LostJobsAreEmpty, OneJobPerCall
<1>5. NothingEndedEmpty
  BY DEF IInv, OwnedJobs, NothingEndedEmpty, CleaningUp
<1> QED
  BY <1>2, <1>3, <1>4, <1>5

-----------------------------------------------------------------------------
(* ingest.go:30: the variables keep their types; in particular no call     *)
(* ever holds the id of a job the server does not have.                    *)
THEOREM TypeCorrect == Spec => []TypeOK
<1>1. IInv => TypeOK
  BY DEF IInv
<1> QED
  BY <1>1, Invariance, PTL

(* ingest.go:16: a reported success is a processed job with the graph of   *)
(* the call, for any number of concurrent calls.                           *)
THEOREM SuccessIsIngestion == Spec => []SuccessMeansIngested
BY Invariance, IInvImplies, PTL

(* ingest.go:35: concurrent calls never touch each other's jobs.           *)
THEOREM CallsAreIndependent == Spec => []NoCrosstalk
BY Invariance, IInvImplies, PTL

(* client_test.go:290: what a call loses sight of is an empty open job.    *)
THEOREM OrphansAreEmpty == Spec => []LostJobsAreEmpty
BY Invariance, IInvImplies, PTL

(* README.md:182: no call makes a second job, or any for an invalid graph. *)
THEOREM NoSecondJob == Spec => []OneJobPerCall
BY Invariance, IInvImplies, PTL

(* ingest.go:22: Ingest does not end a job its graph did not get into.     *)
THEOREM NoEmptyIngestion == Spec => []NothingEndedEmpty
BY Invariance, IInvImplies, PTL

(* ingest.go:62: whatever is late, lost or garbled, what is sent after     *)
(* start names a job the server made for its sender.                       *)
THEOREM RequestsAreForJobs == Spec => []RequestsNameTheirJob
<1>1. IInv => RequestsNameTheirJob
  BY Addressed DEF RequestsNameTheirJob
<1> QED
  BY <1>1, Invariance, PTL

-----------------------------------------------------------------------------
(***************************************************************************)
(* Refinement.  A call has at most one job, so the stage of its job is the *)
(* effect of the call, and a step that touches one job moves one call.     *)
(***************************************************************************)
LEMMA EffectWithoutJob ==
  ASSUME NEW js, NEW c, \A j \in DOMAIN js : js[j].owner # c
  PROVE  Effect(js, c) = "none"
<1>1. JobsOf(js, c) = {}
  BY DEF JobsOf
<1> QED
  BY <1>1 DEF Effect

LEMMA EffectOfJob ==
  ASSUME NEW js, NEW c, NEW i \in DOMAIN js, js[i].owner = c,
         \A j \in DOMAIN js : js[j].owner = c => j = i
  PROVE  Effect(js, c) = Stage(js[i])
<1>1. JobsOf(js, c) = {i}
  BY DEF JobsOf
<1>2. (CHOOSE j \in JobsOf(js, c) : TRUE) = i
  BY <1>1
<1> QED
  BY <1>1, <1>2 DEF Effect

LEMMA EffectKnown ==
  ASSUME IInv, NEW i \in DOMAIN jobs
  PROVE  Effect(jobs, jobs[i].owner) = Stage(jobs[i])
BY EffectOfJob DEF IInv, OwnedJobs

LEMMA InitJobs == Init => Jobs!Init
<1> SUFFICES ASSUME Init PROVE Jobs!Init
  OBVIOUS
<1>1. \A c : Effect(jobs, c) = "none"
  <2>1. \A j \in DOMAIN jobs : FALSE
    BY DEF Init
  <2> QED
    BY <2>1, EffectWithoutJob
<1>2. \A c \in Caller : Told(c) = "running"
  BY DEF Init, Told
<1> QED
  BY <1>1, <1>2 DEF Jobs!Init

(* Only the call that moves may be told something, and jobs are as before. *)
OnlyMoves(c) ==
  /\ jobs' = jobs
  /\ \A d \in Caller : d # c => pc'[d] = pc[d] /\ jobId'[d] = jobId[d]

LEMMA ToldOthers ==
  ASSUME NEW c \in Caller, OnlyMoves(c), NEW d \in Caller, d # c
  PROVE  Told(d)' = Told(d)
BY DEF OnlyMoves, Told

LEMMA TellingNothing ==
  ASSUME NEW c \in Caller, OnlyMoves(c), Told(c)' = Told(c)
  PROVE  UNCHANGED Jobs!vars
<1>1. \A d \in Caller : Told(d)' = Told(d)
  BY ToldOthers
<1>2. [d \in Caller |-> Told(d)]' = [d \in Caller |-> Told(d)]
  BY <1>1
<1>3. [d \in Caller |-> Effect(jobs, d)]' = [d \in Caller |-> Effect(jobs, d)]
  BY DEF OnlyMoves
<1> QED
  BY <1>2, <1>3 DEF Jobs!vars

LEMMA Telling ==
  ASSUME NEW c \in Caller, OnlyMoves(c), NEW t, Told(c)' = t
  PROVE  Jobs!Tell(c, t)
<1>1. \A d \in Caller : Told(d)' = IF d = c THEN t ELSE Told(d)
  BY ToldOthers
<1>2. [d \in Caller |-> Told(d)]'
        = [[d \in Caller |-> Told(d)] EXCEPT ![c] = t]
  BY <1>1
<1>3. [d \in Caller |-> Effect(jobs, d)]' = [d \in Caller |-> Effect(jobs, d)]
  BY DEF OnlyMoves
<1> QED
  BY <1>2, <1>3 DEF Jobs!Tell

LEMMA TellingFailure ==
  ASSUME IInv, NEW c \in Caller, OnlyMoves(c), Told(c) = "running",
         pc'[c] = "failed", jobId'[c] = jobId[c]
  PROVE  Jobs!Next
<1>1. CASE jobId[c] # 0
  <2>1. Told(c)' = "error"
    BY <1>1 DEF Told
  <2>2. Effect(jobs, c) # "none"
    <3>1. jobId[c] \in DOMAIN jobs /\ jobs[jobId[c]].owner = c
      BY <1>1, JobOfKnownId DEF IInv, KnownJobs
    <3> QED
      BY <3>1, EffectKnown DEF Stage
  <2>3. Jobs!Fail(c)
    BY <2>1, <2>2, Telling DEF Jobs!Fail
  <2> QED
    BY <2>3 DEF Jobs!Next
<1>2. CASE jobId[c] = 0
  <2>1. Told(c)' = "orphan"
    BY <1>2 DEF Told
  <2>2. Effect(jobs, c) \in {"none", "open"}
    <3>1. CASE \A j \in DOMAIN jobs : jobs[j].owner # c
      BY <3>1, EffectWithoutJob
    <3>2. ASSUME NEW j \in DOMAIN jobs, jobs[j].owner = c
          PROVE  Effect(jobs, c) = "open"
      <4>1. j # 0
        BY LenProperties DEF IInv, TypeOK
      <4>2. jobs[j].status = "open" /\ jobs[j].graphs = {}
        BY <1>2, <3>2, <4>1 DEF IInv, OwnedJobs
      <4> QED
        BY <3>2, <4>2, EffectKnown DEF Stage
    <3> QED
      BY <3>1, <3>2
  <2>3. Jobs!FailWithoutJob(c)
    BY <2>1, <2>2, Telling DEF Jobs!FailWithoutJob
  <2> QED
    BY <2>3 DEF Jobs!Next
<1> QED
  BY <1>1, <1>2

LEMMA TellingSuccess ==
  ASSUME IInv, NEW c \in Caller, OnlyMoves(c), Told(c) = "running",
         pc'[c] = "done", Loaded(c), Ended(c)
  PROVE  Jobs!Next
<1>1. Told(c)' = "ok"
  BY DEF Told
<1>2. Effect(jobs, c) = "ingested"
  <2>1. jobId[c] \in DOMAIN jobs /\ jobs[jobId[c]].owner = c
    BY JobOfKnownId DEF IInv, KnownJobs, Loaded
  <2> QED
    BY <2>1, EffectKnown DEF Stage, Loaded, Ended
<1>3. Jobs!Succeed(c)
  BY <1>1, <1>2, Telling DEF Jobs!Succeed
<1> QED
  BY <1>3 DEF Jobs!Next

LEMMA CallStep ==
  ASSUME IInv, NEW c \in Caller,
         Ingest(c) \/ CleanUp(c) \/ CleanUpReturns(c)
  PROVE  [Jobs!Next]_(Jobs!vars)
<1>1. \A l : Goto(c, l) => /\ pc'[c] = l
                          /\ \A d \in Caller : d # c => pc'[d] = pc[d]
  BY DEF Goto, IInv, TypeOK
<1>2. ASSUME Goto(c, "failed"), UNCHANGED <<jobId, jobs>>, Told(c) = "running"
      PROVE  Jobs!Next
  BY <1>1, <1>2, TellingFailure DEF OnlyMoves
<1>3. CASE RefuseInvalid(c) \/ LocalFailure(c) \/ DoFails(c)
  <2>1. Told(c) = "running"
    BY <1>3 DEF Told, RefuseInvalid, LocalFailure, DoFails
  <2> QED
    BY <1>2, <1>3, <2>1 DEF RefuseInvalid, LocalFailure, DoFails
<1>4. CASE StartJob(c) \/ UploadGraph(c) \/ EndJob(c)
  <2>1. PICK l \in {"starting", "uploading", "ending"} :
          Goto(c, l) /\ UNCHANGED <<jobId, jobs>>
    BY <1>4 DEF StartJob, UploadGraph, EndJob, Do
  <2>2. Told(c) = "running" /\ Told(c)' = "running"
    BY <1>1, <1>4, <2>1 DEF Told, StartJob, UploadGraph, EndJob
  <2> QED
    BY <1>1, <2>1, <2>2, TellingNothing DEF OnlyMoves
<1>5. ASSUME NEW r \in replies, StartJobReturns(c, r)
      PROVE  [Jobs!Next]_(Jobs!vars)
  <2>1. Told(c) = "running"
    BY <1>5 DEF Told, StartJobReturns
  <2>2. CASE r.ok /\ r.job # 0
    <3>1. /\ Goto(c, "started")
          /\ jobs' = jobs
          /\ \A d \in Caller : d # c => jobId'[d] = jobId[d]
      BY <1>5, <2>2 DEF StartJobReturns, IInv, TypeOK
    <3>2. Told(c)' = "running"
      BY <1>1, <3>1 DEF Told
    <3> QED
      BY <1>1, <2>1, <3>1, <3>2, TellingNothing DEF OnlyMoves
  <2>3. CASE ~(r.ok /\ r.job # 0)
    BY <1>2, <1>5, <2>1, <2>3 DEF StartJobReturns
  <2> QED
    BY <2>2, <2>3
<1>6. ASSUME NEW r \in replies, UploadGraphReturns(c, r)
      PROVE  [Jobs!Next]_(Jobs!vars)
  <2>1. Told(c) = "running"
    BY <1>6 DEF Told, UploadGraphReturns
  <2>2. CASE r.ok
    <3>1. Goto(c, "uploaded") /\ UNCHANGED <<jobId, jobs>>
      BY <1>6, <2>2 DEF UploadGraphReturns
    <3>2. Told(c)' = "running"
      BY <1>1, <3>1 DEF Told
    <3> QED
      BY <1>1, <2>1, <3>1, <3>2, TellingNothing DEF OnlyMoves
  <2>3. CASE ~r.ok
    BY <1>2, <1>6, <2>1, <2>3 DEF UploadGraphReturns
  <2> QED
    BY <2>2, <2>3
<1>7. ASSUME NEW r \in replies, EndJobReturns(c, r)
      PROVE  [Jobs!Next]_(Jobs!vars)
  <2>1. Told(c) = "running"
    BY <1>7 DEF Told, EndJobReturns
  <2>2. CASE r.ok
    <3>1. Goto(c, "done") /\ UNCHANGED <<jobId, jobs>>
      BY <1>7, <2>2 DEF EndJobReturns
    <3>2. Loaded(c) /\ Ended(c)
      BY <1>7, <2>2
         DEF EndJobReturns, Receive, IInv, PendingReplies, Truthful, Achieved
    <3> QED
      BY <1>1, <2>1, <3>1, <3>2, TellingSuccess DEF OnlyMoves
  <2>3. CASE ~r.ok
    BY <1>2, <1>7, <2>1, <2>3 DEF EndJobReturns
  <2> QED
    BY <2>2, <2>3
<1>8. CASE CleanUp(c) \/ CleanUpReturns(c)
  <2>1. PICK l \in {"cleaning", "cleaned"} :
          Goto(c, l) /\ UNCHANGED <<jobId, jobs>>
    BY <1>8 DEF CleanUp, CleanUpReturns, Do
  <2>2. Told(c) = "error" /\ Told(c)' = "error"
    BY <1>1, <1>8, <2>1 DEF Told, CleanUp, CleanUpReturns, IInv, KnownJobs
  <2> QED
    BY <1>1, <2>1, <2>2, TellingNothing DEF OnlyMoves
<1> QED
  BY <1>3, <1>4, <1>5, <1>6, <1>7, <1>8 DEF Ingest

-----------------------------------------------------------------------------
(* The server moves the effect of one call.                                *)
OnlyJobsOf(c) ==
  /\ UNCHANGED callVars
  /\ \A j \in DOMAIN jobs :
       j \in DOMAIN jobs' /\ jobs'[j].owner = jobs[j].owner
  /\ \A j \in DOMAIN jobs' :
       jobs'[j].owner # c => j \in DOMAIN jobs /\ jobs'[j] = jobs[j]

LEMMA OtherEffects ==
  ASSUME IInv, NEW c \in Caller, OnlyJobsOf(c), NEW d \in Caller, d # c
  PROVE  Effect(jobs, d)' = Effect(jobs, d)
<1>1. CASE \A j \in DOMAIN jobs : jobs[j].owner # d
  <2>1. \A j \in DOMAIN jobs' : jobs'[j].owner # d
    BY <1>1 DEF OnlyJobsOf
  <2>2. Effect(jobs', d) = "none"
    BY <2>1, EffectWithoutJob
  <2> QED
    BY <1>1, <2>2, EffectWithoutJob
<1>2. ASSUME NEW i \in DOMAIN jobs, jobs[i].owner = d
      PROVE  Effect(jobs, d)' = Effect(jobs, d)
  <2>1. i \in DOMAIN jobs' /\ jobs'[i] = jobs[i] /\ jobs'[i].owner = d
    BY <1>2 DEF OnlyJobsOf
  <2>2. \A j \in DOMAIN jobs' : jobs'[j].owner = d => j = i
    BY <1>2 DEF OnlyJobsOf, IInv, OwnedJobs
  <2>3. Effect(jobs', d) = Stage(jobs'[i])
    BY <2>1, <2>2, EffectOfJob
  <2> QED
    BY <1>2, <2>1, <2>3, EffectKnown
<1> QED
  BY <1>1, <1>2

LEMMA Becoming ==
  ASSUME IInv, NEW c \in Caller, OnlyJobsOf(c), NEW e, Effect(jobs, c)' = e
  PROVE  Jobs!Become(c, e)
<1>1. \A d \in Caller : Effect(jobs, d)' = IF d = c THEN e ELSE Effect(jobs, d)
  BY OtherEffects
<1>2. [d \in Caller |-> Effect(jobs, d)]'
        = [[d \in Caller |-> Effect(jobs, d)] EXCEPT ![c] = e]
  BY <1>1
<1>3. [d \in Caller |-> Told(d)]' = [d \in Caller |-> Told(d)]
  BY DEF OnlyJobsOf, callVars, Told
<1> QED
  BY <1>2, <1>3 DEF Jobs!Become

LEMMA EffectKnownNext ==
  ASSUME OwnedJobs', NEW i \in DOMAIN jobs'
  PROVE  Effect(jobs', jobs'[i].owner) = Stage(jobs'[i])
BY EffectOfJob DEF OwnedJobs

LEMMA OpenStep ==
  ASSUME IInv, IInv', NEW r \in requests, NEW ok, NEW garbled,
         ServeStart(r, ok, garbled)
  PROVE  Jobs!Next
<1>1. r.caller \in Caller /\ UNCHANGED callVars
  BY DEF ServeStart, Serve, IInv, TypeOK, Request
<1>2. \A j \in DOMAIN jobs : jobs[j].owner # r.caller
  BY DEF ServeStart, IInv, PendingRequests, Justified
<1>3. PICK new \in Job : new = [owner |-> r.caller, status |-> "open",
                                graphs |-> {}]
  BY <1>1 DEF Job
<1>4. PICK last \in Nat : last = Len(jobs) + 1
  BY LenProperties DEF IInv, TypeOK
<1>5. /\ DOMAIN jobs' = 1..last
      /\ DOMAIN jobs \subseteq 1..last
      /\ \A j \in DOMAIN jobs : jobs'[j] = jobs[j]
      /\ jobs'[last] = new
      /\ \A j \in 1..last : j = last \/ j \in DOMAIN jobs
      /\ last \in 1..last
  <2>1. jobs' = Append(jobs, new) /\ jobs \in Seq(Job)
    BY <1>3 DEF ServeStart, IInv, TypeOK
  <2>2. /\ jobs' \in Seq(Job)
        /\ Len(jobs') = last
        /\ \A j \in 1..Len(jobs) : jobs'[j] = jobs[j]
        /\ jobs'[last] = new
    BY <1>4, <2>1, AppendProperties
  <2>3. /\ Len(jobs) \in Nat
        /\ DOMAIN jobs = 1..Len(jobs)
        /\ DOMAIN jobs' = 1..last
    BY <2>1, <2>2, LenProperties
  <2> QED
    BY <1>4, <2>2, <2>3
<1>6. OnlyJobsOf(r.caller)
  BY <1>1, <1>3, <1>5 DEF OnlyJobsOf
<1>7. Effect(jobs, r.caller)' = "open"
  <2>1. last \in DOMAIN jobs' /\ jobs'[last].owner = r.caller /\ OwnedJobs'
    BY <1>3, <1>5 DEF IInv
  <2>2. Effect(jobs', r.caller) = Stage(jobs'[last])
    BY <2>1, EffectKnownNext
  <2> QED
    BY <1>3, <1>5, <2>2 DEF Stage
<1>8. Effect(jobs, r.caller) = "none"
  BY <1>2, EffectWithoutJob
<1>9. Told(r.caller) \in {"running", "orphan"}
  <2>1. jobId[r.caller] = 0
    BY <1>1, <1>2, JobOfKnownId DEF IInv, KnownJobs
  <2> QED
    BY <1>1, <2>1 DEF Told, IInv, KnownJobs
<1>10. PICK c \in Caller : c = r.caller
  BY <1>1
<1>11. Jobs!Open(c)
  BY <1>6, <1>7, <1>8, <1>9, <1>10, Becoming DEF Jobs!Open
<1> QED
  BY <1>11 DEF Jobs!Next

LEMMA LoadStep ==
  ASSUME IInv, IInv', NEW r \in requests, NEW ok, ServeUpload(r, ok)
  PROVE  [Jobs!Next]_(Jobs!vars)
<1>1. /\ r.op = "upload"
      /\ jobs[r.job].status = "open"
      /\ UNCHANGED callVars
  BY DEF ServeUpload, Serve
<1>2. PICK c \in Caller : c = r.caller
  BY DEF IInv, TypeOK, Request
<1>3. /\ r.job = jobId[c]
      /\ r.job # 0
      /\ r.job \in DOMAIN jobs
      /\ jobs[r.job] \in Job
      /\ jobs[r.job].owner = c
  BY <1>1, <1>2, Addressed DEF IInv, PendingRequests, Justified
<1>4. /\ DOMAIN jobs' = DOMAIN jobs
      /\ \A j \in DOMAIN jobs : j # r.job => jobs'[j] = jobs[j]
      /\ jobs'[r.job] = [jobs[r.job] EXCEPT
                           !.graphs = jobs[r.job].graphs \union {c}]
  <2>1. jobs \in [DOMAIN jobs -> Job]
    BY LenProperties DEF IInv, TypeOK
  <2> QED
    BY <1>2, <1>3, <2>1 DEF ServeUpload
<1>5. /\ jobs'[r.job].owner = c
      /\ jobs'[r.job].status = "open"
      /\ jobs'[r.job].graphs # {}
  BY <1>1, <1>3, <1>4 DEF Job
<1>6. OnlyJobsOf(c)
  BY <1>1, <1>3, <1>4, <1>5 DEF OnlyJobsOf
<1>7. Effect(jobs, c)' = "loaded"
  <2>1. Effect(jobs', c) = Stage(jobs'[r.job])
    BY <1>3, <1>4, <1>5, EffectKnownNext DEF IInv
  <2> QED
    BY <1>5, <2>1 DEF Stage
<1>8. Effect(jobs, c) \in {"open", "loaded"}
  BY <1>1, <1>3, EffectKnown DEF Stage
<1>9. CASE Effect(jobs, c) = "open"
  <2>1. Told(c) \in {"running", "error"}
    <3>1. pc[c] # "done"
      BY <1>1, <1>3 DEF IInv, Achieved, Ended
    <3> QED
      BY <1>3, <3>1 DEF Told
  <2>2. Jobs!Load(c)
    BY <1>6, <1>7, <1>9, <2>1, Becoming DEF Jobs!Load
  <2> QED
    BY <2>2 DEF Jobs!Next
<1>10. CASE Effect(jobs, c) = "loaded"
  <2>1. \A d \in Caller : Effect(jobs, d)' = Effect(jobs, d)
    BY <1>6, <1>7, <1>10, OtherEffects
  <2>2. [d \in Caller |-> Effect(jobs, d)]' = [d \in Caller |-> Effect(jobs, d)]
    BY <2>1
  <2>3. [d \in Caller |-> Told(d)]' = [d \in Caller |-> Told(d)]
    BY <1>1 DEF callVars, Told
  <2> QED
    BY <2>2, <2>3 DEF Jobs!vars
<1> QED
  BY <1>8, <1>9, <1>10

LEMMA EndStep ==
  ASSUME IInv, IInv', NEW r \in requests, NEW ok, ServeEnd(r, ok)
  PROVE  Jobs!Next
<1>1. /\ r.op \in {"end", "cleanup"}
      /\ jobs[r.job].status = "open"
      /\ UNCHANGED callVars
  BY DEF ServeEnd, Serve
<1>2. PICK c \in Caller : c = r.caller
  BY DEF IInv, TypeOK, Request
<1>3. /\ r.job = jobId[c]
      /\ r.job # 0
      /\ r.job \in DOMAIN jobs
      /\ jobs[r.job] \in Job
      /\ jobs[r.job].owner = c
  BY <1>1, <1>2, Addressed DEF IInv, PendingRequests, Justified
<1>4. /\ DOMAIN jobs' = DOMAIN jobs
      /\ \A j \in DOMAIN jobs : j # r.job => jobs'[j] = jobs[j]
      /\ jobs'[r.job] = [jobs[r.job] EXCEPT !.status = "ended"]
  <2>1. jobs \in [DOMAIN jobs -> Job]
    BY LenProperties DEF IInv, TypeOK
  <2> QED
    BY <1>2, <1>3, <2>1 DEF ServeEnd
<1>5. /\ jobs'[r.job].owner = c
      /\ jobs'[r.job].status = "ended"
      /\ jobs'[r.job].graphs = jobs[r.job].graphs
  BY <1>3, <1>4 DEF Job
<1>6. OnlyJobsOf(c)
  BY <1>1, <1>3, <1>4, <1>5 DEF OnlyJobsOf
<1>7. Effect(jobs, c)' = Stage(jobs'[r.job])
  BY <1>3, <1>4, <1>5, EffectKnownNext DEF IInv
<1>8. Effect(jobs, c) = Stage(jobs[r.job])
  BY <1>3, EffectKnown
<1>9. Told(c) \in {"running", "error"}
  <2>1. pc[c] # "done"
    BY <1>1, <1>3 DEF IInv, Achieved, Ended
  <2> QED
    BY <1>3, <2>1 DEF Told
<1>10. CASE jobs[r.job].graphs # {}
  <2>1. Effect(jobs, c) = "loaded" /\ Effect(jobs, c)' = "ingested"
    BY <1>1, <1>5, <1>7, <1>8, <1>10 DEF Stage
  <2>2. Jobs!Ingest(c)
    BY <1>6, <1>9, <2>1, Becoming DEF Jobs!Ingest
  <2> QED
    BY <2>2 DEF Jobs!Next
<1>11. CASE jobs[r.job].graphs = {}
  <2>1. Effect(jobs, c) = "open" /\ Effect(jobs, c)' = "discarded"
    BY <1>1, <1>5, <1>7, <1>8, <1>11 DEF Stage
  <2>2. CleaningUp(c)
    BY <1>2, <1>3, <1>11
       DEF IInv, PendingRequests, Justified, Loaded, ServeEnd
  <2>3. Told(c) = "error"
    BY <1>3, <2>2 DEF Told, CleaningUp
  <2>4. Jobs!Discard(c)
    BY <1>6, <2>1, <2>3, Becoming DEF Jobs!Discard
  <2> QED
    BY <2>4 DEF Jobs!Next
<1> QED
  BY <1>10, <1>11

LEMMA NextJobs == IInv /\ IInv' /\ [Next]_vars => [Jobs!Next]_(Jobs!vars)
<1> SUFFICES ASSUME IInv, IInv', [Next]_vars PROVE [Jobs!Next]_(Jobs!vars)
  OBVIOUS
<1>1. ASSUME NEW c \in Caller, Ingest(c) \/ CleanUp(c) \/ CleanUpReturns(c)
      PROVE  [Jobs!Next]_(Jobs!vars)
  BY <1>1, CallStep
<1>2. ASSUME NEW r \in requests, ServerRefuses(r)
      PROVE  [Jobs!Next]_(Jobs!vars)
  BY <1>2 DEF ServerRefuses, Serve, callVars, Jobs!vars, Told
<1>3. ASSUME Server PROVE [Jobs!Next]_(Jobs!vars)
  BY <1>2, <1>3, OpenStep, LoadStep, EndStep DEF Server
<1>4. CASE UNCHANGED vars
  BY <1>4 DEF vars, callVars, Jobs!vars, Told
<1> QED
  BY <1>1, <1>3, <1>4 DEF Next

(* ingest.go:30: what callers are told of their graphs agrees with what    *)
(* becomes of them, however the network and the server behave.             *)
THEOREM Refinement == Spec => ImplementsIngestJob
<1>1. Spec => Init /\ [][Next]_vars
  BY DEF Spec
<1> QED
  BY <1>1, Invariance, InitJobs, NextJobs, PTL DEF ImplementsIngestJob, Jobs!Spec
=============================================================================
