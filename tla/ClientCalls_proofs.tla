------------------------- MODULE ClientCalls_proofs -------------------------
(***************************************************************************)
(* Proofs about ClientCalls, for any set of callers, finite or not.        *)
(***************************************************************************)
EXTENDS ClientCalls, SequenceTheorems, TLAPS

-----------------------------------------------------------------------------
(***************************************************************************)
(* The inductive invariant.  The properties speak of what a call returned  *)
(* and of what a server would carry out; what makes them inductive is what *)
(* every request still to be served is signed for, and what every reply    *)
(* still to be received says of the time of its caller's call.             *)
(***************************************************************************)
(* The provers do not know that a literal is a STRING, so those of the     *)
(* code are added.                                                         *)
Segment ==
  STRING \union {"extensions", "features", "shortest-path", "cypher", "completed-tasks"}

Target(c) ==
  LET q == RequestFor(calls[c]) IN client.base \o q.path \o q.query

SignatureOf(c) ==
  LET q == RequestFor(calls[c]) IN Sign(TokenKey, q.method, Target(c), 0, q.body)

Typed ==
  /\ TypeOK
  /\ client.base \in Seq(Segment)
  /\ result = [c \in Caller |-> result[c]]
  /\ since = [c \in Caller |-> since[c]]
  /\ \A c \in Caller : \A v \in since[c] : v.flags \in FlagsChoice

(* A caller has nothing on the wire before it sent its request.            *)
Unsent ==
  \A c \in Caller : pc[c] = "idle" =>
    /\ \A r \in requests : r.caller # c
    /\ \A r \in replies : r.caller # c

(* Wherever a redirect has led it, a request has the signature it left     *)
(* with.                                                                   *)
Signed(r) ==
  /\ r = [caller |-> r.caller, method |-> r.method, target |-> r.target,
          body |-> r.body, hops |-> r.hops, signature |-> r.signature]
  /\ r.target \in Seq(Segment)
  /\ r.signature = SignatureOf(r.caller)

PendingRequests ==
  \A r \in requests : Signed(r) /\ RequestFor(calls[r.caller]) # NoRequest

(* A reply tells the flags of its caller's time, and a positive one of     *)
(* BloodHound's an effect in that time.                                    *)
Truthful(c, status, body) ==
  /\ body.kind = "flags" => \E v \in since[c] : v.flags = body.flags
  /\ status = "2xx" /\ body.kind # "page" =>
       /\ calls[c].op = "InstallExtension" => WasInstalled(c)
       /\ calls[c].op = "DeleteExtension" => WasGone(c)

PendingReplies == \A r \in replies : Truthful(r.caller, r.status, r.body)

IInv ==
  /\ Typed
  /\ Unsent
  /\ PendingRequests
  /\ PendingReplies
  /\ FreshAnswer
  /\ SuccessIsEffect

-----------------------------------------------------------------------------
(* What the requests of the calls look like.                               *)
Call == [op : {"InstallExtension", "ListExtensions", "DeleteExtension",
               "FeatureEnabled", "ShortestPath", "Cypher", "JobStatus",
               "GET", "POST", "PUT", "DELETE"}, arg : STRING]

IsRequest(q) == q.path \in Seq(Segment) /\ q.query \in Seq(Segment)

LEMMA RequestType ==
  ASSUME NEW call \in Call
  PROVE  IsRequest(RequestFor(call))
<1> DEFINE arg == call.arg
<1>1. /\ <<>> \in Seq(Segment) /\ pathExtensions \in Seq(Segment)
      /\ pathFeatures \in Seq(Segment) /\ <<arg>> \in Seq(Segment)
      /\ <<"shortest-path">> \in Seq(Segment) /\ <<"cypher">> \in Seq(Segment)
      /\ <<"completed-tasks">> \in Seq(Segment)
  BY DEF Call, Segment, pathExtensions, pathFeatures
<1>2. IsRequest(NoRequest)
  BY <1>1 DEF IsRequest, NoRequest, Req
<1>3. /\ IsRequest(InstallExtension(arg)) /\ IsRequest(DeleteExtension(arg))
      /\ IsRequest(ShortestPath(arg)) /\ IsRequest(Cypher(arg))
  <2>1. Append(pathExtensions, arg) \in Seq(Segment)
    BY <1>1, AppendProperties DEF Call, Segment
  <2> QED
    BY <1>1, <1>2, <2>1 DEF IsRequest, Req, Unless, InstallExtension,
       DeleteExtension, ShortestPath, Cypher
<1>4. IsRequest(ListExtensions) /\ IsRequest(Features) /\ IsRequest(JobStatus)
  BY <1>1 DEF IsRequest, Req, ListExtensions, Features, JobStatus
<1>5. IsRequest(Bare(call.op, arg))
  BY <1>1 DEF IsRequest, Req, Bare
<1>6. CASE call.op \in Verb
  <2>1. RequestFor(call) = Bare(call.op, arg)
    BY <1>6, Zenon DEF RequestFor, Verb
  <2> QED
    BY <2>1, <1>5
<1>7. CASE call.op = "InstallExtension"
  BY <1>3, <1>7, Zenon DEF RequestFor, Verb
<1>8. CASE call.op = "ListExtensions"
  BY <1>4, <1>8, Zenon DEF RequestFor, Verb
<1>9. CASE call.op = "DeleteExtension"
  BY <1>3, <1>9, Zenon DEF RequestFor, Verb
<1>10. CASE call.op = "FeatureEnabled"
  BY <1>4, <1>10, Zenon DEF RequestFor, Verb
<1>11. CASE call.op = "ShortestPath"
  BY <1>3, <1>11, Zenon DEF RequestFor, Verb
<1>12. CASE call.op = "Cypher"
  BY <1>3, <1>12, Zenon DEF RequestFor, Verb
<1>13. CASE call.op = "JobStatus"
  BY <1>4, <1>13, Zenon DEF RequestFor, Verb
<1> QED
  BY <1>6, <1>7, <1>8, <1>9, <1>10, <1>11, <1>12, <1>13 DEF Call, Verb

LEMMA CallType ==
  ASSUME TypeOK, NEW c \in Caller
  PROVE  calls[c] \in Call
BY ClientAssumption DEF TypeOK, Call

LEMMA TargetType ==
  ASSUME Typed, NEW c \in Caller
  PROVE  Target(c) \in Seq(Segment)
<1>1. IsRequest(RequestFor(calls[c]))
  BY CallType, RequestType DEF Typed
<1> QED
  BY <1>1, ConcatProperties DEF Typed, IsRequest, Target

(* A signature is of one request only.                                     *)
LEMMA ConsInjective ==
  ASSUME NEW m, NEW n, NEW s \in Seq(Segment), NEW t \in Seq(Segment),
         <<m>> \o s = <<n>> \o t
  PROVE  m = n /\ s = t
<1> DEFINE l == <<m>> \o s
<1> DEFINE r == <<n>> \o t
<1>1. /\ Len(l) = Len(s) + 1 /\ l[1] = m
      /\ \A i \in 1..Len(s) : l[i + 1] = s[i]
  OBVIOUS
<1>2. /\ Len(r) = Len(t) + 1 /\ r[1] = n
      /\ \A i \in 1..Len(t) : r[i + 1] = t[i]
  OBVIOUS
<1>3. Len(s) = Len(t)
  BY <1>1, <1>2
<1>4. \A i \in 1..Len(s) : s[i] = t[i]
  BY <1>1, <1>2, <1>3
<1> QED
  BY <1>1, <1>2, <1>3, <1>4, SeqEqual

LEMMA SignInjective ==
  ASSUME NEW key, NEW m, NEW n, NEW s \in Seq(Segment), NEW t \in Seq(Segment),
         NEW b, NEW d, Sign(key, m, s, 0, b) = Sign(key, n, t, 0, d)
  PROVE  m = n /\ s = t /\ b = d
<1>1. <<m>> \o s = <<n>> \o t /\ b = d
  BY DEF Sign, DateKey, Hmac
<1> QED
  BY <1>1, ConsInjective

LEMMA AuthenticIsMeant ==
  ASSUME Typed, NEW r, r.caller \in Caller, Signed(r)
  PROVE  Authentic(r) <=> Meant(r)
<1> DEFINE q == RequestFor(calls[r.caller])
<1>1. Target(r.caller) \in Seq(Segment) /\ r.target \in Seq(Segment)
  BY TargetType DEF Signed
<1>2. r.signature = Sign(TokenKey, q.method, Target(r.caller), 0, q.body)
  BY DEF Signed, SignatureOf
<1>3. Meant(r) <=> r.method = q.method /\ r.body = q.body /\ r.target = Target(r.caller)
  BY DEF Meant, Target
<1>4. Meant(r) => Authentic(r)
  BY <1>2, <1>3 DEF Authentic
<1>5. Authentic(r) => Meant(r)
  BY <1>1, <1>2, <1>3, SignInjective DEF Authentic
<1> QED
  BY <1>4, <1>5

-----------------------------------------------------------------------------
LEMMA InitIInv == Init => IInv
<1> SUFFICES ASSUME Init PROVE IInv
  OBVIOUS
<1>1. client.base \in Seq(Segment)
  <2>1. PICK a \in NewChoice : client = New(a)
    BY DEF Init
  <2>2. a.path \in Seq(Segment)
    BY ClientAssumption DEF Segment
  <2>3. TrimSlash(a.path) \in Seq(Segment)
    <3>1. Len(a.path) \in Nat
      BY <2>2
    <3>2. a.path # <<>> => SubSeq(a.path, 1, Len(a.path) - 1) \in Seq(Segment)
      BY <2>2, <3>1, EmptySeq, SubSeqProperties
    <3> QED
      BY <2>2, <3>2 DEF TrimSlash
  <2> QED
    BY <2>1, <2>3 DEF New
<1>2. client.timeout \in BOOLEAN
  <2>1. PICK a \in NewChoice : client = New(a)
    BY DEF Init
  <2>2. client.timeout = (a.httpClient # "no timeout")
    BY <2>1, Zenon DEF New
  <2> QED
    BY <2>2, Zenon
<1>3. TypeOK
  BY <1>2, ClientAssumption DEF Init, TypeOK
<1>4. Typed
  BY <1>1, <1>3 DEF Init, Typed
<1>5. Unsent /\ PendingRequests /\ PendingReplies
  BY DEF Init, Unsent, PendingRequests, PendingReplies
<1>6. FreshAnswer /\ SuccessIsEffect
  BY DEF Init, FreshAnswer, SuccessIsEffect, Answered, NoResult
<1> QED
  BY <1>4, <1>5, <1>6 DEF IInv

(* What a call may return.                                                 *)
Supported(c, res) ==
  /\ res.kind # "none"
  /\ calls[c].op = "FeatureEnabled" /\ res.kind = "value" => FlagWas(c, res.value)
  /\ res.kind = "value" /\ res.value # "page" =>
       /\ calls[c].op = "InstallExtension" => WasInstalled(c)
       /\ calls[c].op = "DeleteExtension" => WasGone(c)

(***************************************************************************)
(* What BloodHound and the operator do: the calls under way see it.        *)
(***************************************************************************)
Observed ==
  \/ UNCHANGED <<serverVars, since>>
  \/ /\ Become(flags', installed')
     /\ flags' \in FlagsChoice
     /\ toggles' \in 0..MaxToggles

LEMMA Observing ==
  ASSUME Typed, Observed
  PROVE  /\ flags' \in FlagsChoice /\ toggles' \in 0..MaxToggles
         /\ since' = [c \in Caller |-> since'[c]]
         /\ \A c \in Caller :
              /\ since[c] \subseteq since'[c]
              /\ pc[c] # "waiting" => since'[c] = since[c]
              /\ pc[c] = "waiting" => View(flags', installed') \in since'[c]
              /\ \A v \in since'[c] : v.flags \in FlagsChoice
<1>1. CASE UNCHANGED <<serverVars, since>>
  BY <1>1 DEF Typed, TypeOK, serverVars
<1>2. CASE /\ Become(flags', installed')
           /\ flags' \in FlagsChoice
           /\ toggles' \in 0..MaxToggles
  <2>1. View(flags', installed').flags = flags'
    BY DEF View
  <2> QED
    BY <1>2, <2>1 DEF Become, Typed
<1> QED
  BY <1>1, <1>2 DEF Observed

(* The truth of a reply lasts as long as nothing is forgotten.             *)
LEMMA TruthLasts ==
  ASSUME NEW c, NEW status, NEW body, Truthful(c, status, body),
         since[c] \subseteq since'[c], calls' = calls, client' = client
  PROVE  Truthful(c, status, body)'
BY DEF Truthful, WasInstalled, WasGone

(* Being about a call's own time, what it returned stays true.             *)
LEMMA ToldLasts ==
  ASSUME IInv, calls' = calls, client' = client,
         \A c \in Caller :
           \/ Supported(c, result[c])'
           \/ result'[c] = NoResult
           \/ result'[c] = result[c] /\ since[c] \subseteq since'[c]
  PROVE  FreshAnswer' /\ SuccessIsEffect'
<1>0. NoResult.kind # "value"
  BY DEF NoResult
<1>1. ASSUME NEW c \in Caller, Answered(c, "FeatureEnabled")'
      PROVE  FlagWas(c, result[c].value)'
  <2>1. CASE Supported(c, result[c])'
    BY <1>1, <2>1, Zenon DEF Supported, Answered
  <2>2. CASE result'[c] = result[c] /\ since[c] \subseteq since'[c]
    <3>1. Answered(c, "FeatureEnabled")
      BY <1>1, <2>2 DEF Answered
    <3>2. FlagWas(c, result[c].value)
      BY <3>1 DEF IInv, FreshAnswer
    <3>3. PICK v \in since[c] :
            /\ calls[c].arg \in DOMAIN v.flags
            /\ v.flags[calls[c].arg] = (result[c].value = "on")
      BY <3>2, Zenon DEF FlagWas
    <3>4. v \in since'[c]
      BY <2>2, <3>3
    <3> QED
      BY <2>2, <3>3, <3>4, Zenon DEF FlagWas
  <2>3. CASE result'[c] = NoResult
    BY <1>0, <1>1, <2>3 DEF Answered
  <2> QED
    BY <2>1, <2>2, <2>3
<1>2. ASSUME NEW c \in Caller, (result[c].value # "page")'
      PROVE  /\ Answered(c, "InstallExtension")' => WasInstalled(c)'
             /\ Answered(c, "DeleteExtension")' => WasGone(c)'
  <2>1. CASE Supported(c, result[c])'
    BY <1>2, <2>1, Zenon DEF Supported, Answered
  <2>2. CASE result'[c] = result[c] /\ since[c] \subseteq since'[c]
    BY <1>2, <2>2 DEF IInv, SuccessIsEffect, Answered, WasInstalled, WasGone
  <2>3. CASE result'[c] = NoResult
    BY <1>0, <2>3 DEF Answered
  <2> QED
    BY <2>1, <2>2, <2>3
<1>3. FreshAnswer'
  BY <1>1, Zenon DEF FreshAnswer
<1>4. SuccessIsEffect'
  BY <1>2, Zenon DEF SuccessIsEffect
<1> QED
  BY <1>3, <1>4

(* A step of others leaves the invariant, if it says nothing false.        *)
LEMMA OthersPreserve ==
  ASSUME IInv, Observed, UNCHANGED callVars, requests' \subseteq requests,
         \A r \in replies' \ replies :
           /\ r.caller \in Caller
           /\ pc[r.caller] = "waiting"
           /\ Truthful(r.caller, r.status, r.body)'
  PROVE  IInv'
<1>1. /\ flags' \in FlagsChoice /\ toggles' \in 0..MaxToggles
      /\ since' = [c \in Caller |-> since'[c]]
      /\ \A c \in Caller :
           /\ since[c] \subseteq since'[c]
           /\ pc[c] # "waiting" => since'[c] = since[c]
           /\ pc[c] = "waiting" => View(flags', installed') \in since'[c]
           /\ \A v \in since'[c] : v.flags \in FlagsChoice
  BY Observing DEF IInv
<1>2. UNCHANGED <<client, calls, pc, result>>
  BY DEF callVars
<1>3. Typed'
  <2>1. \A c \in Caller : pc'[c] = "waiting" => View(flags, installed)' \in since'[c]
    BY <1>1, <1>2 DEF View
  <2>2. TypeOK'
    BY <1>1, <1>2, <2>1 DEF IInv, Typed, TypeOK, NoResult
  <2> QED
    BY <1>1, <1>2, <2>2 DEF IInv, Typed
<1>4. Unsent'
  BY <1>2 DEF IInv, Unsent
<1>5. PendingRequests'
  BY <1>2 DEF IInv, PendingRequests, Signed, SignatureOf, Target
<1>6. PendingReplies'
  <2>1. ASSUME NEW r \in replies PROVE Truthful(r.caller, r.status, r.body)'
    BY <1>1, <1>2, TruthLasts DEF IInv, PendingReplies, Typed, TypeOK
  <2> QED
    BY <2>1 DEF PendingReplies
<1>7. FreshAnswer' /\ SuccessIsEffect'
  BY <1>1, <1>2, ToldLasts
<1> QED
  BY <1>3, <1>4, <1>5, <1>6, <1>7 DEF IInv

-----------------------------------------------------------------------------
(***************************************************************************)
(* The steps of a call.                                                    *)
(***************************************************************************)
LEMMA DoPreserves ==
  ASSUME IInv, NEW c \in Caller, Do(c)
  PROVE  IInv'
<1> DEFINE new == DoRequest(c)
<1>1. /\ pc[c] = "idle" /\ pc' = [pc EXCEPT ![c] = "waiting"]
      /\ requests' = requests \union {new}
      /\ since' = [since EXCEPT ![c] = {View(flags, installed)}]
      /\ UNCHANGED <<client, calls, result, replies, flags, installed, toggles>>
  BY DEF Do, serverVars
<1>2. /\ \A d \in Caller : pc'[d] = IF d = c THEN "waiting" ELSE pc[d]
      /\ \A d \in Caller : since'[d] = IF d = c THEN {View(flags, installed)} ELSE since[d]
      /\ pc' \in [Caller -> {"idle", "waiting", "returned"}]
      /\ since' = [d \in Caller |-> since'[d]]
  BY <1>1 DEF IInv, Typed, TypeOK
<1>3. /\ new = [caller |-> new.caller, method |-> new.method, target |-> new.target,
                body |-> new.body, hops |-> new.hops, signature |-> new.signature]
      /\ new.caller = c /\ new.hops = 0 /\ new.target = Target(c)
      /\ new.signature = SignatureOf(c)
  BY DEF DoRequest, Target, SignatureOf
<1>4. Typed'
  <2>1. 0 \in 0..MaxRedirects
    BY ClientAssumption
  <2>2. View(flags, installed)' = View(flags, installed)
    BY <1>1 DEF View
  <2>3. TypeOK'
    BY <1>1, <1>2, <1>3, <2>1, <2>2 DEF IInv, Typed, TypeOK, NoResult
  <2> QED
    BY <1>1, <1>2, <2>3 DEF IInv, Typed, TypeOK, View
<1>5. Unsent'
  BY <1>1, <1>2, <1>3 DEF IInv, Unsent
<1>6. PendingRequests'
  <2>1. new.target \in Seq(Segment)
    BY <1>3, TargetType DEF IInv
  <2>2. Signed(new)
    BY <1>3, <2>1 DEF Signed
  <2>3. RequestFor(calls[c]) # NoRequest
    BY DEF Do
  <2>4. \A r \in requests' : Signed(r) /\ RequestFor(calls[r.caller]) # NoRequest
    BY <1>1, <1>3, <2>2, <2>3 DEF IInv, PendingRequests
  <2> QED
    BY <1>1, <2>4 DEF PendingRequests, Signed, SignatureOf, Target
<1>7. PendingReplies'
  <2>1. ASSUME NEW r \in replies PROVE r.caller \in Caller \ {c}
    BY <1>1 DEF IInv, Typed, TypeOK, Unsent
  <2>2. ASSUME NEW r \in replies PROVE Truthful(r.caller, r.status, r.body)'
    BY <1>1, <1>2, <2>1, TruthLasts DEF IInv, PendingReplies
  <2> QED
    BY <1>1, <2>2 DEF PendingReplies
<1>8. result[c] = NoResult
  BY <1>1 DEF IInv, Typed, TypeOK
<1>9. FreshAnswer' /\ SuccessIsEffect'
  <2>1. result'[c] = NoResult
    BY <1>1, <1>8
  <2> QED
    BY <1>1, <1>2, <2>1, ToldLasts
<1> QED
  BY <1>4, <1>5, <1>6, <1>7, <1>9 DEF IInv

LEMMA ReturnPreserves ==
  ASSUME IInv, NEW c \in Caller, NEW res, Return(c, res), Supported(c, res),
         replies' \subseteq replies,
         UNCHANGED <<client, calls, requests, serverVars, since>>
  PROVE  IInv'
<1>1. /\ UNCHANGED <<client, calls, requests, flags, installed, toggles, since>>
      /\ \A d \in Caller : pc'[d] = IF d = c THEN "returned" ELSE pc[d]
      /\ \A d \in Caller : result'[d] = IF d = c THEN res ELSE result[d]
      /\ pc' \in [Caller -> {"idle", "waiting", "returned"}]
      /\ result' = [d \in Caller |-> result'[d]]
  BY DEF Return, serverVars, IInv, Typed, TypeOK
<1>2. res # NoResult
  <2>1. res.kind # "none" /\ NoResult.kind = "none"
    BY DEF Supported, NoResult
  <2> QED
    BY <2>1
<1>3. Typed'
  <2>1. View(flags, installed)' = View(flags, installed) /\ NoResult' = NoResult
    BY <1>1 DEF View, NoResult
  <2>2. TypeOK'
    BY <1>1, <1>2, <2>1 DEF IInv, Typed, TypeOK
  <2> QED
    BY <1>1, <2>2 DEF IInv, Typed
<1>4. Unsent'
  BY <1>1 DEF IInv, Unsent
<1>5. PendingRequests'
  BY <1>1 DEF IInv, PendingRequests, Signed, SignatureOf, Target
<1>6. PendingReplies'
  BY <1>1, TruthLasts DEF IInv, PendingReplies
<1>7. FreshAnswer' /\ SuccessIsEffect'
  <2>1. Supported(c, result[c])'
    BY <1>1, Zenon DEF Supported, FlagWas, WasInstalled, WasGone
  <2> QED
    BY <1>1, <2>1, ToldLasts
<1> QED
  BY <1>3, <1>4, <1>5, <1>6, <1>7 DEF IInv

LEMMA ErrorPreserves ==
  ASSUME IInv, NEW c \in Caller, Return(c, Error), replies' \subseteq replies,
         UNCHANGED <<client, calls, requests, serverVars, since>>
  PROVE  IInv'
<1>1. Supported(c, Error)
  BY DEF Supported, Error, NoResult
<1> QED
  BY <1>1, ReturnPreserves

LEMMA ReceivePreserves ==
  ASSUME IInv, NEW c \in Caller, NEW r \in replies, Receive(c, r)
  PROVE  IInv'
<1> DEFINE res == Outcome(calls[c], r)
<1>1. r.caller = c /\ Truthful(c, r.status, r.body)
  BY DEF Receive, IInv, PendingReplies
<1>2. Supported(c, res)
  <2>1. CASE r.status # "2xx"
    <3>1. res.kind = "api error"
      BY <2>1 DEF Outcome, NoResult
    <3> QED
      BY <3>1 DEF Supported
  <2>2. CASE r.status = "2xx" /\ calls[c].op = "FeatureEnabled"
    <3>1. res = FeatureEnabled(calls[c].arg, r.body)
      BY <2>2 DEF Outcome
    <3>2. CASE r.body.kind # "flags" \/ calls[c].arg \notin DOMAIN r.body.flags
      <4>1. res.kind = "error"
        BY <3>1, <3>2 DEF FeatureEnabled, Error, NoResult
      <4> QED
        BY <4>1 DEF Supported
    <3>3. CASE r.body.kind = "flags" /\ calls[c].arg \in DOMAIN r.body.flags
      <4>1. PICK v \in since[c] : v.flags = r.body.flags
        BY <1>1, <3>3 DEF Truthful
      <4>2. v.flags[calls[c].arg] \in BOOLEAN
        BY <3>3, <4>1, ClientAssumption DEF IInv, Typed
      <4>3. /\ res.kind = "value"
            /\ res.value = IF v.flags[calls[c].arg] THEN "on" ELSE "off"
        BY <3>1, <3>3, <4>1 DEF FeatureEnabled, Value, NoResult
      <4>4. calls[c].arg \in DOMAIN v.flags
        BY <3>3, <4>1
      <4>5. v.flags[calls[c].arg] <=> res.value = "on"
        BY <4>3
      <4>6. v.flags[calls[c].arg] = (res.value = "on")
        BY <4>2, <4>5, Zenon
      <4>7. FlagWas(c, res.value)
        BY <4>4, <4>6, Zenon DEF FlagWas
      <4> QED
        BY <2>2, <4>3, <4>7 DEF Supported
    <3> QED
      BY <3>2, <3>3
  <2>3. CASE r.status = "2xx" /\ calls[c].op # "FeatureEnabled"
    <3>1. res.kind = "value" /\ res.value = r.body.kind
      BY <2>3 DEF Outcome, Value, NoResult
    <3> QED
      BY <1>1, <2>3, <3>1 DEF Supported, Truthful
  <2> QED
    BY <2>1, <2>2, <2>3
<1> QED
  BY <1>2, ReturnPreserves DEF Receive

LEMMA CallPreserves ==
  ASSUME IInv, NEW c \in Caller, MakeCall(c) \/ Breaks(c)
  PROVE  IInv'
<1>1. CASE Do(c)
  BY <1>1, DoPreserves
<1>2. CASE FailsLocally(c)
  BY <1>2, ErrorPreserves DEF FailsLocally
<1>3. CASE \E r \in replies : Receive(c, r)
  BY <1>3, ReceivePreserves
<1>4. CASE TimesOut(c) \/ Breaks(c)
  BY <1>4, ErrorPreserves DEF TimesOut, Breaks, Abandon
<1> QED
  BY <1>1, <1>2, <1>3, <1>4 DEF MakeCall

LEMMA RedirectPreserves ==
  ASSUME IInv, NEW r \in requests, NEW keep \in BOOLEAN,
         NEW location \in Locations \union {r.target}, Redirect(r, keep, location)
  PROVE  IInv'
<1> DEFINE moved == Redirected(r, keep, location)
<1>1. /\ Signed(r) /\ r.caller \in Caller /\ r.hops \in 0..MaxRedirects
      /\ r.hops < MaxRedirects
      /\ pc[r.caller] = "waiting"
  BY DEF IInv, PendingRequests, Typed, TypeOK, Redirect
<1>2. location \in Seq(Segment)
  BY <1>1, ClientAssumption DEF Signed, Segment
<1>3. /\ UNCHANGED <<client, calls, pc, result, replies, flags, installed, toggles, since>>
      /\ requests' = (requests \ {r}) \union {moved}
  BY DEF Redirect, callVars, serverVars
<1>4. /\ moved = [caller |-> moved.caller, method |-> moved.method,
                  target |-> moved.target, body |-> moved.body,
                  hops |-> moved.hops, signature |-> moved.signature]
      /\ moved.caller = r.caller /\ moved.target = location
      /\ moved.hops = r.hops + 1 /\ moved.signature = r.signature
  BY <1>1 DEF Redirected, Signed
<1>5. moved.hops \in 0..MaxRedirects
  BY <1>1, <1>4, ClientAssumption
<1>6. Signed(moved)
  BY <1>1, <1>2, <1>4 DEF Signed
<1>7. Typed'
  <2>1. View(flags, installed)' = View(flags, installed) /\ NoResult' = NoResult
    BY <1>3 DEF View, NoResult
  <2>2. TypeOK'
    BY <1>1, <1>3, <1>4, <1>5, <2>1 DEF IInv, Typed, TypeOK
  <2> QED
    BY <1>3, <2>2 DEF IInv, Typed
<1>8. Unsent'
  BY <1>1, <1>3, <1>4 DEF IInv, Unsent
<1>9. PendingRequests'
  <2>1. \A q \in requests' : Signed(q) /\ RequestFor(calls[q.caller]) # NoRequest
    BY <1>3, <1>4, <1>6 DEF IInv, PendingRequests
  <2> QED
    BY <1>3, <2>1 DEF PendingRequests, Signed, SignatureOf, Target
<1>10. PendingReplies'
  BY <1>3, TruthLasts DEF IInv, PendingReplies
<1>11. FreshAnswer' /\ SuccessIsEffect'
  BY <1>3, ToldLasts
<1> QED
  BY <1>7, <1>8, <1>9, <1>10, <1>11 DEF IInv

-----------------------------------------------------------------------------
(***************************************************************************)
(* The steps of the server.  What it takes for authentic is what the       *)
(* caller meant, so that an answer to an install or a delete that says so  *)
(* is to one that was carried out.                                         *)
(***************************************************************************)
LEMMA AnswerPreserves ==
  ASSUME IInv, NEW r \in requests, NEW status, NEW body,
         Answer(r, status, body), Observed,
         pc[r.caller] = "waiting" => Truthful(r.caller, status, body)'
  PROVE  IInv'
<1> DEFINE new == [caller |-> r.caller, status |-> status, body |-> body]
<1>1. /\ requests' \subseteq requests
      /\ UNCHANGED callVars
  BY DEF Answer
<1>2. ASSUME NEW q \in replies' \ replies PROVE q = new /\ pc[r.caller] = "waiting"
  BY <1>2 DEF Answer
<1>3. r.caller \in Caller
  BY DEF IInv, Typed, TypeOK
<1>4. /\ new.caller = r.caller /\ new.status = status /\ new.body = body
  OBVIOUS
<1>5. ASSUME NEW q \in replies' \ replies
      PROVE  /\ q.caller \in Caller /\ pc[q.caller] = "waiting"
             /\ Truthful(q.caller, q.status, q.body)'
  BY <1>2, <1>3, <1>4, <1>5
<1> QED
  BY <1>1, <1>5, OthersPreserve

(* What installs and deletes ask for, if they ask.                         *)
LEMMA EffectRequests ==
  ASSUME NEW call \in Call
  PROVE  /\ call.op = "InstallExtension" =>
              /\ RequestFor(call).method \in {"PUT", "none"}
              /\ RequestFor(call).method = "PUT" => RequestFor(call).body = <<call.arg>>
         /\ call.op = "DeleteExtension" =>
              /\ RequestFor(call).method \in {"DELETE", "none"}
              /\ RequestFor(call).method = "DELETE" =>
                   /\ RequestFor(call).path = Append(pathExtensions, call.arg)
                   /\ RequestFor(call).query = <<>>
<1>1. NoRequest.method = "none"
  BY DEF NoRequest, Req
<1>2. CASE call.op = "InstallExtension"
  <2>1. RequestFor(call) = InstallExtension(call.arg)
    BY <1>2, Zenon DEF RequestFor, Verb
  <2>2. CASE call.arg = ""
    <3>1. RequestFor(call) = NoRequest
      BY <2>1, <2>2, Zenon DEF InstallExtension, Unless
    <3> QED
      BY <1>1, <1>2, <3>1
  <2>3. CASE call.arg # ""
    <3>1. RequestFor(call) = Req("PUT", pathExtensions, <<>>, <<call.arg>>)
      BY <2>1, <2>3, Zenon DEF InstallExtension, Unless
    <3>2. RequestFor(call).method = "PUT" /\ RequestFor(call).body = <<call.arg>>
      BY <3>1 DEF Req
    <3> QED
      BY <1>2, <3>2
  <2> QED
    BY <2>2, <2>3
<1>3. CASE call.op = "DeleteExtension"
  <2>1. RequestFor(call) = DeleteExtension(call.arg)
    BY <1>3, Zenon DEF RequestFor, Verb
  <2>2. CASE call.arg = ""
    <3>1. RequestFor(call) = NoRequest
      BY <2>1, <2>2, Zenon DEF DeleteExtension, Unless
    <3> QED
      BY <1>1, <1>3, <3>1
  <2>3. CASE call.arg # ""
    <3>1. RequestFor(call) = Req("DELETE", Append(pathExtensions, call.arg), <<>>, <<>>)
      BY <2>1, <2>3, Zenon DEF DeleteExtension, Unless
    <3>2. /\ RequestFor(call).method = "DELETE"
          /\ RequestFor(call).path = Append(pathExtensions, call.arg)
          /\ RequestFor(call).query = <<>>
      BY <3>1 DEF Req
    <3> QED
      BY <1>3, <3>2
  <2> QED
    BY <2>2, <2>3
<1> QED
  BY <1>2, <1>3

LEMMA AuthenticMethod ==
  ASSUME IInv, NEW r \in requests, Authentic(r)
  PROVE  /\ calls[r.caller].op = "InstallExtension" => r.method \in {"PUT", "none"}
         /\ calls[r.caller].op = "DeleteExtension" => r.method \in {"DELETE", "none"}
         /\ r.method = RequestFor(calls[r.caller]).method
         /\ r.body = RequestFor(calls[r.caller]).body
         /\ r.target = Target(r.caller)
<1>1. r.caller \in Caller /\ Signed(r)
  BY DEF IInv, Typed, TypeOK, PendingRequests
<1>2. Meant(r)
  BY <1>1, AuthenticIsMeant DEF IInv
<1>3. calls[r.caller] \in Call
  BY <1>1, CallType DEF IInv, Typed
<1> QED
  BY <1>2, <1>3, EffectRequests DEF Meant, Target

(* The last segments of two paths.                                         *)
LEMMA LastSegment ==
  ASSUME NEW S, NEW s \in Seq(S), NEW t \in Seq(S), NEW u \in Seq(S),
         NEW x \in S, NEW y \in S,
         s \o Append(t, x) = u \o Append(t, y)
  PROVE  x = y
<1> DEFINE l == s \o Append(t, x)
<1> DEFINE r == u \o Append(t, y)
<1>1. /\ Append(t, x) \in Seq(S) /\ Append(t, y) \in Seq(S)
      /\ Len(Append(t, x)) = Len(t) + 1 /\ Append(t, x)[Len(t) + 1] = x
      /\ Len(Append(t, y)) = Len(t) + 1 /\ Append(t, y)[Len(t) + 1] = y
      /\ Len(s) \in Nat /\ Len(t) \in Nat /\ Len(u) \in Nat
  OBVIOUS
<1>2. Len(l) = Len(s) + Len(t) + 1 /\ l[Len(s) + Len(t) + 1] = x
  BY <1>1
<1>3. Len(r) = Len(u) + Len(t) + 1 /\ r[Len(u) + Len(t) + 1] = y
  BY <1>1
<1> QED
  BY <1>1, <1>2, <1>3

LEMMA ServeFeaturesPreserves ==
  ASSUME IInv, NEW r \in requests, ServeFeatures(r)
  PROVE  IInv'
<1>1. PICK body : body = [kind |-> "flags", flags |-> flags]
  OBVIOUS
<1>2. /\ Authentic(r) /\ r.method = "GET"
      /\ Answer(r, "2xx", body) /\ UNCHANGED <<serverVars, since>>
  BY <1>1 DEF ServeFeatures, Asks
<1>3. r.caller \in Caller /\ calls' = calls /\ client' = client
  BY <1>2 DEF IInv, Typed, TypeOK, Answer, callVars
<1>4. /\ calls[r.caller].op # "InstallExtension"
      /\ calls[r.caller].op # "DeleteExtension"
  BY <1>2, AuthenticMethod
<1>5. ASSUME pc[r.caller] = "waiting" PROVE Truthful(r.caller, "2xx", body)'
  <2>1. View(flags, installed) \in since[r.caller]
    BY <1>3, <1>5 DEF IInv, Typed, TypeOK
  <2>2. View(flags, installed).flags = flags /\ body.flags = flags
    BY <1>1 DEF View
  <2>3. \E v \in since[r.caller] : v.flags = body.flags
    BY <2>1, <2>2
  <2>4. Truthful(r.caller, "2xx", body)
    BY <1>4, <2>3 DEF Truthful
  <2>5. since' = since /\ flags' = flags
    BY <1>2 DEF serverVars
  <2> QED
    BY <1>3, <2>4, <2>5, TruthLasts
<1> QED
  BY <1>2, <1>5, AnswerPreserves DEF Observed

LEMMA ServeInstallPreserves ==
  ASSUME IInv, NEW r \in requests, NEW status \in {"2xx", "500"},
         ServeInstall(r, status)
  PROVE  IInv'
<1>1. /\ Authentic(r) /\ r.method = "PUT"
      /\ Answer(r, status, Other) /\ toggles' = toggles
      /\ Become(flags, installed \union {r.body[1]})
  BY DEF ServeInstall, Asks
<1>2. r.caller \in Caller /\ calls' = calls
  BY <1>1 DEF IInv, Typed, TypeOK, Answer, callVars
<1>3. /\ flags' = flags /\ installed' = installed \union {r.body[1]}
      /\ Become(flags', installed')
  BY <1>1 DEF Become
<1>4. Observed
  BY <1>1, <1>3 DEF Observed, IInv, Typed, TypeOK
<1>5. calls[r.caller].op # "DeleteExtension"
  BY <1>1, AuthenticMethod
<1>6. calls[r.caller].op = "InstallExtension" => calls[r.caller].arg \in installed'
  <2> SUFFICES ASSUME calls[r.caller].op = "InstallExtension"
               PROVE  calls[r.caller].arg \in installed'
    OBVIOUS
  <2>1. calls[r.caller] \in Call
    BY <1>2, CallType DEF IInv, Typed
  <2>2. r.body = <<calls[r.caller].arg>>
    BY <1>1, <2>1, AuthenticMethod, EffectRequests
  <2>3. r.body[1] = calls[r.caller].arg
    BY <2>2
  <2> QED
    BY <1>3, <2>3
<1>7. ASSUME pc[r.caller] = "waiting" PROVE Truthful(r.caller, status, Other)'
  <2>1. View(flags', installed') \in since'[r.caller]
    BY <1>2, <1>4, <1>7, Observing DEF IInv
  <2>2. View(flags', installed').installed = installed'
    BY DEF View
  <2>3. Other.kind = "other"
    BY DEF Other
  <2>4. calls'[r.caller].op # "DeleteExtension"
    BY <1>2, <1>5
  <2>5. calls'[r.caller].op = "InstallExtension" => WasInstalled(r.caller)'
    BY <1>2, <1>6, <2>1, <2>2 DEF WasInstalled
  <2> QED
    BY <2>3, <2>4, <2>5 DEF Truthful, Other
<1> QED
  BY <1>1, <1>4, <1>7, AnswerPreserves DEF Other

LEMMA ServeDeletePreserves ==
  ASSUME IInv, NEW r \in requests, NEW ext \in installed,
         NEW status \in {"2xx", "500"}, ServeDelete(r, ext, status)
  PROVE  IInv'
<1>1. /\ Authentic(r) /\ r.method = "DELETE"
      /\ r.target = MountPath \o Append(pathExtensions, ext)
      /\ Answer(r, status, Other) /\ toggles' = toggles
      /\ Become(flags, installed \ {ext})
  BY DEF ServeDelete, Asks
<1>2. r.caller \in Caller /\ calls' = calls
  BY <1>1 DEF IInv, Typed, TypeOK, Answer, callVars
<1>3. /\ flags' = flags /\ installed' = installed \ {ext}
      /\ Become(flags', installed')
  BY <1>1 DEF Become
<1>4. Observed
  BY <1>1, <1>3 DEF Observed, IInv, Typed, TypeOK
<1>5. calls[r.caller].op # "InstallExtension"
  BY <1>1, AuthenticMethod
<1>6. calls[r.caller].op = "DeleteExtension" => calls[r.caller].arg \notin installed'
  <2> SUFFICES ASSUME calls[r.caller].op = "DeleteExtension"
               PROVE  calls[r.caller].arg = ext
    BY <1>3
  <2>1. calls[r.caller] \in Call /\ client.base \in Seq(Segment)
    BY <1>2, CallType DEF IInv, Typed
  <2>2. /\ RequestFor(calls[r.caller]).path = Append(pathExtensions, calls[r.caller].arg)
        /\ RequestFor(calls[r.caller]).query = <<>>
    BY <1>1, <2>1, AuthenticMethod, EffectRequests
  <2>3. r.target = client.base \o Append(pathExtensions, calls[r.caller].arg) \o <<>>
    BY <1>1, <2>2, AuthenticMethod DEF Target
  <2>4. /\ pathExtensions \in Seq(Segment) /\ calls[r.caller].arg \in Segment
        /\ MountPath \in Seq(Segment)
    BY <2>1, ClientAssumption DEF pathExtensions, Segment, Call
  <2>5. client.base \o Append(pathExtensions, calls[r.caller].arg) \in Seq(Segment)
    BY <2>1, <2>4, AppendProperties, ConcatProperties
  <2>6. r.target = client.base \o Append(pathExtensions, calls[r.caller].arg)
    BY <2>3, <2>5, ConcatEmptySeq
  <2> DEFINE S == Segment \union {ext}
  <2>7. /\ MountPath \in Seq(S) /\ client.base \in Seq(S) /\ pathExtensions \in Seq(S)
        /\ ext \in S /\ calls[r.caller].arg \in S
    BY <2>1, <2>4
  <2>8. MountPath \o Append(pathExtensions, ext)
          = client.base \o Append(pathExtensions, calls[r.caller].arg)
    BY <1>1, <2>6
  <2> HIDE DEF S
  <2> QED
    BY <2>7, <2>8, LastSegment
<1>7. ASSUME pc[r.caller] = "waiting" PROVE Truthful(r.caller, status, Other)'
  <2>1. View(flags', installed') \in since'[r.caller]
    BY <1>2, <1>4, <1>7, Observing DEF IInv
  <2>2. View(flags', installed').installed = installed'
    BY DEF View
  <2>3. Other.kind = "other"
    BY DEF Other
  <2>4. calls'[r.caller].op # "InstallExtension"
    BY <1>2, <1>5
  <2>5. calls'[r.caller].op = "DeleteExtension" => WasGone(r.caller)'
    BY <1>2, <1>6, <2>1, <2>2 DEF WasGone
  <2> QED
    BY <2>3, <2>4, <2>5 DEF Truthful, Other
<1> QED
  BY <1>1, <1>4, <1>7, AnswerPreserves DEF Other

(* Every other answer is no success, or says nothing about an effect.      *)
LEMMA PlainAnswerPreserves ==
  ASSUME IInv, NEW r \in requests, NEW status, NEW body,
         Answer(r, status, body), UNCHANGED <<serverVars, since>>,
         body.kind # "flags",
         status = "2xx" /\ body.kind # "page" =>
           calls[r.caller].op \notin {"InstallExtension", "DeleteExtension"}
  PROVE  IInv'
<1>1. calls' = calls /\ client' = client /\ since' = since
  BY DEF Answer, callVars
<1>2. ASSUME pc[r.caller] = "waiting" PROVE Truthful(r.caller, status, body)'
  <2>1. Truthful(r.caller, status, body)
    BY <1>2 DEF Truthful
  <2> QED
    BY <1>1, <2>1, TruthLasts
<1> QED
  BY <1>2, AnswerPreserves DEF Observed

LEMMA ServerPreserves ==
  ASSUME IInv, NEW r \in requests, BloodHound(r) \/ LandingPageAnswers(r)
  PROVE  IInv'
<1>1. Other.kind = "other" /\ Page.kind = "page"
  BY DEF Other, Page
<1>2. CASE Refuse(r)
  <2>1. PICK status \in {"401", "403", "404", "500"} : Answer(r, status, Other)
    BY <1>2 DEF Refuse
  <2>2. status # "2xx" /\ UNCHANGED <<serverVars, since>>
    BY <1>2, <2>1 DEF Refuse
  <2> QED
    BY <1>1, <2>1, <2>2, PlainAnswerPreserves
<1>3. CASE ServeFeatures(r)
  BY <1>3, ServeFeaturesPreserves
<1>4. CASE \E status \in {"2xx", "500"} : ServeInstall(r, status)
  BY <1>4, ServeInstallPreserves
<1>5. CASE \E ext \in installed, status \in {"2xx", "500"} : ServeDelete(r, ext, status)
  BY <1>5, ServeDeletePreserves
<1>6. CASE ServeRead(r)
  <2>1. /\ Authentic(r) /\ r.method \in {"GET", "POST"}
        /\ Answer(r, "2xx", Other) /\ UNCHANGED <<serverVars, since>>
    BY <1>6 DEF ServeRead
  <2>2. calls[r.caller].op \notin {"InstallExtension", "DeleteExtension"}
    BY <2>1, AuthenticMethod
  <2> QED
    BY <1>1, <2>1, <2>2, PlainAnswerPreserves
<1>7. CASE LandingPageAnswers(r)
  BY <1>1, <1>7, PlainAnswerPreserves DEF LandingPageAnswers
<1> QED
  BY <1>2, <1>3, <1>4, <1>5, <1>6, <1>7 DEF BloodHound

LEMMA TogglePreserves ==
  ASSUME IInv, NEW key \in DOMAIN flags, Toggle(key)
  PROVE  IInv'
<1>1. /\ toggles < MaxToggles /\ toggles' = toggles + 1
      /\ flags' = [flags EXCEPT ![key] = ~@] /\ installed' = installed
      /\ Become(flags', installed')
      /\ UNCHANGED callVars /\ requests' = requests /\ replies' = replies
  BY DEF Toggle, Become
<1>2. flags' \in FlagsChoice
  <2>1. flags \in FlagsChoice
    BY DEF IInv, Typed, TypeOK
  <2>2. \A k \in DOMAIN flags : [flags EXCEPT ![k] = ~@] \in FlagsChoice
    BY <2>1, Zenon, ClientAssumption
  <2> QED
    BY <1>1, <2>2, Zenon
<1>3. toggles' \in 0..MaxToggles
  <2>1. toggles \in 0..MaxToggles /\ MaxToggles \in Nat
    BY ClientAssumption DEF IInv, Typed, TypeOK
  <2> QED
    BY <1>1, <2>1
<1> QED
  BY <1>1, <1>2, <1>3, OthersPreserve DEF Observed

LEMMA StepPreserves == IInv /\ [Next]_vars => IInv'
<1> SUFFICES ASSUME IInv, [Next]_vars PROVE IInv'
  OBVIOUS
<1>1. CASE \E c \in Caller : MakeCall(c) \/ Breaks(c)
  BY <1>1, CallPreserves
<1>2. CASE \E r \in requests : BloodHound(r) \/ LandingPageAnswers(r)
  BY <1>2, ServerPreserves
<1>3. CASE \E r \in requests, keep \in BOOLEAN :
             \E location \in Locations \union {r.target} : Redirect(r, keep, location)
  BY <1>3, RedirectPreserves
<1>4. CASE \E key \in DOMAIN flags : Toggle(key)
  BY <1>4, TogglePreserves
<1>5. CASE UNCHANGED vars
  BY <1>5, OthersPreserve DEF vars, Observed
<1> QED
  BY <1>1, <1>2, <1>3, <1>4, <1>5 DEF Next

(* The inductive invariant holds, whatever calls meet (client.go:22).      *)
THEOREM Invariance == Spec => []IInv
BY InitIInv, StepPreserves, PTL DEF Spec

(* The variables have the values the code and its environment give them,   *)
(* for every set of callers and whatever they call (client.go).            *)
THEOREM TypeCorrect == Spec => []TypeOK
<1>1. IInv => TypeOK
  BY DEF IInv, Typed
<1> QED
  BY <1>1, Invariance, PTL

(* sign.go:39, client.go:150: a request that the server finds authentic is *)
(* the one its caller meant, wherever redirects have led it.               *)
THEOREM SignedIsMeant == Spec => []SignatureMeansIntent
<1>1. IInv => SignatureMeansIntent
  <2> SUFFICES ASSUME IInv, NEW r \in requests PROVE Authentic(r) <=> Meant(r)
    BY DEF SignatureMeansIntent
  <2>1. Typed /\ r.caller \in Caller /\ Signed(r)
    BY DEF IInv, Typed, TypeOK, PendingRequests
  <2> QED
    BY <2>1, AuthenticIsMeant
<1> QED
  BY <1>1, Invariance, PTL

(* features.go:62-70: a flag's answer is what the flag was at some moment  *)
(* of the call.                                                            *)
THEOREM AnswersAreFresh == Spec => []FreshAnswer
<1>1. IInv => FreshAnswer
  BY DEF IInv
<1> QED
  BY <1>1, Invariance, PTL

(* extensions.go:30 and :61: an install or a delete that says so had its   *)
(* effect, unless the answer is that of a page outside BloodHound.         *)
THEOREM EffectsAreReal == Spec => []SuccessIsEffect
<1>1. IInv => SuccessIsEffect
  BY DEF IInv
<1> QED
  BY <1>1, Invariance, PTL
=============================================================================
