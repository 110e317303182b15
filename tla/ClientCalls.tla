---------------------------- MODULE ClientCalls ----------------------------
(***************************************************************************)
(* Concurrent calls on one Client, each of a single request that do signs  *)
(* and send waits for (client/client.go): the extension endpoints, feature *)
(* flags, queries, and the bare verbs.  net/http follows redirects; a      *)
(* request may be served after its caller gave up; an operator toggles     *)
(* feature flags meanwhile.                                                *)
(*                                                                         *)
(* BloodHound is external, and so is whatever stands in front of it.  The  *)
(* age of a signature is left to Upload: all happens at instant 0.         *)
(***************************************************************************)
EXTENDS Signing

CONSTANTS
  Caller,        (* the goroutines, one call each                          *)
  CallsChoice,   (* the calls they may make together: functions from       *)
                 (* Caller to records [op, arg].  The arg "" is what the   *)
                 (* call refuses: an empty id, end or query, or an         *)
                 (* extension that does not validate                       *)
  NewChoice,     (* the arguments New may be given                         *)
  FlagsChoice,   (* the flags an instance may report: functions to BOOLEAN *)
  TokenKey,      (* the API token's secret                                 *)
  MountPath,     (* path segments under which BloodHound answers           *)
  LandingPage,   (* a target outside BloodHound that answers 200 to all    *)
  Locations,     (* where a redirect may lead, besides to the same target  *)
  MaxToggles,    (* bound: how often flags are toggled                     *)
  MaxRedirects   (* bound: redirects of one request (net/http's is 10)     *)

(* Paths are segments, flags can be toggled, and the calls are the ones    *)
(* below.                                                                  *)
ASSUME ClientAssumption ==
  /\ MaxToggles \in Nat
  /\ MaxRedirects \in Nat
  /\ MountPath \in Seq(STRING)
  /\ Locations \subseteq Seq(STRING)
  /\ \A a \in NewChoice : a.path \in Seq(STRING)
  /\ \A f \in FlagsChoice :
       /\ f \in [DOMAIN f -> BOOLEAN]
       /\ \A key \in DOMAIN f : [f EXCEPT ![key] = ~@] \in FlagsChoice
  /\ \A choice \in CallsChoice, c \in Caller :
       choice[c] \in [op : {"InstallExtension", "ListExtensions",
                           "DeleteExtension", "FeatureEnabled", "ShortestPath",
                           "Cypher", "JobStatus", "GET", "POST", "PUT", "DELETE"},
                     arg : STRING]

VARIABLES
  client,     (* c: what New returned                                      *)
  calls,      (* the call each caller makes                                *)
  pc,         (* "idle", "waiting" or "returned"                           *)
  result,     (* what each call returned                                   *)
  requests,   (* requests not served yet                                   *)
  replies,    (* replies not received yet                                  *)
  flags,      (* BloodHound's feature flags                                *)
  installed,  (* and its extensions                                        *)
  toggles,    (* how often flags were toggled                              *)
  since       (* history: what flags and extensions have been, for each    *)
              (* caller, since its request was sent                        *)

callVars == <<client, calls, pc, result>>
serverVars == <<flags, installed, toggles>>
vars == <<callVars, requests, replies, serverVars, since>>

FeatureFlagExtensions == "opengraph_extension_management"
pathExtensions == <<"extensions">>
pathFeatures == <<"features">>

-----------------------------------------------------------------------------
(* New.  A URL's path is the sequence of its segments, and a slash at its  *)
(* end is an empty last one.                                               *)
NewAccepts(a) ==
  a.tokenID # "" /\ a.tokenKey # "" /\ a.scheme # "" /\ a.host # ""

TrimSlash(path) ==
  IF path # <<>> /\ path[Len(path)] = "" THEN SubSeq(path, 1, Len(path) - 1)
                                         ELSE path

(* A client made without WithHTTPClient has a timeout.                     *)
New(a) == [base |-> TrimSlash(a.path), timeout |-> a.httpClient # "no timeout"]

NoResult == [kind |-> "none", value |-> ""]

View(f, i) == [flags |-> f, installed |-> i]

Init ==
  /\ client \in {New(a) : a \in {a \in NewChoice : NewAccepts(a)}}
  /\ calls \in CallsChoice
  /\ pc = [c \in Caller |-> "idle"]
  /\ result = [c \in Caller |-> NoResult]
  /\ requests = {}
  /\ replies = {}
  /\ flags \in FlagsChoice
  /\ installed \in {{}, {"ext"}}
  /\ toggles = 0
  /\ since = [c \in Caller |-> {}]

-----------------------------------------------------------------------------
(* The requests the calls make.                                            *)
Req(method, path, query, body) ==
  [method |-> method, path |-> path, query |-> query, body |-> body]

(* What the call refuses, it makes no request for.                         *)
NoRequest == Req("none", <<>>, <<>>, <<>>)
Unless(refused, q) == IF refused THEN NoRequest ELSE q

InstallExtension(e) == Unless(e = "", Req("PUT", pathExtensions, <<>>, <<e>>))
ListExtensions == Req("GET", pathExtensions, <<>>, <<>>)
DeleteExtension(id) == Unless(id = "", Req("DELETE", Append(pathExtensions, id), <<>>, <<>>))
Features == Req("GET", pathFeatures, <<>>, <<>>)
ShortestPath(q) == Unless(q = "", Req("GET", <<"shortest-path">>, <<q>>, <<>>))
Cypher(query) == Unless(query = "", Req("POST", <<"cypher">>, <<>>, <<query>>))
JobStatus == Req("GET", <<"completed-tasks">>, <<>>, <<>>)

(* Get, Post, Put and Delete.                                              *)
Verb == {"GET", "POST", "PUT", "DELETE"}
Bare(verb, path) ==
  Req(verb, <<path>>, <<>>, IF verb \in {"POST", "PUT"} THEN <<"content">> ELSE <<>>)

RequestFor(call) ==
  CASE call.op = "InstallExtension" -> InstallExtension(call.arg)
    [] call.op = "ListExtensions" -> ListExtensions
    [] call.op = "DeleteExtension" -> DeleteExtension(call.arg)
    [] call.op = "FeatureEnabled" -> Features
    [] call.op = "ShortestPath" -> ShortestPath(call.arg)
    [] call.op = "Cypher" -> Cypher(call.arg)
    [] call.op = "JobStatus" -> JobStatus
    [] call.op \in Verb -> Bare(call.op, call.arg)

(* Mutant: what is signed is URL.Path, without the query.                  *)
DoRequestSigningPath(c) ==
  LET q == RequestFor(calls[c])
  IN  [caller |-> c, method |-> q.method,
       target |-> client.base \o q.path \o q.query, body |-> q.body, hops |-> 0,
       signature |-> Sign(TokenKey, q.method, client.base \o q.path, 0, q.body)]

(* What do hands to net/http, signed over URL.RequestURI().  A nil body    *)
(* and an empty one are the same on the wire and in the signature.         *)
DoRequest(c) ==
  LET q == RequestFor(calls[c])
      target == client.base \o q.path \o q.query
  IN  [caller |-> c, method |-> q.method, target |-> target, body |-> q.body,
       hops |-> 0, signature |-> Sign(TokenKey, q.method, target, 0, q.body)]

Do(c) ==
  /\ pc[c] = "idle"
  /\ RequestFor(calls[c]) # NoRequest
  /\ pc' = [pc EXCEPT ![c] = "waiting"]
  /\ requests' = requests \union {DoRequest(c)}
  /\ since' = [since EXCEPT ![c] = {View(flags, installed)}]
  /\ UNCHANGED <<client, calls, result, replies, serverVars>>

Return(c, res) ==
  /\ pc' = [pc EXCEPT ![c] = "returned"]
  /\ result' = [result EXCEPT ![c] = res]

Error == [NoResult EXCEPT !.kind = "error"]

(* The call refuses its argument, or its request cannot be encoded, built  *)
(* or signed.                                                              *)
FailsLocally(c) ==
  /\ pc[c] = "idle"
  /\ Return(c, Error)
  /\ UNCHANGED <<client, calls, requests, replies, serverVars, since>>

Value(v) == [NoResult EXCEPT !.kind = "value", !.value = v]

(* Features decodes the flags, FeatureEnabled looks its key up in them.    *)
FeatureEnabled(key, body) ==
  IF body.kind # "flags" \/ key \notin DOMAIN body.flags THEN Error
  ELSE Value(IF body.flags[key] THEN "on" ELSE "off")

(* Mutant: the status is not looked at.                                    *)
OutcomeWithoutStatus(call, r) ==
  IF call.op = "FeatureEnabled" THEN FeatureEnabled(call.arg, r.body)
  ELSE Value(r.body.kind)

(* send, and what the call makes of the body: FeatureEnabled decodes it,   *)
(* the others return it, or drop it without having looked at it.  The text *)
(* of an APIError, with the advice it guesses at from status and path, is  *)
(* wording, and left out.                                                  *)
Outcome(call, r) ==
  IF r.status # "2xx" THEN [NoResult EXCEPT !.kind = "api error", !.value = r.status]
  ELSE IF call.op = "FeatureEnabled" THEN FeatureEnabled(call.arg, r.body)
  ELSE Value(r.body.kind)

(* Mutant: a call that is under way answers any other of its kind.         *)
ReceiveShared(c, r) ==
  /\ pc[c] = "waiting"
  /\ r \in replies
  /\ RequestFor(calls[r.caller]) = RequestFor(calls[c])
  /\ Return(c, Outcome(calls[c], r))
  /\ UNCHANGED <<client, calls, requests, replies, serverVars, since>>

(* send returns what it gets, whatever it is: nothing is retried.          *)
Receive(c, r) ==
  /\ pc[c] = "waiting"
  /\ r \in replies
  /\ r.caller = c
  /\ replies' = replies \ {r}
  /\ Return(c, Outcome(calls[c], r))
  /\ UNCHANGED <<client, calls, requests, serverVars, since>>

(* Mutant: send returns neither a body nor an error.                       *)
AbandonQuietly(c) ==
  /\ pc[c] = "waiting"
  /\ Return(c, NoResult)
  /\ replies' = {r \in replies : r.caller # c}
  /\ UNCHANGED <<client, calls, requests, serverVars, since>>

(* Do fails, and send returns its error.                                   *)
Abandon(c) ==
  /\ pc[c] = "waiting"
  /\ Return(c, Error)
  /\ replies' = {r \in replies : r.caller # c}
  /\ UNCHANGED <<client, calls, requests, serverVars, since>>

(* Mutant: the timeout is for requests that were not redirected.           *)
TimesOutOnce(c) ==
  client.timeout /\ (\A r \in requests : r.caller = c => r.hops = 0) /\ Abandon(c)

TimesOut(c) == client.timeout /\ Abandon(c)

(* The context is cancelled, the connection breaks, or the answer cannot   *)
(* be read to its end.                                                     *)
Breaks(c) == Abandon(c)

-----------------------------------------------------------------------------
(* Whatever is between the client and BloodHound may redirect a request,   *)
(* and net/http follows for as long as the call waits: with the headers it *)
(* has, and after a 301, 302 or 303 as a GET without a body.  A 307 or 308 *)
(* keeps both, since the body of do can be read again.                     *)
Redirected(r, keep, location) ==
  LET moved == [r EXCEPT !.target = location, !.hops = @ + 1]
  IN  IF keep THEN moved ELSE [moved EXCEPT !.method = "GET", !.body = <<>>]

Redirect(r, keep, location) ==
  /\ r \in requests
  /\ r.hops < MaxRedirects
  /\ pc[r.caller] = "waiting"
  /\ requests' = (requests \ {r}) \union {Redirected(r, keep, location)}
  /\ UNCHANGED <<callVars, replies, serverVars, since>>

Page == [kind |-> "page", flags |-> <<>>]
Other == [kind |-> "other", flags |-> <<>>]

(* The answer to a caller that has given up finds its connection closed.   *)
Answer(r, status, body) ==
  /\ r \in requests
  /\ requests' = requests \ {r}
  /\ replies' = replies \union
       {[caller |-> c, status |-> status, body |-> body] :
          c \in {c \in {r.caller} : pc[c] = "waiting"}}
  /\ UNCHANGED callVars

LandingPageAnswers(r) ==
  /\ r.target = LandingPage
  /\ Answer(r, "2xx", Page)
  /\ UNCHANGED <<serverVars, since>>

(* BloodHound signs what it received and compares.                         *)
Authentic(r) == r.signature = Sign(TokenKey, r.method, r.target, 0, r.body)

(* An error: the signature does not match, the role does not suffice, the  *)
(* route or what was asked for is not there, or the server is not well.    *)
Refuse(r) ==
  /\ \E status \in {"401", "403", "404", "500"} : Answer(r, status, Other)
  /\ UNCHANGED <<serverVars, since>>

Asks(r, method, path) ==
  Authentic(r) /\ r.method = method /\ r.target = MountPath \o path

RoutedBy(f) == FeatureFlagExtensions \in DOMAIN f /\ f[FeatureFlagExtensions]

Become(f, i) ==
  /\ flags' = f
  /\ installed' = i
  /\ since' = [c \in Caller |->
       IF pc[c] = "waiting" THEN since[c] \union {View(f, i)} ELSE since[c]]

ServeFeatures(r) ==
  /\ Asks(r, "GET", pathFeatures)
  /\ Answer(r, "2xx", [kind |-> "flags", flags |-> flags])
  /\ UNCHANGED <<serverVars, since>>

(* The effect and the answer may differ: a 500 may come after the one.     *)
ServeInstall(r, status) ==
  /\ Asks(r, "PUT", pathExtensions)
  /\ RoutedBy(flags)
  /\ Become(flags, installed \union {r.body[1]})
  /\ Answer(r, status, Other)
  /\ UNCHANGED toggles

ServeDelete(r, ext, status) ==
  /\ Asks(r, "DELETE", Append(pathExtensions, ext))
  /\ RoutedBy(flags)
  /\ Become(flags, installed \ {ext})
  /\ Answer(r, status, Other)
  /\ UNCHANGED toggles

(* Every other request only reads.                                         *)
ServeRead(r) ==
  /\ Authentic(r)
  /\ r.method \in {"GET", "POST"}
  /\ r.target # MountPath \o pathFeatures
  /\ SubSeq(r.target, 1, Len(MountPath)) = MountPath
  /\ r.target = MountPath \o pathExtensions => RoutedBy(flags)
  /\ Answer(r, "2xx", Other)
  /\ UNCHANGED <<serverVars, since>>

(* An operator toggles a flag, as extensions.go:25 describes.              *)
Toggle(key) ==
  /\ toggles < MaxToggles
  /\ toggles' = toggles + 1
  /\ Become([flags EXCEPT ![key] = ~@], installed)
  /\ UNCHANGED <<callVars, requests, replies>>

-----------------------------------------------------------------------------
MakeCall(c) ==
  \/ Do(c)
  \/ FailsLocally(c)
  \/ \E r \in replies : Receive(c, r)
  \/ TimesOut(c)

BloodHound(r) ==
  \/ Refuse(r)
  \/ ServeFeatures(r)
  \/ \E status \in {"2xx", "500"} : ServeInstall(r, status)
  \/ \E ext \in installed, status \in {"2xx", "500"} : ServeDelete(r, ext, status)
  \/ ServeRead(r)

Next ==
  \/ \E c \in Caller : MakeCall(c)
  \/ \E c \in Caller : Breaks(c)
  \/ \E r \in requests : r.target # LandingPage /\ BloodHound(r)
  \/ \E r \in requests : LandingPageAnswers(r)
  \/ \E r \in requests, keep \in BOOLEAN :
       \E location \in Locations \union {r.target} : Redirect(r, keep, location)
  \/ \E key \in DOMAIN flags : Toggle(key)

(* Goroutines are scheduled, and a client that has a timeout gives up.     *)
Fairness == \A c \in Caller : WF_vars(MakeCall(c))

Spec == Init /\ [][Next]_vars /\ Fairness

-----------------------------------------------------------------------------
(* The variables have the values the code and its environment give them.   *)
TypeOK ==
  /\ client.timeout \in BOOLEAN
  /\ calls \in CallsChoice
  /\ pc \in [Caller -> {"idle", "waiting", "returned"}]
  /\ \A c \in Caller : (result[c] = NoResult) = (pc[c] # "returned")
  /\ \A r \in requests : r.caller \in Caller /\ r.hops \in 0..MaxRedirects
  /\ \A r \in replies : r.caller \in Caller
  /\ flags \in FlagsChoice
  /\ toggles \in 0..MaxToggles
  /\ \A c \in Caller : pc[c] = "waiting" => View(flags, installed) \in since[c]

(* The request is what its caller asked for, on the instance it named.     *)
Meant(r) ==
  LET q == RequestFor(calls[r.caller])
  IN  /\ r.method = q.method
      /\ r.body = q.body
      /\ r.target = client.base \o q.path \o q.query

(* sign.go:39 and client.go:150: the server takes a request for authentic  *)
(* exactly when it is the one the call was for, query and base path        *)
(* included.  One that a redirect has turned into another request, a PUT   *)
(* into a GET on the way, is not carried out.                              *)
SignatureMeansIntent == \A r \in requests : Authentic(r) <=> Meant(r)

Answered(c, op) == calls[c].op = op /\ result[c].kind = "value"

(* What was so at some moment of the call.                                 *)
FlagWas(c, value) ==
  \E v \in since[c] :
    /\ calls[c].arg \in DOMAIN v.flags
    /\ v.flags[calls[c].arg] = (value = "on")

WasInstalled(c) == \E v \in since[c] : calls[c].arg \in v.installed
WasGone(c) == \E v \in since[c] : calls[c].arg \notin v.installed

(* features.go:62-70: a flag's answer is what the flag was at some moment  *)
(* of the call, not before, whoever else asks and toggles; and a flag the  *)
(* instance does not report is never answered for.                         *)
FreshAnswer ==
  \A c \in Caller : Answered(c, "FeatureEnabled") => FlagWas(c, result[c].value)

(* extensions.go:30 and :61: when the call says so the extension was       *)
(* there, or was gone, at some moment of the call; unless the answer is    *)
(* that of a page outside BloodHound that the call was redirected to,      *)
(* which install and delete do not tell from BloodHound's.                 *)
SuccessIsEffect ==
  \A c \in Caller : result[c].value # "page" =>
    /\ Answered(c, "InstallExtension") => WasInstalled(c)
    /\ Answered(c, "DeleteExtension") => WasGone(c)

(* client.go:72 and :37: every call returns, given a timeout, whatever the *)
(* server does and wherever the request is redirected; and a call by a     *)
(* client without one waits for nothing other than an answer: the first    *)
(* one ends it.                                                            *)
EveryCallReturns ==
  \A c \in Caller :
    /\ client.timeout => <>(pc[c] = "returned")
    /\ (\E r \in replies : r.caller = c) ~> (pc[c] = "returned")
=============================================================================
