------------------------------- MODULE Upload -------------------------------
(***************************************************************************)
(* One call of UploadGraph (client/ingest.go): Graph.WriteTo (marshal.go)  *)
(* writes the document once, through an io.MultiWriter, into a spool and a *)
(* body signer; doStream and send (client/client.go) then hand the spool   *)
(* to net/http, whose transport reads the body, and closes it, on its own  *)
(* schedule, while the call may already be returning.                      *)
(*                                                                         *)
(* The transport and the server are external: they do what the code relies *)
(* on net/http and on BloodHound for.                                      *)
(***************************************************************************)
EXTENDS Spool, Signing, GraphWriter

CONSTANTS
  TokenKey,     (* the API token's secret                                  *)
  BasePath,     (* path segments of the base URL given to New              *)
  JobPath,      (* path segments of /api/v2/file-upload/<id>               *)
  MaxAge,       (* ticks for which the server accepts a signature          *)
  MaxTime       (* bound: ticks the clock may advance                      *)

ASSUME UploadAssumption ==
  /\ WritesIn(Byte)
  /\ BasePath \in Seq(STRING)
  /\ JobPath \in Seq(STRING)
  /\ MaxAge \in Nat
  /\ MaxTime \in Nat

VARIABLES
  pc,       (* where UploadGraph is                                        *)
  at,       (* the instant UploadGraph captured                            *)
  signer,   (* its BodySigner                                              *)
  request,  (* what doStream made: NoRequest until then                    *)
  outcome,  (* "none", "ok" or "failed": what UploadGraph returns          *)
  now,      (* the clock                                                   *)
  tx,       (* the transport: "idle", "sending", "sent", "broken", or      *)
            (* "short" when Content-Length and body disagree               *)
  wire,     (* the body bytes sent                                         *)
  verdict,  (* the server's answer, "none" before it                       *)
  removeFailed  (* whether the file system refused to remove the file      *)

callVars == <<gwVars, pc, at, signer, request, outcome>>
envVars == <<now, tx, wire, verdict, removeFailed>>
vars == <<spoolVars, callVars, envVars>>

NoRequest == [target |-> <<>>, date |-> 0, signature |-> <<>>,
              contentLength |-> 0, body |-> "none"]

-----------------------------------------------------------------------------
Init ==
  /\ SpoolInit
  /\ GwInit
  /\ pc = "start"
  /\ at = 0
  /\ signer = [key |-> <<>>, written |-> <<>>]
  /\ request = NoRequest
  /\ outcome = "none"
  /\ now = 0
  /\ tx = "idle"
  /\ wire = <<>>
  /\ verdict = "none"
  /\ removeFailed = FALSE

(* Mutant: the request is signed for the next tick, to last longer.        *)
StartInTheFuture ==
  /\ pc = "start"
  /\ pc' = "writing"
  /\ at' = now + 1
  /\ signer' = NewBodySigner(TokenKey, "POST", JobPath, now + 1)
  /\ UNCHANGED <<spoolVars, gwVars, request, outcome, envVars>>

(* UploadGraph captures the instant, and starts a signer and a spool.      *)
(* NewBodySigner cannot fail: an RFC 3339 date has more than 13 characters *)
Start ==
  /\ pc = "start"
  /\ pc' = "writing"
  /\ at' = now
  /\ signer' = NewBodySigner(TokenKey, "POST", JobPath, now)
  /\ UNCHANGED <<spoolVars, gwVars, request, outcome, envVars>>

(* The call is about to return r; the deferred close comes first.          *)
Return(r) == pc' = "closing" /\ outcome' = r

(* Mutant: what graphWriter.write writes goes to the spool only.           *)
WriteTextPartlySigned ==
  /\ pc = "writing"
  /\ GwWrites
  /\ WriteSucceeds(Call.text)
  /\ signer' = IF Call.encodes THEN SignerWrite(signer, Call.text) ELSE signer
  /\ UNCHANGED <<pc, at, request, outcome, envVars>>

(* The text reaches both writers, the spool first.                         *)
WriteText ==
  /\ pc = "writing"
  /\ GwWrites
  /\ WriteSucceeds(Call.text)
  /\ signer' = SignerWrite(signer, Call.text)
  /\ UNCHANGED <<pc, at, request, outcome, envVars>>

(* The spool fails, so the signer is not reached.  Only an encode makes    *)
(* WriteTo return at once.                                                 *)
WriteTextFails(k) ==
  /\ pc = "writing"
  /\ GwFails(k)
  /\ WriteFails(Call.text, k)
  /\ IF Call.encodes THEN Return("failed") ELSE UNCHANGED <<pc, outcome>>
  /\ UNCHANGED <<at, signer, request, envVars>>

EncodeFails ==
  /\ pc = "writing"
  /\ GwRefuses \/ GwReports
  /\ Return("failed")
  /\ UNCHANGED <<spoolVars, at, signer, request, envVars>>

AfterError ==
  /\ pc = "writing"
  /\ GwSkips
  /\ UNCHANGED <<spoolVars, pc, at, signer, request, outcome, envVars>>

(* Mutant: WriteTo returns nil, as if encode alone could fail.             *)
WriteToForgetsError ==
  /\ pc = "writing"
  /\ ~Unfinished
  /\ pc' = "reader"
  /\ UNCHANGED <<spoolVars, gwVars, at, signer, request, outcome, envVars>>

(* WriteTo returns its sticky error, which UploadGraph checks.             *)
WriteToReturns ==
  /\ pc = "writing"
  /\ ~Unfinished
  /\ IF gwErr THEN Return("failed") ELSE pc' = "reader" /\ UNCHANGED outcome
  /\ UNCHANGED <<spoolVars, gwVars, at, signer, request, envVars>>

(* sp.reader fails to rewind the file.                                     *)
ReaderError ==
  /\ pc = "reader"
  /\ ReaderFails
  /\ Return("failed")
  /\ UNCHANGED <<gwVars, at, signer, request, envVars>>

(* Mutant: the date header is the time of sending, not that of signing.    *)
StreamRequestDatedNow ==
  [target        |-> BasePath \o JobPath,
   date          |-> now,
   signature     |-> Signature(signer),
   contentLength |-> n,
   body          |-> IF file = "nil" THEN "memory" ELSE "file"]

StreamRequest ==
  [target        |-> BasePath \o JobPath,
   date          |-> at,
   signature     |-> Signature(signer),
   contentLength |-> n,
   body          |-> IF file = "nil" THEN "memory" ELSE "file"]

(* doStream makes the request and send gives it to the transport.          *)
DoStream ==
  /\ pc = "reader"
  /\ ReaderSucceeds
  /\ pc' = "sending"
  /\ request' = StreamRequest
  /\ tx' = "sending"
  /\ UNCHANGED <<gwVars, at, signer, outcome,
                 now, wire, verdict, removeFailed>>

(* http.NewRequestWithContext refuses, and nothing is sent.                *)
DoStreamFails ==
  /\ pc = "reader"
  /\ ReaderSucceeds
  /\ Return("failed")
  /\ UNCHANGED <<gwVars, at, signer, request, envVars>>

(* Mutant: any answer is a success.                                        *)
RespondWithoutStatus ==
  /\ pc = "sending"
  /\ verdict # "none"
  /\ Return("ok")
  /\ UNCHANGED <<spoolVars, gwVars, at, signer, request,
                 envVars>>

(* send reads an answer: a status outside 2xx is an APIError.              *)
Respond ==
  /\ pc = "sending"
  /\ verdict # "none"
  /\ Return(IF verdict = "accepted" THEN "ok" ELSE "failed")
  /\ UNCHANGED <<spoolVars, gwVars, at, signer, request,
                 envVars>>

(* Mutant: a client without a timeout, which waits for the transport.      *)
DoFailsWithTransport ==
  /\ pc = "sending"
  /\ tx = "broken"
  /\ Return("failed")
  /\ UNCHANGED <<spoolVars, gwVars, at, signer, request,
                 envVars>>

(* The client's timeout, the context or the network ends the exchange,     *)
(* which says nothing about what the server did or will do.                *)
DoFails ==
  /\ pc = "sending"
  /\ Return("failed")
  /\ UNCHANGED <<spoolVars, gwVars, at, signer, request,
                 envVars>>

(* The deferred sp.close, whose error is dropped.                          *)
DeferredClose(removed) ==
  /\ pc = "closing"
  /\ SpoolClose(removed)
  /\ pc' = "returned"
  /\ removeFailed' = (file # "nil" /\ ~removed)
  /\ UNCHANGED <<gwVars, at, signer, request, outcome,
                 now, tx, wire, verdict>>

-----------------------------------------------------------------------------
(* net/http.  It sends at most Content-Length bytes, complains when the    *)
(* body is of another length, and closes a body that can be closed.        *)
Source == IF request.body = "memory" THEN buf ELSE disk

BodyReadable == request.body = "file" => file = "open"

SendByte ==
  /\ tx = "sending"
  /\ BodyReadable
  /\ pos < Len(Source)
  /\ Len(wire) < request.contentLength
  /\ wire' = Append(wire, Source[pos + 1])
  /\ pos' = pos + 1
  /\ UNCHANGED <<buf, file, disk, linked, n, callVars, now, tx, verdict,
                 removeFailed>>

EndOfBody ==
  /\ tx = "sending"
  /\ BodyReadable
  /\ pos >= Len(Source) \/ Len(wire) = request.contentLength
  /\ tx' = IF pos >= Len(Source) /\ Len(wire) = request.contentLength
             THEN "sent" ELSE "short"
  /\ UNCHANGED <<spoolVars, callVars, now, wire, verdict, removeFailed>>

(* The connection breaks, or the file is no longer there to be read.       *)
TransportFails ==
  /\ tx = "sending"
  /\ tx' = "broken"
  /\ UNCHANGED <<spoolVars, callVars, now, wire, verdict, removeFailed>>

CloseBody ==
  /\ tx \in {"sent", "short", "broken"}
  /\ request.body = "file"
  /\ file = "open"
  /\ file' = "closed"
  /\ UNCHANGED <<buf, disk, pos, linked, n, callVars, envVars>>

(* The server.  It recomputes the signature from what it received.         *)
Expected ==
  Sign(TokenKey, "POST", request.target, request.date, wire)

Judgement ==
  IF now - request.date > MaxAge THEN "expired"
  ELSE IF request.signature # Expected THEN "mismatch"
  ELSE "accepted"

Answer ==
  /\ tx = "sent"
  /\ verdict = "none"
  /\ verdict' = Judgement
  /\ UNCHANGED <<spoolVars, callVars, now, tx, wire, removeFailed>>

(* An answer that does not depend on the body, perhaps before all of it.   *)
Refuse ==
  /\ tx \in {"sending", "sent"}
  /\ verdict = "none"
  /\ verdict' = "refused"
  /\ UNCHANGED <<spoolVars, callVars, now, tx, wire, removeFailed>>

Tick ==
  /\ now < MaxTime
  /\ now' = now + 1
  /\ UNCHANGED <<spoolVars, callVars, tx, wire, verdict, removeFailed>>

-----------------------------------------------------------------------------
UploadGraph ==
  \/ Start
  \/ WriteText
  \/ Reaches /\ \E k \in 0..Len(Call.text) : WriteTextFails(k)
  \/ EncodeFails
  \/ AfterError
  \/ WriteToReturns
  \/ ReaderError
  \/ DoStream
  \/ DoStreamFails
  \/ Respond
  \/ DoFails
  \/ \E removed \in BOOLEAN : DeferredClose(removed)

Environment ==
  \/ SendByte
  \/ EndOfBody
  \/ TransportFails
  \/ CloseBody
  \/ Answer
  \/ Refuse
  \/ Tick

Next == UploadGraph \/ Environment

(* The goroutine that called UploadGraph is scheduled, and the client has  *)
(* a timeout (New sets one), so that Do does not wait for ever.  Nothing   *)
(* is asked of the transport, the server or the clock.                     *)
Fairness == WF_vars(UploadGraph)

Spec == Init /\ [][Next]_vars /\ Fairness

-----------------------------------------------------------------------------
(* The variables have the values the code and its environment give them.   *)
TypeOK ==
  /\ SpoolTypeOK
  /\ GwTypeOK
  /\ pc \in {"start", "writing", "reader", "sending", "closing", "returned"}
  /\ at \in 0..now
  /\ now \in 0..MaxTime
  /\ signer.written \in Seq(Byte)
  /\ request.contentLength \in Nat
  /\ request.body \in {"none", "memory", "file"}
  /\ outcome \in {"none", "ok", "failed"}
  /\ tx \in {"idle", "sending", "sent", "broken", "short"}
  /\ wire \in Seq(Byte)
  /\ verdict \in {"none", "accepted", "refused", "expired", "mismatch"}
  /\ removeFailed \in BOOLEAN

(* ingest.go:97: while WriteTo has met no error, the spool, the signer and *)
(* the two counts stand at the same byte of the document; WriteTo's count  *)
(* agrees with the spool's even after a partial write.                     *)
SpoolAndSignerAgree ==
  pc \in {"writing", "reader"} =>
    /\ gwN = n
    /\ ~gwErr => /\ signer.written = Readable
                 /\ n = Len(Readable)

(* ingest.go:127, "a successful Ingest means the payload was accepted":    *)
(* UploadGraph reports success only for a request the server accepted, and *)
(* what the server accepts is the whole document of the graph.             *)
SuccessMeansDelivered ==
  /\ outcome = "ok" => verdict = "accepted"
  /\ verdict = "accepted" => wire = Document(graph)

(* sign.go:37 and :115: the signature is over the request the server       *)
(* receives: its target, the hour of its date header, its body.            *)
SignatureCoversRequest == verdict # "mismatch"

(* spool.go:38 and client.go:198: Content-Length is the length of the body *)
(* from wherever the transport reads it, so that the exchange never stalls *)
(* or fails on a disagreement between the two.                             *)
ContentLengthIsExact ==
  /\ tx # "short"
  /\ tx = "sending" /\ BodyReadable =>
       request.contentLength - Len(wire) = Len(Source) - pos

(* ingest.go:97: a document that could not be written whole is not sent.   *)
PartialDocumentIsNotSent ==
  tx # "idle" => ~gwErr /\ ~Unfinished

(* ingest.go:92 and spool.go:95: however the call ends, and even when the  *)
(* transport has already closed the file, the temporary file is removed,   *)
(* unless the file system refuses.                                         *)
NoFileLeft == pc = "returned" /\ ~removeFailed => ~linked

(* client.go:72: with a client that times out UploadGraph returns, whether *)
(* or not the server ever answers.                                         *)
Returns == <>(pc = "returned")
=============================================================================
