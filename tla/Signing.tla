------------------------------ MODULE Signing ------------------------------
(***************************************************************************)
(* The request signature of client/sign.go: a chain of three HMACs, over   *)
(* the operation, the hour and the body, each keyed by the one before.     *)
(* HMAC-SHA256 is taken as collision free, so a digest is the pair of its  *)
(* key and of what was written to it; base64 is left out, being injective. *)
(***************************************************************************)
EXTENDS Integers, Sequences

CONSTANT TicksPerHour  (* clock ticks in an hour                           *)

ASSUME SigningAssumption == TicksPerHour \in Nat \ {0}

Hmac(key, text) == <<key, text>>

(* datetime[:13], which drops everything below the hour.                   *)
Hour(at) == at \div TicksPerHour

(* The two links that do not depend on the body.                           *)
DateKey(tokenKey, method, uri, at) ==
  Hmac(Hmac(tokenKey, <<method>> \o uri), Hour(at))

(* Sign: the body is at hand.  A nil body signs as an empty one.           *)
Sign(tokenKey, method, uri, at, body) ==
  Hmac(DateKey(tokenKey, method, uri, at), body)

(* BodySigner: the body is written as it is produced.                      *)
NewBodySigner(tokenKey, method, uri, at) ==
  [key |-> DateKey(tokenKey, method, uri, at), written |-> <<>>]

SignerWrite(s, p) == [s EXCEPT !.written = @ \o p]

Signature(s) == Hmac(s.key, s.written)
=============================================================================
