---------------------------- MODULE PayloadFile ----------------------------
(***************************************************************************)
(* The program examples/minimal: validate a graph, create payload.json and *)
(* stream the document into it with Graph.WriteTo, for an upload by hand.  *)
(*                                                                         *)
(* The file system is external: it may refuse a file, take a part of a     *)
(* write, and report only on close that the last of what it took is lost.  *)
(***************************************************************************)
EXTENDS GraphWriter

CONSTANTS
  Letter,   (* what the texts of a document are made of                    *)
  Earlier   (* what payload.json may hold before: sequences of text        *)

ASSUME PayloadFileAssumption == WritesIn(Letter)

VARIABLES
  run,     (* where run is; "done" or "failed" once it has returned        *)
  valid,   (* what Graph.Validate says of the graph                        *)
  held,    (* what payload.json held before the program                    *)
  payload  (* what it holds                                                *)

fileVars == <<gwVars, run, valid, held, payload>>

FileInit ==
  /\ GwInit
  /\ run = "validate"
  /\ valid \in BOOLEAN
  /\ held \in Earlier
  /\ payload = held

Validate ==
  /\ run = "validate"
  /\ run' = IF valid THEN "create" ELSE "failed"
  /\ UNCHANGED <<gwVars, valid, held, payload>>

(* os.Create truncates a file that is there.                               *)
Create ==
  /\ run = "create"
  /\ payload' = <<>>
  /\ run' = "write"
  /\ UNCHANGED <<gwVars, valid, held>>

CreateFails ==
  /\ run = "create"
  /\ run' = "failed"
  /\ UNCHANGED <<gwVars, valid, held, payload>>

FileWriteText ==
  /\ run = "write"
  /\ GwWrites
  /\ payload' = payload \o Call.text
  /\ UNCHANGED <<run, valid, held>>

(* An encode returns at once, and run closes the file.  What that close    *)
(* may lose is left out: a beginning of the document is left either way.   *)
FileWriteTextFails(k) ==
  /\ run = "write"
  /\ GwFails(k)
  /\ payload' = payload \o SubSeq(Call.text, 1, k)
  /\ run' = IF Call.encodes THEN "failed" ELSE run
  /\ UNCHANGED <<valid, held>>

FileEncodeFails ==
  /\ run = "write"
  /\ GwRefuses \/ GwReports
  /\ run' = "failed"
  /\ UNCHANGED <<valid, held, payload>>

FileAfterError ==
  /\ run = "write"
  /\ GwSkips
  /\ UNCHANGED <<run, valid, held, payload>>

FileWriteToReturns ==
  /\ run = "write"
  /\ ~Unfinished
  /\ run' = IF gwErr THEN "failed" ELSE "close"
  /\ UNCHANGED <<gwVars, valid, held, payload>>

Close ==
  /\ run = "close"
  /\ run' = "done"
  /\ UNCHANGED <<gwVars, valid, held, payload>>

(* Mutant: a deferred close, whose error nobody sees.                      *)
CloseIgnored(k) ==
  /\ run = "close"
  /\ payload' = SubSeq(payload, 1, k)
  /\ run' = "done"
  /\ UNCHANGED <<gwVars, valid, held>>

(* All but k bytes are lost.                                               *)
CloseFails(k) ==
  /\ run = "close"
  /\ payload' = SubSeq(payload, 1, k)
  /\ run' = "failed"
  /\ UNCHANGED <<gwVars, valid, held>>

FileNext ==
  \/ Validate
  \/ Create
  \/ CreateFails
  \/ FileWriteText
  \/ Reaches /\ \E k \in 0..Len(Call.text) : FileWriteTextFails(k)
  \/ FileEncodeFails
  \/ FileAfterError
  \/ FileWriteToReturns
  \/ Close
  \/ \E k \in 0..Len(payload) : CloseFails(k)

FileSpec == FileInit /\ [][FileNext]_fileVars

-----------------------------------------------------------------------------
(* minimal/main.go:71, "a payload that is silently truncated is worse than *)
(* no payload": what run reports written is the whole document, of as many *)
(* bytes as it prints, of a graph that validated; and what a program that  *)
(* failed leaves is what was there before, or a beginning of the document, *)
(* as long as WriteTo's count unless the close lost some, never a mixture. *)
DoneMeansWhole ==
  /\ run = "done" => /\ payload = Document(graph)
                     /\ gwN = Len(payload)
                     /\ valid
  /\ payload = held \/ IsPrefix(payload, Document(graph))
  /\ run = "write" => gwN = Len(payload)
=============================================================================
