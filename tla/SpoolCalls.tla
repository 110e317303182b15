----------------------------- MODULE SpoolCalls -----------------------------
(***************************************************************************)
(* A spool driven by an arbitrary caller, one that may go on writing after *)
(* an error: what client/spool.go promises on its own, before UploadGraph  *)
(* decides how it is used.                                                 *)
(***************************************************************************)
EXTENDS Spool

CONSTANTS
  Chunk,    (* the byte sequences the caller may write                     *)
  MaxBytes  (* bound: how many bytes it offers in all                      *)

ASSUME CallsAssumption ==
  /\ Chunk \subseteq Seq(Byte)
  /\ MaxBytes \in Nat

VARIABLES
  phase,        (* "writing", then "reading", then "closed"                *)
  offered,      (* every byte given to Write                               *)
  accepted,     (* every byte Write reported taking                        *)
  failed,       (* whether a Write has returned an error                   *)
  removeFailed  (* whether the file system refused to remove the file      *)

callVars == <<phase, offered, accepted, failed, removeFailed>>
vars == <<spoolVars, callVars>>

Init ==
  /\ SpoolInit
  /\ phase = "writing"
  /\ offered = <<>>
  /\ accepted = <<>>
  /\ failed = FALSE
  /\ removeFailed = FALSE

Offer(p) ==
  /\ phase = "writing"
  /\ Len(offered) + Len(p) <= MaxBytes
  /\ offered' = offered \o p

Write(p) ==
  /\ Offer(p)
  /\ WriteSucceeds(p)
  /\ accepted' = accepted \o p
  /\ UNCHANGED <<phase, failed, removeFailed>>

WriteError(p, k) ==
  /\ Offer(p)
  /\ WriteFails(p, k)
  /\ accepted' = accepted \o Prefix(p, k)
  /\ failed' = TRUE
  /\ UNCHANGED <<phase, removeFailed>>

Reader ==
  /\ phase = "writing"
  /\ ReaderSucceeds
  /\ phase' = "reading"
  /\ UNCHANGED <<offered, accepted, failed, removeFailed>>

ReaderError ==
  /\ phase = "writing"
  /\ ReaderFails
  /\ UNCHANGED callVars

Close(removed) ==
  /\ phase # "closed"
  /\ SpoolClose(removed)
  /\ phase' = "closed"
  /\ removeFailed' = (file # "nil" /\ ~removed)
  /\ UNCHANGED <<offered, accepted, failed>>

Next ==
  \/ \E p \in Chunk : Write(p)
  \/ \E p \in Chunk : \E k \in 0..Len(p) : WriteError(p, k)
  \/ Reader
  \/ ReaderError
  \/ \E removed \in BOOLEAN : Close(removed)

Spec == Init /\ [][Next]_vars

-----------------------------------------------------------------------------
(* The variables of the spool and of its caller have the values the code   *)
(* gives them, and the offset never leaves the file.                       *)
TypeOK ==
  /\ SpoolTypeOK
  /\ pos <= Len(disk)
  /\ file # "closed"
  /\ phase \in {"writing", "reading", "closed"}
  /\ offered \in Seq(Byte)
  /\ accepted \in Seq(Byte)
  /\ failed \in BOOLEAN
  /\ removeFailed \in BOOLEAN

(* spool.go:71, reader: as long as no Write has failed, what a reader gets *)
(* is every byte written, in order, across the move from memory to disk,   *)
(* and size is its length.                                                 *)
ReaderSeesEverything ==
  ~failed /\ phase # "closed" => /\ Readable = accepted
                                 /\ n = Len(Readable)

(* spool.go:38, Write: even through failing and partial writes the count   *)
(* is the number of bytes Write reported taking, never of those offered.   *)
CountsWhatItTook == n = Len(accepted)

(* ingest.go:77: payloads that stay under the threshold never touch disk,  *)
(* and a spool that did go to disk without an error holds nothing in       *)
(* memory, which never exceeds the threshold anyway.                       *)
MemoryAndDisk ==
  /\ linked => Len(offered) > threshold
  /\ Len(buf) <= threshold
  /\ (file # "nil" /\ ~failed) => buf = <<>>

(* spool.go:89, close: the temporary file does not outlive the spool       *)
(* unless the file system itself refused to remove it.                     *)
NoFileLeft == phase = "closed" /\ ~removeFailed => ~linked

(* spool.go:40 and :82: size, which feeds Content-Length, does not run     *)
(* ahead of the bytes a reader would hand back.  The code breaks this: a   *)
(* spill that fails half way leaves a count of bytes the file never got.   *)
CountNeverRunsAhead == phase # "closed" => n <= Len(Readable)

-----------------------------------------------------------------------------
(* The spool implements the byte log: what a reader gets and the size that *)
(* goes with it, until an error or close.                                  *)
Log == INSTANCE ByteLog WITH
         log    <- IF failed \/ phase = "closed" THEN <<>> ELSE Readable,
         size   <- IF failed \/ phase = "closed" THEN 0 ELSE n,
         broken <- failed

ImplementsByteLog == Log!Spec
=============================================================================
