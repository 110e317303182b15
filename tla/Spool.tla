------------------------------- MODULE Spool -------------------------------
(***************************************************************************)
(* The spool of client/spool.go: bytes accumulate in memory and move to a  *)
(* temporary file once they no longer fit under a threshold.               *)
(*                                                                         *)
(* This module holds the state of one spool and its operations, each with  *)
(* every way the file system can fail under it.  It has no next-state      *)
(* relation: SpoolCalls drives it with an arbitrary caller, and Upload     *)
(* with the one caller the library has.                                    *)
(***************************************************************************)
EXTENDS Integers, Sequences

CONSTANTS
  Byte,                  (* what a payload is made of                      *)
  SpoolThreshold,        (* the size given to WithSpoolThreshold, or 0     *)
  DefaultSpoolThreshold  (* the threshold a size of 0 or less selects      *)

ASSUME SpoolAssumption ==
  /\ SpoolThreshold \in Int
  /\ DefaultSpoolThreshold \in Nat \ {0}

VARIABLES
  buf,     (* s.buf: the bytes held in memory                              *)
  file,    (* s.file: "nil"; "open"; or "closed", set but with a           *)
           (* descriptor somebody else has closed                          *)
  disk,    (* the contents of the temporary file                           *)
  pos,     (* the offset of its descriptor, or of the reader over buf      *)
  linked,  (* whether its name is still in the temporary directory         *)
  n        (* s.n: the count that becomes Content-Length                   *)

spoolVars == <<buf, file, disk, pos, linked, n>>

(* newSpool: a threshold that is not positive means the default.           *)
threshold ==
  IF SpoolThreshold <= 0 THEN DefaultSpoolThreshold ELSE SpoolThreshold

SpoolInit ==
  /\ buf = <<>>
  /\ file = "nil"
  /\ disk = <<>>
  /\ pos = 0
  /\ linked = FALSE
  /\ n = 0

-----------------------------------------------------------------------------
(***************************************************************************)
(* Writing.  An os.File takes a prefix of what it is given, the whole of   *)
(* it exactly when it returns no error, and puts it at its offset.  Each   *)
(* action below is one outcome of Write(p); k is how much of p it reports. *)
(***************************************************************************)
Prefix(p, k) == SubSeq(p, 1, k)

FileAfter(q) ==
  Prefix(disk, pos) \o q \o SubSeq(disk, pos + Len(q) + 1, Len(disk))

(* Mutant: a payload that fills the threshold exactly goes to disk.        *)
FitsStrictly(p) == Len(buf) + Len(p) < threshold

Fits(p) == Len(buf) + Len(p) <= threshold

(* The bytes still fit in memory.                                          *)
WriteToBuffer(p) ==
  /\ file = "nil"
  /\ Fits(p)
  /\ buf' = buf \o p
  /\ n' = n + Len(p)
  /\ UNCHANGED <<file, disk, pos, linked>>

(* Past the threshold, os.CreateTemp fails: nothing has changed.           *)
CreateTempFails(p) ==
  /\ file = "nil"
  /\ ~Fits(p)
  /\ UNCHANGED spoolVars

(* Past the threshold, the file exists but takes only j of the bytes that  *)
(* were in memory.  s.file is set by then, and the buffer is not reset.    *)
SpillFails(p, j) ==
  /\ file = "nil"
  /\ ~Fits(p)
  /\ j < Len(buf)
  /\ file' = "open"
  /\ linked' = TRUE
  /\ disk' = Prefix(buf, j)
  /\ pos' = j
  /\ UNCHANGED <<buf, n>>

(* Mutant: what was in memory is not moved.                                *)
SpillLosesMemory(p, k) ==
  /\ file = "nil"
  /\ ~Fits(p)
  /\ file' = "open"
  /\ linked' = TRUE
  /\ disk' = Prefix(p, k)
  /\ pos' = k
  /\ buf' = <<>>
  /\ n' = n + k

(* Mutant: p is written before what was in memory.                         *)
SpillOutOfOrder(p, k) ==
  /\ file = "nil"
  /\ ~Fits(p)
  /\ file' = "open"
  /\ linked' = TRUE
  /\ disk' = Prefix(p, k) \o buf
  /\ pos' = Len(buf) + k
  /\ buf' = <<>>
  /\ n' = n + k

(* Past the threshold, memory moves to the file and k bytes of p follow.   *)
SpillAndWrite(p, k) ==
  /\ file = "nil"
  /\ ~Fits(p)
  /\ file' = "open"
  /\ linked' = TRUE
  /\ disk' = buf \o Prefix(p, k)
  /\ pos' = Len(buf) + k
  /\ buf' = <<>>
  /\ n' = n + k

(* Mutant: the count takes in what was offered, not what was stored.       *)
WriteToFileCountsAll(p, k) ==
  /\ file = "open"
  /\ disk' = FileAfter(Prefix(p, k))
  /\ pos' = pos + k
  /\ n' = n + Len(p)
  /\ UNCHANGED <<buf, file, linked>>

(* Already on disk: k bytes of p land at the offset.                       *)
WriteToFile(p, k) ==
  /\ file = "open"
  /\ disk' = FileAfter(Prefix(p, k))
  /\ pos' = pos + k
  /\ n' = n + k
  /\ UNCHANGED <<buf, file, linked>>

(* Write(p) returns Len(p) and no error.                                   *)
WriteSucceeds(p) ==
  \/ WriteToBuffer(p)
  \/ SpillAndWrite(p, Len(p))
  \/ WriteToFile(p, Len(p))

(* Write(p) returns k < Len(p) and an error.                               *)
WriteFails(p, k) ==
  /\ k < Len(p)
  /\ \/ k = 0 /\ CreateTempFails(p)
     \/ k = 0 /\ \E j \in 0..Len(buf) : SpillFails(p, j)
     \/ SpillAndWrite(p, k)
     \/ WriteToFile(p, k)

-----------------------------------------------------------------------------
(* What a reader handed out now would be a reader over.                    *)
Readable == IF file = "nil" THEN buf ELSE disk

(* Mutant: the file is handed out where writing left it.                   *)
ReaderWithoutRewind ==
  /\ file # "closed"
  /\ pos' = IF file = "nil" THEN 0 ELSE pos
  /\ UNCHANGED <<buf, file, disk, linked, n>>

(* reader(): a fresh reader over the buffer, or the file itself, rewound.  *)
ReaderSucceeds ==
  /\ file # "closed"
  /\ pos' = 0
  /\ UNCHANGED <<buf, file, disk, linked, n>>

(* reader(): the file does not seek.                                       *)
ReaderFails ==
  /\ file # "nil"
  /\ UNCHANGED spoolVars

(* Mutants: s.file is not reset; the file is closed but not removed; it is *)
(* removed only if closing it worked.                                      *)
CloseKeepsFile(removed) ==
  /\ file' = IF file = "nil" THEN "nil" ELSE "closed"
  /\ linked' = IF file = "nil" THEN linked ELSE ~removed
  /\ UNCHANGED <<buf, disk, pos, n>>

CloseOnly(removed) ==
  /\ file' = "nil"
  /\ UNCHANGED <<buf, disk, pos, linked, n>>

CloseReturnsEarly(removed) ==
  /\ file' = "nil"
  /\ linked' = IF file = "open" THEN ~removed ELSE linked
  /\ UNCHANGED <<buf, disk, pos, n>>

(* close(): the descriptor is closed, whether or not that works, and then  *)
(* the name is removed, which removed tells.                               *)
SpoolClose(removed) ==
  /\ file' = "nil"
  /\ linked' = IF file = "nil" THEN linked ELSE ~removed
  /\ UNCHANGED <<buf, disk, pos, n>>

-----------------------------------------------------------------------------
SpoolTypeOK ==
  /\ buf \in Seq(Byte)
  /\ file \in {"nil", "open", "closed"}
  /\ disk \in Seq(Byte)
  /\ pos \in Nat
  /\ linked \in BOOLEAN
  /\ n \in Nat
=============================================================================
