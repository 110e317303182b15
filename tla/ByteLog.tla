------------------------------ MODULE ByteLog ------------------------------
(***************************************************************************)
(* What a spool promises, without memory, files or thresholds: a log of    *)
(* bytes that only grows while it is written, that is then read as one     *)
(* piece, and whose size is the length of what is read.  A write that      *)
(* reports an error breaks the log, and a broken log promises nothing.     *)
(***************************************************************************)
EXTENDS Integers, Sequences

CONSTANT Chunk  (* the byte sequences a caller may write                   *)

VARIABLES
  log,     (* the bytes a reader gets, nothing once the log is broken      *)
  size,    (* the number of bytes announced for it                         *)
  broken,  (* whether a write has reported an error                        *)
  phase    (* "writing", then "reading", then "closed"                     *)

vars == <<log, size, broken, phase>>

Init ==
  /\ log = <<>>
  /\ size = 0
  /\ broken = FALSE
  /\ phase = "writing"

(* A chunk is appended, whole.                                             *)
Extend(p) ==
  /\ phase = "writing"
  /\ ~broken
  /\ log' = log \o p
  /\ size' = size + Len(p)
  /\ UNCHANGED <<broken, phase>>

(* A write reports an error.                                               *)
Break ==
  /\ phase = "writing"
  /\ ~broken
  /\ broken' = TRUE
  /\ log' = <<>>
  /\ size' = 0
  /\ UNCHANGED phase

(* A reader is handed out: from here on the log no longer changes.         *)
Seal ==
  /\ phase = "writing"
  /\ phase' = "reading"
  /\ UNCHANGED <<log, size, broken>>

(* Everything is released.                                                 *)
Close ==
  /\ phase # "closed"
  /\ phase' = "closed"
  /\ log' = <<>>
  /\ size' = 0
  /\ UNCHANGED broken

Next ==
  \/ \E p \in Chunk : Extend(p)
  \/ Break
  \/ Seal
  \/ Close

Spec == Init /\ [][Next]_vars
=============================================================================
