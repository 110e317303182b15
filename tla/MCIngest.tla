----------------------------- MODULE MCIngest -----------------------------
(* Bounded instance of Ingest: two concurrent calls, each of a graph that  *)
(* may be valid or not.                                                    *)
EXTENDS Ingest
=============================================================================
