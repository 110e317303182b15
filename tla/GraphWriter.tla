---------------------------- MODULE GraphWriter ----------------------------
(***************************************************************************)
(* Graph.WriteTo and its graphWriter (marshal.go): the document as a list  *)
(* of calls, write for a literal and encode for an element, with a count   *)
(* and an error that sticks.                                               *)
(*                                                                         *)
(* This module has no next-state relation: each action is one outcome of   *)
(* the next call, and leaves to its user what the writer did with the      *)
(* text.  Upload uses it with a spool and a signer, PayloadFile with a     *)
(* file.                                                                   *)
(***************************************************************************)
EXTENDS Integers, Sequences, SequencesExt

CONSTANT GraphChoice  (* the graphs that may be written: records of nodes  *)
                      (* and edges, sequences of elements                  *)
                      (* [text, encodable]                                 *)

VARIABLES
  graph,  (* g                                                             *)
  step,   (* the next of WriteTo's calls                                   *)
  gwErr,  (* out.err # nil                                                 *)
  gwN     (* out.n                                                         *)

gwVars == <<graph, step, gwErr, gwN>>

Literal(s) == [text |-> s, encodes |-> FALSE, encodable |-> TRUE]
Element(e) == [text |-> e.text, encodes |-> TRUE, encodable |-> e.encodable]

(* Elements, and graphs, whose texts are made of letters of L.             *)
ElementsOver(L) == [text : Seq(L), encodable : BOOLEAN]

WritesIn(L) ==
  /\ {"head", "mid", "tail", "comma"} \subseteq L
  /\ \A g \in GraphChoice : {g.nodes, g.edges} \subseteq Seq(ElementsOver(L))

WithCommas(es) ==
  LET commaFirst == [i \in 1..(2 * Len(es)) |->
        IF i % 2 = 1 THEN Literal(<<"comma">>) ELSE Element(es[i \div 2])]
  IN  SubSeq(commaFirst, 2, 2 * Len(es))

WriteTo(g) ==
  <<Literal(<<"head">>)>> \o WithCommas(g.nodes)
    \o <<Literal(<<"mid">>)>> \o WithCommas(g.edges) \o <<Literal(<<"tail">>)>>

Document(g) == FlattenSeq([i \in DOMAIN WriteTo(g) |-> WriteTo(g)[i].text])

GwInit ==
  /\ graph \in GraphChoice
  /\ step = 1
  /\ gwErr = FALSE
  /\ gwN = 0

Call == WriteTo(graph)[step]

Unfinished == step <= Len(WriteTo(graph))

(* The next call has a text for the writer.                                *)
Reaches == Unfinished /\ ~gwErr /\ Call.encodable

(* The writer takes all of it.                                             *)
GwWrites ==
  /\ Reaches
  /\ gwN' = gwN + Len(Call.text)
  /\ step' = step + 1
  /\ UNCHANGED <<graph, gwErr>>

(* It takes k bytes and fails, which is counted and sticks.                *)
GwFails(k) ==
  /\ Reaches
  /\ gwErr' = TRUE
  /\ gwN' = gwN + k
  /\ step' = step + 1
  /\ UNCHANGED graph

(* The JSON encoder refuses the element, and nothing of it is written.     *)
GwRefuses ==
  /\ Unfinished
  /\ ~gwErr
  /\ ~Call.encodable
  /\ gwErr' = TRUE
  /\ UNCHANGED <<graph, step, gwN>>

(* After an error write does nothing ...                                   *)
GwSkips ==
  /\ Unfinished
  /\ gwErr
  /\ ~Call.encodes
  /\ step' = step + 1
  /\ UNCHANGED <<graph, gwErr, gwN>>

(* ... and encode reports it.                                              *)
GwReports ==
  /\ Unfinished
  /\ gwErr
  /\ Call.encodes
  /\ UNCHANGED gwVars

GwTypeOK ==
  /\ graph \in GraphChoice
  /\ step \in 1..(Len(WriteTo(graph)) + 1)
  /\ gwErr \in BOOLEAN
  /\ gwN \in Nat
=============================================================================
