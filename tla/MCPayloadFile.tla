--------------------------- MODULE MCPayloadFile ---------------------------
(* Graphs with and without an element the encoder refuses, over no file    *)
(* and over a longer one of an earlier run.                                *)
EXTENDS PayloadFile

a == [text |-> <<"a">>, encodable |-> TRUE]
b == [text |-> <<"b", "c">>, encodable |-> TRUE]
bad == [text |-> <<"b">>, encodable |-> FALSE]

Graphs ==
  {[nodes |-> <<>>, edges |-> <<>>],
   [nodes |-> <<a, b>>, edges |-> <<a>>],
   [nodes |-> <<a, bad>>, edges |-> <<>>],
   [nodes |-> <<b>>, edges |-> <<bad, a>>]}

Letters == {"head", "mid", "tail", "comma", "a", "b", "c"}

Files == {<<>>, Document([nodes |-> <<b, b>>, edges |-> <<b, a>>])}
=============================================================================
