----------------------------- MODULE MCUpload -----------------------------
(* Bounded instance of Upload: an empty graph, one that just stays within  *)
(* the threshold, two that cross it in the middle of an element, one with  *)
(* two literals after it, and two with an element the encoder refuses.     *)
EXTENDS Upload

a == [text |-> <<"a">>, encodable |-> TRUE]
b == [text |-> <<"b", "c">>, encodable |-> TRUE]
bad == [text |-> <<"b">>, encodable |-> FALSE]

MCGraphChoice ==
  {[nodes |-> <<>>, edges |-> <<>>],
   [nodes |-> <<a>>, edges |-> <<>>],
   [nodes |-> <<a, b>>, edges |-> <<a>>],
   [nodes |-> <<a, b>>, edges |-> <<>>],
   [nodes |-> <<a, bad>>, edges |-> <<>>],
   [nodes |-> <<b>>, edges |-> <<bad, a>>]}

MCByte == {"head", "mid", "tail", "comma", "a", "b", "c"}

NoBasePath == <<>>
PrefixedBasePath == <<"bloodhound">>
MCJobPath == <<"api", "v2", "file-upload", "7">>
=============================================================================
