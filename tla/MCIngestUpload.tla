--------------------------- MODULE MCIngestUpload ---------------------------
(* One call with an empty graph, one that stays in memory, one that moves  *)
(* to disk, and one that the JSON encoder refuses.                         *)
EXTENDS IngestUpload

a == [text |-> <<"a">>, encodable |-> TRUE]
b == [text |-> <<"b", "c">>, encodable |-> TRUE]
bad == [text |-> <<"b">>, encodable |-> FALSE]

Graphs ==
  {[nodes |-> <<>>, edges |-> <<>>],
   [nodes |-> <<a>>, edges |-> <<>>],
   [nodes |-> <<b>>, edges |-> <<a>>],
   [nodes |-> <<a>>, edges |-> <<bad>>]}

Bytes == {"head", "mid", "tail", "comma", "a", "b", "c"}

RootPath == <<>>
UploadPath == <<"api", "v2", "file-upload", "7">>
=============================================================================
