--------------------------- MODULE MCClientCalls ---------------------------
(* Two concurrent calls on an instance that is too old for the flag, or    *)
(* has it off or on: two of the calls that meet in BloodHound, or one of   *)
(* any kind next to one that is refused.  Callers are alike, so each two   *)
(* calls are given to them in one order only.                              *)
EXTENDS ClientCalls

CONSTANTS c1, c2

Flag == [op |-> "FeatureEnabled", arg |-> FeatureFlagExtensions]
Install == [op |-> "InstallExtension", arg |-> "ext"]
Delete == [op |-> "DeleteExtension", arg |-> "ext"]
Path == [op |-> "ShortestPath", arg |-> "?ends"]

Meeting ==
  {<<Flag, Flag>>, <<Flag, Install>>,
   <<Install, Install>>, <<Install, Delete>>, <<Delete, Delete>>}

Any == {Flag, Install, Delete, Path} \union
  {[op |-> "FeatureEnabled", arg |-> "no_such_flag"],
   [op |-> "ListExtensions", arg |-> ""],
   [op |-> "DeleteExtension", arg |-> ""],
   [op |-> "Cypher", arg |-> "query"],
   [op |-> "JobStatus", arg |-> "7"],
   [op |-> "POST", arg |-> "self"],
   [op |-> "DELETE", arg |-> "saved-queries"]}

Refused == [op |-> "InstallExtension", arg |-> ""]

Pairs == Meeting \union {<<call, Refused>> : call \in Any}

Calls == {[c \in Caller |-> IF c = c1 THEN p[1] ELSE p[2]] : p \in Pairs}

NewArgs(path, key, httpClient) ==
  [scheme |-> "http", host |-> "h", path |-> path,
   tokenID |-> "id", tokenKey |-> key, httpClient |-> httpClient]

Clients ==
  {NewArgs(<<"bloodhound", "">>, "key", "default"),
   NewArgs(<<"bloodhound">>, "key", "no timeout"),
   NewArgs(<<>>, "key", "default"),
   NewArgs(<<"bloodhound">>, "", "default")}

Flags == [{} -> BOOLEAN] \union [{FeatureFlagExtensions} -> BOOLEAN]

Mount == <<"bloodhound">>
Login == <<"login">>
Targets == {<<"bloodhound", "extensions">>, Login}
=============================================================================
