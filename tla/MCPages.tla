------------------------------- MODULE MCPages -------------------------------
(* One provider with the second and the third model; it offers the first,  *)
(* which the page lists before them.                                       *)
EXTENDS Pages

OneProvider == <<[name |-> 1, enabled |-> TRUE]>>
TwoProbes   == <<[provider |-> 1, model |-> 2, enabled |-> TRUE],
                 [provider |-> 1, model |-> 3, enabled |-> TRUE]>>
Ids         == [providers |-> 1, probes |-> 2, results |-> 0]
First       == <<1>>
==============================================================================
