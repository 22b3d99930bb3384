------------------------------ MODULE MCReports ------------------------------
(* Seconds of two ticks, hours of two seconds, days of two hours. *)
EXTENDS Reports

OneProvider == <<[name |-> 1, enabled |-> TRUE]>>
OneProbe    == <<[provider |-> 1, model |-> 1, enabled |-> TRUE]>>
Ids         == [providers |-> 1, probes |-> 1, results |-> 0]
==============================================================================
