-------------------------- MODULE MCProvidersPage ----------------------------
(* Two providers, of both API types. *)
EXTENDS ProvidersPage

Two      == <<[name |-> 1, enabled |-> TRUE], [name |-> 2, enabled |-> FALSE]>>
TwoConfs == <<[type |-> "anthropic", key |-> 1, tokens |-> 1],
              [type |-> "openai", key |-> 1, tokens |-> 2]>>
OneConf  == {[type |-> "anthropic", key |-> 1, tokens |-> 2]}
NoProbes == <<>>
Ids      == [providers |-> 2, probes |-> 0, results |-> 0]
==============================================================================
