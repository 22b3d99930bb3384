---------------------------- MODULE MCProbeCycle -----------------------------
(* Two providers, the first with two models and the second with one. *)
EXTENDS ProbeCycle

TwoProviders == <<[name |-> 1, enabled |-> TRUE], [name |-> 2, enabled |-> TRUE]>>
ThreeProbes  == <<[provider |-> 1, model |-> 1, enabled |-> TRUE],
                  [provider |-> 1, model |-> 2, enabled |-> TRUE],
                  [provider |-> 2, model |-> 1, enabled |-> TRUE]>>
TwoProbes    == <<[provider |-> 1, model |-> 1, enabled |-> TRUE],
                  [provider |-> 2, model |-> 1, enabled |-> TRUE]>>
TwoIds   == [providers |-> 2, probes |-> 2, results |-> 0]
ThreeIds == [providers |-> 2, probes |-> 3, results |-> 0]
==============================================================================
