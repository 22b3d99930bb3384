----------------------------- MODULE MCProbing -------------------------------
EXTENDS Probing

(* Chunks report this usage or none. *)
OneUsage == {[prompt |-> 2, completion |-> 1]}
==============================================================================
