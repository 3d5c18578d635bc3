---------------------------- MODULE MCOpampAgent ----------------------------
(* The agent with a configuration that does not start among its messages. *)
EXTENDS OpampAgent

MCConfigs   == {"initial", "nop", "a", "empty"}
MCStartable == {"initial", "nop", "a"}
MCMessages  == {"initial", "a", "empty", "none"}
MCCallers   == {"main", "handler"}
=============================================================================
