------------------------- MODULE MCTerminalOutputs -------------------------
(* Instances of TerminalOutputs for TLC. *)
EXTENDS TerminalOutputs
============================================================================
