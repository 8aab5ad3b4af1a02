-------------------------- MODULE MCFailureStorage --------------------------
(***************************************************************************)
(* An instance of FailureStorage: one server, four records, a budget of     *)
(* two, two calls of the archiving script.                                  *)
(***************************************************************************)
EXTENDS FailureStorage, TLC

=============================================================================
