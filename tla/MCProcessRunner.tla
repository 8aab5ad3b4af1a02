--------------------------- MODULE MCProcessRunner ---------------------------
(***************************************************************************)
(* An instance of ProcessRunner: one line, one bash call and one check    *)
(* of the disk reserve.                                                    *)
(***************************************************************************)
EXTENDS ProcessRunner, TLC

=============================================================================
