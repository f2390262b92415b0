------------------------------ MODULE MCAgent ------------------------------
(***************************************************************************)
(* Instances of Agent for TLC.                                             *)
(***************************************************************************)
EXTENDS Agent

(* max_iterations_ takes an int: besides the initial value, one that lets  *)
(* no iteration happen.                                                    *)
FewIterations == {-1}
=============================================================================
