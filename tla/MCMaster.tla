------------------------------ MODULE MCMaster ------------------------------
(***************************************************************************)
(* Instances of Master for TLC.  Producer ids are numbers, since the       *)
(* matcher sorts them; consumer ids are model values, and interchangeable. *)
(***************************************************************************)
EXTENDS Master, TLC

CONSTANTS c1, c2

ConsumerSymmetry == Permutations(Consumers)
=============================================================================
