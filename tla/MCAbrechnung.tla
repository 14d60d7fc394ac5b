---------------------------- MODULE MCAbrechnung ----------------------------
(***************************************************************************)
(* Two orders and two table numbers: at two tables, so that sections can   *)
(* swap places and a table on the right can be replaced, or both at one    *)
(* table, so that a section can have more rows than when it was selected.  *)
(* The two table numbers are interchangeable.                              *)
(***************************************************************************)
EXTENDS Abrechnung

MCMenge == 1 :> <<2>> @@ 2 :> <<1>>

Vertauscht == Permutations(Tische)
=============================================================================
