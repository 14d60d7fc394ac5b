----------------------------- MODULE MCProdukte ------------------------------
(***************************************************************************)
(* Menus whose categories differ in their shape, so that a tap carried out *)
(* for the wrong section can hit another item or none, and menus with an   *)
(* empty subcategory or category in every position that matters.           *)
(***************************************************************************)
EXTENDS Produkte

MCKarten == {
  << <<1, 1>>, <<1>> >>, << <<2, 1>> >>,        \* every entry filled
  << <<1, 0, 2>> >>, << <<1, 0>> >>,            \* a later one empty
  << <<0, 1>> >>, << <<0>> >>,                  \* the first one empty
  << <<1>>, <<>> >> }                           \* a category that is a value
=============================================================================
