---------------------------- MODULE Lebenszyklus ----------------------------
(***************************************************************************)
(* What the app promises about the Status of an order, whoever reads it:   *)
(* an order is sent, then accepted, and only an order that was accepted    *)
(* becomes finished.  A finished order may be taken back to accepted (an   *)
(* old list can still offer it), but no order ever looks unseen again.     *)
(***************************************************************************)
CONSTANT Bestellung

VARIABLE st

Init == st = [id \in Bestellung |-> "keine"]

Senden(id) ==
  /\ st[id] = "keine"
  /\ st' = [st EXCEPT ![id] = "versendet"]

Annehmen(id) ==
  /\ st[id] # "keine"
  /\ st' = [st EXCEPT ![id] = "angenommen"]

Fertigstellen(id) ==
  /\ st[id] = "angenommen"
  /\ st' = [st EXCEPT ![id] = "fertig"]

Next == \E id \in Bestellung : Senden(id) \/ Annehmen(id) \/ Fertigstellen(id)

Spec == Init /\ [][Next]_st
=============================================================================
