--------------------------- MODULE Auftragsstatus ---------------------------
(***************************************************************************)
(* The Status of the orders, which the app keeps twice: in the record      *)
(* Bestellungen/<Barname>/<id>/Information, which the guest sees, and in   *)
(* the index userBestellungen/<KellnerID>/<id>, by which the waiter's      *)
(* lists choose their orders.  Accepting and finishing an order write both *)
(* with two independent updates and look at neither before.                *)
(*                                                                         *)
(* The same waiter may be logged in on several devices.  A device sends    *)
(* its writes in order over one connection and shows its own writes before *)
(* they are sent.  Nothing is stored on the device: a process that ends    *)
(* loses the writes it has not sent (AppDelegate enables no persistence).  *)
(***************************************************************************)
EXTENDS Naturals, Sequences

CONSTANTS
  Bestellung,   (* orders                                                  *)
  Geraet,       (* devices on which the waiter is logged in                *)
  MaxOffen,     (* bound: writes one device has not sent yet               *)
  Veraltet      (* whether a list may offer an order by an event that was  *)
                (* queued before its last reload (see KellnerVC)           *)

ASSUME VeraltetAnnahme == Veraltet \in BOOLEAN
ASSUME MaxOffenAnnahme == MaxOffen \in Nat

VARIABLES
  information,  (* Status in the orders' records, on the server            *)
  user,         (* Status in the waiter's index, on the server             *)
  cache,        (* per device: the index as last received                  *)
  ausstehend,   (* per device: writes not sent yet, oldest first           *)
  neu,          (* per device: orders its KellnerVC may offer              *)
  inArbeit      (* per device: orders its KellnerAngenommenVC may offer    *)

vars == <<information, user, cache, ausstehend, neu, inArbeit>>

Bearbeitet == {"angenommen", "fertig"}
Status     == {"keine", "versendet"} \cup Bearbeitet
Schreiben  == [pfad: {"Information", "user"}, id: Bestellung,
               status: Bearbeitet]

TypeOK ==
  /\ information \in [Bestellung -> Status]
  /\ user \in [Bestellung -> Status]
  /\ cache \in [Geraet -> [Bestellung -> Status]]
  /\ ausstehend \in [Geraet -> Seq(Schreiben)]
  /\ neu \in [Geraet -> SUBSET Bestellung]
  /\ inArbeit \in [Geraet -> SUBSET Bestellung]

Init ==
  /\ information = [id \in Bestellung |-> "keine"]
  /\ user = [id \in Bestellung |-> "keine"]
  /\ cache = [g \in Geraet |-> [id \in Bestellung |-> "keine"]]
  /\ ausstehend = [g \in Geraet |-> <<>>]
  /\ neu = [g \in Geraet |-> {}]
  /\ inArbeit = [g \in Geraet |-> {}]

\* The guest's app sends an order to this waiter.
Senden(id) ==
  /\ user[id] = "keine"
  /\ information' = [information EXCEPT ![id] = "versendet"]
  /\ user' = [user EXCEPT ![id] = "versendet"]
  /\ UNCHANGED <<cache, ausstehend, neu, inArbeit>>

\* A device receives the index entry of an order.
Empfangen(g, id) ==
  /\ cache' = [cache EXCEPT ![g][id] = user[id]]
  /\ UNCHANGED <<information, user, ausstehend, neu, inArbeit>>

\* Device g shows Status s for id: its own newest write, or else what it
\* received.
Sieht(g, id, s) ==
  LET eigene == {k \in DOMAIN ausstehend[g] :
                   /\ ausstehend[g][k].pfad = "user"
                   /\ ausstehend[g][k].id = id}
  IN \/ eigene = {} /\ cache[g][id] = s
     \/ \E k \in eigene : /\ \A j \in eigene : j <= k
                          /\ ausstehend[g][k].status = s

\* The list of new orders notes the key of an order it sees "versendet".
NeueNotieren(g, id) ==
  /\ Sieht(g, id, "versendet")
  /\ neu' = [neu EXCEPT ![g] = @ \cup {id}]
  /\ UNCHANGED <<information, user, cache, ausstehend, inArbeit>>

\* Slip: the list of accepted orders takes the new ones as well.
AngenommeneNotierenAlle(g, id) ==
  /\ \E s \in {"versendet", "angenommen"} : Sieht(g, id, s)
  /\ inArbeit' = [inArbeit EXCEPT ![g] = @ \cup {id}]
  /\ UNCHANGED <<information, user, cache, ausstehend, neu>>

\* The list of accepted orders notes the key of an order it sees
\* "angenommen".
AngenommeneNotieren(g, id) ==
  /\ Sieht(g, id, "angenommen")
  /\ inArbeit' = [inArbeit EXCEPT ![g] = @ \cup {id}]
  /\ UNCHANGED <<information, user, cache, ausstehend, neu>>

\* Slip: the index is written before the record.
schreibeIndexZuerst(g, id, s) ==
  /\ Len(ausstehend[g]) + 2 <= MaxOffen
  /\ ausstehend' = [ausstehend EXCEPT ![g] =
       @ \o << [pfad |-> "user", id |-> id, status |-> s],
               [pfad |-> "Information", id |-> id, status |-> s] >>]

\* Slip: the path of the record is misspelt.
schreibeVertippt(g, id, s) ==
  /\ Len(ausstehend[g]) + 2 <= MaxOffen
  /\ ausstehend' = [ausstehend EXCEPT ![g] =
       @ \o << [pfad |-> "Informationen", id |-> id, status |-> s],
               [pfad |-> "user", id |-> id, status |-> s] >>]

\* Two updateChildValues in the order of the code: the record, the index.
schreibe(g, id, s) ==
  /\ Len(ausstehend[g]) + 2 <= MaxOffen
  /\ ausstehend' = [ausstehend EXCEPT ![g] =
       @ \o << [pfad |-> "Information", id |-> id, status |-> s],
               [pfad |-> "user", id |-> id, status |-> s] >>]

\* A reload forgets the noted keys, but for those that queued events bring
\* back.
nachReload(noten, g) == IF Veraltet THEN noten
                                    ELSE [noten EXCEPT ![g] = {}]

\* KellnerVC.annehmen: removeBestellung, then reload.
annehmen(g, id) ==
  /\ id \in neu[g]
  /\ schreibe(g, id, "angenommen")
  /\ neu' = nachReload(neu, g)
  /\ UNCHANGED <<information, user, cache, inArbeit>>

\* Slip: the button finishes what the list of new orders offers.
fertigstellenNeue(g, id) ==
  /\ id \in neu[g]
  /\ schreibe(g, id, "fertig")
  /\ neu' = nachReload(neu, g)
  /\ UNCHANGED <<information, user, cache, inArbeit>>

\* KellnerAngenommenVC.annehmen: removeBestellung2, then reload.
fertigstellen(g, id) ==
  /\ id \in inArbeit[g]
  /\ schreibe(g, id, "fertig")
  /\ inArbeit' = nachReload(inArbeit, g)
  /\ UNCHANGED <<information, user, cache, neu>>

\* The server takes the oldest write of a device; the device then holds the
\* written value as received.
ServerSchreibt(g) ==
  /\ ausstehend[g] # <<>>
  /\ LET w == Head(ausstehend[g])
     IN \/ /\ w.pfad = "Information"
           /\ information' = [information EXCEPT ![w.id] = w.status]
           /\ UNCHANGED <<user, cache>>
        \/ /\ w.pfad = "user"
           /\ user' = [user EXCEPT ![w.id] = w.status]
           /\ cache' = [cache EXCEPT ![g][w.id] = w.status]
           /\ UNCHANGED information
  /\ ausstehend' = [ausstehend EXCEPT ![g] = Tail(@)]
  /\ UNCHANGED <<neu, inArbeit>>

\* The process ends on a device, with everything it had not sent.
Beenden(g) ==
  /\ ausstehend' = [ausstehend EXCEPT ![g] = <<>>]
  /\ cache' = [cache EXCEPT ![g] = [id \in Bestellung |-> "keine"]]
  /\ neu' = [neu EXCEPT ![g] = {}]
  /\ inArbeit' = [inArbeit EXCEPT ![g] = {}]
  /\ UNCHANGED <<information, user>>

Next ==
  \/ \E id \in Bestellung : Senden(id)
  \/ \E g \in Geraet, id \in Bestellung :
       \/ Empfangen(g, id)
       \/ NeueNotieren(g, id)
       \/ AngenommeneNotieren(g, id)
       \/ annehmen(g, id)
       \/ fertigstellen(g, id)
  \/ \E g \in Geraet : ServerSchreibt(g) \/ Beenden(g)

Spec == Init /\ [][Next]_vars

(***************************************************************************)
(* Properties.                                                             *)
(***************************************************************************)

\* The guest never sees an order as unseen that the waiter's index already
\* holds as accepted or finished: the record is written before the index,
\* whichever devices write and whenever one of them is stopped between.
InformationVoraus ==
  \A id \in Bestellung :
    user[id] \in Bearbeitet => information[id] \in Bearbeitet

InformationLZ == INSTANCE Lebenszyklus WITH st <- information
UserLZ        == INSTANCE Lebenszyklus WITH st <- user

\* The Status the guest sees follows the life cycle of an order.
InformationFolgtLebenszyklus == InformationLZ!Spec

\* The Status by which the waiter's lists choose follows it too.
UserFolgtLebenszyklus == UserLZ!Spec
=============================================================================
