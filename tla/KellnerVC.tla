----------------------------- MODULE KellnerVC ------------------------------
(***************************************************************************)
(* The list of orders that wait to be accepted (KellnerVC.swift): orders   *)
(* whose Status is "versendet".  Noting a new key empties the sections on  *)
(* screen's behalf without redrawing the table; accepting an order writes  *)
(* its Status and reloads the list.                                        *)
(***************************************************************************)
EXTENDS Bestellliste

\* Slip: the sections stay while the record is on its way.
loadBestellungenOhneLeeren(id) ==
  /\ observeSingleEvent(id)
  /\ UNCHANGED Bestellungen

\* loadBestellungen(BestellungID:): the sections go at once, the record is
\* requested.
loadBestellungen(id) ==
  /\ Bestellungen' = <<>>
  /\ observeSingleEvent(id)

\* The closure loadBestellungenKeys registers for child-added events.
schluesselGemeldet ==
  \E p \in Schluessel :
    /\ NaechsterSchluessel(p)
    /\ \/ /\ p[3] = "versendet"
          /\ bestellungIDs' = Append(bestellungIDs, p[1])
          /\ loadBestellungen(p[1])
       \/ /\ p[3] # "versendet"
          /\ UNCHANGED <<bestellungIDs, Bestellungen, unterwegs>>
    /\ UNCHANGED <<status, verbunden, registrierungen, kopien, luecken,
                   unsauber, tafel, fremd, absturz, neustarts>>

\* Slip: the table is not redrawn.
AbschlussOhneReloadData(k, l) ==
  /\ Len(bestellungIDs) = Cardinality(geladen(k)) => alleBelegt(k, l)
  /\ kopien' = k
  /\ luecken' = l
  /\ Bestellungen' = IF Len(bestellungIDs) = Cardinality(geladen(k))
                     THEN Bestellungen \o Abschnitte(bestellungIDs, k)
                     ELSE Bestellungen
  /\ UNCHANGED <<tafel, absturz>>

\* The end of the closure of loadBestellungen: when as many records are
\* loaded as keys are noted, one section is appended for each key, and the
\* table is redrawn if the count is right at some point of the loop.  The
\* loop unwraps the entry of every key in each dictionary.
Abschluss(k, l) ==
  /\ kopien' = k
  /\ luecken' = l
  /\ \/ /\ Len(bestellungIDs) # Cardinality(geladen(k))
        /\ UNCHANGED <<Bestellungen, tafel, absturz>>
     \/ /\ Len(bestellungIDs) = Cardinality(geladen(k))
        /\ alleBelegt(k, l)
        /\ Bestellungen' = Bestellungen \o Abschnitte(bestellungIDs, k)
        /\ tafel' = IF Len(Bestellungen) < Len(bestellungIDs)
                    THEN Bestellungen' ELSE tafel
        /\ UNCHANGED absturz
     \/ /\ Len(bestellungIDs) = Cardinality(geladen(k))
        /\ ~alleBelegt(k, l)
        /\ absturz' = "nil"
        /\ UNCHANGED <<Bestellungen, tafel>>

\* The closure of loadBestellungen: the record is folded into the
\* dictionaries (module Ladevorgang), which may trap; then the list may be
\* complete.
bestellungGeladen ==
  \E b \in OrderBlock :
    /\ NaechsteAntwort(b)
    /\ fremd' = (fremd \/ b.aera # registrierungen)
    /\ unsauber' = (unsauber \/ b.id \notin Leer \cup Sauber)
    /\ \/ \E l \in lueckenNach(b.id) : Abschluss(gefaltet(b.id), l)
       \/ FaltungTrap(b.id)
    /\ UNCHANGED <<status, verbunden, registrierungen, unterwegs,
                   bestellungIDs, neustarts>>

\* Slip: the table is not redrawn.
reloadOhneReloadData(st) ==
  /\ observeChildAdded(st)
  /\ bestellungIDs' = <<>>
  /\ kopien' = [id \in ID |-> 0]
  /\ luecken' = {}
  /\ Bestellungen' = <<>>
  /\ fremd' = FALSE
  /\ UNCHANGED <<verbunden, unterwegs, unsauber, tafel, absturz, neustarts>>

\* reload(): everything is emptied, one more observer is registered, the
\* table is redrawn.  st is the Status of the orders with this device's
\* writes.
reload(st) ==
  /\ observeChildAdded(st)
  /\ bestellungIDs' = <<>>
  /\ kopien' = [id \in ID |-> 0]
  /\ luecken' = {}
  /\ Bestellungen' = <<>>
  /\ tafel' = <<>>
  /\ fremd' = FALSE
  /\ UNCHANGED <<verbunden, unterwegs, unsauber, absturz, neustarts>>

\* The waiter pulls the table down.
refreshOptions ==
  /\ laeuft
  /\ reload(status)
  /\ UNCHANGED status

\* Slip: the Status is mistyped.
removeBestellungVertippt(id) == status' = [status EXCEPT ![id] = "Angenommen"]

\* removeBestellung(KellnerID:BestellungID:) as this list sees it: the
\* Status is written whatever it was.  Both writes are in Auftragsstatus.
removeBestellung(id) == status' = [status EXCEPT ![id] = "angenommen"]

\* Slip: the accepted section is taken out in place of the reload.
annehmenOhneReload(i) ==
  /\ laeuft
  /\ i \in DOMAIN tafel \cap DOMAIN Bestellungen
  /\ tafel[i].expanded
  /\ removeBestellung(Bestellungen[i].BestellungID)
  /\ Bestellungen' = SubSeq(Bestellungen, 1, i - 1)
                       \o SubSeq(Bestellungen, i + 1, Len(Bestellungen))
  /\ UNCHANGED <<verbunden, registrierungen, hauptschlange, unterwegs,
                 bestellungIDs, kopien, luecken, unsauber, tafel, fremd,
                 absturz, neustarts>>

\* The waiter taps "Annehmen" in the open row i of the table as drawn.
annehmen(i) ==
  /\ laeuft
  /\ i \in DOMAIN tafel
  /\ tafel[i].expanded
  /\ \/ /\ i \in DOMAIN Bestellungen
        /\ removeBestellung(Bestellungen[i].BestellungID)
        /\ reload(status')
     \/ /\ i \notin DOMAIN Bestellungen
        /\ Trap("index")
        /\ UNCHANGED <<hauptschlange, fremd>>

\* The waiter taps the header of section i: it opens or closes, all others
\* close.  The table view refuses an update that changes its section count.
toggleSection(i) ==
  /\ laeuft
  /\ i \in DOMAIN tafel
  /\ \/ /\ Len(tafel) = Len(Bestellungen)
        /\ Bestellungen' = [j \in DOMAIN Bestellungen |->
             [Bestellungen[j] EXCEPT !.expanded = j = i /\ ~@]]
        /\ tafel' = Bestellungen'
        /\ UNCHANGED <<clientVars, bestellungIDs, kopien, luecken, unsauber,
                       fremd, absturz, neustarts>>
     \/ /\ Len(tafel) # Len(Bestellungen)
        /\ Trap("tabelle")
        /\ UNCHANGED <<hauptschlange, fremd>>

\* What the main queue and the table view run on their own.
Rueckrufe ==
  \/ schluesselGemeldet
  \/ bestellungGeladen
  \/ \E i \in DOMAIN tafel : Zeichne(i)

\* What the waiter's touches run.
Gesten ==
  \/ refreshOptions
  \/ \E i \in DOMAIN tafel : annehmen(i)
  \/ \E i \in DOMAIN tafel : toggleSection(i)

Next == Umgebung \/ Neustart \/ Rueckrufe \/ Gesten

Spec == Init /\ [][Next]_vars

(***************************************************************************)
(* The client and the main queue keep working while the app is connected;  *)
(* the waiter, the guests and the system's kills are free.                 *)
(***************************************************************************)
Fairness ==
  /\ WF_vars(ErsteDaten)
  /\ \A id \in ID : WF_vars(Antwort(id))
  /\ WF_vars(schluesselGemeldet)
  /\ WF_vars(bestellungGeladen)

FairSpec == Spec /\ Fairness

(***************************************************************************)
(* Properties.                                                             *)
(***************************************************************************)

\* Unless a record requested before the last reload landed after it: the
\* force-unwraps of the fold and of the completion loop (KellnerVC.swift
\* 491) find every entry as long as all records were of the kind the fold
\* is made for, whatever the interleaving; and a list on offer is right,
\* whatever the records: its sections are the noted keys, in order, each
\* order once and folded once.
ListeVollstaendig ==
  ~fremd =>
    /\ absturz = "nil" => unsauber
    /\ Bestellungen # <<>> =>
         /\ DOMAIN Bestellungen = DOMAIN bestellungIDs
         /\ \A i \in DOMAIN Bestellungen :
              /\ Bestellungen[i].BestellungID = bestellungIDs[i]
              /\ Bestellungen[i].kopien = 1
              /\ \A j \in DOMAIN Bestellungen :
                   bestellungIDs[i] = bestellungIDs[j] => i = j

\* A tap on a drawn row reaches the order drawn in that row, or no order:
\* annehmen indexes Bestellungen with the section the cell was drawn for.
TippTrifft ==
  \A i \in DOMAIN tafel \cap DOMAIN Bestellungen :
    tafel[i].BestellungID = Bestellungen[i].BestellungID

\* The table shows rows that have no section (and traps when one is drawn
\* or tapped) only while a record of a noted key is still on its way, or
\* for good, when a key is noted twice or its record is empty.
RissNurBeimLaden ==
  (laeuft /\ ~fremd /\ Len(Bestellungen) < Len(tafel)) =>
    \E i \in DOMAIN bestellungIDs :
      LET id == bestellungIDs[i]
      IN \/ unterwegs[id] # <<>>
         \/ \E j \in DOMAIN hauptschlange :
              hauptschlange[j].art = "order" /\ hauptschlange[j].id = id
         \/ id \in Leer
         \/ \E j \in DOMAIN bestellungIDs : j # i /\ bestellungIDs[j] = id

\* With the one observer of viewDidLoad every order that is sent is drawn,
\* or is no longer waiting: nothing the client delivers gets lost.  One
\* order without a category holds up all: the counts never agree again.
EinBeobachterZeigtAlles ==
  [](registrierungen = 1 /\ laeuft) =>
    \A id \in ID :
      status[id] = "versendet" ~>
        \/ status[id] # "versendet"
        \/ \E i \in DOMAIN tafel : tafel[i].BestellungID = id
        \/ \E i \in DOMAIN bestellungIDs : bestellungIDs[i] \in Leer
=============================================================================
