------------------------ MODULE KellnerAngenommenVC -------------------------
(***************************************************************************)
(* The list of accepted orders (KellnerAngenommenVC.swift): orders whose   *)
(* Status is "angenommen".  It differs from KellnerVC in the Status it     *)
(* wants and writes, and in that requesting a record leaves the sections   *)
(* alone: they only grow until the next reload.                            *)
(***************************************************************************)
EXTENDS Bestellliste

\* The Status this list writes is one an order can have.
ASSUME FertigAnnahme == "fertig" \in Status

\* Slip: the sections are emptied, as KellnerVC does.
loadBestellungenMitLeeren(id) ==
  /\ observeSingleEvent(id)
  /\ Bestellungen' = <<>>

\* loadBestellungen(BestellungID:) only requests the record.
loadBestellungen(id) ==
  /\ observeSingleEvent(id)
  /\ UNCHANGED Bestellungen

\* The closure loadBestellungenKeys registers for child-added events.
schluesselGemeldet ==
  \E p \in Schluessel :
    /\ NaechsterSchluessel(p)
    /\ \/ /\ p[3] = "angenommen"
          /\ bestellungIDs' = Append(bestellungIDs, p[1])
          /\ loadBestellungen(p[1])
       \/ /\ p[3] # "angenommen"
          /\ UNCHANGED <<bestellungIDs, Bestellungen, unterwegs>>
    /\ UNCHANGED <<status, verbunden, registrierungen, kopien, luecken,
                   unsauber, tafel, fremd, absturz, neustarts>>

\* Slip: the table is not redrawn.
AbschlussOhneReloadData(k, l) ==
  /\ Len(bestellungIDs) = Cardinality(geladen(k)) => alleBelegt(k, l)
  /\ kopien' = k
  /\ luecken' = l
  /\ Bestellungen' = IF Len(bestellungIDs) = Cardinality(geladen(k))
                     THEN Bestellungen \o Abschnitte(bestellungIDs, k)
                     ELSE Bestellungen
  /\ UNCHANGED <<tafel, absturz>>

\* Slip: the sections are put before those that are there.
AbschlussVorn(k, l) ==
  /\ kopien' = k
  /\ luecken' = l
  /\ \/ /\ Len(bestellungIDs) # Cardinality(geladen(k))
        /\ UNCHANGED <<Bestellungen, tafel>>
     \/ /\ Len(bestellungIDs) = Cardinality(geladen(k))
        /\ alleBelegt(k, l)
        /\ Bestellungen' = Abschnitte(bestellungIDs, k) \o Bestellungen
        /\ tafel' = Bestellungen'
  /\ UNCHANGED absturz

\* The end of the closure of loadBestellungen: one section more for every
\* key when the counts agree; the table is redrawn if the number of sections
\* passes the number of keys on the way.  The loop unwraps the entry of
\* every key in each dictionary.
Abschluss(k, l) ==
  /\ kopien' = k
  /\ luecken' = l
  /\ \/ /\ Len(bestellungIDs) # Cardinality(geladen(k))
        /\ UNCHANGED <<Bestellungen, tafel, absturz>>
     \/ /\ Len(bestellungIDs) = Cardinality(geladen(k))
        /\ alleBelegt(k, l)
        /\ Bestellungen' = Bestellungen \o Abschnitte(bestellungIDs, k)
        /\ tafel' = IF Len(Bestellungen) < Len(bestellungIDs)
                    THEN Bestellungen' ELSE tafel
        /\ UNCHANGED absturz
     \/ /\ Len(bestellungIDs) = Cardinality(geladen(k))
        /\ ~alleBelegt(k, l)
        /\ absturz' = "nil"
        /\ UNCHANGED <<Bestellungen, tafel>>

\* The closure of loadBestellungen: the fold, which may trap, and its end.
bestellungGeladen ==
  \E b \in OrderBlock :
    /\ NaechsteAntwort(b)
    /\ fremd' = (fremd \/ b.aera # registrierungen)
    /\ unsauber' = (unsauber \/ b.id \notin Leer \cup Sauber)
    /\ \/ \E l \in lueckenNach(b.id) : Abschluss(gefaltet(b.id), l)
       \/ FaltungTrap(b.id)
    /\ UNCHANGED <<status, verbunden, registrierungen, unterwegs,
                   bestellungIDs, neustarts>>

\* reload(): as in KellnerVC.
reload(st) ==
  /\ observeChildAdded(st)
  /\ bestellungIDs' = <<>>
  /\ kopien' = [id \in ID |-> 0]
  /\ luecken' = {}
  /\ Bestellungen' = <<>>
  /\ tafel' = <<>>
  /\ fremd' = FALSE
  /\ UNCHANGED <<verbunden, unterwegs, unsauber, absturz, neustarts>>

\* The waiter pulls the table down.
refreshOptions ==
  /\ laeuft
  /\ reload(status)
  /\ UNCHANGED status

\* removeBestellung2(KellnerID:BestellungID:) as this list sees it.
removeBestellung2(id) == status' = [status EXCEPT ![id] = "fertig"]

\* The waiter taps "Fertig" in the open row i.  That Bestellungen has a
\* section for every drawn row is the property TafelGedeckt.
annehmen(i) ==
  /\ laeuft
  /\ i \in DOMAIN tafel \cap DOMAIN Bestellungen
  /\ tafel[i].expanded
  /\ removeBestellung2(Bestellungen[i].BestellungID)
  /\ reload(status')

\* The waiter taps the header of section i.
toggleSection(i) ==
  /\ laeuft
  /\ i \in DOMAIN tafel
  /\ \/ /\ Len(tafel) = Len(Bestellungen)
        /\ Bestellungen' = [j \in DOMAIN Bestellungen |->
             [Bestellungen[j] EXCEPT !.expanded = j = i /\ ~@]]
        /\ tafel' = Bestellungen'
        /\ UNCHANGED <<clientVars, bestellungIDs, kopien, luecken, unsauber,
                       fremd, absturz, neustarts>>
     \/ /\ Len(tafel) # Len(Bestellungen)
        /\ Trap("tabelle")
        /\ UNCHANGED <<hauptschlange, fremd>>

Next ==
  \/ Umgebung
  \/ Neustart
  \/ schluesselGemeldet
  \/ bestellungGeladen
  \/ refreshOptions
  \/ \E i \in DOMAIN tafel : annehmen(i)
  \/ \E i \in DOMAIN tafel : toggleSection(i)

Spec == Init /\ [][Next]_vars

(***************************************************************************)
(* As in KellnerVC: the client and the main queue keep working.            *)
(***************************************************************************)
Fairness ==
  /\ WF_vars(ErsteDaten)
  /\ \A id \in ID : WF_vars(Antwort(id))
  /\ WF_vars(schluesselGemeldet)
  /\ WF_vars(bestellungGeladen)

FairSpec == Spec /\ Fairness

(***************************************************************************)
(* Properties.                                                             *)
(***************************************************************************)

\* Every drawn row has its section, and it is the section of the order
\* drawn there: no tap or redraw of this list indexes past the sections.
TafelGedeckt ==
  /\ Len(tafel) <= Len(Bestellungen)
  /\ \A i \in DOMAIN tafel :
       tafel[i].BestellungID = Bestellungen[i].BestellungID

\* Unless a record requested before the last reload landed after it: the
\* force-unwraps of the fold and of the completion loop
\* (KellnerAngenommenVC.swift 501) find every entry as long as all records
\* were of the kind the fold is made for, whatever the interleaving; and
\* when the last record has landed the newest sections are the noted keys,
\* in order, each folded once, and no key is noted twice, whatever the
\* records.  (Sections of an earlier completion may stand before them.)
NeuesteAbschnitte ==
  LET n == Len(bestellungIDs)
      m == Len(Bestellungen)
  IN ~fremd =>
       /\ absturz = "nil" => unsauber
       /\ (laeuft /\ n > 0 /\ n = Cardinality(geladen(kopien))) =>
            /\ n <= m
            /\ \A i \in 1..n :
                 /\ Bestellungen[m - n + i].BestellungID = bestellungIDs[i]
                 /\ Bestellungen[m - n + i].kopien = 1
                 /\ \A j \in 1..n : bestellungIDs[i] = bestellungIDs[j] => i = j

\* Every order that is accepted when the list first hears of it is drawn,
\* or is no longer waiting, as long as the list is not reloaded.
AngenommeneErscheinen ==
  [](registrierungen = 1 /\ laeuft) =>
    \A id \in ID :
      (~verbunden /\ status[id] = "angenommen") ~>
        \/ status[id] # "angenommen"
        \/ \E i \in DOMAIN tafel : tafel[i].BestellungID = id
=============================================================================
