--------------------------- MODULE KellnerDialoge ---------------------------
(***************************************************************************)
(* The two dialogs of KellnerVC.swift that a swipe on a row opens: "Problem" *)
(* reports the order, "umbuchen" moves it to another table.  A dialog      *)
(* covers the list, so no other touch reaches the list while it is open,   *)
(* but callbacks go on changing the sections underneath it.                *)
(***************************************************************************)
EXTENDS KellnerVC

VARIABLES
  dialog,            (* "keiner", "problem" or "tisch"                     *)
  problemSection,    (* section the last Problem swipe noted               *)
  viewBestellungID,  (* order the last Problem swipe noted                 *)
  gewischt,          (* history: the order drawn in the row last swiped    *)
  gemeldet,          (* <<order swiped, order reported>> of every report   *)
  umgebucht          (* <<order swiped, order written>> of every move      *)

dialogVars == <<dialog, problemSection, viewBestellungID, gewischt, gemeldet,
                umgebucht>>
alleVars == <<vars, dialogVars>>

KeineID == -1   \* the empty string viewBestellungID starts with

DialogTypeOK ==
  /\ TypeOK
  /\ dialog \in {"keiner", "problem", "tisch"}
  /\ problemSection \in Nat
  /\ viewBestellungID \in ID \cup {KeineID}
  /\ gewischt \in ID \cup {KeineID}
  /\ gemeldet \subseteq ID \X ID
  /\ umgebucht \subseteq ID \X ID

DialogInit ==
  /\ Init
  /\ dialog = "keiner"
  /\ problemSection = 1
  /\ viewBestellungID = KeineID
  /\ gewischt = KeineID
  /\ gemeldet = {}
  /\ umgebucht = {}

DialogTrap(grund) ==
  /\ Trap(grund)
  /\ UNCHANGED <<hauptschlange, fremd, dialogVars>>

\* Slip: the section is not noted.
deleteActionOhneSection(i) ==
  /\ laeuft /\ dialog = "keiner"
  /\ i \in DOMAIN tafel \cap DOMAIN Bestellungen
  /\ tafel[i].expanded
  /\ viewBestellungID' = Bestellungen[i].BestellungID
  /\ dialog' = "problem"
  /\ gewischt' = tafel[i].BestellungID
  /\ UNCHANGED <<vars, problemSection, gemeldet, umgebucht>>

\* The swipe "Problem" on row i: section and order are noted.
deleteAction(i) ==
  /\ laeuft /\ dialog = "keiner"
  /\ i \in DOMAIN tafel
  /\ tafel[i].expanded
  /\ \/ /\ i \in DOMAIN Bestellungen
        /\ problemSection' = i
        /\ viewBestellungID' = Bestellungen[i].BestellungID
        /\ dialog' = "problem"
        /\ gewischt' = tafel[i].BestellungID
        /\ UNCHANGED <<vars, gemeldet, umgebucht>>
     \/ /\ i \notin DOMAIN Bestellungen
        /\ DialogTrap("index")

\* The swipe "umbuchen" on row i only opens the dialog.
tischumbuchen(i) ==
  /\ laeuft /\ dialog = "keiner"
  /\ i \in DOMAIN tafel
  /\ tafel[i].expanded
  /\ dialog' = "tisch"
  /\ gewischt' = tafel[i].BestellungID
  /\ UNCHANGED <<vars, problemSection, viewBestellungID, gemeldet, umgebucht>>

\* The buttons "abbrechen", or a touch beside the dialog.
animateOut ==
  /\ laeuft /\ dialog # "keiner"
  /\ dialog' = "keiner"
  /\ UNCHANGED <<vars, problemSection, viewBestellungID, gewischt, gemeldet,
                 umgebucht>>

\* The button that sends the report.  Without a text nothing is sent; either
\* way the dialog closes.  The loop over the items counts subcategories: if
\* one of them has fewer items than that (~passt), it runs past its end when
\* the head of the report is already with the client, which may send it.
viewProblemAbschicken(text, passt) ==
  /\ laeuft /\ dialog = "problem"
  /\ \/ /\ text /\ passt /\ problemSection \in DOMAIN Bestellungen
        /\ gemeldet' = gemeldet \cup
             {<<gewischt, Bestellungen[problemSection].BestellungID>>}
        /\ dialog' = "keiner"
        /\ UNCHANGED <<vars, problemSection, viewBestellungID, gewischt,
                       umgebucht>>
     \/ /\ text /\ ~passt /\ problemSection \in DOMAIN Bestellungen
        /\ gemeldet' \in {gemeldet, gemeldet \cup
             {<<gewischt, Bestellungen[problemSection].BestellungID>>}}
        /\ Trap("index")
        /\ UNCHANGED <<hauptschlange, fremd, dialog, problemSection,
                       viewBestellungID, gewischt, umgebucht>>
     \/ /\ text /\ problemSection \notin DOMAIN Bestellungen
        /\ DialogTrap("index")
     \/ /\ ~text
        /\ dialog' = "keiner"
        /\ UNCHANGED <<vars, problemSection, viewBestellungID, gewischt,
                       gemeldet, umgebucht>>

\* The button that moves the order.  Without a table number the dialog
\* stays; an empty key is refused by the client with an exception.
tischUmbuchenTapped(text) ==
  /\ laeuft /\ dialog = "tisch"
  /\ \/ /\ text /\ viewBestellungID # KeineID
        /\ umgebucht' = umgebucht \cup {<<gewischt, viewBestellungID>>}
        /\ dialog' = "keiner"
        /\ UNCHANGED <<vars, problemSection, viewBestellungID, gewischt,
                       gemeldet>>
     \/ /\ text /\ viewBestellungID = KeineID
        /\ DialogTrap("pfad")
     \/ /\ ~text
        /\ UNCHANGED alleVars

DialogNeustart ==
  /\ Neustart
  /\ dialog' = "keiner"
  /\ problemSection' = 1
  /\ viewBestellungID' = KeineID
  /\ gewischt' = KeineID
  /\ UNCHANGED <<gemeldet, umgebucht>>

DialogNext ==
  \/ (Umgebung \/ Rueckrufe) /\ UNCHANGED dialogVars
  \/ dialog = "keiner" /\ Gesten /\ UNCHANGED dialogVars
  \/ \E i \in DOMAIN tafel : deleteAction(i) \/ tischumbuchen(i)
  \/ animateOut
  \/ \E text, passt \in BOOLEAN : viewProblemAbschicken(text, passt)
  \/ \E text \in BOOLEAN : tischUmbuchenTapped(text)
  \/ DialogNeustart

DialogSpec == DialogInit /\ [][DialogNext]_alleVars

(***************************************************************************)
(* Properties.                                                             *)
(***************************************************************************)

\* A report is about the order whose row was swiped, although it is sent
\* by section number after callbacks may have rebuilt the sections.
MeldungTrifft == \A p \in gemeldet : p[1] = p[2]

\* The order moved to another table is the one whose row was swiped
\* "umbuchen": tischumbuchen(at:) is handed that row's index path.
UmbuchungTrifft == \A p \in umgebucht : p[1] = p[2]
=============================================================================
