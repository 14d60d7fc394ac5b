--------------------------- MODULE KellnerVC_proofs ---------------------------
(***************************************************************************)
(* Proofs about the list of new orders and its dialogs, for any set of     *)
(* orders and any number of reloads and launches: the types, that a tap    *)
(* and a report reach the order they were meant for, that a list on offer  *)
(* is complete, and when rows without a section can be on screen.          *)
(***************************************************************************)
EXTENDS KellnerDialoge, Bestellliste_proofs

(***************************************************************************)
(* The type invariant.                                                     *)
(***************************************************************************)

\* The end of the closure of loadBestellungen keeps the types.
LEMMA AbschlussTyp ==
  ASSUME TypeOK, NEW k \in [ID -> Nat], NEW l \in SUBSET ID, Abschluss(k, l)
  PROVE  /\ kopien' \in [ID -> Nat]
         /\ luecken' \subseteq ID
         /\ Bestellungen' \in Seq(Abschnitt)
         /\ tafel' \in Seq(Abschnitt)
         /\ absturz' \in {"keiner", "nil", "index", "tabelle", "pfad"}
<1>1. Bestellungen \o Abschnitte(bestellungIDs, k) \in Seq(Abschnitt)
  BY AbschnitteTyp DEF TypeOK
<1> QED BY <1>1 DEF TypeOK, Abschluss

\* A reload keeps the types.
LEMMA TypReload ==
  ASSUME TypeOK, NEW st, reload(st), status' \in [ID -> Status \cup {"keine"}]
  PROVE  TypeOK'
<1>1. /\ registrierungen' \in 1..(MaxReload + 1)
      /\ hauptschlange' \in Seq(Block)
  BY BeobachterTyp DEF reload
<1>2. /\ bestellungIDs' \in Seq(ID)
      /\ Bestellungen' \in Seq(Abschnitt)
      /\ tafel' \in Seq(Abschnitt)
  BY DEF reload
<1>3. kopien' \in [ID -> Nat]
  BY DEF reload
<1> QED BY <1>1, <1>2, <1>3 DEF reload, TypeOK, Block

\* The callbacks of the list and the drawing of a row keep the types.
LEMMA TypRueckrufe ==
  ASSUME TypeOK, Rueckrufe
  PROVE  TypeOK'
<1>1. CASE schluesselGemeldet
  <2> PICK p \in Schluessel :
        /\ NaechsterSchluessel(p)
        /\ \/ /\ p[3] = "versendet"
              /\ bestellungIDs' = Append(bestellungIDs, p[1])
              /\ loadBestellungen(p[1])
           \/ /\ p[3] # "versendet"
              /\ UNCHANGED <<bestellungIDs, Bestellungen, unterwegs>>
        /\ UNCHANGED <<status, verbunden, registrierungen, kopien, luecken,
                       unsauber, tafel, fremd, absturz, neustarts>>
    BY <1>1 DEF schluesselGemeldet
  <2>1. hauptschlange' \in Seq(Block)
    BY SchluesselTyp
  <2>2. p[1] \in ID
    BY DEF Schluessel
  <2>3. /\ bestellungIDs' \in Seq(ID)
        /\ Bestellungen' \in Seq(Abschnitt)
        /\ unterwegs' \in [ID -> Seq(1..(MaxReload + 1))]
    <3>1. CASE p[3] = "versendet"
      <4>1. Bestellungen' = <<>> /\ observeSingleEvent(p[1])
        BY <3>1 DEF loadBestellungen
      <4>2. unterwegs' \in [ID -> Seq(1..(MaxReload + 1))]
        BY <2>2, <4>1, EinzelTyp
      <4>3. bestellungIDs \in Seq(ID)
        BY DEF TypeOK
      <4>4. bestellungIDs' = Append(bestellungIDs, p[1])
        BY <3>1
      <4>5. bestellungIDs' \in Seq(ID)
        BY <2>2, <4>3, <4>4, FolgeAnhang
      <4>6. Bestellungen' \in Seq(Abschnitt)
        BY <4>1
      <4> QED BY <4>2, <4>5, <4>6
    <3>2. CASE p[3] # "versendet"
      BY <3>2 DEF TypeOK
    <3> QED BY <3>1, <3>2
  <2> QED BY <2>1, <2>3 DEF TypeOK, Block
<1>2. CASE bestellungGeladen
  <2> PICK b \in OrderBlock :
        /\ NaechsteAntwort(b)
        /\ fremd' = (fremd \/ b.aera # registrierungen)
        /\ unsauber' = (unsauber \/ b.id \notin Leer \cup Sauber)
        /\ \/ \E l \in lueckenNach(b.id) : Abschluss(gefaltet(b.id), l)
           \/ FaltungTrap(b.id)
        /\ UNCHANGED <<status, verbunden, registrierungen, unterwegs,
                       bestellungIDs, neustarts>>
    BY <1>2 DEF bestellungGeladen
  <2>1. hauptschlange' \in Seq(Block)
    BY DEF NaechsteAntwort, TypeOK, Block
  <2>2. b.id \in ID /\ gefaltet(b.id) \in [ID -> Nat]
    BY GefaltetTyp DEF OrderBlock
  <2>3. fremd' \in BOOLEAN /\ unsauber' \in BOOLEAN
    BY DEF TypeOK
  <2>4. /\ kopien' \in [ID -> Nat]
        /\ luecken' \subseteq ID
        /\ Bestellungen' \in Seq(Abschnitt)
        /\ tafel' \in Seq(Abschnitt)
        /\ absturz' \in {"keiner", "nil", "index", "tabelle", "pfad"}
    <3>1. ASSUME NEW l \in lueckenNach(b.id), Abschluss(gefaltet(b.id), l)
          PROVE  <2>4
      <4>1. l \in SUBSET ID
        BY <2>2, LueckenTyp
      <4> QED BY <2>2, <3>1, <4>1, AbschlussTyp
    <3>2. CASE FaltungTrap(b.id)
      BY <2>2, <3>2 DEF FaltungTrap, TypeOK
    <3> QED BY <3>1, <3>2
  <2> QED BY <2>1, <2>3, <2>4 DEF TypeOK, Block
<1>3. ASSUME NEW i \in DOMAIN tafel, Zeichne(i)
      PROVE  TypeOK'
  BY <1>3, TypTrap DEF Zeichne
<1> QED BY <1>1, <1>2, <1>3 DEF Rueckrufe

\* The waiter's touches keep the types.
LEMMA TypGesten ==
  ASSUME TypeOK, Gesten
  PROVE  TypeOK'
<1>1. CASE refreshOptions
  BY <1>1, TypReload DEF refreshOptions, TypeOK
<1>2. ASSUME NEW i \in DOMAIN tafel, annehmen(i)
      PROVE  TypeOK'
  <2>1. CASE i \in DOMAIN Bestellungen
    <3>1. removeBestellung(Bestellungen[i].BestellungID) /\ reload(status')
      BY <1>2, <2>1 DEF annehmen
    <3>2. status' \in [ID -> Status \cup {"keine"}]
      BY <3>1, StatusAnnahme DEF removeBestellung, TypeOK
    <3> QED BY <3>1, <3>2, TypReload
  <2>2. CASE i \notin DOMAIN Bestellungen
    BY <1>2, <2>2, TypTrap DEF annehmen
  <2> QED BY <2>1, <2>2
<1>3. ASSUME NEW i \in DOMAIN tafel, toggleSection(i)
      PROVE  TypeOK'
  <2>1. CASE Len(tafel) = Len(Bestellungen)
    <3> DEFINE neu == [j \in DOMAIN Bestellungen |->
                 [Bestellungen[j] EXCEPT !.expanded = j = i /\ ~@]]
    <3>1. neu \in Seq(Abschnitt)
      <4>1. \A j \in DOMAIN Bestellungen : Bestellungen[j] \in Abschnitt
        BY DEF TypeOK
      <4>2. \A j \in DOMAIN Bestellungen : neu[j] \in Abschnitt
        BY <4>1 DEF Abschnitt
      <4>3. DOMAIN Bestellungen = 1..Len(Bestellungen) /\ Len(Bestellungen) \in Nat
        BY DEF TypeOK
      <4> QED BY <4>2, <4>3
    <3>2. Bestellungen' = neu /\ tafel' = neu
      BY <1>3, <2>1 DEF toggleSection
    <3>3. UNCHANGED <<clientVars, bestellungIDs, kopien, luecken, unsauber,
                      fremd, absturz, neustarts>>
      BY <1>3, <2>1 DEF toggleSection
    <3> HIDE DEF neu
    <3> QED BY <3>1, <3>2, <3>3 DEF TypeOK, clientVars
  <2>2. CASE Len(tafel) # Len(Bestellungen)
    BY <1>3, <2>2, TypTrap DEF toggleSection
  <2> QED BY <2>1, <2>2
<1> QED BY <1>1, <1>2, <1>3 DEF Gesten

\* Every step keeps the types.
LEMMA TypSchritt == TypeOK /\ [Next]_vars => TypeOK'
<1> SUFFICES ASSUME TypeOK, [Next]_vars PROVE TypeOK'
  OBVIOUS
<1>1. CASE Neustart
  BY <1>1, TypNeustart
<1>2. CASE UNCHANGED vars
  BY <1>2 DEF vars, clientVars, listeVars, TypeOK
<1> QED BY <1>1, <1>2, TypUmgebung, TypRueckrufe, TypGesten DEF Next

\* The variables of the list of new orders keep their types: no observer
\* beyond the bound, no block on the main queue of another kind.
THEOREM TypKorrekt == Spec => []TypeOK
BY TypStart, TypSchritt, PTL DEF Spec

(***************************************************************************)
(* Taps.                                                                   *)
(***************************************************************************)

\* The strengthening: rows and sections both follow the order in which the
\* keys were noted.  Rows are drawn for noted keys only, and sections, while
\* there are any, cover all noted keys; a completion that appends once more
\* (it finds as many sections as keys and does not redraw) appends behind.
Reihenfolge ==
  /\ Len(tafel) <= Len(bestellungIDs)
  /\ \A i \in 1..Len(tafel) : tafel[i].BestellungID = bestellungIDs[i]
  /\ Bestellungen # <<>> =>
       /\ Len(bestellungIDs) <= Len(Bestellungen)
       /\ \A i \in 1..Len(bestellungIDs) :
            Bestellungen[i].BestellungID = bestellungIDs[i]

RInv == TypeOK /\ Reihenfolge

\* The lengths the arguments are about.
LEMMA Laengen ==
  ASSUME TypeOK
  PROVE  /\ Len(tafel) \in Nat /\ DOMAIN tafel = 1..Len(tafel)
         /\ Len(Bestellungen) \in Nat
         /\ DOMAIN Bestellungen = 1..Len(Bestellungen)
         /\ Len(bestellungIDs) \in Nat
         /\ DOMAIN bestellungIDs = 1..Len(bestellungIDs)
         /\ Bestellungen = <<>> <=> Len(Bestellungen) = 0
         /\ bestellungIDs = <<>> <=> Len(bestellungIDs) = 0
BY DEF TypeOK

\* An emptied list and an empty table follow any order.
LEMMA LeereTafel ==
  ASSUME TypeOK', tafel' = <<>>, Bestellungen' = <<>>
  PROVE  RInv'
BY DEF RInv, Reihenfolge, TypeOK

\* A step that touches neither keys nor sections nor rows keeps the order.
LEMMA ListeBleibt ==
  ASSUME Reihenfolge, UNCHANGED <<bestellungIDs, Bestellungen, tafel>>
  PROVE  Reihenfolge'
BY DEF Reihenfolge

\* Noting a key empties the sections; the rows stay those of earlier keys.
LEMMA NotiertReihe ==
  ASSUME RInv, NEW id \in ID, bestellungIDs' = Append(bestellungIDs, id),
         Bestellungen' = <<>>, UNCHANGED tafel
  PROVE  Reihenfolge'
<1>1. bestellungIDs \in Seq(ID) /\ Len(tafel) \in Nat /\ Len(bestellungIDs) \in Nat
  BY Laengen DEF RInv, TypeOK
<1>2. /\ Len(bestellungIDs') = Len(bestellungIDs) + 1
      /\ \A i \in 1..Len(bestellungIDs) : bestellungIDs'[i] = bestellungIDs[i]
  BY <1>1
<1> QED BY <1>1, <1>2 DEF RInv, Reihenfolge

\* The completion builds the sections anew, or appends behind sections that
\* cover all keys and draws nothing.
LEMMA AbschlussReihe ==
  ASSUME RInv, NEW k \in [ID -> Nat], NEW l, Abschluss(k, l),
         UNCHANGED bestellungIDs
  PROVE  Reihenfolge'
<1> DEFINE neu == Abschnitte(bestellungIDs, k)
<1>1. /\ Bestellungen \in Seq(Abschnitt) /\ tafel \in Seq(Abschnitt)
      /\ bestellungIDs \in Seq(ID)
  BY DEF RInv, TypeOK
<1>2. neu \in Seq(Abschnitt) /\ Len(neu) = Len(bestellungIDs)
  BY <1>1, AbschnitteTyp
<1>3. \A i \in 1..Len(bestellungIDs) : neu[i].BestellungID = bestellungIDs[i]
  BY <1>1, AbschnittFelder
<1> HIDE DEF neu
<1>4. CASE UNCHANGED <<Bestellungen, tafel>>
  BY <1>4, ListeBleibt DEF RInv
<1>5. CASE /\ Bestellungen' = Bestellungen \o neu
           /\ tafel' = IF Len(Bestellungen) < Len(bestellungIDs)
                       THEN Bestellungen' ELSE tafel
  <2>1. CASE Bestellungen = <<>>
    <3>1. Bestellungen' = neu
      BY <1>1, <1>2, <1>5, <2>1
    <3>2. CASE Len(bestellungIDs) = 0
      BY <1>1, <1>2, <1>5, <2>1, <3>1, <3>2 DEF RInv, Reihenfolge
    <3>3. CASE Len(bestellungIDs) # 0
      <4>1. tafel' = neu
        BY <1>1, <1>5, <2>1, <3>1, <3>3
      <4> QED BY <1>1, <1>2, <1>3, <3>1, <4>1 DEF Reihenfolge
    <3> QED BY <3>2, <3>3
  <2>2. CASE Bestellungen # <<>>
    <3>1. Len(bestellungIDs) <= Len(Bestellungen)
      BY <2>2 DEF RInv, Reihenfolge
    <3>2. tafel' = tafel
      BY <1>1, <1>5, <3>1
    <3>3. /\ Len(Bestellungen') >= Len(Bestellungen)
          /\ \A i \in 1..Len(Bestellungen) : Bestellungen'[i] = Bestellungen[i]
      BY <1>1, <1>2, <1>5
    <3>4. /\ Len(Bestellungen) \in Nat /\ Len(Bestellungen') \in Nat
          /\ Len(bestellungIDs) \in Nat
      BY <1>1, <1>2, <1>5
    <3> QED BY <2>2, <3>1, <3>2, <3>3, <3>4 DEF RInv, Reihenfolge
  <2> QED BY <2>1, <2>2
<1> QED BY <1>4, <1>5 DEF Abschluss, neu

\* Opening and closing sections leaves their keys and copies alone.
LEMMA KlappenLaesst ==
  ASSUME TypeOK, NEW i \in DOMAIN tafel, toggleSection(i)
  PROVE  /\ UNCHANGED <<bestellungIDs, kopien>>
         /\ \/ UNCHANGED <<Bestellungen, tafel>>
            \/ /\ tafel' = Bestellungen' /\ Len(tafel) = Len(Bestellungen)
               /\ Len(Bestellungen') = Len(Bestellungen)
               /\ \A j \in 1..Len(Bestellungen) :
                    /\ Bestellungen'[j].BestellungID = Bestellungen[j].BestellungID
                    /\ Bestellungen'[j].kopien = Bestellungen[j].kopien
<1>1. CASE Len(tafel) # Len(Bestellungen)
  BY <1>1 DEF toggleSection, Trap
<1>2. CASE Len(tafel) = Len(Bestellungen)
  <2> DEFINE neu == [j \in DOMAIN Bestellungen |->
               [Bestellungen[j] EXCEPT !.expanded = j = i /\ ~@]]
  <2>1. /\ Bestellungen' = neu /\ tafel' = neu
        /\ UNCHANGED <<bestellungIDs, kopien>>
    BY <1>2 DEF toggleSection
  <2>2. DOMAIN Bestellungen = 1..Len(Bestellungen) /\ Len(Bestellungen) \in Nat
    BY Laengen
  <2>3. \A j \in 1..Len(Bestellungen) : Bestellungen[j] \in Abschnitt
    BY FolgeElement DEF TypeOK
  <2>4. \A j \in 1..Len(Bestellungen) :
          /\ neu[j].BestellungID = Bestellungen[j].BestellungID
          /\ neu[j].kopien = Bestellungen[j].kopien
    BY <2>2, <2>3 DEF Abschnitt
  <2>5. Len(neu) = Len(Bestellungen)
    BY <2>2
  <2> HIDE DEF neu
  <2> QED BY <1>2, <2>1, <2>4, <2>5
<1> QED BY <1>1, <1>2

\* Every step keeps the order.
LEMMA ReiheSchritt == RInv /\ [Next]_vars => RInv'
<1> SUFFICES ASSUME RInv, [Next]_vars PROVE RInv'
  OBVIOUS
<1>0. TypeOK /\ TypeOK'
  BY TypSchritt DEF RInv
<1>b. ASSUME UNCHANGED <<bestellungIDs, Bestellungen, tafel>> PROVE RInv'
  BY <1>0, <1>b, ListeBleibt DEF RInv
<1>1. CASE Umgebung
  <2>1. UNCHANGED <<bestellungIDs, Bestellungen, tafel>>
    BY <1>1 DEF Umgebung, ErsteDaten, Antwort, NeueBestellung,
                FremdeAenderung, listeVars
  <2> QED BY <1>b, <2>1
<1>2. CASE Neustart
  BY <1>0, <1>2, LeereTafel DEF Neustart
<1>3. CASE schluesselGemeldet
  <2>1. PICK p \in Schluessel :
          \/ /\ bestellungIDs' = Append(bestellungIDs, p[1])
             /\ Bestellungen' = <<>> /\ UNCHANGED tafel
          \/ UNCHANGED <<bestellungIDs, Bestellungen, tafel>>
    BY <1>3 DEF schluesselGemeldet, loadBestellungen
  <2>2. p[1] \in ID
    BY DEF Schluessel
  <2> QED BY <1>0, <1>b, <2>1, <2>2, NotiertReihe DEF RInv
<1>4. CASE bestellungGeladen
  <2>1. PICK b \in OrderBlock :
          /\ \/ \E l \in lueckenNach(b.id) : Abschluss(gefaltet(b.id), l)
             \/ FaltungTrap(b.id)
          /\ UNCHANGED bestellungIDs
    BY <1>4 DEF bestellungGeladen
  <2>2. gefaltet(b.id) \in [ID -> Nat]
    BY <1>0, GefaltetTyp DEF OrderBlock
  <2>3. ASSUME NEW l, Abschluss(gefaltet(b.id), l)
        PROVE  RInv'
    BY <1>0, <2>1, <2>2, <2>3, AbschlussReihe DEF RInv
  <2>4. CASE FaltungTrap(b.id)
    BY <1>b, <2>1, <2>4 DEF FaltungTrap
  <2> QED BY <2>1, <2>3, <2>4
<1>5. ASSUME NEW i \in DOMAIN tafel, Zeichne(i)
      PROVE  RInv'
  BY <1>5, <1>b DEF Zeichne, Trap
<1>6. CASE refreshOptions
  BY <1>0, <1>6, LeereTafel DEF refreshOptions, reload
<1>7. ASSUME NEW i \in DOMAIN tafel, annehmen(i)
      PROVE  RInv'
  <2>1. \/ tafel' = <<>> /\ Bestellungen' = <<>>
        \/ UNCHANGED <<bestellungIDs, Bestellungen, tafel>>
    BY <1>7 DEF annehmen, reload, Trap
  <2> QED BY <1>0, <1>b, <2>1, LeereTafel
<1>8. ASSUME NEW i \in DOMAIN tafel, toggleSection(i)
      PROVE  RInv'
  <2>1. CASE UNCHANGED <<Bestellungen, tafel>>
    BY <1>0, <1>8, <1>b, <2>1, KlappenLaesst
  <2>2. CASE /\ tafel' = Bestellungen' /\ Len(tafel) = Len(Bestellungen)
             /\ Len(Bestellungen') = Len(Bestellungen)
             /\ \A j \in 1..Len(Bestellungen) :
                  Bestellungen'[j].BestellungID = Bestellungen[j].BestellungID
    <3>0. bestellungIDs' = bestellungIDs
      BY <1>0, <1>8, KlappenLaesst
    <3>1. Len(tafel) # 0
      <4>1. i \in 1..Len(tafel) /\ Len(tafel) \in Nat
        BY <1>0, Laengen
      <4> QED BY <4>1
    <3>2. Len(Bestellungen) \in Nat /\ Bestellungen # <<>>
      BY <1>0, <2>2, <3>1, Laengen
    <3> QED BY <1>0, <2>2, <3>0, <3>2, Laengen DEF RInv, Reihenfolge
  <2> QED BY <1>0, <1>8, <2>1, <2>2, KlappenLaesst
<1>9. CASE UNCHANGED vars
  BY <1>9, <1>b DEF vars, listeVars
<1> QED BY <1>1, <1>2, <1>3, <1>4, <1>5, <1>6, <1>7, <1>8, <1>9
        DEF Next, Rueckrufe, Gesten

\* A launched process has nothing to put in order.
LEMMA ReiheStart == Init => RInv
<1> SUFFICES ASSUME Init PROVE RInv
  OBVIOUS
<1>1. TypeOK
  BY TypStart
<1> QED BY <1>1 DEF Init, RInv, Reihenfolge

\* A tap on "Annehmen" reaches the order drawn in that row or no order,
\* however callbacks, reloads and touches interleave: annehmen indexes the
\* sections with the number the cell was drawn for (KellnerVC.swift 705).
THEOREM TippGeltend == Spec => []TippTrifft
<1>1. ASSUME RInv PROVE TippTrifft
  <2> SUFFICES ASSUME NEW i \in DOMAIN tafel \cap DOMAIN Bestellungen
               PROVE  tafel[i].BestellungID = Bestellungen[i].BestellungID
    BY DEF TippTrifft
  <2>1. i \in 1..Len(tafel) /\ i \in 1..Len(bestellungIDs) /\ Bestellungen # <<>>
    BY <1>1, Laengen DEF RInv, Reihenfolge
  <2> QED BY <1>1, <2>1 DEF RInv, Reihenfolge
<1> QED BY <1>1, ReiheStart, ReiheSchritt, PTL DEF Spec

(***************************************************************************)
(* Completeness.                                                           *)
(***************************************************************************)

\* The strengthening, beside the account of the records (Bilanz) and the
\* order of the keys: while the account is right there are sections exactly
\* when as many records are loaded as keys are noted, one for each key, each
\* with the record folded in once; and only a record the fold is not made
\* for leaves an entry nil.
GebautGenau ==
  /\ ~unsauber => luecken = {}
  /\ ~fremd =>
       /\ absturz = "nil" => unsauber
       /\ Bestellungen # <<>> =>
            /\ Len(Bestellungen) = Len(bestellungIDs)
            /\ Len(bestellungIDs) = Cardinality(geladen(kopien))
            /\ \A i \in 1..Len(Bestellungen) : Bestellungen[i].kopien = 1
       /\ (/\ absturz # "nil" /\ bestellungIDs # <<>>
           /\ Len(bestellungIDs) = Cardinality(geladen(kopien)))
          => Bestellungen # <<>>

VInv == Konto /\ RInv /\ GebautGenau

\* A launched process satisfies it.
LEMMA VInvStart == Init => VInv
<1> SUFFICES ASSUME Init PROVE VInv
  OBVIOUS
<1>1. GebautGenau
  BY DEF Init, GebautGenau
<1> QED BY <1>1, KontoStart, ReiheStart DEF VInv

\* A step that leaves the list alone and does not trap on a missing entry
\* keeps what is built.
LEMMA GebautBleibt ==
  ASSUME GebautGenau,
         UNCHANGED <<bestellungIDs, kopien, luecken, unsauber, Bestellungen, fremd>>,
         absturz' = absturz \/ (laeuft /\ absturz' # "nil")
  PROVE  GebautGenau'
BY DEF GebautGenau, geladen, laeuft

\* Noting a key: the sections go, and the counts cannot agree, because the
\* record of the new key has not come.
LEMMA GebautNotiert ==
  ASSUME VInv, Konto', NEW id \in ID, Offen(id)' > 0, Bestellungen' = <<>>,
         UNCHANGED <<luecken, unsauber, fremd, absturz>>
  PROVE  GebautGenau'
<1> SUFFICES ASSUME ~fremd' PROVE GebautGenau'
  BY DEF GebautGenau, VInv
<1>1. Len(bestellungIDs') # Cardinality(geladen(kopien'))
  BY NichtsOffenDanach
<1> QED BY <1>1 DEF GebautGenau, VInv, geladen

\* A record runs: of an earlier era, it spoils the account (fremd); of this
\* one, it was still missing, so there were no sections, and if the counts
\* agree now, all noted keys are loaded.  The fold or the loop then traps
\* only on a nil that a record not of the kind Sauber left.
LEMMA VInvGeladen ==
  ASSUME VInv, TypeOK', bestellungGeladen
  PROVE  Konto' /\ GebautGenau'
<1> PICK b \in OrderBlock :
      /\ NaechsteAntwort(b)
      /\ fremd' = (fremd \/ b.aera # registrierungen)
      /\ unsauber' = (unsauber \/ b.id \notin Leer \cup Sauber)
      /\ \/ \E l \in lueckenNach(b.id) : Abschluss(gefaltet(b.id), l)
         \/ FaltungTrap(b.id)
      /\ UNCHANGED <<status, verbunden, registrierungen, unterwegs,
                     bestellungIDs, neustarts>>
  BY DEF bestellungGeladen
<1> DEFINE k == gefaltet(b.id)
<1>0. Konto /\ TypeOK /\ bestellungIDs \in Seq(ID) /\ absturz # "nil"
  BY DEF VInv, Konto, TypeOK, NaechsteAntwort, laeuft
<1>1. AeraAlt'
  BY <1>0, AntwortAlt
<1>i. b.id \in ID /\ k \in [ID -> Nat]
  BY <1>0, GefaltetTyp DEF OrderBlock
<1>k. kopien' = k
  BY DEF Abschluss, FaltungTrap
<1>u. ~unsauber' => luecken = {} /\ ~heikel(b.id)
  BY DEF VInv, GebautGenau, heikel
<1>l. ~unsauber' => luecken' = {}
  <2>1. ASSUME ~unsauber', NEW l \in lueckenNach(b.id), luecken' = l
        PROVE  luecken' = {}
    BY <1>0, <1>i, <1>u, <2>1, LueckenTyp
  <2> QED BY <1>u, <2>1 DEF Abschluss, FaltungTrap
<1>2. CASE fremd'
  BY <1>1, <1>2, <1>l DEF Konto, Bilanz, GebautGenau
<1>3. CASE ~fremd'
  <2>1. ~fremd /\ b.aera = registrierungen
    BY <1>3
  <2>3. /\ Offen(b.id) > 0
        /\ \A id \in ID :
             /\ Offen(id)' \in Nat
             /\ k[id] + Offen(id)' <= Anzahl(bestellungIDs, id)
             /\ id \notin Leer => k[id] + Offen(id)' = Anzahl(bestellungIDs, id)
    BY <1>0, <2>1, KontoGefaltet
  <2> HIDE DEF k
  <2>4. \A id \in ID : k[id] <= Anzahl(bestellungIDs, id)
    <3> SUFFICES ASSUME NEW id \in ID PROVE k[id] <= Anzahl(bestellungIDs, id)
      OBVIOUS
    <3>1. k[id] \in Nat /\ Anzahl(bestellungIDs, id) \in Nat
      BY <1>0, <1>i, KontoTyp
    <3> QED BY <2>3, <3>1
  <2>5. bestellungIDs # <<>> /\ Bestellungen = <<>>
    BY <1>0, <1>i, <2>1, <2>3, NichtsOffen DEF VInv, GebautGenau
  <2>6. Len(bestellungIDs) = Cardinality(geladen(k)) =>
          \A i \in 1..Len(bestellungIDs) :
            bestellungIDs[i] \in geladen(k) /\ k[bestellungIDs[i]] = 1
    BY <1>0, <1>i, <2>4, Vollstaendig
  <2>8. Konto'
    BY <1>1, <1>k, <2>3 DEF Konto, Bilanz
  <2>9. CASE FaltungTrap(b.id)
    <3>1. absturz' = "nil" /\ Bestellungen' = <<>> /\ heikel(b.id)
      BY <2>5, <2>9 DEF FaltungTrap
    <3>2. unsauber'
      BY <1>u, <3>1
    <3> QED BY <2>8, <3>1, <3>2 DEF GebautGenau
  <2>10. ASSUME NEW l \in lueckenNach(b.id), Abschluss(k, l)
         PROVE  GebautGenau'
    <3>1. CASE Len(bestellungIDs) # Cardinality(geladen(k))
      <4>1. Bestellungen' = <<>> /\ absturz' = absturz
        BY <2>5, <2>10, <3>1 DEF Abschluss
      <4> QED BY <1>0, <1>k, <1>l, <3>1, <4>1 DEF GebautGenau, geladen
    <3>2. CASE /\ Len(bestellungIDs) = Cardinality(geladen(k))
               /\ alleBelegt(k, l)
      <4>1. /\ Bestellungen' = Bestellungen \o Abschnitte(bestellungIDs, k)
            /\ absturz' = absturz
        BY <2>10, <3>2 DEF Abschluss
      <4>2. /\ Abschnitte(bestellungIDs, k) \in Seq(Abschnitt)
            /\ Len(Abschnitte(bestellungIDs, k)) = Len(bestellungIDs)
        BY <1>0, <1>i, AbschnitteTyp
      <4>3. Bestellungen' = Abschnitte(bestellungIDs, k)
        BY <2>5, <4>1, <4>2
      <4>4. \A i \in 1..Len(bestellungIDs) : Bestellungen'[i].kopien = 1
        BY <1>0, <2>6, <3>2, <4>3, AbschnittFelder
      <4>5. Bestellungen' # <<>> /\ Len(Bestellungen') = Len(bestellungIDs)
        BY <1>0, <2>5, <4>2, <4>3
      <4> QED BY <1>0, <1>k, <1>l, <3>2, <4>1, <4>4, <4>5
              DEF GebautGenau, geladen
    <3>3. CASE /\ Len(bestellungIDs) = Cardinality(geladen(k))
               /\ ~alleBelegt(k, l)
      <4>1. absturz' = "nil" /\ Bestellungen' = <<>>
        BY <2>5, <2>10, <3>3 DEF Abschluss
      <4>2. unsauber'
        <5> SUFFICES ASSUME ~unsauber' PROVE FALSE
          OBVIOUS
        <5>1. l = {}
          BY <1>0, <1>i, <1>u, <2>10, LueckenTyp
        <5>2. DOMAIN bestellungIDs = 1..Len(bestellungIDs)
          BY <1>0
        <5> QED BY <2>6, <3>3, <5>1, <5>2 DEF alleBelegt
      <4> QED BY <4>1, <4>2 DEF GebautGenau
    <3> QED BY <3>1, <3>2, <3>3
  <2> QED BY <2>8, <2>9, <2>10 DEF k
<1> QED BY <1>2, <1>3

\* Every step keeps the invariant.
LEMMA VInvSchritt == VInv /\ [Next]_vars => VInv'
<1> SUFFICES ASSUME VInv, [Next]_vars PROVE Konto' /\ GebautGenau'
  BY ReiheSchritt DEF VInv
<1>0. Konto /\ TypeOK /\ TypeOK' /\ GebautGenau
  BY TypSchritt DEF VInv, RInv
<1>b. ASSUME UNCHANGED <<registrierungen, hauptschlange, unterwegs,
                         bestellungIDs, kopien, fremd>>
      PROVE  Konto'
  <2>1. {} \in SUBSET Schluessel
    OBVIOUS
  <2> QED BY <1>0, <1>b, <2>1, KontoMelde
<1>r. ASSUME NEW st, reload(st), laeuft PROVE Konto' /\ GebautGenau'
  <2>1. Konto'
    BY <1>0, <1>r, KontoReload DEF reload
  <2>2. GebautGenau'
    BY <1>r DEF reload, GebautGenau, laeuft
  <2> QED BY <2>1, <2>2
<1>t. ASSUME NEW g \in {"index", "tabelle"}, laeuft, Trap(g),
             UNCHANGED <<hauptschlange, fremd>>
      PROVE  Konto' /\ GebautGenau'
  BY <1>0, <1>b, <1>t, GebautBleibt DEF Trap
<1>1. CASE Umgebung
  <2>1. UNCHANGED <<bestellungIDs, kopien, luecken, unsauber, Bestellungen,
                    fremd, absturz>>
    BY <1>1 DEF Umgebung, ErsteDaten, Antwort, NeueBestellung,
                FremdeAenderung, listeVars
  <2> QED BY <1>0, <1>1, <2>1, KontoUmgebung, GebautBleibt
<1>2. CASE Neustart
  <2>1. GebautGenau'
    BY <1>2 DEF Neustart, GebautGenau
  <2> QED BY <1>0, <1>2, <2>1, KontoNeustart
<1>3. CASE schluesselGemeldet
  <2> PICK p \in Schluessel :
        /\ NaechsterSchluessel(p)
        /\ \/ /\ p[3] = "versendet"
              /\ bestellungIDs' = Append(bestellungIDs, p[1])
              /\ loadBestellungen(p[1])
           \/ /\ p[3] # "versendet"
              /\ UNCHANGED <<bestellungIDs, Bestellungen, unterwegs>>
        /\ UNCHANGED <<status, verbunden, registrierungen, kopien, luecken,
                       unsauber, tafel, fremd, absturz, neustarts>>
    BY <1>3 DEF schluesselGemeldet
  <2>1. CASE /\ bestellungIDs' = Append(bestellungIDs, p[1])
             /\ loadBestellungen(p[1])
    <3>1. Konto' /\ Offen(p[1])' > 0
      BY <1>0, <2>1, KontoNotiert DEF loadBestellungen
    <3>2. p[1] \in ID
      BY DEF Schluessel
    <3> QED BY <2>1, <3>1, <3>2, GebautNotiert DEF loadBestellungen
  <2>2. CASE UNCHANGED <<bestellungIDs, Bestellungen, unterwegs>>
    BY <1>0, <2>2, KontoUebergangen, GebautBleibt
  <2> QED BY <2>1, <2>2
<1>4. CASE bestellungGeladen
  BY <1>0, <1>4, VInvGeladen
<1>5. ASSUME NEW i \in DOMAIN tafel, Zeichne(i)
      PROVE  Konto' /\ GebautGenau'
  BY <1>5, <1>t DEF Zeichne
<1>6. CASE refreshOptions
  BY <1>6, <1>r DEF refreshOptions
<1>7. ASSUME NEW i \in DOMAIN tafel, annehmen(i)
      PROVE  Konto' /\ GebautGenau'
  BY <1>7, <1>r, <1>t DEF annehmen
<1>8. ASSUME NEW i \in DOMAIN tafel, toggleSection(i)
      PROVE  Konto' /\ GebautGenau'
  <2>1. CASE Len(tafel) # Len(Bestellungen)
    BY <1>8, <1>t, <2>1 DEF toggleSection
  <2>2. CASE Len(tafel) = Len(Bestellungen)
    <3>1. UNCHANGED <<registrierungen, hauptschlange, unterwegs, bestellungIDs,
                      kopien, luecken, unsauber, fremd, absturz>>
      BY <1>8, <2>2 DEF toggleSection, clientVars
    <3>2. \/ UNCHANGED <<Bestellungen, tafel>>
          \/ /\ Len(Bestellungen') = Len(Bestellungen)
             /\ \A j \in 1..Len(Bestellungen) :
                  Bestellungen'[j].kopien = Bestellungen[j].kopien
      BY <1>0, <1>8, KlappenLaesst
    <3>3. CASE UNCHANGED <<Bestellungen, tafel>>
      BY <1>0, <1>b, <3>1, <3>3, GebautBleibt
    <3>4. CASE /\ Len(Bestellungen') = Len(Bestellungen)
               /\ \A j \in 1..Len(Bestellungen) :
                    Bestellungen'[j].kopien = Bestellungen[j].kopien
      <4>1. Bestellungen' = <<>> <=> Bestellungen = <<>>
        BY <1>0, <3>4 DEF TypeOK
      <4>2. geladen(kopien)' = geladen(kopien)
        BY <3>1 DEF geladen
      <4>3. GebautGenau'
        BY <1>0, <3>1, <3>4, <4>1, <4>2 DEF GebautGenau
      <4> QED BY <1>b, <3>1, <4>3
    <3> QED BY <3>2, <3>3, <3>4
  <2> QED BY <2>1, <2>2
<1>9. CASE UNCHANGED vars
  BY <1>0, <1>9, <1>b, GebautBleibt DEF vars, clientVars, listeVars
<1> QED BY <1>1, <1>2, <1>3, <1>4, <1>5, <1>6, <1>7, <1>8, <1>9
        DEF Next, Rueckrufe, Gesten

\* For any orders and any interleaving of events, answers, taps and reloads:
\* unless a record of before a reload landed after it, the force-unwraps of
\* the fold and of the completion loop (KellnerVC.swift 491) fail only after
\* a record the fold is not made for, and a list on offer, whatever the
\* records, has one section for every noted key, in order, none twice, each
\* folded in once - although the code only compares two counts.
THEOREM ListeGeltend == Spec => []ListeVollstaendig
<1>1. ASSUME VInv PROVE ListeVollstaendig
  <2> SUFFICES ASSUME ~fremd, Bestellungen # <<>>
               PROVE  /\ DOMAIN Bestellungen = DOMAIN bestellungIDs
                      /\ \A i \in DOMAIN Bestellungen :
                           /\ Bestellungen[i].BestellungID = bestellungIDs[i]
                           /\ Bestellungen[i].kopien = 1
                           /\ \A j \in DOMAIN Bestellungen :
                                bestellungIDs[i] = bestellungIDs[j] => i = j
    BY <1>1 DEF ListeVollstaendig, VInv, GebautGenau
  <2>1. Konto /\ TypeOK /\ bestellungIDs \in Seq(ID) /\ kopien \in [ID -> Nat]
    BY <1>1 DEF VInv, Konto, TypeOK
  <2>2. /\ Len(Bestellungen) = Len(bestellungIDs)
        /\ \A i \in 1..Len(Bestellungen) : Bestellungen[i].kopien = 1
    BY <1>1 DEF VInv, GebautGenau
  <2>3. DOMAIN Bestellungen = 1..Len(bestellungIDs)
        /\ DOMAIN bestellungIDs = 1..Len(bestellungIDs)
    BY <2>1, <2>2, Laengen
  <2>4. bestellungIDs # <<>>
    BY <2>1, <2>2, Laengen
  <2>5. Len(bestellungIDs) = Cardinality(geladen(kopien))
    BY <1>1, <2>4 DEF VInv, GebautGenau
  <2>6. \A i, j \in 1..Len(bestellungIDs) :
          bestellungIDs[i] = bestellungIDs[j] => i = j
    BY <2>1, <2>5, NieZuviel, Vollstaendig
  <2>7. \A i \in 1..Len(bestellungIDs) :
          Bestellungen[i].BestellungID = bestellungIDs[i]
    BY <1>1 DEF VInv, RInv, Reihenfolge
  <2> QED BY <2>2, <2>3, <2>6, <2>7
<1> QED BY <1>1, VInvStart, VInvSchritt, PTL DEF Spec

\* A key that is noted once, is not empty and waits for nothing is loaded.
LEMMA Gelandet ==
  ASSUME Konto, ~fremd, NEW i \in 1..Len(bestellungIDs),
         LET id == bestellungIDs[i]
         IN /\ unterwegs[id] = <<>>
            /\ \A j \in DOMAIN hauptschlange :
                 ~(hauptschlange[j].art = "order" /\ hauptschlange[j].id = id)
            /\ id \notin Leer
  PROVE  kopien[bestellungIDs[i]] > 0
<1> DEFINE id == bestellungIDs[i]
           r == registrierungen
<1>1. /\ bestellungIDs \in Seq(ID) /\ id \in ID
      /\ hauptschlange \in Seq(KeysBlock \cup OrderBlock)
  BY FolgeElement DEF Konto, TypeOK
<1>2. Anzahl(unterwegs[id], r) = 0
  <2>1. \A j \in 1..Len(unterwegs[id]) : unterwegs[id][j] # r
    OBVIOUS
  <2> QED BY <2>1, AnzahlNull
<1>3. Anzahl(hauptschlange, AntwortAuf(id, r)) = 0
  <2>1. \A j \in 1..Len(hauptschlange) : hauptschlange[j] # AntwortAuf(id, r)
    <3>1. AntwortAuf(id, r).art = "order" /\ AntwortAuf(id, r).id = id
      BY DEF AntwortAuf
    <3>2. DOMAIN hauptschlange = 1..Len(hauptschlange)
      BY <1>1
    <3> QED BY <3>1, <3>2
  <2> QED BY <2>1, AnzahlNull
<1>4. Anzahl(bestellungIDs, id) # 0
  <2>1. i \in Stellen(bestellungIDs, id)
    BY DEF Stellen
  <2> QED BY <1>1, <2>1, AnzahlTyp
<1> HIDE DEF id
<1>5. kopien[id] + Offen(id) = Anzahl(bestellungIDs, id)
  BY <1>1 DEF Konto, Bilanz, id
<1>6. Offen(id) = 0
  BY <1>2, <1>3 DEF Offen
<1>7. kopien[id] \in Nat
  BY <1>1, KontoTyp DEF Konto
<1> QED BY <1>4, <1>5, <1>6, <1>7 DEF id

\* Rows without a section, which trap when they are drawn or tapped, are on
\* screen only while a record of a noted key is on its way, or for good when
\* a key was noted twice or a record is empty (KellnerVC.swift 94 empties
\* the sections without a redraw).
THEOREM RissGeltend == Spec => []RissNurBeimLaden
<1>1. ASSUME VInv PROVE RissNurBeimLaden
  <2> DEFINE W(i) == LET id == bestellungIDs[i]
                     IN \/ unterwegs[id] # <<>>
                        \/ \E j \in DOMAIN hauptschlange :
                             /\ hauptschlange[j].art = "order"
                             /\ hauptschlange[j].id = id
                        \/ id \in Leer
                        \/ \E j \in DOMAIN bestellungIDs :
                             j # i /\ bestellungIDs[j] = id
  <2> SUFFICES ASSUME laeuft, ~fremd, Len(Bestellungen) < Len(tafel),
                      \A i \in DOMAIN bestellungIDs : ~W(i)
               PROVE  FALSE
    BY DEF RissNurBeimLaden
  <2>1. Konto /\ TypeOK /\ bestellungIDs \in Seq(ID) /\ kopien \in [ID -> Nat]
    BY <1>1 DEF VInv, Konto, TypeOK
  <2>2. DOMAIN bestellungIDs = 1..Len(bestellungIDs) /\ Len(bestellungIDs) \in Nat
        /\ Len(Bestellungen) \in Nat /\ Len(tafel) \in Nat
    BY <2>1, Laengen
  <2>3. Bestellungen = <<>> /\ bestellungIDs # <<>>
    BY <1>1, <2>1, <2>2, Laengen DEF VInv, RInv, Reihenfolge
  <2>4. Len(bestellungIDs) # Cardinality(geladen(kopien))
    BY <1>1, <2>3 DEF VInv, GebautGenau, laeuft
  <2> DEFINE D == 1..Len(bestellungIDs)
             G == geladen(kopien)
  <2>5. \A i \in D : bestellungIDs[i] \in G
    <3> SUFFICES ASSUME NEW i \in D PROVE bestellungIDs[i] \in G
      OBVIOUS
    <3>1. bestellungIDs[i] \in ID
      BY <2>1, FolgeElement
    <3>2. kopien[bestellungIDs[i]] > 0
      BY <2>1, <2>2, Gelandet
    <3> QED BY <3>1, <3>2 DEF geladen
  <2>6. \A g \in G : \E i \in D : bestellungIDs[i] = g
    <3> SUFFICES ASSUME NEW g \in ID, kopien[g] > 0
                 PROVE  \E i \in D : bestellungIDs[i] = g
      BY DEF geladen
    <3>1. kopien[g] \in Nat /\ Anzahl(bestellungIDs, g) \in Nat
          /\ kopien[g] <= Anzahl(bestellungIDs, g)
      BY <2>1, NieZuviel, KontoTyp
    <3>2. Stellen(bestellungIDs, g) # {}
      BY <2>1, <3>1, AnzahlTyp
    <3> QED BY <3>2 DEF Stellen
  <2>7. \A i, j \in D : bestellungIDs[i] = bestellungIDs[j] => i = j
    BY <2>2
  <2> QED BY <2>1, <2>4, <2>5, <2>6, <2>7, Auszaehlung
<1> QED BY <1>1, VInvStart, VInvSchritt, PTL DEF Spec

(***************************************************************************)
(* Reports.                                                                *)
(***************************************************************************)

\* The strengthening: while the report dialog is open, the section it noted
\* is the number of the swiped order among the noted keys.  The dialog covers
\* the list, so there is no reload and that number stays.
DialogNennt ==
  dialog = "problem" =>
    /\ problemSection \in 1..Len(bestellungIDs)
    /\ gewischt = bestellungIDs[problemSection]

DInv == RInv /\ DialogNennt /\ MeldungTrifft

\* A trap, wherever the dialog stands, keeps rows, sections and keys.
LEMMA TrapReihe ==
  ASSUME RInv, NEW g \in {"index", "pfad"}, Trap(g), UNCHANGED <<hauptschlange, fremd>>
  PROVE  RInv'
BY TypTrap, ListeBleibt DEF RInv, Trap

\* Leaving the list alone keeps rows, sections and keys.
LEMMA RuhtReihe ==
  ASSUME RInv, UNCHANGED vars
  PROVE  RInv'
BY ReiheSchritt

\* What a report sent now would name.
LEMMA MeldungJetzt ==
  ASSUME RInv, DialogNennt, dialog = "problem", problemSection \in DOMAIN Bestellungen
  PROVE  gewischt = Bestellungen[problemSection].BestellungID
<1>1. TypeOK
  BY DEF RInv
<1>2. Bestellungen # <<>>
  BY <1>1, Laengen
<1> QED BY <1>2 DEF RInv, Reihenfolge, DialogNennt

\* Every step keeps the invariant.
LEMMA DInvSchritt == DInv /\ [DialogNext]_alleVars => DInv'
<1> SUFFICES ASSUME DInv, [DialogNext]_alleVars PROVE DInv'
  OBVIOUS
<1>0. RInv /\ TypeOK /\ DialogNennt /\ MeldungTrifft
  BY DEF DInv, RInv
<1>n. ASSUME UNCHANGED <<bestellungIDs, dialog, problemSection, gewischt>>
      PROVE  DialogNennt'
  BY <1>0, <1>n DEF DialogNennt
<1>t. ASSUME NEW g \in {"index", "pfad"}, DialogTrap(g)
      PROVE  DInv'
  <2>1. RInv'
    BY <1>0, <1>t, TrapReihe DEF DialogTrap
  <2>2. DialogNennt'
    BY <1>t, <1>n DEF DialogTrap, Trap, dialogVars
  <2>3. MeldungTrifft'
    BY <1>0, <1>t DEF DialogTrap, dialogVars, MeldungTrifft
  <2> QED BY <2>1, <2>2, <2>3 DEF DInv
<1>1. CASE (Umgebung \/ Rueckrufe) /\ UNCHANGED dialogVars
  <2>1. RInv'
    BY <1>0, <1>1, ReiheSchritt DEF Next
  <2>2. \/ bestellungIDs' = bestellungIDs
        \/ \E p \in Schluessel : bestellungIDs' = Append(bestellungIDs, p[1])
    BY <1>1 DEF Umgebung, ErsteDaten, Antwort, NeueBestellung, FremdeAenderung,
                listeVars, Rueckrufe, schluesselGemeldet, bestellungGeladen,
                Zeichne, Trap
  <2>3. DialogNennt'
    <3>1. bestellungIDs \in Seq(ID) /\ UNCHANGED <<dialog, problemSection, gewischt>>
      BY <1>0, <1>1 DEF TypeOK, dialogVars
    <3>2. /\ Len(bestellungIDs') >= Len(bestellungIDs)
          /\ Len(bestellungIDs) \in Nat /\ Len(bestellungIDs') \in Nat
          /\ \A i \in 1..Len(bestellungIDs) : bestellungIDs'[i] = bestellungIDs[i]
      BY <2>2, <3>1
    <3> QED BY <1>0, <3>1, <3>2 DEF DialogNennt
  <2>4. MeldungTrifft'
    BY <1>0, <1>1 DEF dialogVars, MeldungTrifft
  <2> QED BY <2>1, <2>3, <2>4 DEF DInv
<1>2. CASE dialog = "keiner" /\ Gesten /\ UNCHANGED dialogVars
  <2>1. RInv'
    BY <1>0, <1>2, ReiheSchritt DEF Next
  <2> QED BY <1>0, <1>2, <2>1 DEF DInv, DialogNennt, MeldungTrifft, dialogVars
<1>3. ASSUME NEW i \in DOMAIN tafel, deleteAction(i)
      PROVE  DInv'
  <2>1. CASE i \in DOMAIN Bestellungen
    <3>1. /\ UNCHANGED vars /\ problemSection' = i /\ dialog' = "problem"
          /\ gewischt' = tafel[i].BestellungID /\ gemeldet' = gemeldet
      BY <1>3, <2>1 DEF deleteAction
    <3>2. i \in 1..Len(bestellungIDs) /\ tafel[i].BestellungID = bestellungIDs[i]
      BY <1>0, Laengen DEF RInv, Reihenfolge
    <3>3. bestellungIDs' = bestellungIDs
      BY <3>1 DEF vars, listeVars
    <3>4. DialogNennt'
      BY <3>1, <3>2, <3>3 DEF DialogNennt
    <3> QED BY <1>0, <3>1, <3>4, RuhtReihe DEF DInv, MeldungTrifft
  <2>2. CASE i \notin DOMAIN Bestellungen
    BY <1>3, <1>t, <2>2 DEF deleteAction
  <2> QED BY <2>1, <2>2
<1>4. ASSUME NEW i \in DOMAIN tafel, tischumbuchen(i)
      PROVE  DInv'
  BY <1>0, <1>4, RuhtReihe DEF tischumbuchen, DInv, DialogNennt, MeldungTrifft
<1>5. CASE animateOut
  BY <1>0, <1>5, RuhtReihe DEF animateOut, DInv, DialogNennt, MeldungTrifft
<1>6. ASSUME NEW text \in BOOLEAN, NEW passt \in BOOLEAN,
             viewProblemAbschicken(text, passt)
      PROVE  DInv'
  <2> DEFINE neu == {<<gewischt, Bestellungen[problemSection].BestellungID>>}
  <2>1. problemSection \in DOMAIN Bestellungen => \A p \in neu : p[1] = p[2]
    BY <1>0, <1>6, MeldungJetzt DEF viewProblemAbschicken
  <2>2. ASSUME problemSection \in DOMAIN Bestellungen,
               gemeldet' = gemeldet \cup neu \/ gemeldet' = gemeldet
        PROVE  MeldungTrifft'
    BY <1>0, <2>1, <2>2 DEF MeldungTrifft
  <2>3. CASE text /\ passt /\ problemSection \in DOMAIN Bestellungen
    <3>1. /\ gemeldet' = gemeldet \cup neu /\ dialog' = "keiner" /\ UNCHANGED vars
      BY <1>6, <2>3 DEF viewProblemAbschicken
    <3> QED BY <1>0, <2>2, <2>3, <3>1, RuhtReihe DEF DInv, DialogNennt
  <2>4. CASE text /\ ~passt /\ problemSection \in DOMAIN Bestellungen
    <3>1. /\ gemeldet' = gemeldet \cup neu \/ gemeldet' = gemeldet
          /\ Trap("index")
          /\ UNCHANGED <<hauptschlange, fremd, dialog, problemSection, gewischt>>
      BY <1>6, <2>4 DEF viewProblemAbschicken
    <3>2. RInv'
      BY <1>0, <3>1, TrapReihe
    <3>3. DialogNennt'
      BY <1>n, <3>1 DEF Trap
    <3> QED BY <2>2, <2>4, <3>1, <3>2, <3>3 DEF DInv
  <2>5. CASE text /\ problemSection \notin DOMAIN Bestellungen
    BY <1>6, <1>t, <2>5 DEF viewProblemAbschicken
  <2>6. CASE ~text
    <3>1. gemeldet' = gemeldet /\ dialog' = "keiner" /\ UNCHANGED vars
      BY <1>6, <2>6 DEF viewProblemAbschicken
    <3> QED BY <1>0, <3>1, RuhtReihe DEF DInv, DialogNennt, MeldungTrifft
  <2> QED BY <2>3, <2>4, <2>5, <2>6
<1>7. ASSUME NEW text \in BOOLEAN, tischUmbuchenTapped(text)
      PROVE  DInv'
  <2>1. CASE DialogTrap("pfad")
    BY <1>t, <2>1
  <2>2. CASE /\ gemeldet' = gemeldet /\ dialog' = "keiner" /\ UNCHANGED vars
    BY <1>0, <2>2, RuhtReihe DEF DInv, DialogNennt, MeldungTrifft
  <2>3. CASE UNCHANGED alleVars
    <3>1. UNCHANGED vars /\ UNCHANGED <<dialog, problemSection, gewischt, gemeldet>>
      BY <2>3 DEF alleVars, dialogVars
    <3> QED BY <1>0, <1>n, <3>1, RuhtReihe DEF DInv, MeldungTrifft, vars, listeVars
  <2> QED BY <1>7, <2>1, <2>2, <2>3 DEF tischUmbuchenTapped
<1>8. CASE DialogNeustart
  <2>1. RInv'
    BY <1>0, <1>8, ReiheSchritt DEF DialogNeustart, Next
  <2> QED BY <1>0, <1>8, <2>1 DEF DialogNeustart, DInv, DialogNennt, MeldungTrifft
<1>9. CASE UNCHANGED alleVars
  <2>1. UNCHANGED vars /\ UNCHANGED <<dialog, problemSection, gewischt, gemeldet>>
    BY <1>9 DEF alleVars, dialogVars
  <2> QED BY <1>0, <1>n, <2>1, RuhtReihe DEF DInv, MeldungTrifft, vars, listeVars
<1> QED BY <1>1, <1>2, <1>3, <1>4, <1>5, <1>6, <1>7, <1>8, <1>9 DEF DialogNext

\* A report names the order whose row was swiped, for any orders and however
\* the sections were emptied and rebuilt under the dialog: it is sent by the
\* number of the section (KellnerVC.swift 569).
THEOREM MeldungGeltend == DialogSpec => []MeldungTrifft
<1>1. DialogInit => DInv
  BY ReiheStart DEF DialogInit, DInv, DialogNennt, MeldungTrifft
<1>2. DInv => MeldungTrifft
  BY DEF DInv
<1> QED BY <1>1, <1>2, DInvSchritt, PTL DEF DialogSpec
===============================================================================
