---------------------- MODULE KellnerAngenommenVC_proofs ----------------------
(***************************************************************************)
(* Proofs about the list of accepted orders, for any set of orders and any *)
(* number of reloads and launches: its types, that every drawn row has its *)
(* section, and that the newest sections are the noted orders.             *)
(***************************************************************************)
EXTENDS KellnerAngenommenVC, Bestellliste_proofs

(***************************************************************************)
(* The type invariant.                                                     *)
(***************************************************************************)

\* The end of the closure of loadBestellungen keeps the types.
LEMMA AbschlussTyp ==
  ASSUME TypeOK, NEW k \in [ID -> Nat], NEW l \in SUBSET ID, Abschluss(k, l)
  PROVE  /\ kopien' \in [ID -> Nat]
         /\ luecken' \subseteq ID
         /\ Bestellungen' \in Seq(Abschnitt)
         /\ tafel' \in Seq(Abschnitt)
         /\ absturz' \in {"keiner", "nil", "index", "tabelle", "pfad"}
<1>1. Bestellungen \o Abschnitte(bestellungIDs, k) \in Seq(Abschnitt)
  BY AbschnitteTyp DEF TypeOK
<1> QED BY <1>1 DEF TypeOK, Abschluss

\* A reload keeps the types.
LEMMA TypReload ==
  ASSUME TypeOK, NEW st, reload(st), status' \in [ID -> Status \cup {"keine"}]
  PROVE  TypeOK'
<1>1. /\ registrierungen' \in 1..(MaxReload + 1)
      /\ hauptschlange' \in Seq(Block)
  BY BeobachterTyp DEF reload
<1>2. /\ bestellungIDs' \in Seq(ID)
      /\ Bestellungen' \in Seq(Abschnitt)
      /\ tafel' \in Seq(Abschnitt)
  BY DEF reload
<1>3. kopien' \in [ID -> Nat]
  BY DEF reload
<1> QED BY <1>1, <1>2, <1>3 DEF reload, TypeOK, Block

\* The closure of a child-added event keeps the types.
LEMMA TypSchluessel ==
  ASSUME TypeOK, schluesselGemeldet
  PROVE  TypeOK'
<1> PICK p \in Schluessel :
      /\ NaechsterSchluessel(p)
      /\ \/ /\ p[3] = "angenommen"
            /\ bestellungIDs' = Append(bestellungIDs, p[1])
            /\ loadBestellungen(p[1])
         \/ /\ p[3] # "angenommen"
            /\ UNCHANGED <<bestellungIDs, Bestellungen, unterwegs>>
      /\ UNCHANGED <<status, verbunden, registrierungen, kopien, luecken,
                     unsauber, tafel, fremd, absturz, neustarts>>
  BY DEF schluesselGemeldet
<1>1. hauptschlange' \in Seq(Block)
  BY SchluesselTyp
<1>2. p[1] \in ID
  BY DEF Schluessel
<1>3. /\ bestellungIDs' \in Seq(ID)
      /\ Bestellungen' = Bestellungen
      /\ unterwegs' \in [ID -> Seq(1..(MaxReload + 1))]
  <2>1. CASE p[3] = "angenommen"
    <3>1. Bestellungen' = Bestellungen /\ observeSingleEvent(p[1])
      BY <2>1 DEF loadBestellungen
    <3>2. unterwegs' \in [ID -> Seq(1..(MaxReload + 1))]
      BY <1>2, <3>1, EinzelTyp
    <3>3. bestellungIDs \in Seq(ID) /\ bestellungIDs' = Append(bestellungIDs, p[1])
      BY <2>1 DEF TypeOK
    <3>4. bestellungIDs' \in Seq(ID)
      BY <1>2, <3>3, FolgeAnhang
    <3> QED BY <3>1, <3>2, <3>4
  <2>2. CASE p[3] # "angenommen"
    BY <2>2 DEF TypeOK
  <2> QED BY <2>1, <2>2
<1> QED BY <1>1, <1>3 DEF TypeOK, Block

\* The closure of a record keeps them.
LEMMA TypGeladen ==
  ASSUME TypeOK, bestellungGeladen
  PROVE  TypeOK'
<1> PICK b \in OrderBlock :
      /\ NaechsteAntwort(b)
      /\ fremd' = (fremd \/ b.aera # registrierungen)
      /\ unsauber' = (unsauber \/ b.id \notin Leer \cup Sauber)
      /\ \/ \E l \in lueckenNach(b.id) : Abschluss(gefaltet(b.id), l)
         \/ FaltungTrap(b.id)
      /\ UNCHANGED <<status, verbunden, registrierungen, unterwegs,
                     bestellungIDs, neustarts>>
  BY DEF bestellungGeladen
<1>1. hauptschlange' \in Seq(Block)
  BY DEF NaechsteAntwort, TypeOK, Block
<1>2. b.id \in ID /\ gefaltet(b.id) \in [ID -> Nat]
  BY GefaltetTyp DEF OrderBlock
<1>3. fremd' \in BOOLEAN /\ unsauber' \in BOOLEAN
  BY DEF TypeOK
<1>4. /\ kopien' \in [ID -> Nat]
      /\ luecken' \subseteq ID
      /\ Bestellungen' \in Seq(Abschnitt)
      /\ tafel' \in Seq(Abschnitt)
      /\ absturz' \in {"keiner", "nil", "index", "tabelle", "pfad"}
  <2>1. ASSUME NEW l \in lueckenNach(b.id), Abschluss(gefaltet(b.id), l)
        PROVE  <1>4
    <3>1. l \in SUBSET ID
      BY <1>2, LueckenTyp
    <3> QED BY <1>2, <2>1, <3>1, AbschlussTyp
  <2>2. CASE FaltungTrap(b.id)
    BY <1>2, <2>2 DEF FaltungTrap, TypeOK
  <2> QED BY <2>1, <2>2
<1> QED BY <1>1, <1>3, <1>4 DEF TypeOK, Block

\* What a tap on a header leaves of rows and sections: they are redrawn as
\* they are, each with the key and the copies it had.
LEMMA Klappen ==
  ASSUME TypeOK, NEW i \in DOMAIN tafel, toggleSection(i),
         Len(tafel) = Len(Bestellungen)
  PROVE  /\ Bestellungen' \in Seq(Abschnitt) /\ tafel' = Bestellungen'
         /\ Len(Bestellungen') = Len(Bestellungen)
         /\ \A j \in 1..Len(Bestellungen) :
              /\ Bestellungen'[j].BestellungID = Bestellungen[j].BestellungID
              /\ Bestellungen'[j].kopien = Bestellungen[j].kopien
<1> DEFINE neu == [j \in DOMAIN Bestellungen |->
             [Bestellungen[j] EXCEPT !.expanded = j = i /\ ~@]]
<1>1. Bestellungen' = neu /\ tafel' = neu
  BY DEF toggleSection
<1>2. DOMAIN Bestellungen = 1..Len(Bestellungen) /\ Len(Bestellungen) \in Nat
  BY DEF TypeOK
<1>3. \A j \in 1..Len(Bestellungen) : Bestellungen[j] \in Abschnitt
  BY FolgeElement DEF TypeOK
<1>4. \A j \in 1..Len(Bestellungen) :
        /\ neu[j] \in Abschnitt
        /\ neu[j].BestellungID = Bestellungen[j].BestellungID
        /\ neu[j].kopien = Bestellungen[j].kopien
  BY <1>2, <1>3 DEF Abschnitt
<1>5. neu \in Seq(Abschnitt) /\ Len(neu) = Len(Bestellungen)
  BY <1>2, <1>4
<1> HIDE DEF neu
<1> QED BY <1>1, <1>4, <1>5

\* Every step keeps the types.
LEMMA TypSchritt == TypeOK /\ [Next]_vars => TypeOK'
<1> SUFFICES ASSUME TypeOK, [Next]_vars PROVE TypeOK'
  OBVIOUS
<1>1. CASE refreshOptions
  BY <1>1, TypReload DEF refreshOptions, TypeOK
<1>2. ASSUME NEW i \in DOMAIN tafel, annehmen(i)
      PROVE  TypeOK'
  <2>1. removeBestellung2(Bestellungen[i].BestellungID) /\ reload(status')
    BY <1>2 DEF annehmen
  <2>2. status' \in [ID -> Status \cup {"keine"}]
    BY <2>1, FertigAnnahme DEF removeBestellung2, TypeOK
  <2> QED BY <2>1, <2>2, TypReload
<1>3. ASSUME NEW i \in DOMAIN tafel, toggleSection(i)
      PROVE  TypeOK'
  <2>1. CASE Len(tafel) = Len(Bestellungen)
    <3>1. Bestellungen' \in Seq(Abschnitt) /\ tafel' \in Seq(Abschnitt)
      BY <1>3, <2>1, Klappen
    <3>2. UNCHANGED <<clientVars, bestellungIDs, kopien, luecken, unsauber,
                      fremd, absturz, neustarts>>
      BY <1>3, <2>1 DEF toggleSection
    <3> QED BY <3>1, <3>2 DEF TypeOK, clientVars
  <2>2. CASE Len(tafel) # Len(Bestellungen)
    BY <1>3, <2>2, TypTrap DEF toggleSection
  <2> QED BY <2>1, <2>2
<1>4. CASE UNCHANGED vars
  BY <1>4 DEF vars, clientVars, listeVars, TypeOK
<1> QED BY <1>1, <1>2, <1>3, <1>4, TypNeustart, TypUmgebung, TypSchluessel,
           TypGeladen DEF Next

\* The variables of the list of accepted orders keep their types.
THEOREM TypKorrekt == Spec => []TypeOK
BY TypStart, TypSchritt, PTL DEF Spec

(***************************************************************************)
(* Rows.                                                                   *)
(***************************************************************************)

\* Sections only grow until the next reload, so the property carries over
\* with the types.
GInv == TypeOK /\ TafelGedeckt

\* An empty table is covered.
LEMMA LeerGedeckt ==
  ASSUME TypeOK', tafel' = <<>>
  PROVE  TafelGedeckt'
BY DEF TafelGedeckt, TypeOK

\* A table just drawn is covered.
LEMMA GleichGedeckt ==
  ASSUME TypeOK', tafel' = Bestellungen'
  PROVE  TafelGedeckt'
BY DEF TafelGedeckt, TypeOK

\* The completion redraws, or appends behind the sections that are there.
LEMMA AbschlussGedeckt ==
  ASSUME GInv, TypeOK', NEW k \in [ID -> Nat], NEW l, Abschluss(k, l)
  PROVE  TafelGedeckt'
<1> DEFINE neu == Abschnitte(bestellungIDs, k)
<1>1. Bestellungen \in Seq(Abschnitt) /\ tafel \in Seq(Abschnitt) /\ TafelGedeckt
  BY DEF GInv, TypeOK
<1>2. neu \in Seq(Abschnitt)
  BY AbschnitteTyp DEF GInv, TypeOK
<1> HIDE DEF neu
<1>3. CASE UNCHANGED <<Bestellungen, tafel>>
  BY <1>1, <1>3 DEF TafelGedeckt
<1>4. CASE tafel' = Bestellungen'
  BY <1>4, GleichGedeckt
<1>5. CASE Bestellungen' = Bestellungen \o neu /\ tafel' = tafel
  <2>1. /\ Len(Bestellungen') >= Len(Bestellungen)
        /\ \A i \in 1..Len(Bestellungen) : Bestellungen'[i] = Bestellungen[i]
    BY <1>1, <1>2, <1>5
  <2>2. Len(Bestellungen) \in Nat /\ Len(Bestellungen') \in Nat /\ Len(tafel) \in Nat
        /\ DOMAIN tafel = 1..Len(tafel)
    BY <1>1, <1>2, <1>5
  <2> QED BY <1>1, <1>5, <2>1, <2>2 DEF TafelGedeckt
<1> QED BY <1>3, <1>4, <1>5 DEF Abschluss, neu

\* Every step keeps the rows covered.
LEMMA GInvSchritt == GInv /\ [Next]_vars => GInv'
<1> SUFFICES ASSUME GInv, [Next]_vars PROVE TafelGedeckt'
  BY TypSchritt DEF GInv
<1>0. TypeOK /\ TypeOK' /\ TafelGedeckt
  BY TypSchritt DEF GInv
<1>b. ASSUME UNCHANGED <<Bestellungen, tafel>> PROVE TafelGedeckt'
  BY <1>0, <1>b DEF TafelGedeckt
<1>1. CASE Umgebung
  BY <1>1, <1>b DEF Umgebung, ErsteDaten, Antwort, NeueBestellung,
                    FremdeAenderung, listeVars
<1>2. CASE Neustart
  BY <1>0, <1>2, LeerGedeckt DEF Neustart
<1>3. CASE schluesselGemeldet
  BY <1>3, <1>b DEF schluesselGemeldet, loadBestellungen
<1>4. CASE bestellungGeladen
  <2>1. PICK b \in OrderBlock :
          \/ \E l \in lueckenNach(b.id) : Abschluss(gefaltet(b.id), l)
          \/ FaltungTrap(b.id)
    BY <1>4 DEF bestellungGeladen
  <2>2. gefaltet(b.id) \in [ID -> Nat]
    BY <1>0, GefaltetTyp DEF OrderBlock
  <2>3. ASSUME NEW l, Abschluss(gefaltet(b.id), l)
        PROVE  TafelGedeckt'
    BY <1>0, <2>2, <2>3, AbschlussGedeckt
  <2>4. CASE FaltungTrap(b.id)
    BY <1>b, <2>4 DEF FaltungTrap
  <2> QED BY <2>1, <2>3, <2>4
<1>5. CASE refreshOptions
  BY <1>0, <1>5, LeerGedeckt DEF refreshOptions, reload
<1>6. ASSUME NEW i \in DOMAIN tafel, annehmen(i)
      PROVE  TafelGedeckt'
  BY <1>0, <1>6, LeerGedeckt DEF annehmen, reload
<1>7. ASSUME NEW i \in DOMAIN tafel, toggleSection(i)
      PROVE  TafelGedeckt'
  <2>1. tafel' = Bestellungen' \/ UNCHANGED <<Bestellungen, tafel>>
    BY <1>7 DEF toggleSection, Trap
  <2> QED BY <1>0, <1>b, <2>1, GleichGedeckt
<1>8. CASE UNCHANGED vars
  BY <1>8, <1>b DEF vars, listeVars
<1> QED BY <1>1, <1>2, <1>3, <1>4, <1>5, <1>6, <1>7, <1>8 DEF Next

\* No tap and no redraw of this list indexes past the sections or reaches
\* another order than the one drawn, for any orders and any interleaving:
\* unlike KellnerVC, this list never empties its sections under a drawn table
\* (KellnerAngenommenVC.swift 106).
THEOREM GedecktGeltend == Spec => []TafelGedeckt
<1>1. Init => GInv
  BY TypStart DEF Init, GInv, TafelGedeckt
<1>2. GInv => TafelGedeckt
  BY DEF GInv
<1> QED BY <1>1, <1>2, GInvSchritt, PTL DEF Spec

(***************************************************************************)
(* The newest sections.                                                    *)
(***************************************************************************)

\* When as many records are loaded as keys are noted and no nil was met, the
\* last sections are those of the noted keys, with their record folded in
\* once.
Neueste ==
  LET n == Len(bestellungIDs)
      m == Len(Bestellungen)
  IN (absturz # "nil" /\ n > 0 /\ n = Cardinality(geladen(kopien))) =>
       /\ n <= m
       /\ \A i \in 1..n :
            /\ Bestellungen[m - n + i].BestellungID = bestellungIDs[i]
            /\ Bestellungen[m - n + i].kopien = 1

\* Only a record the fold is not made for leaves a nil, in an entry or on
\* the way.
Luecken ==
  /\ ~unsauber => luecken = {}
  /\ ~fremd /\ absturz = "nil" => unsauber

NInv == Konto /\ Luecken /\ (~fremd => Neueste)

\* A step that leaves the list alone keeps the newest sections.
LEMMA NeuesteBleibt ==
  ASSUME NInv,
         UNCHANGED <<bestellungIDs, kopien, luecken, unsauber, Bestellungen, fremd>>,
         absturz' = absturz \/ (laeuft /\ absturz' # "nil")
  PROVE  Luecken' /\ (~fremd' => Neueste')
<1>1. geladen(kopien)' = geladen(kopien)
  BY DEF geladen
<1> QED BY <1>1 DEF NInv, Neueste, Luecken, laeuft

\* With an empty list there is nothing to show.
LEMMA NeuesteLeer ==
  ASSUME bestellungIDs' = <<>>
  PROVE  Neueste'
BY DEF Neueste

\* Noting a key: the counts cannot agree.
LEMMA NeuesteNotiert ==
  ASSUME Konto', ~fremd', NEW id \in ID, Offen(id)' > 0
  PROVE  Neueste'
<1>1. Len(bestellungIDs') # Cardinality(geladen(kopien))'
  BY NichtsOffenDanach
<1> QED BY <1>1 DEF Neueste, geladen

\* A record runs: of an earlier era, it spoils the account (fremd); of this
\* one, it was still missing, and if the counts agree now, all noted keys are
\* loaded and their sections are appended.
LEMMA NInvGeladen ==
  ASSUME NInv, TypeOK', bestellungGeladen
  PROVE  NInv'
<1> PICK b \in OrderBlock :
      /\ NaechsteAntwort(b)
      /\ fremd' = (fremd \/ b.aera # registrierungen)
      /\ unsauber' = (unsauber \/ b.id \notin Leer \cup Sauber)
      /\ \/ \E l \in lueckenNach(b.id) : Abschluss(gefaltet(b.id), l)
         \/ FaltungTrap(b.id)
      /\ UNCHANGED <<status, verbunden, registrierungen, unterwegs,
                     bestellungIDs, neustarts>>
  BY DEF bestellungGeladen
<1> DEFINE k == gefaltet(b.id)
<1>0. Konto /\ TypeOK /\ bestellungIDs \in Seq(ID) /\ absturz # "nil"
      /\ Bestellungen \in Seq(Abschnitt)
  BY DEF NInv, Konto, TypeOK, NaechsteAntwort, laeuft
<1>1. AeraAlt'
  BY <1>0, AntwortAlt
<1>i. b.id \in ID /\ k \in [ID -> Nat]
  BY <1>0, GefaltetTyp DEF OrderBlock
<1>k. kopien' = k
  BY DEF Abschluss, FaltungTrap
<1>u. ~unsauber' => luecken = {} /\ ~heikel(b.id)
  BY DEF NInv, Luecken, heikel
<1>l. ~unsauber' => luecken' = {}
  <2>1. ASSUME ~unsauber', NEW l \in lueckenNach(b.id), luecken' = l
        PROVE  luecken' = {}
    BY <1>0, <1>i, <1>u, <2>1, LueckenTyp
  <2> QED BY <1>u, <2>1 DEF Abschluss, FaltungTrap
<1>2. CASE fremd'
  BY <1>1, <1>2, <1>l DEF Konto, Bilanz, NInv, Luecken
<1>3. CASE ~fremd'
  <2>1. ~fremd /\ b.aera = registrierungen
    BY <1>3
  <2>3. \A id \in ID :
          /\ Offen(id)' \in Nat
          /\ k[id] + Offen(id)' <= Anzahl(bestellungIDs, id)
          /\ id \notin Leer => k[id] + Offen(id)' = Anzahl(bestellungIDs, id)
    BY <1>0, <2>1, KontoGefaltet
  <2> HIDE DEF k
  <2>4. \A id \in ID : k[id] <= Anzahl(bestellungIDs, id)
    <3> SUFFICES ASSUME NEW id \in ID PROVE k[id] <= Anzahl(bestellungIDs, id)
      OBVIOUS
    <3>1. k[id] \in Nat /\ Anzahl(bestellungIDs, id) \in Nat
      BY <1>0, <1>i, KontoTyp
    <3> QED BY <2>3, <3>1
  <2>5. Len(bestellungIDs) = Cardinality(geladen(k)) =>
          \A i \in 1..Len(bestellungIDs) :
            bestellungIDs[i] \in geladen(k) /\ k[bestellungIDs[i]] = 1
    BY <1>0, <1>i, <2>4, Vollstaendig
  <2>7. Konto'
    BY <1>1, <1>k, <2>3 DEF Konto, Bilanz
  <2>8. CASE FaltungTrap(b.id)
    <3>1. absturz' = "nil" /\ heikel(b.id)
      BY <2>8 DEF FaltungTrap
    <3>2. unsauber'
      BY <1>u, <3>1
    <3> QED BY <2>7, <3>1, <3>2 DEF NInv, Luecken, Neueste
  <2>9. ASSUME NEW l \in lueckenNach(b.id), Abschluss(k, l)
        PROVE  Luecken' /\ Neueste'
    <3> DEFINE n == Len(bestellungIDs)
               m == Len(Bestellungen)
               neu == Abschnitte(bestellungIDs, k)
    <3>a. CASE Len(bestellungIDs) # Cardinality(geladen(k))
      <4>1. absturz' = absturz
        BY <2>9, <3>a DEF Abschluss
      <4> QED BY <1>0, <1>k, <1>l, <3>a, <4>1 DEF Luecken, Neueste, geladen
    <3>b. CASE /\ Len(bestellungIDs) = Cardinality(geladen(k))
               /\ ~alleBelegt(k, l)
      <4>1. absturz' = "nil"
        BY <2>9, <3>b DEF Abschluss
      <4>2. unsauber'
        <5> SUFFICES ASSUME ~unsauber' PROVE FALSE
          OBVIOUS
        <5>1. l = {}
          BY <1>0, <1>i, <1>u, <2>9, LueckenTyp
        <5>2. DOMAIN bestellungIDs = 1..Len(bestellungIDs)
          BY <1>0
        <5> QED BY <2>5, <3>b, <5>1, <5>2 DEF alleBelegt
      <4> QED BY <4>1, <4>2 DEF Luecken, Neueste
    <3>c. CASE /\ Len(bestellungIDs) = Cardinality(geladen(k))
               /\ alleBelegt(k, l)
      <4>1. Bestellungen' = Bestellungen \o neu /\ absturz' = absturz
        BY <2>9, <3>c DEF Abschluss
      <4>2. neu \in Seq(Abschnitt) /\ Len(neu) = n
        BY <1>0, <1>i, AbschnitteTyp
      <4>3. \A i \in 1..n : neu[i].BestellungID = bestellungIDs[i] /\ neu[i].kopien = 1
        BY <1>0, <2>5, <3>c, AbschnittFelder
      <4> HIDE DEF neu
      <4>4. Len(Bestellungen') = m + n /\ m \in Nat /\ n \in Nat
        BY <1>0, <4>1, <4>2, Kette
      <4>5. \A i \in 1..n : Bestellungen'[m + i] = neu[i]
        BY <1>0, <4>1, <4>2, Kette
      <4>6. n <= Len(Bestellungen') /\ \A i \in 1..n : Len(Bestellungen') - n + i = m + i
        BY <4>4
      <4>7. \A i \in 1..n :
              /\ Bestellungen'[Len(Bestellungen') - n + i].BestellungID = bestellungIDs[i]
              /\ Bestellungen'[Len(Bestellungen') - n + i].kopien = 1
        BY <4>3, <4>5, <4>6
      <4>8. Neueste'
        BY <4>6, <4>7 DEF Neueste
      <4> QED BY <1>0, <1>l, <4>1, <4>8 DEF Luecken
    <3> QED BY <3>a, <3>b, <3>c
  <2> QED BY <2>7, <2>8, <2>9 DEF NInv, k
<1> QED BY <1>2, <1>3

\* Every step keeps the invariant.
LEMMA NInvSchritt == NInv /\ [Next]_vars => NInv'
<1> SUFFICES ASSUME NInv, [Next]_vars PROVE NInv'
  OBVIOUS
<1>0. Konto /\ TypeOK /\ TypeOK'
  BY TypSchritt DEF NInv, Konto
<1>b. ASSUME UNCHANGED <<registrierungen, hauptschlange, unterwegs,
                         bestellungIDs, kopien, fremd>>
      PROVE  Konto'
  <2>1. {} \in SUBSET Schluessel
    OBVIOUS
  <2> QED BY <1>0, <1>b, <2>1, KontoMelde
<1>r. ASSUME NEW st, reload(st), laeuft PROVE NInv'
  <2>1. Konto'
    BY <1>0, <1>r, KontoReload DEF reload
  <2>2. Neueste' /\ Luecken'
    BY <1>r, NeuesteLeer DEF reload, laeuft, Luecken
  <2> QED BY <2>1, <2>2 DEF NInv
<1>1. CASE Umgebung
  <2>1. UNCHANGED <<bestellungIDs, kopien, luecken, unsauber, Bestellungen,
                    fremd, absturz>>
    BY <1>1 DEF Umgebung, ErsteDaten, Antwort, NeueBestellung,
                FremdeAenderung, listeVars
  <2> QED BY <1>0, <1>1, <2>1, KontoUmgebung, NeuesteBleibt DEF NInv
<1>2. CASE Neustart
  <2>1. Neueste' /\ Luecken'
    BY <1>2, NeuesteLeer DEF Neustart, Luecken
  <2> QED BY <1>0, <1>2, <2>1, KontoNeustart DEF NInv
<1>3. CASE schluesselGemeldet
  <2> PICK p \in Schluessel :
        /\ NaechsterSchluessel(p)
        /\ \/ /\ p[3] = "angenommen"
              /\ bestellungIDs' = Append(bestellungIDs, p[1])
              /\ loadBestellungen(p[1])
           \/ /\ p[3] # "angenommen"
              /\ UNCHANGED <<bestellungIDs, Bestellungen, unterwegs>>
        /\ UNCHANGED <<status, verbunden, registrierungen, kopien, luecken,
                       unsauber, tafel, fremd, absturz, neustarts>>
    BY <1>3 DEF schluesselGemeldet
  <2>1. CASE /\ bestellungIDs' = Append(bestellungIDs, p[1])
             /\ loadBestellungen(p[1])
    <3>1. Konto' /\ Offen(p[1])' > 0
      BY <1>0, <2>1, KontoNotiert DEF loadBestellungen
    <3>2. p[1] \in ID
      BY DEF Schluessel
    <3>3. ~fremd' => Neueste'
      BY <3>1, <3>2, NeuesteNotiert
    <3> QED BY <3>1, <3>3 DEF NInv, Luecken
  <2>2. CASE UNCHANGED <<bestellungIDs, Bestellungen, unterwegs>>
    BY <1>0, <2>2, KontoUebergangen, NeuesteBleibt DEF NInv
  <2> QED BY <2>1, <2>2
<1>4. CASE bestellungGeladen
  BY <1>0, <1>4, NInvGeladen
<1>5. CASE refreshOptions
  BY <1>5, <1>r DEF refreshOptions
<1>6. ASSUME NEW i \in DOMAIN tafel, annehmen(i)
      PROVE  NInv'
  BY <1>6, <1>r DEF annehmen
<1>7. ASSUME NEW i \in DOMAIN tafel, toggleSection(i)
      PROVE  NInv'
  <2>1. CASE Len(tafel) # Len(Bestellungen)
    BY <1>7, <1>b, <2>1, NeuesteBleibt DEF toggleSection, Trap, NInv
  <2>2. CASE Len(tafel) = Len(Bestellungen)
    <3>1. UNCHANGED <<registrierungen, hauptschlange, unterwegs, bestellungIDs,
                      kopien, luecken, unsauber, fremd, absturz>>
      BY <1>7, <2>2 DEF toggleSection, clientVars
    <3>2. /\ Len(Bestellungen') = Len(Bestellungen)
          /\ \A j \in 1..Len(Bestellungen) :
               /\ Bestellungen'[j].BestellungID = Bestellungen[j].BestellungID
               /\ Bestellungen'[j].kopien = Bestellungen[j].kopien
      BY <1>0, <1>7, <2>2, Klappen
    <3>3. geladen(kopien)' = geladen(kopien)
      BY <3>1 DEF geladen
    <3>4. ASSUME Neueste PROVE Neueste'
      <4> DEFINE n == Len(bestellungIDs)
                 m == Len(Bestellungen)
      <4> SUFFICES ASSUME absturz # "nil" /\ n > 0 /\ n = Cardinality(geladen(kopien))
                   PROVE  /\ n <= m
                          /\ \A j \in 1..n :
                               /\ Bestellungen'[m - n + j].BestellungID = bestellungIDs[j]
                               /\ Bestellungen'[m - n + j].kopien = 1
        BY <3>1, <3>2, <3>3 DEF Neueste
      <4>1. /\ n <= m
            /\ \A j \in 1..n :
                 /\ Bestellungen[m - n + j].BestellungID = bestellungIDs[j]
                 /\ Bestellungen[m - n + j].kopien = 1
        BY <3>4 DEF Neueste
      <4>2. \A j \in 1..n : m - n + j \in 1..m
        <5>1. m \in Nat /\ n \in Nat
          BY <1>0 DEF TypeOK
        <5> QED BY <4>1, <5>1
      <4>3. \A j \in 1..n :
              /\ Bestellungen'[m - n + j].BestellungID
                   = Bestellungen[m - n + j].BestellungID
              /\ Bestellungen'[m - n + j].kopien = Bestellungen[m - n + j].kopien
        BY <3>2, <4>2
      <4> QED BY <4>1, <4>3
    <3> QED BY <1>b, <3>1, <3>4 DEF NInv, Luecken
  <2> QED BY <2>1, <2>2
<1>8. CASE UNCHANGED vars
  BY <1>0, <1>8, <1>b, NeuesteBleibt DEF vars, clientVars, listeVars, NInv
<1> QED BY <1>1, <1>2, <1>3, <1>4, <1>5, <1>6, <1>7, <1>8 DEF Next

\* For any orders and any interleaving of events, answers, taps and reloads:
\* unless a record of before a reload landed after it, the force-unwraps of
\* the fold and of the completion loop (KellnerAngenommenVC.swift 501) fail
\* only after a record the fold is not made for, and once the counts agree
\* the newest sections are the noted keys, in order, none twice, each folded
\* in once, whatever the records.
THEOREM NeuesteGeltend == Spec => []NeuesteAbschnitte
<1>1. Init => NInv
  BY KontoStart DEF Init, NInv, Neueste, Luecken
<1>2. ASSUME NInv PROVE NeuesteAbschnitte
  <2> DEFINE n == Len(bestellungIDs)
  <2> SUFFICES ASSUME ~fremd, laeuft, n > 0 /\ n = Cardinality(geladen(kopien))
               PROVE  \A i, j \in 1..n : bestellungIDs[i] = bestellungIDs[j] => i = j
    BY <1>2 DEF NeuesteAbschnitte, NInv, Neueste, Luecken, laeuft
  <2>1. Konto /\ bestellungIDs \in Seq(ID) /\ kopien \in [ID -> Nat]
    BY <1>2 DEF NInv, Konto, TypeOK
  <2> QED BY <2>1, NieZuviel, Vollstaendig
<1> QED BY <1>1, <1>2, NInvSchritt, PTL DEF Spec
===============================================================================
