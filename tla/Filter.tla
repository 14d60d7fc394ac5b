------------------------------- MODULE Filter --------------------------------
(***************************************************************************)
(* The tab that filters accepted orders by category (DetailKatVC.swift,    *)
(* FilterCell.swift).                                                      *)
(*                                                                         *)
(* The menu's categories are read once; the user ticks some of them.  An   *)
(* observer of the waiter's orders asks for the record of every accepted   *)
(* one, and of that record the ticked categories are kept.  Every refresh  *)
(* and every tap on "Filtern" adds an observer; none is removed.           *)
(***************************************************************************)
EXTENDS Naturals, Sequences, FiniteSets, SequencesExt

CONSTANTS
  ID,           (* orders                                                  *)
  Karte,        (* categories of the menu                                  *)
  Alt,          (* a category that is no longer on the menu                *)
  Sauber,       (* orders whose record has all the fold unwraps, whichever *)
                (* of its categories are ticked: no field is missing,      *)
                (* every item has extras, the first item of a further      *)
                (* subcategory one (module Ladevorgang)                    *)
  MaxFiltern,   (* bound: taps on "Filtern"                                *)
  MaxReload     (* bound: refreshes                                        *)

ASSUME KarteAnnahme == Alt \notin Karte /\ IsFiniteSet(ID)
ASSUME SauberAnnahme == Sauber \subseteq ID
ASSUME MaxAnnahme == {MaxFiltern, MaxReload} \subseteq Nat

VARIABLES
  bestellt,     (* per order the categories of its record                  *)
  status,       (* per order its status for this waiter                    *)
  karteDa,      (* the answer of getKategorien is in                       *)
  DropDownKats, (* categories ticked                                       *)
  isOpen,       (* the list of categories and the button are shown         *)
  beobachter,   (* observers of the waiter's orders                        *)
  ereignisse,   (* childAdded events on the main queue                     *)
  gefragt,      (* per order the requests for its record under way         *)
  IDfilter,     (* per order seen the value that selects it                *)
  kategorien,   (* BestellungKategorien: per order the categories kept     *)
  Bestellungen, (* orders in the list                                      *)
  unsauber,     (* ticked categories of a record that is not of the kind   *)
                (* Sauber were folded; extrasString may hold a rest        *)
  absturz,      (* a trap has ended the process                            *)
  erwartet,     (* history: per order the categories that the last refresh *)
                (* or "Filtern" was to gather, while the ticks are the same*)
  gefiltert, neugeladen     (* the bounded steps so far                    *)

dbVars == <<bestellt, status>>
menueVars == <<karteDa, DropDownKats, isOpen>>
listeVars == <<IDfilter, kategorien, Bestellungen, unsauber>>
vars == <<dbVars, menueVars, beobachter, ereignisse, gefragt, listeVars,
          absturz, erwartet, gefiltert, neugeladen>>

Stand == {"keine", "versendet", "angenommen", "fertig"}
Kategorie == Karte \cup {Alt}

TypeOK ==
  /\ bestellt \in [ID -> SUBSET Kategorie]
  /\ status \in [ID -> Stand]
  /\ karteDa \in BOOLEAN /\ DropDownKats \subseteq Karte /\ isOpen \in BOOLEAN
  /\ beobachter \in 1..(1 + MaxFiltern + MaxReload)
  /\ ereignisse \in Seq([id: ID, status: Stand])
  /\ gefragt \in [ID -> Nat]
  /\ DOMAIN IDfilter \subseteq ID
  /\ DOMAIN kategorien \subseteq ID
  /\ \A id \in DOMAIN kategorien : kategorien[id] \in Seq(DropDownKats \cup Karte)
  /\ Bestellungen \subseteq ID
  /\ unsauber \in BOOLEAN /\ absturz \in BOOLEAN
  /\ erwartet \in [ID -> SUBSET Karte]
  /\ gefiltert \in 0..MaxFiltern /\ neugeladen \in 0..MaxReload

\* A dictionary with the value v for the key k.
Eintragen(f, k, v) ==
  [x \in DOMAIN f \cup {k} |-> IF x = k THEN v ELSE f[x]]

\* childAdded events for what is in the database: one per order.
Vorhandene(st) ==
  LET da == SetToSeq({id \in ID : st[id] # "keine"})
  IN [n \in DOMAIN da |-> [id |-> da[n], status |-> st[da[n]]]]

\* Nothing ticked was to be gathered.
Nichts == [id \in ID |-> {}]

\* viewDidLoad: the menu is asked for and the first observer registered.
Init ==
  /\ bestellt \in [ID -> (SUBSET Kategorie) \ {{}}]
  /\ status \in [ID -> {"keine", "versendet", "angenommen"}]
  /\ karteDa = FALSE /\ DropDownKats = {} /\ isOpen = FALSE
  /\ beobachter = 1
  /\ ereignisse = Vorhandene(status)
  /\ gefragt = [id \in ID |-> 0]
  /\ IDfilter = <<>> /\ kategorien = <<>> /\ Bestellungen = {}
  /\ unsauber = FALSE /\ absturz = FALSE
  /\ erwartet = Nichts
  /\ gefiltert = 0 /\ neugeladen = 0

(***************************************************************************)
(* The database.                                                           *)
(***************************************************************************)

\* The orders change their status on any device, a finished one may be
\* taken back (see Lebenszyklus).  Only a new one is told.
Fortschritt(id, neu) ==
  /\ <<status[id], neu>> \in {<<"keine", "versendet">>,
                              <<"versendet", "angenommen">>,
                              <<"angenommen", "fertig">>,
                              <<"fertig", "angenommen">>}
  /\ status' = [status EXCEPT ![id] = neu]
  /\ ereignisse' = IF status[id] # "keine" THEN ereignisse
                   ELSE ereignisse \o [n \in 1..beobachter |->
                                         [id |-> id, status |-> neu]]
  /\ UNCHANGED <<bestellt, menueVars, beobachter, gefragt, listeVars, absturz,
                 erwartet, gefiltert, neugeladen>>

\* The answer for the menu: nothing is ticked.
getKategorien ==
  /\ ~absturz /\ ~karteDa
  /\ karteDa' = TRUE
  /\ DropDownKats' = {}
  /\ erwartet' = Nichts
  /\ UNCHANGED <<dbVars, isOpen, beobachter, ereignisse, gefragt, listeVars,
                 absturz, gefiltert, neugeladen>>

Angenommen(s) == s = "angenommen"

\* Slip: an order noted before is not asked for again.
KeyEreignisEinmal ==
  /\ ~absturz /\ ereignisse # <<>>
  /\ ereignisse' = Tail(ereignisse)
  /\ LET e == Head(ereignisse)
     IN \/ /\ Angenommen(e.status) /\ e.id \notin DOMAIN IDfilter
           /\ IDfilter' = Eintragen(IDfilter, e.id, FALSE)
           /\ gefragt' = [gefragt EXCEPT ![e.id] = @ + 1]
        \/ /\ ~Angenommen(e.status) \/ e.id \in DOMAIN IDfilter
           /\ UNCHANGED <<IDfilter, gefragt>>
  /\ UNCHANGED <<dbVars, menueVars, beobachter, kategorien, Bestellungen,
                 unsauber, absturz, erwartet, gefiltert, neugeladen>>

\* The closure of loadBestellungenKeys.  An accepted order is noted, with
\* FALSE each time, and its record is asked for.
KeyEreignis ==
  /\ ~absturz /\ ereignisse # <<>>
  /\ ereignisse' = Tail(ereignisse)
  /\ LET e == Head(ereignisse)
     IN \/ /\ Angenommen(e.status)
           /\ IDfilter' = Eintragen(IDfilter, e.id, FALSE)
           /\ gefragt' = [gefragt EXCEPT ![e.id] = @ + 1]
        \/ /\ ~Angenommen(e.status)
           /\ UNCHANGED <<IDfilter, gefragt>>
  /\ UNCHANGED <<dbVars, menueVars, beobachter, kategorien, Bestellungen,
                 unsauber, absturz, erwartet, gefiltert, neugeladen>>

\* Slip: only ticked categories have an entry.
UnbekannteUnbesehen(kats) == kats \ DropDownKats

\* Categories of a record that DropDownKats has no entry for.
Unbekannte(kats) == IF karteDa THEN kats \ Karte ELSE kats

\* Slip: both branches are taken.
AngekreuzteDoppelt(kats) ==
  SetToSeq(kats \cap DropDownKats) \o SetToSeq(kats \cap DropDownKats)

\* Categories of a record that are ticked when it arrives.
Angekreuzte(kats) == SetToSeq(kats \cap DropDownKats)

\* The fold may trap on the record: it lacks what a force-unwrap needs, or
\* extras are folded on top of a rest of another record's.
heikel(id) ==
  id \notin Sauber \/ (unsauber /\ Angekreuzte(bestellt[id]) # <<>>)

\* The closure of loadBestellungen; records answer in any order.  The
\* ticked categories are added to those kept for the order; an unknown one
\* traps, and the fold itself may.  Then the list is built from the
\* selected orders if there are as many as orders kept.
loadBestellungen(id) ==
  /\ ~absturz /\ gefragt[id] > 0
  /\ gefragt' = [gefragt EXCEPT ![id] = @ - 1]
  /\ LET neue == Angekreuzte(bestellt[id])
         gewaehlt == {i \in DOMAIN IDfilter : IDfilter[i]}
     IN \/ /\ Unbekannte(bestellt[id]) # {} \/ heikel(id)
           /\ absturz' = TRUE
           /\ UNCHANGED <<kategorien, Bestellungen, unsauber>>
        \/ /\ Unbekannte(bestellt[id]) = {}
           /\ kategorien' =
                IF neue = <<>> THEN kategorien
                ELSE Eintragen(kategorien, id,
                               IF id \in DOMAIN kategorien
                               THEN kategorien[id] \o neue ELSE neue)
           /\ Bestellungen' =
                IF Cardinality(gewaehlt) = Cardinality(DOMAIN kategorien')
                THEN gewaehlt ELSE {}
           /\ unsauber' = (unsauber \/ (neue # <<>> /\ id \notin Sauber))
           /\ UNCHANGED absturz
  /\ UNCHANGED <<dbVars, menueVars, beobachter, ereignisse, IDfilter,
                 erwartet, gefiltert, neugeladen>>

(***************************************************************************)
(* The user.                                                               *)
(***************************************************************************)

\* loadBestellungenKeys: one more observer, told of every order there is.
\* The ticked categories of the accepted ones are to be gathered.
loadBestellungenKeys ==
  /\ beobachter' = beobachter + 1
  /\ ereignisse' = ereignisse \o Vorhandene(status)
  /\ erwartet' = [id \in ID |-> IF Angenommen(status[id])
                               THEN bestellt[id] \cap DropDownKats ELSE {}]

\* A touch on "Bereich": the categories and the button "Filtern" appear.
BereichTapped ==
  /\ ~absturz
  /\ isOpen' = TRUE
  /\ UNCHANGED <<dbVars, karteDa, DropDownKats, beobachter, ereignisse,
                 gefragt, listeVars, absturz, erwartet, gefiltert, neugeladen>>

\* A tick: the cell's dictionary goes to the list, its button and the page,
\* and all cells are drawn from it again.
CheckFilterTapped(k) ==
  /\ ~absturz /\ isOpen /\ karteDa
  /\ DropDownKats' = IF k \in DropDownKats THEN DropDownKats \ {k}
                     ELSE DropDownKats \cup {k}
  /\ erwartet' = Nichts
  /\ UNCHANGED <<dbVars, karteDa, isOpen, beobachter, ereignisse, gefragt,
                 listeVars, absturz, gefiltert, neugeladen>>

\* "Filtern": the orders are loaded again on top of what is kept.
FilternBtnTapped ==
  /\ ~absturz /\ isOpen
  /\ gefiltert < MaxFiltern
  /\ gefiltert' = gefiltert + 1
  /\ loadBestellungenKeys
  /\ isOpen' = FALSE
  /\ UNCHANGED <<dbVars, karteDa, DropDownKats, gefragt, listeVars, absturz,
                 neugeladen>>

\* Pull to refresh: what is kept is dropped, but for IDfilter.
reload ==
  /\ ~absturz
  /\ neugeladen < MaxReload
  /\ neugeladen' = neugeladen + 1
  /\ kategorien' = <<>>
  /\ Bestellungen' = {}
  /\ loadBestellungenKeys
  /\ UNCHANGED <<dbVars, menueVars, gefragt, IDfilter, unsauber, absturz,
                 gefiltert>>

Next ==
  \/ \E id \in ID, s \in Stand : Fortschritt(id, s)
  \/ getKategorien \/ KeyEreignis
  \/ \E id \in ID : loadBestellungen(id)
  \/ BereichTapped \/ FilternBtnTapped \/ reload
  \/ \E k \in Karte : CheckFilterTapped(k)

Spec == Init /\ [][Next]_vars

(***************************************************************************)
(* Properties.                                                             *)
(***************************************************************************)

Anzahl(s, k) == Cardinality({n \in DOMAIN s : s[n] = k})

\* A refresh or a tap on "Filtern" gathers what was ticked: of every order
\* that was accepted then, the ticked categories are kept, or its record is
\* still asked for, or its event is still to come.  That holds however the
\* answers to older requests arrive in between, for orders noted before or
\* not, and though a refresh drops what is kept; until a tick changes.
AngekreuztesKommt ==
  ~absturz =>
    \A id \in ID : erwartet[id] # {} =>
      \/ id \in DOMAIN kategorien /\ erwartet[id] \subseteq ToSet(kategorien[id])
      \/ gefragt[id] > 0
      \/ [id |-> id, status |-> "angenommen"] \in ToSet(ereignisse)

\* In whatever order events and answers arrive, only orders that were
\* accepted are kept, and a category is kept for an order at most once per
\* observer: once before the first refresh or "Filtern", and after it as
\* often as there are observers, since nothing is dropped first.
HoechstensJeBeobachter ==
  \A id \in DOMAIN kategorien :
    /\ status[id] \in {"angenommen", "fertig"}
    /\ \A k \in Karte : Anzahl(kategorien[id], k) <= beobachter

\* The process ends only by an order that was noted as accepted: one that
\* is read before the menu, one with a category the menu has not, or one
\* whose record is not of the kind the fold is made for, or left extras
\* behind.  An order that was never accepted ends nothing, whatever its
\* record holds.
AbsturzErklaert ==
  absturz => \E id \in DOMAIN IDfilter :
               ~karteDa \/ Alt \in bestellt[id] \/ id \notin Sauber
=============================================================================
