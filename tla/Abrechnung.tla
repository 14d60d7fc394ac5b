----------------------------- MODULE Abrechnung -----------------------------
(***************************************************************************)
(* The bill (FertiggestelltVC.swift): finished orders are merged into one  *)
(* section per table; the waiter moves items of one table to the payment   *)
(* list on the right, by row or all at once, and back.                     *)
(*                                                                         *)
(* Orders reach the view as in KellnerAngenommenVC, which has the same     *)
(* closures but for the Status: an observer reports the keys of finished   *)
(* orders, with the table of the index; every key asks for its record,     *)
(* which brings the table again and the items; a reload forgets what was   *)
(* loaded, but neither the observers nor the requests on their way.  The   *)
(* order of the answers is left open.                                      *)
(*                                                                         *)
(* Sections and rows are numbered from 1.  A section keeps the amounts to  *)
(* be paid in a dictionary with one key, the number the section had among  *)
(* the tables when it was built; every reader uses the number the section  *)
(* has in the list.                                                        *)
(***************************************************************************)
EXTENDS Integers, Sequences, FiniteSets, SequencesExt

CONSTANTS
  Auftrag,   (* finished orders                                            *)
  Tische,    (* table numbers                                              *)
  Menge,     (* the amounts of the items of every order                    *)
  MaxReload, (* bound: reloads                                             *)
  MaxGriffe  (* bound: taps and searches                                   *)

ASSUME GrenzenAnnahme == MaxReload \in Nat /\ MaxGriffe \in Nat
ASSUME AuftragAnnahme ==
  /\ IsFiniteSet(Auftrag)
  /\ "" \notin Tische
  /\ \A a \in Auftrag : Menge[a] \in Seq(Nat \ {0}) /\ Menge[a] # <<>>

VARIABLES
  TischIndex,            (* the table of every order in userBestellungen   *)
  registrierungen,       (* observers of userBestellungen                  *)
  gemeldet,              (* orders each of them has reported               *)
  unterwegs,             (* records asked for since the last reload        *)
  veraltet,              (* records asked for before it, not here yet      *)
  bestellungIDs,         (* keys noted since the last reload               *)
  TischnummerIDs,        (* tables noted; never emptied                    *)
  Tischnummer,           (* the table of every record loaded; "" is nil    *)
  BestellungItemsMengen, (* the amounts of its items; <<>> is nil          *)
  Bestellungen,          (* orders the completions appended                *)
  BestellungenFertig,    (* the sections of the list on the left           *)
  BestellungenBezahlen,  (* the table on the right, or empty               *)
  tischnummerBezahlen,   (* its number                                     *)
  trueSection,           (* the section it was last found in               *)
  absturz,               (* "keiner", "nil", "index" or "laden"            *)
  fremd,                 (* history: a record asked for before the last    *)
                         (* reload has landed after it                     *)
  aufgebaut,             (* history: merges at all, counted to 2           *)
  griffe                 (* taps and searches, for MaxGriffe               *)

meldeVars == <<TischIndex, registrierungen, gemeldet>>
ladeVars == <<unterwegs, veraltet, bestellungIDs, TischnummerIDs, Tischnummer,
              BestellungItemsMengen, Bestellungen, fremd, aufgebaut>>
zahlVars == <<BestellungenBezahlen, tischnummerBezahlen, trueSection>>
vars == <<meldeVars, ladeVars, BestellungenFertig, zahlVars, absturz, griffe>>

laeuft == absturz = "keiner"

Griff == griffe < MaxGriffe /\ griffe' = griffe + 1

Nirgends == [a \in Auftrag |-> 0]

Init ==
  /\ TischIndex \in [Auftrag -> Tische]
  /\ registrierungen = 1
  /\ gemeldet = {}
  /\ unterwegs = Nirgends
  /\ veraltet = Nirgends
  /\ bestellungIDs = <<>>
  /\ TischnummerIDs = {}
  /\ Tischnummer = [a \in Auftrag |-> ""]
  /\ BestellungItemsMengen = [a \in Auftrag |-> <<>>]
  /\ Bestellungen = <<>>
  /\ BestellungenFertig = <<>>
  /\ BestellungenBezahlen = <<>>
  /\ tischnummerBezahlen = ""
  /\ trueSection = 1
  /\ absturz = "keiner"
  /\ fremd = FALSE
  /\ aufgebaut = 0
  /\ griffe = 0

(***************************************************************************)
(* Loading and merging.                                                    *)
(***************************************************************************)

\* loadBestellungenKeys: observer r reports the finished order a.  Its key
\* and the table of the index are noted and its record is asked for.
schluesselGemeldet(a, r) ==
  /\ laeuft
  /\ <<a, r>> \notin gemeldet
  /\ gemeldet' = gemeldet \cup {<<a, r>>}
  /\ bestellungIDs' = Append(bestellungIDs, a)
  /\ TischnummerIDs' = TischnummerIDs \cup {TischIndex[a]}
  /\ unterwegs' = [unterwegs EXCEPT ![a] = @ + 1]
  /\ UNCHANGED <<TischIndex, registrierungen, veraltet, Tischnummer,
                 BestellungItemsMengen, Bestellungen, fremd, aufgebaut,
                 BestellungenFertig, zahlVars, absturz, griffe>>

\* The amounts of all items of table t in the sections b, in their order.
AlleMengen(t, b) ==
  LET bis[n \in 0..Len(b)] ==
        IF n = 0 THEN <<>>
        ELSE IF b[n].Tischnummer = t THEN bis[n - 1] \o b[n].menge ELSE bis[n - 1]
  IN bis[Len(b)]

\* Slip: the number of the section is raised before it is used.
AbschnittVersetzt(t, n, b) ==
  LET m == AlleMengen(t, b)
  IN [Tischnummer |-> t, menge |-> m, expanded |-> FALSE,
      bezahltMenge |-> [s \in {x \in {n + 1} : m # <<>>} |-> [r \in DOMAIN m |-> 0]]]

\* The section built for table t as the n-th of this merge.  A table none
\* of whose orders is left has no entry at all.
Abschnitt(t, n, b) ==
  LET m == AlleMengen(t, b)
  IN [Tischnummer |-> t, menge |-> m, expanded |-> FALSE,
      bezahltMenge |-> [s \in {x \in {n} : m # <<>>} |-> [r \in DOMAIN m |-> 0]]]

\* BestellungenZusammenführen: the tables come in the order of a Swift
\* dictionary, which is any; the sections are appended to what is there.
BestellungenZusammenfuehren(b) ==
  /\ \E folge \in SetToSeqs(TischnummerIDs) :
       BestellungenFertig' = BestellungenFertig \o
         [n \in DOMAIN folge |-> Abschnitt(folge[n], n, b)]
  /\ aufgebaut' = IF aufgebaut = 2 THEN 2 ELSE aufgebaut + 1

\* The section setSectionsKellnerBestellung makes of every noted key.
Geladen(ids, tisch, mengen) ==
  [i \in DOMAIN ids |-> [Tischnummer |-> tisch[ids[i]], menge |-> mengen[ids[i]]]]

\* BestellungKategorien has as many orders as keys were noted.
alleGezaehlt(mengen) ==
  Cardinality({a \in Auftrag : mengen[a] # <<>>}) = Len(bestellungIDs)

\* The end of loadBestellungen, with the dictionaries as the fold left them:
\* when the counts agree, a section is appended for every noted key, and
\* the orders are merged at the one moment when there are as many sections
\* as keys.  A noted key without an entry is the force-unwrap of nil.
Abschluss(tisch, mengen) ==
  \/ /\ ~alleGezaehlt(mengen)
     /\ UNCHANGED <<Bestellungen, BestellungenFertig, aufgebaut, absturz>>
  \/ /\ alleGezaehlt(mengen)
     /\ \E i \in DOMAIN bestellungIDs : mengen[bestellungIDs[i]] = <<>>
     /\ absturz' = "laden"
     /\ UNCHANGED <<Bestellungen, BestellungenFertig, aufgebaut>>
  \/ /\ alleGezaehlt(mengen)
     /\ \A i \in DOMAIN bestellungIDs : mengen[bestellungIDs[i]] # <<>>
     /\ Bestellungen' = Bestellungen \o Geladen(bestellungIDs, tisch, mengen)
     /\ \/ /\ Len(Bestellungen) < Len(bestellungIDs)
           /\ BestellungenZusammenfuehren(
                SubSeq(Bestellungen', 1, Len(bestellungIDs)))
        \/ /\ Len(Bestellungen) >= Len(bestellungIDs)
           /\ UNCHANGED <<BestellungenFertig, aufgebaut>>
     /\ UNCHANGED absturz

\* What the fold makes of the amounts alt of order a: a first fold enters
\* them; where a second one puts its rows among the old ones is the matter
\* of Ladevorgang and left open here.
Gefaltet(a, alt) ==
  LET alle == alt \o Menge[a]
  IN IF alt = <<>> THEN {Menge[a]}
     ELSE {[i \in DOMAIN alle |-> alle[f[i]]] :
             f \in Bijection(DOMAIN alle, DOMAIN alle)}

\* loadBestellungen: a record of order a lands, with table t.  The table may
\* be another than the one of the index: rebooking writes only the record.
bestellungGeladen(a, t) ==
  /\ laeuft
  /\ \/ /\ unterwegs[a] > 0
        /\ unterwegs' = [unterwegs EXCEPT ![a] = @ - 1]
        /\ UNCHANGED <<veraltet, fremd>>
     \/ /\ veraltet[a] > 0
        /\ veraltet' = [veraltet EXCEPT ![a] = @ - 1]
        /\ fremd' = TRUE
        /\ UNCHANGED unterwegs
  /\ Tischnummer' = [Tischnummer EXCEPT ![a] = t]
  /\ \E m \in Gefaltet(a, BestellungItemsMengen[a]) :
       BestellungItemsMengen' = [BestellungItemsMengen EXCEPT ![a] = m]
  /\ Abschluss(Tischnummer', BestellungItemsMengen')
  /\ UNCHANGED <<meldeVars, bestellungIDs, TischnummerIDs, zahlVars, griffe>>

Trap(grund) ==
  /\ absturz' = grund
  /\ UNCHANGED <<meldeVars, ladeVars, BestellungenFertig, zahlVars>>

\* The fold, or the loop after it, reads what the record of order a does
\* not have (Ladevorgang says of which records): no record is trusted here.
FaltungTrap(a) ==
  /\ laeuft
  /\ unterwegs[a] + veraltet[a] > 0
  /\ Trap("laden")
  /\ UNCHANGED griffe

\* Slip: the dictionary of the amounts is not emptied.
reloadOhneMengen ==
  /\ laeuft
  /\ registrierungen <= MaxReload
  /\ registrierungen' = registrierungen + 1
  /\ veraltet' = [a \in Auftrag |-> veraltet[a] + unterwegs[a]]
  /\ unterwegs' = Nirgends
  /\ bestellungIDs' = <<>>
  /\ Tischnummer' = [a \in Auftrag |-> ""]
  /\ Bestellungen' = <<>>
  /\ BestellungenFertig' = <<>>
  /\ fremd' = FALSE
  /\ UNCHANGED <<TischIndex, gemeldet, TischnummerIDs, BestellungItemsMengen,
                 aufgebaut, zahlVars, absturz, griffe>>

\* reload(): the payment list, the noted tables and the observers stay, and
\* one more observer is registered.  An emptied search field does the same.
reload ==
  /\ laeuft
  /\ registrierungen <= MaxReload
  /\ registrierungen' = registrierungen + 1
  /\ veraltet' = [a \in Auftrag |-> veraltet[a] + unterwegs[a]]
  /\ unterwegs' = Nirgends
  /\ bestellungIDs' = <<>>
  /\ Tischnummer' = [a \in Auftrag |-> ""]
  /\ BestellungItemsMengen' = [a \in Auftrag |-> <<>>]
  /\ Bestellungen' = <<>>
  /\ BestellungenFertig' = <<>>
  /\ fremd' = FALSE
  /\ UNCHANGED <<TischIndex, gemeldet, TischnummerIDs, aufgebaut, zahlVars, absturz,
                 griffe>>

\* The sections b that are of table t.
NurTisch(t, b) ==
  LET bis[n \in 0..Len(b)] ==
        IF n = 0 THEN <<>>
        ELSE IF b[n].Tischnummer = t THEN Append(bis[n - 1], b[n]) ELSE bis[n - 1]
  IN bis[Len(b)]

\* The search field: a text filters the orders, not the sections; leaving
\* it restores what viewDidLoad saved, which is nothing.
filteredContent(t) ==
  /\ laeuft
  /\ Griff
  /\ Bestellungen' = NurTisch(t, Bestellungen)
  /\ UNCHANGED <<meldeVars, unterwegs, veraltet, bestellungIDs, TischnummerIDs,
                 Tischnummer, BestellungItemsMengen, fremd, aufgebaut,
                 BestellungenFertig, zahlVars, absturz>>

searchBarCancelButtonClicked ==
  /\ laeuft
  /\ Griff
  /\ Bestellungen' = <<>>
  /\ UNCHANGED <<meldeVars, unterwegs, veraltet, bestellungIDs, TischnummerIDs,
                 Tischnummer, BestellungItemsMengen, fremd, aufgebaut,
                 BestellungenFertig, zahlVars, absturz>>

(***************************************************************************)
(* The two tables.                                                         *)
(***************************************************************************)
toggleSection(s) ==
  /\ laeuft
  /\ Griff
  /\ s \in DOMAIN BestellungenFertig
  /\ BestellungenFertig' = [i \in DOMAIN BestellungenFertig |->
       [BestellungenFertig[i] EXCEPT !.expanded = i = s /\ ~@]]
  /\ UNCHANGED <<meldeVars, ladeVars, zahlVars, absturz>>

\* cellForRowAt of the list on the left, for a row of an open section.
ZeichneFertig(s) ==
  /\ laeuft
  /\ s \in DOMAIN BestellungenFertig
  /\ BestellungenFertig[s].expanded /\ BestellungenFertig[s].menge # <<>>
  /\ s \notin DOMAIN BestellungenFertig[s].bezahltMenge
  /\ Trap("nil")
  /\ UNCHANGED griffe

\* The section cellForRowAt of the list on the right looks its table up in.
Gefunden(fertig, tisch) ==
  LET S == {i \in DOMAIN fertig : fertig[i].Tischnummer = tisch}
  IN IF S = {} THEN trueSection ELSE CHOOSE i \in S : \A j \in S : j <= i

\* AbrechnenTV.reloadData() for the table a, whose number is tisch.
ZeichneAbrechnen(fertig, a, tisch) ==
  \/ /\ a.menge = <<>>
     /\ UNCHANGED <<trueSection, absturz>>
  \/ /\ a.menge # <<>>
     /\ trueSection' = Gefunden(fertig, tisch)
     /\ absturz' = IF trueSection' \in DOMAIN a.bezahltMenge THEN absturz ELSE "nil"

\* "Alles auswählen" below the open section s.
allesBezahlen(s) ==
  /\ laeuft
  /\ Griff
  /\ s \in DOMAIN BestellungenFertig
  /\ BestellungenFertig[s].expanded
  /\ LET alt == BestellungenFertig[s]
         neu == [alt EXCEPT !.bezahltMenge =
                   [k \in DOMAIN @ \cup {s} |-> IF k = s THEN alt.menge ELSE @[k]]]
     IN /\ BestellungenFertig' = [BestellungenFertig EXCEPT ![s] = neu]
        /\ BestellungenBezahlen' = <<neu>>
        /\ tischnummerBezahlen' = neu.Tischnummer
        /\ ZeichneAbrechnen(BestellungenFertig', neu, neu.Tischnummer)
  /\ UNCHANGED <<meldeVars, ladeVars>>

\* A tap on row r of section s on the left: one more of this item is paid.
\* Another table replaces the one on the right.
didSelectRowLinks(s, r) ==
  /\ laeuft
  /\ Griff
  /\ s \in DOMAIN BestellungenFertig
  /\ BestellungenFertig[s].expanded /\ r \in DOMAIN BestellungenFertig[s].menge
  /\ LET a == IF BestellungenFertig[s].Tischnummer # tischnummerBezahlen
              THEN BestellungenFertig[s] ELSE BestellungenBezahlen[1]
     IN \/ /\ s \notin DOMAIN a.bezahltMenge
           /\ Trap("nil")
        \/ /\ s \in DOMAIN a.bezahltMenge /\ r \notin DOMAIN a.menge
           /\ Trap("index")
        \/ /\ s \in DOMAIN a.bezahltMenge /\ r \in DOMAIN a.menge
           /\ LET b == [a EXCEPT !.bezahltMenge[s][r] =
                          IF @ < a.menge[r] THEN @ + 1 ELSE @]
              IN /\ BestellungenBezahlen' = <<b>>
                 /\ tischnummerBezahlen' = b.Tischnummer
                 /\ ZeichneAbrechnen(BestellungenFertig, b, b.Tischnummer)
           /\ UNCHANGED <<meldeVars, ladeVars, BestellungenFertig>>

\* Slip: the last one is taken away once too often.
didSelectRowRechtsUnterNull(r) ==
  /\ laeuft
  /\ Griff
  /\ LET b == [BestellungenBezahlen[1] EXCEPT !.bezahltMenge[trueSection][r] =
                 IF @ >= 0 THEN @ - 1 ELSE @]
     IN /\ BestellungenBezahlen' = <<b>>
        /\ ZeichneAbrechnen(BestellungenFertig, b, tischnummerBezahlen)
  /\ UNCHANGED <<meldeVars, ladeVars, BestellungenFertig, tischnummerBezahlen>>

\* A tap on row r on the right: one less of this item is paid.
didSelectRowRechts(r) ==
  /\ laeuft
  /\ Griff
  /\ LET b == [BestellungenBezahlen[1] EXCEPT !.bezahltMenge[trueSection][r] =
                 IF @ > 0 THEN @ - 1 ELSE @]
     IN /\ BestellungenBezahlen' = <<b>>
        /\ ZeichneAbrechnen(BestellungenFertig, b, tischnummerBezahlen)
  /\ UNCHANGED <<meldeVars, ladeVars, BestellungenFertig, tischnummerBezahlen>>

\* Scrolling the list on the right draws its rows again.
scrollenRechts ==
  /\ laeuft
  /\ \E n \in DOMAIN BestellungenBezahlen :
       ZeichneAbrechnen(BestellungenFertig, BestellungenBezahlen[n],
                        tischnummerBezahlen)
  /\ UNCHANGED <<meldeVars, ladeVars, BestellungenFertig, BestellungenBezahlen,
                 tischnummerBezahlen, griffe>>

Next ==
  \/ \E a \in Auftrag :
       \/ \E r \in 1..registrierungen : schluesselGemeldet(a, r)
       \/ \E t \in Tische : bestellungGeladen(a, t)
       \/ FaltungTrap(a)
  \/ reload
  \/ \E t \in Tische : filteredContent(t)
  \/ searchBarCancelButtonClicked
  \/ \E s \in DOMAIN BestellungenFertig :
       \/ toggleSection(s)
       \/ ZeichneFertig(s)
       \/ allesBezahlen(s)
       \/ \E r \in DOMAIN BestellungenFertig[s].menge : didSelectRowLinks(s, r)
  \/ \E n \in DOMAIN BestellungenBezahlen :
       \E r \in DOMAIN BestellungenBezahlen[n].menge : didSelectRowRechts(r)
  \/ scrollenRechts

Spec == Init /\ [][Next]_vars

(***************************************************************************)
(* Properties.                                                             *)
(***************************************************************************)
Begrenzt(a) ==
  \A k \in DOMAIN a.bezahltMenge :
    /\ DOMAIN a.bezahltMenge[k] = DOMAIN a.menge
    /\ \A r \in DOMAIN a.menge : a.bezahltMenge[k][r] \in 0..a.menge[r]

\* Every row, on either side and under every key, has a paid amount between
\* none and the row's own, through selecting, deselecting, reloading and
\* merging again; and the table on the right is the one whose number
\* decides, on the next tap, whether it is replaced.  The bound is the
\* section's: a section built while an order was loaded or appended twice
\* has rows for that order twice.
BezahltBegrenzt ==
  /\ \A s \in DOMAIN BestellungenFertig : Begrenzt(BestellungenFertig[s])
  /\ \A n \in DOMAIN BestellungenBezahlen :
       /\ Begrenzt(BestellungenBezahlen[n])
       /\ BestellungenBezahlen[n].Tischnummer = tischnummerBezahlen

\* The lookups of the two tables by section number (force-unwraps at 819,
\* 840, 866, 877) and by row fail only after the list was built a second
\* time: merged again into the sections that were there, or reloaded under
\* a selection.
AbsturzNurNachWiederaufbau == absturz \in {"nil", "index"} => aufgebaut = 2

\* Every order of ids once, with its own items.
Posten(ids, tisch) ==
  [i \in DOMAIN ids |-> [Tischnummer |-> tisch[ids[i]], menge |-> Menge[ids[i]]]]

\* The list on the left is the bill of the noted orders: none is noted
\* twice, the index table of each has a section, no table has two, and the
\* section of a table has every item of the noted orders whose record names
\* the table, once.
IstRechnung ==
  /\ \A i, j \in DOMAIN bestellungIDs :
       bestellungIDs[i] = bestellungIDs[j] => i = j
  /\ \A i \in DOMAIN bestellungIDs :
       \E s \in DOMAIN BestellungenFertig :
         BestellungenFertig[s].Tischnummer = TischIndex[bestellungIDs[i]]
  /\ \A s, u \in DOMAIN BestellungenFertig :
       BestellungenFertig[s].Tischnummer = BestellungenFertig[u].Tischnummer
         => s = u
  /\ \A s \in DOMAIN BestellungenFertig :
       BestellungenFertig[s].menge =
         AlleMengen(BestellungenFertig[s].Tischnummer,
                    Posten(bestellungIDs, Tischnummer))

\* The first merge since a reload, if no record asked for before that reload
\* has landed after it, makes the bill, whatever the order of keys and
\* records and however many observers earlier reloads have left.  An order
\* rebooked to a table that no noted order has in the index is in no section:
\* the bill is by the index which tables there are, and by the records which
\* orders are theirs.
RechnungVollstaendig ==
  [][~fremd' /\ BestellungenFertig = <<>> /\ BestellungenFertig' # <<>>
       => IstRechnung']_vars
=============================================================================
