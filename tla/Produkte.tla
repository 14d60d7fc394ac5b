------------------------------ MODULE Produkte -------------------------------
(***************************************************************************)
(* The menu page (ProdukteVC.swift, produktCell.swift): it loads the menu  *)
(* of the bar once, category by category, and switches items on and off.   *)
(*                                                                         *)
(* The page keeps the menu in sections, one per category.  Every cell of   *)
(* its table gets a copy of all sections when it is drawn, shows its own   *)
(* category from that copy, and hands the whole copy back when one of its  *)
(* subcategories is opened.  A tap on an item is carried out by the page,  *)
(* for the section it drew last.                                           *)
(***************************************************************************)
EXTENDS Naturals, Sequences, SequencesExt

CONSTANTS
  Karten,       (* menus: per category and subcategory the number of items *)
  MaxBesuche,   (* bound: how often the page is opened                     *)
  MaxAenderungen,   (* bound: changes of the menu on other devices         *)
  MaxTipps,     (* bound: taps on items                                    *)
  MaxZeichnen   (* bound: cells drawn because they came into sight         *)

ASSUME KartenAnnahme == \A m \in Karten :
                          m \in Seq(Seq(Nat)) /\ m # <<>>
ASSUME ProdukteMaxAnnahme ==
  {MaxBesuche, MaxAenderungen, MaxTipps, MaxZeichnen} \subseteq Nat

VARIABLES
  karte,        (* the menu of this bar                                    *)
  gestrichen,   (* categories another device has removed since             *)
  verfuegbar,   (* items that are on, as this device sees the database     *)
  offen,        (* the page is on screen                                   *)
  gefragt,      (* requests under way: 0 the menu, k its category k        *)
  Kategorien,   (* categories noted, in the order of their keys            *)
  geladen,      (* categories folded into Unterkategorien, Items and so    *)
                (* on, with the items that were on then                    *)
  sections,     (* the sections of the page                                *)
  zelle,        (* per section: its cell's copy of the sections            *)
  cellIndexPathSection,   (* section whose cell was drawn last             *)
  falle,        (* the trap that ended the process, or "keine"             *)
  besuche, aenderungen, tipps, gezeichnet,   (* the bounded steps so far   *)
  beruehrt,     (* history: items switched on another device, or reset by  *)
                (* an older copy of the sections, in this visit            *)
  fehlgriff     (* history: a tap wrote to another record than that of the *)
                (* item shown: "anderes" of the menu, or a "neu" one       *)

laden == <<gefragt, Kategorien, geladen>>
tafel == <<sections, zelle, cellIndexPathSection>>
datenbank == <<karte, gestrichen, verfuegbar, aenderungen>>
produkteVars == <<datenbank, offen, laden, tafel, falle, besuche, tipps,
                  gezeichnet, beruehrt, fehlgriff>>

seiteLaeuft == falle = "keine"

\* The items of category k of the menu m, each named by its category, its
\* subcategory and its place there.
Items(m, k) == UNION {{<<k, u, i>> : i \in 1..m[k][u]} : u \in DOMAIN m[k]}
Item == UNION {Items(karte, k) : k \in DOMAIN karte}

\* Every category has subcategories and every subcategory has items; the
\* database itself also allows an entry that is a plain value.
Regulaer == \A k \in DOMAIN karte :
              karte[k] # <<>> /\ \A u \in DOMAIN karte[k] : karte[k][u] > 0

ProdukteTypeOK ==
  /\ karte \in Karten
  /\ gestrichen \subseteq DOMAIN karte
  /\ verfuegbar \subseteq Item
  /\ offen \in BOOLEAN
  /\ gefragt \subseteq {0} \cup DOMAIN karte
  /\ ToSet(Kategorien) \subseteq DOMAIN karte
  /\ DOMAIN geladen \subseteq ToSet(Kategorien)
  /\ \A j \in DOMAIN sections :
       /\ sections[j].kat \in DOMAIN geladen
       /\ sections[j].an \subseteq Items(karte, sections[j].kat)
       /\ sections[j].expanded \in BOOLEAN
       /\ Len(sections[j].expanded2) = Len(karte[sections[j].kat])
  /\ DOMAIN zelle = DOMAIN sections
  /\ \A j \in DOMAIN zelle : Len(zelle[j]) = Len(sections)
  /\ cellIndexPathSection \in 0..Len(sections)
  /\ falle \in {"keine", "laden", "zeichnen", "index"}
  /\ besuche \in 0..MaxBesuche /\ aenderungen \in 0..MaxAenderungen
  /\ tipps \in 0..MaxTipps /\ gezeichnet \in 0..MaxZeichnen
  /\ beruehrt \subseteq Item
  /\ fehlgriff \in {"nein", "anderes", "neu"}

ProdukteInit ==
  /\ karte \in Karten
  /\ gestrichen = {}
  /\ verfuegbar = Item
  /\ offen = FALSE
  /\ gefragt = {}
  /\ Kategorien = <<>>
  /\ geladen = <<>>
  /\ sections = <<>>
  /\ zelle = <<>>
  /\ cellIndexPathSection = 0
  /\ falle = "keine"
  /\ besuche = 0 /\ aenderungen = 0 /\ tipps = 0 /\ gezeichnet = 0
  /\ beruehrt = {}
  /\ fehlgriff = "nein"

(***************************************************************************)
(* Opening and leaving.                                                    *)
(***************************************************************************)

\* The fields of a new page.
NeueSeite == sections' = <<>> /\ zelle' = <<>> /\ cellIndexPathSection' = 0

\* speisekartebearbeiten: a new page, whose viewDidLoad asks for the menu.
\* Bound: not before the answers to the last page are in, nor after a tap
\* has put a record into the menu that is no item.
speisekartebearbeiten ==
  /\ seiteLaeuft /\ ~offen /\ gefragt = {} /\ fehlgriff # "neu"
  /\ besuche < MaxBesuche
  /\ besuche' = besuche + 1
  /\ offen' = TRUE
  /\ gefragt' = {0}
  /\ Kategorien' = <<>> /\ geladen' = <<>>
  /\ NeueSeite
  /\ beruehrt' = {}
  /\ UNCHANGED <<datenbank, falle, tipps, gezeichnet, fehlgriff>>

\* The page is popped; closures under way still hold it.
fertigTapped ==
  /\ seiteLaeuft /\ offen
  /\ offen' = FALSE
  /\ UNCHANGED <<datenbank, laden, tafel, falle, besuche, tipps,
                 gezeichnet, beruehrt, fehlgriff>>

(***************************************************************************)
(* Loading.                                                                *)
(***************************************************************************)

\* The categories of the menu m but for those removed, in their order.
Uebrig(m, weg) ==
  LET bis[k \in 0..Len(m)] ==
        IF k = 0 THEN <<>>
        ELSE IF k \in weg THEN bis[k - 1] ELSE Append(bis[k - 1], k)
  IN bis[Len(m)]

\* The answer for the menu: all categories are noted and asked for.
getKategorien ==
  /\ seiteLaeuft /\ 0 \in gefragt
  /\ Kategorien' = Uebrig(karte, gestrichen)
  /\ gefragt' = ToSet(Kategorien')
  /\ UNCHANGED <<datenbank, offen, geladen, tafel, falle, besuche, tipps,
                 gezeichnet, beruehrt, fehlgriff>>

\* Slip: the arrays are compared the wrong way round.
EinordnenImmerNeu(items, it) ==
  IF Len(items) <= it[2] THEN Append(items, <<it>>)
  ELSE [items EXCEPT ![it[2]] = Append(@, it)]

\* Slip: the array of the first subcategory takes all items.
EinordnenImErsten(items, it) ==
  IF items = <<>> THEN <<<<it>>>> ELSE [items EXCEPT ![1] = Append(@, it)]

\* One item of subcategory it[2] goes into the array of arrays: into a new
\* one at the end if there are fewer arrays than subcategories so far.
Einordnen(items, it) ==
  IF Len(items) < it[2] THEN Append(items, <<it>>)
  ELSE [items EXCEPT ![it[2]] = Append(@, it)]

\* The array of arrays after the n items of subcategory u of category k.
EinordnenAlle(items, k, u, n) ==
  LET bis[i \in 0..n] ==
        IF i = 0 THEN items ELSE Einordnen(bis[i - 1], <<k, u, i>>)
  IN bis[n]

\* Items[Kategorie] after its answer, subcategory by subcategory; the empty
\* sequence stands for nil.
ItemsNachUnterkategorie(m, k) ==
  LET bis[u \in 0..Len(m[k])] ==
        IF u = 0 THEN <<>> ELSE EinordnenAlle(bis[u - 1], k, u, m[k][u])
  IN bis[Len(m[k])]

\* Slip: one category more is waited for.
AlleDaMehr(g) == Cardinality(DOMAIN g) = Len(Kategorien) + 1

\* The count that decides that the last category has come.
AlleDa(g) == Cardinality(DOMAIN g) = Len(Kategorien)

\* setSectionsSpeisekarte for every category noted.
Sections(g) ==
  [j \in DOMAIN Kategorien |->
     [kat |-> Kategorien[j],
      items |-> ItemsNachUnterkategorie(karte, Kategorien[j]),
      an |-> g[Kategorien[j]], expanded |-> FALSE,
      expanded2 |-> [u \in DOMAIN karte[Kategorien[j]] |-> FALSE]]]

\* A cell asks its section for the rows of every subcategory.
Zeichenbar(s) == Len(s.items) >= Len(karte[s.kat])

\* The answer for a category.  An item of a later subcategory when Items is
\* still nil traps, and so does a category without items once all are in;
\* a category without subcategories is never counted.  The last category
\* makes the table draw its cells from the first to the last.
getUnterKategorienItems(k) ==
  /\ seiteLaeuft /\ k \in gefragt \ {0}
  /\ gefragt' = gefragt \ {k}
  /\ geladen' = IF k \in gestrichen \/ karte[k] = <<>> THEN geladen
                ELSE [c \in DOMAIN geladen \cup {k} |->
                        IF c = k THEN verfuegbar \cap Items(karte, k)
                        ELSE geladen[c]]
  /\ LET nil  == k \notin gestrichen /\ Items(karte, k) # {} /\ karte[k][1] = 0
         leer == \E j \in DOMAIN Kategorien : Items(karte, Kategorien[j]) = {}
         neue == Sections(geladen')
     IN \/ /\ nil \/ (AlleDa(geladen') /\ leer)
           /\ falle' = "laden"
           /\ UNCHANGED tafel
        \/ /\ ~nil /\ ~AlleDa(geladen')
           /\ UNCHANGED <<tafel, falle>>
        \/ /\ ~nil /\ AlleDa(geladen') /\ ~leer
           /\ sections' = neue
           /\ zelle' = [j \in DOMAIN neue |-> neue]
           /\ cellIndexPathSection' = Len(neue)
           /\ falle' = IF \A j \in DOMAIN neue : Zeichenbar(neue[j])
                         THEN "keine" ELSE "zeichnen"
  /\ UNCHANGED <<datenbank, offen, Kategorien, besuche, tipps, gezeichnet,
                 beruehrt, fehlgriff>>

(***************************************************************************)
(* The table.                                                              *)
(***************************************************************************)

\* Slip: the section is not noted.
ZeichneOhneMerken(s) ==
  /\ zelle' = [zelle EXCEPT ![s] = sections']
  /\ UNCHANGED cellIndexPathSection

\* cellForRowAt: a new cell for section s with a copy of all sections.
Zeichne(s) ==
  /\ zelle' = [zelle EXCEPT ![s] = sections']
  /\ cellIndexPathSection' = s

\* A cell comes into sight, by scrolling or because a section above it
\* has become shorter.
InsBild(s) ==
  /\ seiteLaeuft /\ offen /\ s \in DOMAIN sections
  /\ gezeichnet < MaxZeichnen
  /\ gezeichnet' = gezeichnet + 1
  /\ UNCHANGED sections
  /\ Zeichne(s)
  /\ UNCHANGED <<datenbank, offen, laden, falle, besuche, tipps, beruehrt,
                 fehlgriff>>

\* A tap on a header: its section is opened or closed, all others are
\* closed, its cell is drawn again.
toggleSectionKategorie(s) ==
  /\ seiteLaeuft /\ offen /\ s \in DOMAIN sections
  /\ sections' = [j \in DOMAIN sections |->
                    [sections[j] EXCEPT !.expanded = j = s /\ ~@]]
  /\ Zeichne(s)
  /\ UNCHANGED <<datenbank, offen, laden, falle, besuche, tipps,
                 gezeichnet, beruehrt, fehlgriff>>

\* A tap on a subcategory of the open section: the cell opens it in its own
\* copy, and reloadTable makes that copy the page's sections.
toggleUnterkategorie(s, u) ==
  /\ seiteLaeuft /\ offen /\ s \in DOMAIN sections
  /\ sections[s].expanded
  /\ u \in DOMAIN zelle[s][s].expanded2
  /\ sections' =
       [zelle[s] EXCEPT ![s].expanded2 =
          [v \in DOMAIN @ |-> v = u /\ ~@[v]]]
  /\ beruehrt' = beruehrt \cup
       UNION {{it \in Items(karte, sections[j].kat) :
                 it \in sections[j].an <=> it \notin zelle[s][j].an} :
              j \in DOMAIN sections}
  /\ Zeichne(s)
  /\ UNCHANGED <<datenbank, offen, laden, falle, besuche, tipps,
                 gezeichnet, fehlgriff>>

\* Slip: the page keeps its sections.
SchalteOhneMerken(c, it) == sections

\* pass: item it of section c is switched in the page's sections.
Schalte(c, it) ==
  [sections EXCEPT ![c].an = IF it \in @ THEN @ \ {it} ELSE @ \cup {it}]

\* The button of row i of subcategory u in the open section s: pass takes
\* the place in the section drawn last, or traps if it is not there, and
\* writes the opposite of what its sections hold to the item named there,
\* below the subcategory of that place.
verfuegbarBtnTapped(s, u, i) ==
  /\ seiteLaeuft /\ offen /\ s \in DOMAIN sections
  /\ sections[s].expanded
  /\ u \in DOMAIN zelle[s][s].expanded2 /\ zelle[s][s].expanded2[u]
  /\ i \in DOMAIN zelle[s][s].items[u]
  /\ tipps < MaxTipps
  /\ tipps' = tipps + 1
  /\ LET c == cellIndexPathSection
         ziel == sections[c]
         da == u \in DOMAIN ziel.items /\ i \in DOMAIN ziel.items[u]
         it == ziel.items[u][i]
         imMenue == it[2] = u /\ ziel.kat \notin gestrichen
     IN \/ /\ ~da
           /\ falle' = "index"
           /\ UNCHANGED <<sections, verfuegbar, beruehrt, fehlgriff>>
        \/ /\ da
           /\ sections' = Schalte(c, it)
           /\ verfuegbar' = IF ~imMenue THEN verfuegbar
                            ELSE IF it \in ziel.an THEN verfuegbar \ {it}
                            ELSE verfuegbar \cup {it}
           /\ beruehrt' = IF imMenue THEN beruehrt ELSE beruehrt \cup {it}
           /\ fehlgriff' = IF ~imMenue THEN "neu"
                           ELSE IF it # zelle[s][s].items[u][i] THEN "anderes"
                           ELSE fehlgriff
           /\ UNCHANGED falle
  /\ UNCHANGED <<karte, gestrichen, aenderungen, offen, laden, zelle,
                 cellIndexPathSection, besuche, gezeichnet>>

(***************************************************************************)
(* Other devices.  The page does not observe the menu.                     *)
(***************************************************************************)

\* Another device switches an item.
FremdSchalten(it) ==
  /\ aenderungen < MaxAenderungen
  /\ it \in Item /\ it[1] \notin gestrichen
  /\ aenderungen' = aenderungen + 1
  /\ verfuegbar' = IF it \in verfuegbar THEN verfuegbar \ {it}
                   ELSE verfuegbar \cup {it}
  /\ beruehrt' = beruehrt \cup {it}
  /\ UNCHANGED <<karte, gestrichen, offen, laden, tafel, falle, besuche,
                 tipps, gezeichnet, fehlgriff>>

\* The operator removes a category.
FremdStreichen(k) ==
  /\ aenderungen < MaxAenderungen
  /\ k \in DOMAIN karte \ gestrichen
  /\ aenderungen' = aenderungen + 1
  /\ gestrichen' = gestrichen \cup {k}
  /\ UNCHANGED <<karte, verfuegbar, offen, laden, tafel, falle, besuche,
                 tipps, gezeichnet, beruehrt, fehlgriff>>

Kategorienummer == DOMAIN karte
Platz == UNION {(DOMAIN karte[k]) \X (1..Cardinality(Items(karte, k))) :
                k \in DOMAIN karte}

ProdukteNext ==
  \/ speisekartebearbeiten \/ fertigTapped
  \/ getKategorien
  \/ \E k \in Kategorienummer :
       \/ getUnterKategorienItems(k)
       \/ FremdStreichen(k)
  \/ \E s \in DOMAIN sections :
       \/ InsBild(s)
       \/ toggleSectionKategorie(s)
       \/ \E u \in DOMAIN sections[s].expanded2 : toggleUnterkategorie(s, u)
       \/ \E p \in Platz : verfuegbarBtnTapped(s, p[1], p[2])
  \/ \E it \in Item : FremdSchalten(it)

ProdukteSpec == ProdukteInit /\ [][ProdukteNext]_produkteVars

(***************************************************************************)
(* The database answers every request; users are free.                     *)
(***************************************************************************)
ProdukteFairSpec ==
  /\ ProdukteSpec
  /\ WF_produkteVars(getKategorien)
  /\ WF_produkteVars(\E k \in Kategorienummer : getUnterKategorienItems(k))

(***************************************************************************)
(* Properties.                                                             *)
(***************************************************************************)

\* As long as no cell was drawn in between, a tap switches the item it
\* shows: the section the page drew last is the open one, because opening
\* a section or a subcategory draws it (ProdukteVC.swift 306 and 77).
TippTrifft ==
  fehlgriff # "nein" => gezeichnet > 0 \/ gestrichen # {} \/ ~Regulaer

\* The page and the database agree on every item, through loading and
\* taps, but for the items another device switched, those an older copy of
\* the sections reset (reloadTable takes the copy of a cell drawn before
\* the tap, ProdukteVC.swift 50), and taps that missed the menu.
AbweichungErklaert ==
  \A j \in DOMAIN sections :
    \A it \in Items(karte, sections[j].kat) \ beruehrt :
      it \in sections[j].an <=> it \in verfuegbar

\* If no subcategory is empty, the page has every item exactly where the
\* menu has it, however the answers come in.
LadenWieKarte ==
  Regulaer =>
    \A j \in DOMAIN sections :
      LET k == sections[j].kat
      IN sections[j].items =
           [u \in DOMAIN karte[k] |-> [i \in 1..karte[k][u] |-> <<k, u, i>>]]

\* Only a menu with an empty entry ends the process while it is loaded or
\* drawn, and only a cell drawn in between lets a tap end it.
FalleErklaert ==
  /\ falle \in {"laden", "zeichnen"} => ~Regulaer
  /\ falle = "index" => gezeichnet > 0 \/ ~Regulaer

\* An opened page shows the menu at last, unless it is left, a category is
\* removed while it loads, or an entry is empty.
MenueErscheint ==
  offen ~> (\/ sections # <<>> \/ ~offen \/ ~seiteLaeuft
            \/ gestrichen # {} \/ ~Regulaer)
=============================================================================
