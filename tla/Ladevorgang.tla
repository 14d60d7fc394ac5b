---------------------------- MODULE Ladevorgang -----------------------------
(***************************************************************************)
(* How the record of an order is folded into the dictionaries of a list:   *)
(* the body of the closure of loadBestellungen, which stands in five view  *)
(* controllers with the same text (KellnerVC, KellnerAngenommenVC,         *)
(* FertiggestelltVC, KellnerAlleBestellungenVC, DetailKatVC).              *)
(*                                                                         *)
(* A record is a tree: categories, subcategories, items, extras.  The      *)
(* closure walks it in key order: for a subcategory first all items, then  *)
(* the extras of all items.  It has one branch for the first subcategory   *)
(* of the first category, one for its further ones, and two more for the   *)
(* later categories; each branch appends to the nested arrays in its own   *)
(* way.  The extras of one item are gathered in extrasString, which        *)
(* belongs to the list and not to the call.                                *)
(*                                                                         *)
(* The six dictionaries of items (names, prices, amounts, comments,        *)
(* litres, item keys) are written together in every branch, so one stands  *)
(* for all; the two of extras are not, so both are kept.                   *)
(***************************************************************************)
EXTENDS Integers, Sequences, SequencesExt

CONSTANT Eingaben   (* the sequences of records a run folds, one after the *)
                    (* other: [id, baum], where baum[k][u][i] is the       *)
                    (* number of extras of item i                          *)

\* Firebase keeps no empty node.
Gefuellt(b) == b # <<>> /\ \A k \in DOMAIN b :
                 b[k] # <<>> /\ \A u \in DOMAIN b[k] : b[k][u] # <<>>

ASSUME EingabenAnnahme == \A e \in Eingaben :
  /\ e \in Seq([id : Nat, baum : Seq(Seq(Seq(Nat)))])
  /\ \A n \in DOMAIN e : Gefuellt(e[n].baum)
  /\ \A n, m \in DOMAIN e : e[m].id = e[n].id => e[m].baum = e[n].baum

VARIABLES
  eingabe,        (* the records of this run                               *)
  gefaltet,       (* how many of them are folded                           *)
  ort,            (* the node of the current record visited next           *)
  zweig,          (* the branch the current subcategory takes              *)
  Kategorien,     (* per order; the empty sequence stands for nil          *)
  Unterkategorien,
  Items,
  ExtrasNamen,
  ExtrasPreise,
  extrasString,   (* extras of the current item; extrasPreis has the same  *)
  absturz         (* a force-unwrap or an index failed                     *)

woerterbuecher == <<Kategorien, Unterkategorien, Items, ExtrasNamen,
                    ExtrasPreise>>
ladeVars == <<eingabe, gefaltet, ort, zweig, woerterbuecher, extrasString,
              absturz>>

IDs == {eingabe[n].id : n \in DOMAIN eingabe}

(***************************************************************************)
(* The walk over a record: the places of its loops.  Keys are numbers; an  *)
(* extra and its price are named by their place in the record.             *)
(***************************************************************************)
Ort(art, k, u, i, e) == [art |-> art, k |-> k, u |-> u, i |-> i, e |-> e]
Ende == Ort("ende", 0, 0, 0, 0)

\* Behind subcategory u: the next one, the next category, or the end.
NachUnterkategorie(b, k, u) ==
  IF u < Len(b[k]) THEN Ort("unterkategorie", k, u + 1, 0, 0)
  ELSE IF k < Len(b) THEN Ort("kategorie", k + 1, 0, 0, 0)
  ELSE Ende

\* The first extra of the items from i on, if one of them has any.
ExtrasAb(b, k, u, i) ==
  LET mit == {j \in i..Len(b[k][u]) : b[k][u][j] > 0}
  IN IF mit = {} THEN NachUnterkategorie(b, k, u)
     ELSE Ort("extra", k, u, Min(mit), 1)

\* For a subcategory first all items, then the extras of all items.
Folgender(b, o) ==
  CASE o.art = "kategorie" -> Ort("unterkategorie", o.k, 1, 0, 0)
    [] o.art = "unterkategorie" -> Ort("item", o.k, o.u, 1, 0)
    [] o.art = "item" ->
         IF o.i < Len(b[o.k][o.u]) THEN Ort("item", o.k, o.u, o.i + 1, 0)
         ELSE ExtrasAb(b, o.k, o.u, 1)
    [] o.art = "extra" ->
         IF o.e < b[o.k][o.u][o.i] THEN Ort("extra", o.k, o.u, o.i, o.e + 1)
         ELSE ExtrasAb(b, o.k, o.u, o.i + 1)

\* index(of:)
IndexOf(s, x) == SelectInSeq(s, LAMBDA y : y = x)

LadeInit ==
  /\ eingabe \in Eingaben
  /\ gefaltet = 0
  /\ ort = Ende
  /\ zweig = "keiner"
  /\ Kategorien = [id \in IDs |-> <<>>]
  /\ Unterkategorien = [id \in IDs |-> <<>>]
  /\ Items = [id \in IDs |-> <<>>]
  /\ ExtrasNamen = [id \in IDs |-> <<>>]
  /\ ExtrasPreise = [id \in IDs |-> <<>>]
  /\ extrasString = <<>>
  /\ absturz = FALSE

\* The record being folded, or folded last, and the order it is of.
BestellungID == eingabe[gefaltet].id
Datensatz    == eingabe[gefaltet].baum

\* The answer to the next request runs the closure.
Schnappschuss ==
  /\ ~absturz /\ ort = Ende
  /\ gefaltet < Len(eingabe)
  /\ ort' = Ort("kategorie", 1, 0, 0, 0)
  /\ gefaltet' = gefaltet + 1
  /\ UNCHANGED <<eingabe, zweig, woerterbuecher, extrasString, absturz>>

\* The closure comes to a node of the given kind.
Besuche(art) ==
  /\ ~absturz /\ ort.art = art
  /\ ort' = Folgender(Datensatz, ort)
  /\ UNCHANGED <<eingabe, gefaltet>>

\* The place of the current category, and of the current subcategory in it.
Platz      == IndexOf(Kategorien[BestellungID], ort.k)
Unterplatz == IndexOf(Unterkategorien[BestellungID][Platz], ort.u)

Kategorie ==
  /\ Besuche("kategorie")
  /\ zweig' = IF Kategorien[BestellungID] = <<>> THEN "ersteErste" ELSE "spaeter"
  /\ Kategorien' = [Kategorien EXCEPT ![BestellungID] = Append(@, ort.k)]
  /\ UNCHANGED <<Unterkategorien, Items, ExtrasNamen, ExtrasPreise,
                 extrasString, absturz>>

(***************************************************************************)
(* The first category of an order.                                         *)
(***************************************************************************)
UnterkategorieDerErsten ==
  /\ Besuche("unterkategorie")
  /\ zweig \in {"ersteErste", "ersteWeitere"}
  /\ \/ /\ Unterkategorien[BestellungID] = <<>>
        /\ zweig' = "ersteErste"
        /\ Unterkategorien' =
             [Unterkategorien EXCEPT ![BestellungID] = << <<ort.u>> >>]
     \/ /\ Unterkategorien[BestellungID] # <<>>
        /\ zweig' = "ersteWeitere"
        /\ Unterkategorien' =
             [Unterkategorien EXCEPT ![BestellungID][Platz] = Append(@, ort.u)]
  /\ UNCHANGED <<Kategorien, Items, ExtrasNamen, ExtrasPreise, extrasString,
                 absturz>>

\* The place of the first subcategory, looked up as an array of one.
ErsterPlatz == IndexOf(Unterkategorien[BestellungID], <<ort.u>>)

ItemErsteErste ==
  /\ Besuche("item")
  /\ zweig = "ersteErste"
  /\ Items' =
       IF Items[BestellungID] = <<>>
       THEN [Items EXCEPT ![BestellungID] = << << <<ort.i>> >> >>]
       ELSE [Items EXCEPT ![BestellungID][Platz][ErsterPlatz] = Append(@, ort.i)]
  /\ UNCHANGED <<zweig, Kategorien, Unterkategorien, ExtrasNamen, ExtrasPreise,
                 extrasString, absturz>>

\* The gathered extras of the item, with the one being visited.
Gesammelt   == Append(extrasString, <<ort.k, ort.u, ort.i, ort.e>>)
Vollzaehlig == Len(Gesammelt) = Datensatz[ort.k][ort.u][ort.i]

\* The item has more extras.
Sammeln ==
  /\ ~Vollzaehlig
  /\ extrasString' = Gesammelt
  /\ UNCHANGED <<ExtrasNamen, ExtrasPreise>>

\* The first group of an order, and that of a category without one.
GruppeErste ==
  /\ ExtrasNamen' = [ExtrasNamen EXCEPT ![BestellungID] = << << <<Gesammelt>> >> >>]
  /\ ExtrasPreise' = [ExtrasPreise EXCEPT ![BestellungID] = << << <<Gesammelt>> >> >>]
  /\ extrasString' = <<>>

GruppeKategorie ==
  /\ ExtrasNamen' =
       [ExtrasNamen EXCEPT ![BestellungID] = Append(@, << <<Gesammelt>> >>)]
  /\ ExtrasPreise' =
       [ExtrasPreise EXCEPT ![BestellungID] = Append(@, << <<Gesammelt>> >>)]
  /\ extrasString' = <<>>

\* The group of a subcategory without one, and a further one.
GruppeNeu ==
  /\ ExtrasNamen' =
       [ExtrasNamen EXCEPT ![BestellungID][Platz] = Append(@, <<Gesammelt>>)]
  /\ ExtrasPreise' =
       [ExtrasPreise EXCEPT ![BestellungID][Platz] = Append(@, <<Gesammelt>>)]
  /\ extrasString' = <<>>

GruppeDazu ==
  /\ ExtrasNamen' = [ExtrasNamen EXCEPT
       ![BestellungID][Platz][Unterplatz] = Append(@, Gesammelt)]
  /\ ExtrasPreise' = [ExtrasPreise EXCEPT
       ![BestellungID][Platz][Unterplatz] = Append(@, Gesammelt)]
  /\ extrasString' = <<>>

\* In the first subcategory the names are appended, the prices inserted
\* first.
GruppeVorn ==
  /\ ExtrasNamen' = [ExtrasNamen EXCEPT
       ![BestellungID][Platz][ErsterPlatz] = Append(@, Gesammelt)]
  /\ ExtrasPreise' = [ExtrasPreise EXCEPT
       ![BestellungID][Platz][ErsterPlatz] = <<Gesammelt>> \o @]
  /\ extrasString' = <<>>

\* A nil dictionary is unwrapped, or an array indexed beyond its end.
ExtraTrap ==
  /\ absturz' = TRUE
  /\ UNCHANGED <<ExtrasNamen, ExtrasPreise, extrasString>>

\* An extra leaves the other dictionaries alone.
BeiExtra(z) ==
  /\ Besuche("extra")
  /\ zweig = z
  /\ UNCHANGED <<zweig, Kategorien, Unterkategorien, Items>>

ExtraErsteErste ==
  /\ BeiExtra("ersteErste")
  /\ \/ Sammeln
     \/ Vollzaehlig /\ ExtrasNamen[BestellungID] = <<>> /\ GruppeErste
     \/ Vollzaehlig /\ ExtrasNamen[BestellungID] # <<>> /\ GruppeVorn
  /\ UNCHANGED absturz

\* Items of a further subcategory, of the first category or a later one.
ItemWeitere ==
  /\ Besuche("item")
  /\ zweig \in {"ersteWeitere", "spaeterWeitere"}
  /\ Items' =
       IF Len(Items[BestellungID][Platz]) < Len(Unterkategorien[BestellungID][Platz])
       THEN [Items EXCEPT ![BestellungID][Platz] = Append(@, <<ort.i>>)]
       ELSE [Items EXCEPT ![BestellungID][Platz][Unterplatz] = Append(@, ort.i)]
  /\ UNCHANGED <<zweig, Kategorien, Unterkategorien, ExtrasNamen, ExtrasPreise,
                 extrasString, absturz>>

ExtraErsteWeitere ==
  /\ BeiExtra("ersteWeitere")
  /\ \/ ExtrasNamen[BestellungID] = <<>> /\ ExtraTrap
     \/ /\ ExtrasNamen[BestellungID] # <<>>
        /\ \/ Sammeln
           \/ /\ Vollzaehlig
              /\ Len(ExtrasNamen[BestellungID][Platz]) < Unterplatz
              /\ GruppeNeu
           \/ /\ Vollzaehlig
              /\ Len(ExtrasNamen[BestellungID][Platz]) >= Unterplatz
              /\ GruppeDazu
        /\ UNCHANGED absturz

(***************************************************************************)
(* The later categories of an order.                                       *)
(***************************************************************************)
UnterkategorieSpaeter ==
  /\ Besuche("unterkategorie")
  /\ zweig \in {"spaeter", "spaeterErste", "spaeterWeitere"}
  /\ \/ /\ Len(Unterkategorien[BestellungID]) < Len(Kategorien[BestellungID])
        /\ zweig' = "spaeterErste"
        /\ Unterkategorien' =
             [Unterkategorien EXCEPT ![BestellungID] = Append(@, <<ort.u>>)]
     \/ /\ Len(Unterkategorien[BestellungID]) >= Len(Kategorien[BestellungID])
        /\ zweig' = "spaeterWeitere"
        /\ Unterkategorien' =
             [Unterkategorien EXCEPT ![BestellungID][Platz] = Append(@, ort.u)]
  /\ UNCHANGED <<Kategorien, Items, ExtrasNamen, ExtrasPreise, extrasString,
                 absturz>>

\* Slip: every item opens a category of its own.
ItemSpaeterErsteNeu ==
  /\ Besuche("item")
  /\ zweig = "spaeterErste"
  /\ Items' = [Items EXCEPT ![BestellungID] = Append(@, << <<ort.i>> >>)]
  /\ UNCHANGED <<zweig, Kategorien, Unterkategorien, ExtrasNamen, ExtrasPreise,
                 extrasString, absturz>>

ItemSpaeterErste ==
  /\ Besuche("item")
  /\ zweig = "spaeterErste"
  /\ Items' =
       IF Len(Items[BestellungID]) < Len(Kategorien[BestellungID])
       THEN [Items EXCEPT ![BestellungID] = Append(@, << <<ort.i>> >>)]
       ELSE [Items EXCEPT ![BestellungID][Platz][Unterplatz] = Append(@, ort.i)]
  /\ UNCHANGED <<zweig, Kategorien, Unterkategorien, ExtrasNamen, ExtrasPreise,
                 extrasString, absturz>>

\* Slip: a group is closed without counting its extras.
ExtraSpaeterErsteUngezaehlt ==
  /\ BeiExtra("spaeterErste")
  /\ ExtrasNamen[BestellungID] # <<>>
  /\ IF Len(ExtrasNamen[BestellungID]) < Len(Kategorien[BestellungID])
     THEN GruppeKategorie
     ELSE GruppeDazu
  /\ UNCHANGED absturz

ExtraSpaeterErste ==
  /\ BeiExtra("spaeterErste")
  /\ \/ ExtrasNamen[BestellungID] = <<>> /\ ExtraTrap
     \/ /\ ExtrasNamen[BestellungID] # <<>>
        /\ \/ Sammeln
           \/ /\ Vollzaehlig
              /\ Len(ExtrasNamen[BestellungID]) < Len(Kategorien[BestellungID])
              /\ GruppeKategorie
           \/ /\ Vollzaehlig
              /\ Len(ExtrasNamen[BestellungID]) >= Len(Kategorien[BestellungID])
              /\ GruppeDazu
        /\ UNCHANGED absturz

\* The first extra of a further subcategory closes its group, whether or
\* not the item has more.
ExtraSpaeterWeitere ==
  /\ BeiExtra("spaeterWeitere")
  /\ \/ Platz \notin DOMAIN ExtrasNamen[BestellungID] /\ ExtraTrap
     \/ /\ Platz \in DOMAIN ExtrasNamen[BestellungID]
        /\ \/ /\ Len(ExtrasNamen[BestellungID][Platz])
                   < Len(Unterkategorien[BestellungID][Platz])
              /\ GruppeNeu
           \/ /\ Len(ExtrasNamen[BestellungID][Platz])
                   >= Len(Unterkategorien[BestellungID][Platz])
              /\ \/ Sammeln
                 \/ Vollzaehlig /\ GruppeDazu
        /\ UNCHANGED absturz

LadeNext ==
  \/ Schnappschuss
  \/ Kategorie
  \/ UnterkategorieDerErsten
  \/ ItemErsteErste
  \/ ExtraErsteErste
  \/ ItemWeitere
  \/ ExtraErsteWeitere
  \/ UnterkategorieSpaeter
  \/ ItemSpaeterErste
  \/ ExtraSpaeterErste
  \/ ExtraSpaeterWeitere

LadeSpec == LadeInit /\ [][LadeNext]_ladeVars

(***************************************************************************)
(* The total of an order, computed whenever its row is drawn.              *)
(***************************************************************************)

\* The items and the extras of an order, each in one sequence.
ItemsPreis(id) ==
  FlattenSeq(FlattenSeq([p \in DOMAIN Items[id] |->
    [q \in DOMAIN Items[id][p] |-> [r \in DOMAIN Items[id][p][q] |->
       <<Kategorien[id][p], Unterkategorien[id][p][q], Items[id][p][q][r]>>]]]))

ExtraPreis(id) == FlattenSeq(FlattenSeq(FlattenSeq(ExtrasPreise[id])))

\* Slip: the extra of the next item is added.
teilPreisVersetzt(items, extras) ==
  [i \in DOMAIN items |->
     <<items[i], extras[IF i < Len(extras) THEN i + 1 ELSE i]>>]

\* The summands of the total: item i with extra i, times its amount.
teilPreis(items, extras) == [i \in DOMAIN items |-> <<items[i], extras[i]>>]

\* extrasPreis[i] exists for every item.
teilPreisMoeglich(items, extras) == Len(items) <= Len(extras)

gesamtpreisBerechnen(id) == teilPreis(ItemsPreis(id), ExtraPreis(id))

(***************************************************************************)
(* Properties.  Between two records nothing of the walk is pending.        *)
(***************************************************************************)
Faltungen(id) == {n \in 1..gefaltet : eingabe[n].id = id}
Fertig(id) == ~absturz /\ ort = Ende /\ Faltungen(id) # {}
Einmal(id) == \A n, m \in Faltungen(id) : n = m
Baum(id)   == LET n == CHOOSE n \in Faltungen(id) : TRUE IN eingabe[n].baum

\* Where item i of subcategory u of category k stands in the arrays of an
\* order, wherever it went.
Vorkommen(id, k, u, i) ==
  UNION {UNION {{<<p, q, r>> : r \in
    {r \in DOMAIN Items[id][p][q] : Items[id][p][q][r] = i}} : q \in
    {q \in DOMAIN Items[id][p] : Unterkategorien[id][p][q] = u}} : p \in
    {p \in DOMAIN Items[id] : Kategorien[id][p] = k}}

\* An order folded once stands in the dictionaries as it stands in the
\* record: every category, subcategory and item in its place, whichever of
\* the four branches brought it there.  One folded more often (several
\* observers noted it) has every item as often: multiplied, none lost, and
\* none mixed up with another category.
ItemsWieImDatensatz ==
  \A id \in IDs :
    Fertig(id) =>
      LET b == Baum(id)
      IN /\ Einmal(id) =>
              /\ Kategorien[id] = [k \in DOMAIN b |-> k]
              /\ Unterkategorien[id] =
                   [k \in DOMAIN b |-> [u \in DOMAIN b[k] |-> u]]
              /\ Items[id] = [k \in DOMAIN b |-> [u \in DOMAIN b[k] |->
                                [i \in DOMAIN b[k][u] |-> i]]]
         /\ \A k \in DOMAIN b : \A u \in DOMAIN b[k] : \A i \in DOMAIN b[k][u] :
              Cardinality(Vorkommen(id, k, u, i)) = Cardinality(Faltungen(id))

\* The n-th record is one the branches for extras are made for: every item
\* has extras, and the first item of a further subcategory has only one,
\* but in the first category of an order not folded before (the branch of
\* the others closes the group after the first extra).
Sauber(n) ==
  LET b == eingabe[n].baum
      wieder == \E m \in 1..(n - 1) : eingabe[m].id = eingabe[n].id
  IN \A k \in DOMAIN b : \A u \in DOMAIN b[k] :
       /\ \A i \in DOMAIN b[k][u] : b[k][u][i] > 0
       /\ (u > 1 /\ (k > 1 \/ wieder)) => b[k][u][1] = 1

AlleSauber == \A n \in 1..gefaltet : Sauber(n)

Gruppen(b) ==
  [k \in DOMAIN b |-> [u \in DOMAIN b[k] |-> [i \in DOMAIN b[k][u] |->
     [e \in 1..b[k][u][i] |-> <<k, u, i, e>>]]]]

\* If every record so far was of that kind, the walk does not end the
\* process, leaves no extras behind for the next item or the next order,
\* and an order folded once has the extras of every item at the place of
\* the item.  The prices agree with the names, except in the first
\* subcategory, where they stand in the opposite order of items.
ExtrasWieImDatensatz ==
  AlleSauber =>
    /\ ~absturz
    /\ ort = Ende => extrasString = <<>>
    /\ \A id \in IDs :
         Fertig(id) /\ Einmal(id) =>
           LET g == Gruppen(Baum(id))
           IN /\ ExtrasNamen[id] = g
              /\ ExtrasPreise[id] = [g EXCEPT ![1][1] = Reverse(@)]

EinExtra(b) ==
  /\ Len(b[1][1]) = 1
  /\ \A k \in DOMAIN b : \A u \in DOMAIN b[k] : \A i \in DOMAIN b[k][u] :
       b[k][u][i] = 1

\* If every record so far was of that kind, the total of an order (folded
\* once or more often) is computed without an index past the end.  It
\* charges every item with its own extra if each has exactly one and,
\* because of the prices that stand in reverse, the first subcategory has
\* one item.
GesamtpreisStimmt ==
  AlleSauber =>
    \A id \in IDs :
      Fertig(id) =>
        /\ teilPreisMoeglich(ItemsPreis(id), ExtraPreis(id))
        /\ EinExtra(Baum(id)) /\ Einmal(id) =>
             /\ Len(ItemsPreis(id)) = Len(ExtraPreis(id))
             /\ \A s \in ToSet(gesamtpreisBerechnen(id)) : s[2] = Append(s[1], 1)
=============================================================================
