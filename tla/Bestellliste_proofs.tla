-------------------------- MODULE Bestellliste_proofs -------------------------
(***************************************************************************)
(* Lemmas about what the order lists have in common: the types of their    *)
(* state, how often something occurs in a queue, and the account every     *)
(* list keeps of the records it asked for.  KellnerVC_proofs and           *)
(* KellnerAngenommenVC_proofs rest on them.                                *)
(***************************************************************************)
EXTENDS Bestellliste, FiniteSetTheorems, TLAPS

Block == KeysBlock \cup OrderBlock

\* The elements of a sequence over S are in S.
LEMMA FolgeElement ==
  ASSUME NEW S, NEW s \in Seq(S), NEW j \in 1..Len(s)
  PROVE  s[j] \in S
OBVIOUS

\* Appending an element of S to a sequence over S gives one.
LEMMA FolgeAnhang ==
  ASSUME NEW S, NEW s \in Seq(S), NEW e \in S
  PROVE  Append(s, e) \in Seq(S)
OBVIOUS

\* Length and elements of a sequence with another one appended.
LEMMA Kette ==
  ASSUME NEW S, NEW s \in Seq(S), NEW t \in Seq(S)
  PROVE  /\ Len(s) \in Nat /\ Len(t) \in Nat
         /\ Len(s \o t) = Len(s) + Len(t)
         /\ \A i \in 1..Len(t) : (s \o t)[Len(s) + i] = t[i]
OBVIOUS

(***************************************************************************)
(* Types of what the client posts.                                         *)
(***************************************************************************)

\* The events raised for a set of keys and observers are child-added events.
LEMMA EreignisseTyp ==
  ASSUME NEW st, NEW ids, NEW regs
  PROVE  Ereignisse(st, ids, regs) \in SUBSET Schluessel
BY DEF Ereignisse

\* Posting events keeps a queue of blocks.
LEMMA MeldeTyp ==
  ASSUME NEW schlange \in Seq(Block), NEW offen \in SUBSET Schluessel
  PROVE  Melde(schlange, offen) \in Seq(Block)
<1>1. [art |-> "keys", offen |-> offen] \in Block
  BY DEF Block, KeysBlock
<1> QED BY <1>1 DEF Melde

\* A further observer: its number is within the bound, the queue keeps its
\* type.
LEMMA BeobachterTyp ==
  ASSUME TypeOK, NEW st, observeChildAdded(st)
  PROVE  /\ registrierungen' \in 1..(MaxReload + 1)
         /\ hauptschlange' \in Seq(Block)
<1>1. registrierungen' \in 1..(MaxReload + 1)
  BY GrenzenAnnahme DEF TypeOK, observeChildAdded
<1>2. hauptschlange \in Seq(Block)
  BY DEF TypeOK, Block
<1>3. hauptschlange' \in Seq(Block)
  BY <1>2, EreignisseTyp, MeldeTyp DEF observeChildAdded
<1> QED BY <1>1, <1>3

\* Running the next child-added event keeps the type of the queue.
LEMMA SchluesselTyp ==
  ASSUME TypeOK, NEW p \in Schluessel, NaechsterSchluessel(p)
  PROVE  hauptschlange' \in Seq(Block)
<1> DEFINE offen == Head(hauptschlange).offen
           b == [hauptschlange[1] EXCEPT !.offen = offen \ {p}]
<1>1. hauptschlange \in Seq(Block) /\ hauptschlange # <<>>
  BY DEF TypeOK, Block, NaechsterSchluessel
<1>2. hauptschlange[1] \in Block /\ Head(hauptschlange) = hauptschlange[1]
  BY <1>1
<1>3. hauptschlange[1] \in KeysBlock
  BY <1>2 DEF NaechsterSchluessel, Block, OrderBlock
<1>4. b \in Block
  BY <1>2, <1>3 DEF KeysBlock, Block
<1>5. CASE offen = {p}
  BY <1>1, <1>5 DEF NaechsterSchluessel
<1>6. CASE offen # {p}
  <2>1. hauptschlange' = [hauptschlange EXCEPT ![1] = b]
    BY <1>1, <1>2, <1>3, <1>6 DEF NaechsterSchluessel, KeysBlock
  <2> QED BY <2>1, <1>1, <1>4
<1> QED BY <1>5, <1>6

\* The record of an order served to all who wait for it is a sequence of
\* answers.
LEMMA AntwortTyp ==
  ASSUME TypeOK, NEW id \in ID, Antwort(id)
  PROVE  hauptschlange' \in Seq(Block)
<1> DEFINE neu == [j \in 1..Len(unterwegs[id]) |->
                     [art |-> "order", id |-> id, aera |-> unterwegs[id][j]]]
<1>1. unterwegs[id] \in Seq(1..(MaxReload + 1))
  BY DEF TypeOK
<1>2. neu \in Seq(Block)
  <2>1. \A j \in 1..Len(unterwegs[id]) :
          [art |-> "order", id |-> id, aera |-> unterwegs[id][j]] \in Block
    <3> SUFFICES ASSUME NEW j \in 1..Len(unterwegs[id])
                 PROVE  [art |-> "order", id |-> id, aera |-> unterwegs[id][j]]
                          \in OrderBlock
      BY DEF Block
    <3>1. unterwegs[id][j] \in 1..(MaxReload + 1)
      BY <1>1, FolgeElement
    <3> QED BY <3>1 DEF OrderBlock
  <2> QED BY <1>1, <2>1
<1>3. hauptschlange \in Seq(Block)
  BY DEF TypeOK, Block
<1> QED BY <1>2, <1>3 DEF Antwort

\* Requesting a record keeps the type of the waiting observers.
LEMMA EinzelTyp ==
  ASSUME TypeOK, NEW id \in ID, observeSingleEvent(id)
  PROVE  unterwegs' \in [ID -> Seq(1..(MaxReload + 1))]
<1>1. unterwegs[id] \in Seq(1..(MaxReload + 1))
  BY DEF TypeOK
<1>2. Append(unterwegs[id], registrierungen) \in Seq(1..(MaxReload + 1))
  BY <1>1 DEF TypeOK
<1> QED BY <1>2 DEF TypeOK, observeSingleEvent

\* A process that starts has no observer waiting for a record.
LEMMA KeinerTyp == [id \in ID |-> <<>>] \in [ID -> Seq(1..(MaxReload + 1))]
<1>1. <<>> \in Seq(1..(MaxReload + 1))
  OBVIOUS
<1> QED BY <1>1

(***************************************************************************)
(* Types of the list.                                                      *)
(***************************************************************************)

\* Folding a record keeps the counters natural.
LEMMA GefaltetTyp ==
  ASSUME TypeOK, NEW id \in ID
  PROVE  gefaltet(id) \in [ID -> Nat]
BY DEF TypeOK, gefaltet

\* What a fold leaves without an entry are orders; as long as no fold was
\* delicate, none.
LEMMA LueckenTyp ==
  ASSUME TypeOK, NEW id \in ID, NEW l \in lueckenNach(id)
  PROVE  /\ l \subseteq ID
         /\ ~heikel(id) /\ luecken = {} => l = {}
<1>1. l = luecken \ {id} \/ (l = luecken \cup {id} /\ heikel(id))
  BY DEF lueckenNach
<1> QED BY <1>1 DEF TypeOK

\* The sections built for noted keys: one for each, of the right type.
LEMMA AbschnitteTyp ==
  ASSUME NEW ids \in Seq(ID), NEW k \in [ID -> Nat]
  PROVE  /\ Abschnitte(ids, k) \in Seq(Abschnitt)
         /\ Len(Abschnitte(ids, k)) = Len(ids)
<1>1. \A i \in 1..Len(ids) :
        [BestellungID |-> ids[i], kopien |-> k[ids[i]], expanded |-> FALSE]
          \in Abschnitt
  BY DEF Abschnitt
<1> QED BY <1>1 DEF Abschnitte

\* The section built for the i-th key names that key and its copies.
LEMMA AbschnittFelder ==
  ASSUME NEW ids \in Seq(ID), NEW k, NEW i \in 1..Len(ids)
  PROVE  /\ Abschnitte(ids, k)[i].BestellungID = ids[i]
         /\ Abschnitte(ids, k)[i].kopien = k[ids[i]]
BY DEF Abschnitte

(***************************************************************************)
(* The type invariant.                                                     *)
(***************************************************************************)

\* A process that is launched, or launched again, has an empty list.
LEMMA TypStart == Init => TypeOK
<1> SUFFICES ASSUME Init PROVE TypeOK
  OBVIOUS
<1>1. unterwegs \in [ID -> Seq(1..(MaxReload + 1))]
  BY KeinerTyp DEF Init
<1>2. /\ hauptschlange \in Seq(KeysBlock \cup OrderBlock)
      /\ bestellungIDs \in Seq(ID)
      /\ Bestellungen \in Seq(Abschnitt)
      /\ tafel \in Seq(Abschnitt)
  BY DEF Init
<1>3. registrierungen \in 1..(MaxReload + 1) /\ neustarts \in 0..MaxNeustart
  BY GrenzenAnnahme DEF Init
<1>4. status \in [ID -> Status \cup {"keine"}] /\ kopien \in [ID -> Nat]
  BY StatusAnnahme DEF Init
<1> QED BY <1>1, <1>2, <1>3, <1>4 DEF Init, TypeOK

\* What the client and the other devices do keeps the types.
LEMMA TypUmgebung ==
  ASSUME TypeOK, Umgebung
  PROVE  TypeOK'
<1>1. CASE ErsteDaten
  <2>1. hauptschlange' \in Seq(Block)
    BY <1>1, EreignisseTyp, MeldeTyp DEF ErsteDaten, TypeOK, Block
  <2> QED BY <1>1, <2>1 DEF ErsteDaten, TypeOK, listeVars, Block
<1>2. ASSUME NEW id \in ID, Antwort(id)
      PROVE  TypeOK'
  <2>1. hauptschlange' \in Seq(Block)
    BY <1>2, AntwortTyp
  <2>2. unterwegs' \in [ID -> Seq(1..(MaxReload + 1))]
    BY <1>2 DEF Antwort, TypeOK
  <2> QED BY <1>2, <2>1, <2>2 DEF Antwort, TypeOK, listeVars, Block
<1>3. ASSUME NEW id \in ID, NEW s \in Status, NeueBestellung(id, s)
      PROVE  TypeOK'
  <2>1. hauptschlange' \in Seq(Block)
    BY <1>3, EreignisseTyp, MeldeTyp DEF NeueBestellung, TypeOK, Block
  <2> QED BY <1>3, <2>1 DEF NeueBestellung, TypeOK, listeVars, Block
<1>4. ASSUME NEW id \in ID, NEW s \in Status, FremdeAenderung(id, s)
      PROVE  TypeOK'
  BY <1>4 DEF FremdeAenderung, TypeOK, listeVars
<1> QED BY <1>1, <1>2, <1>3, <1>4 DEF Umgebung

\* A trap keeps the types.
LEMMA TypTrap ==
  ASSUME TypeOK, NEW g \in {"nil", "index", "tabelle", "pfad"}, Trap(g),
         UNCHANGED <<hauptschlange, fremd>>
  PROVE  TypeOK'
BY DEF Trap, TypeOK

\* A process that is launched again has an empty list.
LEMMA TypNeustart ==
  ASSUME TypeOK, Neustart
  PROVE  TypeOK'
<1>1. unterwegs' \in [ID -> Seq(1..(MaxReload + 1))]
  BY KeinerTyp DEF Neustart
<1>2. /\ hauptschlange' \in Seq(KeysBlock \cup OrderBlock)
      /\ bestellungIDs' \in Seq(ID)
      /\ Bestellungen' \in Seq(Abschnitt)
      /\ tafel' \in Seq(Abschnitt)
  BY DEF Neustart
<1>3. registrierungen' \in 1..(MaxReload + 1) /\ neustarts' \in 0..MaxNeustart
  BY GrenzenAnnahme DEF Neustart, TypeOK
<1>4. kopien' \in [ID -> Nat]
  BY DEF Neustart
<1> QED BY <1>1, <1>2, <1>3, <1>4 DEF Neustart, TypeOK

(***************************************************************************)
(* Counting.                                                               *)
(***************************************************************************)

\* Where x occurs in a sequence, and how often.
Stellen(s, x) == {i \in 1..Len(s) : s[i] = x}
Anzahl(s, x)  == Cardinality(Stellen(s, x))

\* An element occurs finitely often, not at all in the empty sequence, and
\* it occurs when its number is not 0.
LEMMA AnzahlTyp ==
  ASSUME NEW S, NEW s \in Seq(S), NEW x
  PROVE  /\ IsFiniteSet(Stellen(s, x))
         /\ Anzahl(s, x) \in Nat
         /\ Anzahl(s, x) = 0 <=> Stellen(s, x) = {}
<1>1. Len(s) \in Nat
  OBVIOUS
<1>2. IsFiniteSet(1..Len(s))
  BY <1>1, FS_Interval
<1>3. Stellen(s, x) \in SUBSET (1..Len(s))
  BY DEF Stellen
<1>4. IsFiniteSet(Stellen(s, x))
  BY <1>2, <1>3, FS_Subset
<1> QED BY <1>4, FS_CardinalityType, FS_EmptySet DEF Anzahl

\* An element that does not occur is counted 0 times.
LEMMA AnzahlNull ==
  ASSUME NEW s, NEW x, \A i \in 1..Len(s) : s[i] # x
  PROVE  Anzahl(s, x) = 0
<1>1. Stellen(s, x) = {}
  BY DEF Stellen
<1> QED BY <1>1, FS_EmptySet DEF Anzahl

\* Sequences that agree on where x occurs have it equally often.
LEMMA AnzahlGleich ==
  ASSUME NEW s, NEW t, NEW x, NEW y, Len(s) = Len(t),
         \A i \in 1..Len(s) : s[i] = x <=> t[i] = y
  PROVE  Anzahl(s, x) = Anzahl(t, y)
<1>1. Stellen(s, x) = Stellen(t, y)
  BY DEF Stellen
<1> QED BY <1>1 DEF Anzahl

\* Appending e adds one occurrence of e.
LEMMA AnzahlAnhang ==
  ASSUME NEW S, NEW s \in Seq(S), NEW e, NEW x
  PROVE  Anzahl(Append(s, e), x) = Anzahl(s, x) + IF e = x THEN 1 ELSE 0
<1> DEFINE n == Len(s) + 1
           t == Append(s, e)
<1>1. Len(s) \in Nat /\ Len(t) = n /\ t[n] = e
      /\ \A i \in 1..Len(s) : t[i] = s[i]
  OBVIOUS
<1>2. IsFiniteSet(Stellen(s, x)) /\ Anzahl(s, x) \in Nat
  BY AnzahlTyp
<1> HIDE DEF t
<1>3. CASE e = x
  <2>1. Stellen(t, x) = Stellen(s, x) \cup {n} /\ n \notin Stellen(s, x)
    BY <1>1, <1>3 DEF Stellen
  <2>2. Cardinality(Stellen(s, x) \cup {n}) = Cardinality(Stellen(s, x)) + 1
    BY <1>2, <2>1, FS_AddElement
  <2> QED BY <1>3, <2>1, <2>2 DEF Anzahl, t
<1>4. CASE e # x
  <2>1. Stellen(t, x) = Stellen(s, x)
    BY <1>1, <1>4 DEF Stellen
  <2> QED BY <1>2, <1>4, <2>1 DEF Anzahl, t
<1> QED BY <1>3, <1>4

\* The occurrences in s \o t are those in s and those in t.
LEMMA AnzahlKette ==
  ASSUME NEW S, NEW s \in Seq(S), NEW t \in Seq(S), NEW x
  PROVE  Anzahl(s \o t, x) = Anzahl(s, x) + Anzahl(t, x)
<1> DEFINE m == Len(s)
           A == Stellen(s, x)
           B == {i \in (m + 1)..(m + Len(t)) : t[i - m] = x}
           f == [i \in Stellen(t, x) |-> i + m]
<1>1. m \in Nat /\ Len(t) \in Nat
  OBVIOUS
<1>2. /\ Len(s \o t) = m + Len(t)
      /\ \A i \in 1..m : (s \o t)[i] = s[i]
      /\ \A i \in (m + 1)..(m + Len(t)) : (s \o t)[i] = t[i - m]
  OBVIOUS
<1>3. Stellen(s \o t, x) = A \cup B
  BY <1>1, <1>2 DEF Stellen
<1>4. A \cap B = {}
  BY <1>1 DEF Stellen
<1>5. IsFiniteSet(A) /\ IsFiniteSet(Stellen(t, x))
  BY AnzahlTyp
<1>6. f \in Bijection(Stellen(t, x), B)
  <2>1. f \in [Stellen(t, x) -> B]
    BY <1>1 DEF Stellen
  <2>2. \A i, j \in Stellen(t, x) : f[i] = f[j] => i = j
    BY <1>1 DEF Stellen
  <2>3. \A k \in B : \E i \in Stellen(t, x) : f[i] = k
    <3> SUFFICES ASSUME NEW k \in B PROVE \E i \in Stellen(t, x) : f[i] = k
      OBVIOUS
    <3>1. k - m \in Stellen(t, x) /\ (k - m) + m = k
      BY <1>1 DEF Stellen
    <3> QED BY <3>1
  <2> HIDE DEF f, B
  <2> QED BY <2>1, <2>2, <2>3 DEF Bijection, Injection, Surjection, IsInjective
<1>7. IsFiniteSet(B) /\ Cardinality(B) = Anzahl(t, x)
  <2> HIDE DEF f, B
  <2> QED BY <1>5, <1>6, FS_Bijection DEF ExistsBijection, Anzahl
<1>8. Cardinality(A \cup B) = Cardinality(A) + Cardinality(B) - Cardinality({})
  <2> HIDE DEF A, B
  <2> QED BY <1>4, <1>5, <1>7, FS_Union
<1>9. Anzahl(s, x) \in Nat /\ Anzahl(t, x) \in Nat
  BY AnzahlTyp
<1> HIDE DEF B
<1> QED BY <1>3, <1>7, <1>8, <1>9, FS_EmptySet DEF Anzahl

\* Taking the head off removes one occurrence of the head.
LEMMA AnzahlRest ==
  ASSUME NEW S, NEW s \in Seq(S), s # <<>>, NEW x
  PROVE  Anzahl(s, x) = Anzahl(Tail(s), x) + IF Head(s) = x THEN 1 ELSE 0
<1> DEFINE h == Head(s)
           r == Tail(s)
           e == <<h>>
           l == <<>>
<1>1. /\ s = e \o r /\ e = Append(l, h)
      /\ e \in Seq(S) /\ r \in Seq(S) /\ l \in Seq(S)
  OBVIOUS
<1>2. \A i \in 1..Len(l) : l[i] # x
  OBVIOUS
<1> HIDE DEF h, r, e, l
<1>3. Anzahl(s, x) = Anzahl(e, x) + Anzahl(r, x)
  BY <1>1, AnzahlKette
<1>4. Anzahl(l, x) = 0
  BY <1>2, AnzahlNull
<1>5. Anzahl(e, x) = Anzahl(l, x) + IF h = x THEN 1 ELSE 0
  BY <1>1, AnzahlAnhang
<1>6. Anzahl(r, x) \in Nat
  BY <1>1, AnzahlTyp
<1> QED BY <1>3, <1>4, <1>5, <1>6 DEF h, r

(***************************************************************************)
(* The account of the records.  Since the last reload every noted key has  *)
(* asked for its record once; the answer is with the client, or on the     *)
(* main queue, or folded into the dictionaries (a record without a         *)
(* category leaves nothing there).  The account is right until a record    *)
(* that was asked for before the reload is folded in.                      *)
(***************************************************************************)

AntwortAuf(id, a) == [art |-> "order", id |-> id, aera |-> a]

\* Requests of the record of id since the last reload that have not run.
Offen(id) == Anzahl(unterwegs[id], registrierungen)
               + Anzahl(hauptschlange, AntwortAuf(id, registrierungen))

\* No request was made after the last reload but one: none is ahead of it.
AeraAlt ==
  /\ \A id \in ID : \A j \in 1..Len(unterwegs[id]) :
       unterwegs[id][j] <= registrierungen
  /\ \A j \in 1..Len(hauptschlange) :
       hauptschlange[j].art = "order" => hauptschlange[j].aera <= registrierungen

Bilanz ==
  ~fremd => \A id \in ID :
    /\ kopien[id] + Offen(id) <= Anzahl(bestellungIDs, id)
    /\ id \notin Leer => kopien[id] + Offen(id) = Anzahl(bestellungIDs, id)

Konto == TypeOK /\ AeraAlt /\ Bilanz

\* Why counting suffices: if no record was folded in more often than its key
\* was noted, and as many records are loaded as keys are noted, then every
\* noted key is loaded, once, and none was noted twice.
LEMMA Vollstaendig ==
  ASSUME NEW ids \in Seq(ID), NEW k \in [ID -> Nat],
         \A id \in ID : k[id] <= Anzahl(ids, id),
         Len(ids) = Cardinality(geladen(k))
  PROVE  /\ \A i \in 1..Len(ids) :
              /\ ids[i] \in geladen(k)
              /\ k[ids[i]] = 1
              /\ \A j \in 1..Len(ids) : ids[i] = ids[j] => i = j
         /\ \A id \in ID : k[id] = Anzahl(ids, id)
<1> DEFINE D == 1..Len(ids)
           R == {ids[i] : i \in D}
           G == geladen(k)
           f == [i \in D |-> ids[i]]
<1>1. Len(ids) \in Nat /\ \A i \in D : ids[i] \in ID
  BY FolgeElement
<1>2. IsFiniteSet(D) /\ Cardinality(D) = Len(ids)
  BY <1>1, FS_Interval
<1>3. f \in Surjection(D, R)
  BY DEF Surjection
<1>4. IsFiniteSet(R) /\ Cardinality(R) <= Len(ids)
      /\ (Cardinality(R) = Len(ids) => f \in Injection(D, R))
  <2> HIDE DEF D, R, f
  <2> QED BY <1>2, <1>3, FS_Surjection
<1>5. G \in SUBSET R
  <2> SUFFICES ASSUME NEW id \in ID, k[id] > 0 PROVE id \in R
    BY DEF geladen
  <2>1. Anzahl(ids, id) \in Nat /\ Anzahl(ids, id) # 0
    BY AnzahlTyp
  <2>2. Stellen(ids, id) # {}
    BY <2>1, AnzahlTyp
  <2> QED BY <2>2 DEF Stellen
<1>6. Cardinality(R) \in Nat /\ Cardinality(G) \in Nat
      /\ Cardinality(G) <= Cardinality(R) /\ (Cardinality(R) = Cardinality(G) => R = G)
  <2> HIDE DEF R, G
  <2> QED BY <1>4, <1>5, FS_Subset, FS_CardinalityType
<1>7. Cardinality(R) = Len(ids) /\ R = G
  BY <1>1, <1>4, <1>6
<1>8. \A i, j \in D : ids[i] = ids[j] => i = j
  BY <1>4, <1>7 DEF Injection, IsInjective
<1>9. \A i \in D : ids[i] \in G /\ k[ids[i]] > 0
  BY <1>7 DEF geladen
<1>10. ASSUME NEW i \in D PROVE Anzahl(ids, ids[i]) = 1
  <2>1. Stellen(ids, ids[i]) = {i}
    BY <1>8 DEF Stellen
  <2> QED BY <2>1, FS_Singleton DEF Anzahl
<1>11. \A i \in D : k[ids[i]] = 1
  BY <1>1, <1>9, <1>10
<1>12. ASSUME NEW id \in ID PROVE k[id] = Anzahl(ids, id)
  <2>1. CASE id \in R
    BY <2>1, <1>10, <1>11
  <2>2. CASE id \notin R
    <3>1. Stellen(ids, id) = {}
      BY <2>2 DEF Stellen
    <3>2. Anzahl(ids, id) = 0
      BY <3>1, AnzahlTyp
    <3> QED BY <3>2
  <2> QED BY <2>1, <2>2
<1> QED BY <1>8, <1>9, <1>11, <1>12

\* A sequence has as many indices as its length says.
LEMMA IntervallZahl ==
  ASSUME NEW S, NEW s \in Seq(S)
  PROVE  IsFiniteSet(1..Len(s)) /\ Cardinality(1..Len(s)) = Len(s)
<1>1. Len(s) \in Nat
  OBVIOUS
<1>2. ASSUME NEW n \in Nat
      PROVE  IsFiniteSet(1..n) /\ Cardinality(1..n) = n
  <2>1. /\ IsFiniteSet(1..n)
        /\ Cardinality(1..n) = IF 1 > n THEN 0 ELSE n - 1 + 1
    BY FS_Interval
  <2>2. (IF 1 > n THEN 0 ELSE n - 1 + 1) = n
    OBVIOUS
  <2> QED BY <2>1, <2>2
<1> QED BY <1>1, <1>2

\* The converse: if the loaded records are those of the noted keys, and none
\* was noted twice, the counts agree.
LEMMA Auszaehlung ==
  ASSUME NEW ids \in Seq(ID), NEW k,
         \A i \in 1..Len(ids) : ids[i] \in geladen(k),
         \A g \in geladen(k) : \E i \in 1..Len(ids) : ids[i] = g,
         \A i, j \in 1..Len(ids) : ids[i] = ids[j] => i = j
  PROVE  Len(ids) = Cardinality(geladen(k))
<1> DEFINE D == 1..Len(ids)
           G == geladen(k)
           f == [i \in D |-> ids[i]]
<1>1. f \in [D -> G] /\ \A i \in D : f[i] = ids[i]
  OBVIOUS
<1>2. IsFiniteSet(D) /\ Cardinality(D) = Len(ids)
  BY IntervallZahl
<1> HIDE DEF f, G
<1>3. f \in Bijection(D, G)
  BY <1>1 DEF Bijection, Injection, Surjection, IsInjective, G
<1> HIDE DEF D
<1> QED BY <1>2, <1>3, FS_Bijection DEF ExistsBijection, G

\* The numbers the account is kept in are natural.
LEMMA KontoTyp ==
  ASSUME TypeOK, NEW id \in ID
  PROVE  /\ kopien[id] \in Nat
         /\ Anzahl(unterwegs[id], registrierungen) \in Nat
         /\ Anzahl(hauptschlange, AntwortAuf(id, registrierungen)) \in Nat
         /\ Offen(id) \in Nat
         /\ Anzahl(bestellungIDs, id) \in Nat
<1>1. /\ kopien[id] \in Nat
      /\ unterwegs[id] \in Seq(1..(MaxReload + 1))
      /\ hauptschlange \in Seq(KeysBlock \cup OrderBlock)
      /\ bestellungIDs \in Seq(ID)
  BY DEF TypeOK
<1>2. /\ Anzahl(unterwegs[id], registrierungen) \in Nat
      /\ Anzahl(hauptschlange, AntwortAuf(id, registrierungen)) \in Nat
      /\ Anzahl(bestellungIDs, id) \in Nat
  BY <1>1, AnzahlTyp
<1> QED BY <1>1, <1>2 DEF Offen

\* A block of child-added events is no answer.
LEMMA MeldeAnzahl ==
  ASSUME NEW q \in Seq(Block), NEW o \in SUBSET Schluessel, NEW id, NEW a
  PROVE  Anzahl(Melde(q, o), AntwortAuf(id, a)) = Anzahl(q, AntwortAuf(id, a))
<1> DEFINE e == [art |-> "keys", offen |-> o]
<1>1. e # AntwortAuf(id, a)
  <2>1. e.art = "keys"
    OBVIOUS
  <2>2. AntwortAuf(id, a).art = "order"
    BY DEF AntwortAuf
  <2> QED BY <2>1, <2>2
<1>2. Anzahl(q, AntwortAuf(id, a)) \in Nat
  BY AnzahlTyp
<1> HIDE DEF e
<1>3. Anzahl(Append(q, e), AntwortAuf(id, a)) = Anzahl(q, AntwortAuf(id, a))
  BY <1>1, <1>2, AnzahlAnhang
<1> QED BY <1>3 DEF Melde, e

\* Posting child-added events leaves the answers' eras alone.
LEMMA MeldeAlt ==
  ASSUME NEW q \in Seq(Block), NEW o \in SUBSET Schluessel, NEW r,
         \A j \in 1..Len(q) : q[j].art = "order" => q[j].aera <= r
  PROVE  \A j \in 1..Len(Melde(q, o)) :
           Melde(q, o)[j].art = "order" => Melde(q, o)[j].aera <= r
<1> DEFINE e == [art |-> "keys", offen |-> o]
<1>1. e.art = "keys"
  OBVIOUS
<1> HIDE DEF e
<1>2. \A j \in 1..Len(Append(q, e)) :
        Append(q, e)[j].art = "order" => Append(q, e)[j].aera <= r
  BY <1>1
<1> QED BY <1>2 DEF Melde, e

\* A list that has just been emptied has a balanced account.
LEMMA KontoLeer ==
  ASSUME TypeOK', bestellungIDs' = <<>>, kopien' = [id \in ID |-> 0],
         \A id \in ID : Offen(id)' = 0
  PROVE  Bilanz'
<1>1. \A id \in ID : Anzahl(bestellungIDs, id)' = 0
  <2> SUFFICES ASSUME NEW id \in ID PROVE Anzahl(bestellungIDs', id) = 0
    OBVIOUS
  <2>1. \A i \in 1..Len(bestellungIDs') : bestellungIDs'[i] # id
    OBVIOUS
  <2> QED BY <2>1, AnzahlNull
<1> QED BY <1>1 DEF Bilanz

\* A launched process has asked for nothing.
LEMMA KontoStart == Init => Konto
<1> SUFFICES ASSUME Init PROVE Konto
  OBVIOUS
<1>1. TypeOK
  BY TypStart
<1>2. AeraAlt
  BY DEF Init, AeraAlt
<1>3. ASSUME NEW id \in ID
      PROVE  kopien[id] = 0 /\ Offen(id) = 0 /\ Anzahl(bestellungIDs, id) = 0
  <2>1. /\ \A i \in 1..Len(unterwegs[id]) : unterwegs[id][i] # registrierungen
        /\ \A i \in 1..Len(hauptschlange) :
             hauptschlange[i] # AntwortAuf(id, registrierungen)
        /\ \A i \in 1..Len(bestellungIDs) : bestellungIDs[i] # id
    BY DEF Init
  <2>2. /\ Anzahl(unterwegs[id], registrierungen) = 0
        /\ Anzahl(hauptschlange, AntwortAuf(id, registrierungen)) = 0
        /\ Anzahl(bestellungIDs, id) = 0
    BY <2>1, AnzahlNull
  <2> QED BY <2>2 DEF Init, Offen
<1>4. Bilanz
  BY <1>3 DEF Bilanz
<1> QED BY <1>1, <1>2, <1>4 DEF Konto

\* Nor has one that is launched again.
LEMMA KontoNeustart ==
  ASSUME Konto, Neustart
  PROVE  Konto'
<1>1. TypeOK'
  BY TypNeustart DEF Konto
<1>2. AeraAlt'
  BY DEF Neustart, AeraAlt
<1>3. ASSUME NEW id \in ID PROVE Offen(id)' = 0
  <2>1. /\ \A i \in 1..Len(unterwegs'[id]) : unterwegs'[id][i] # registrierungen'
        /\ \A i \in 1..Len(hauptschlange') :
             hauptschlange'[i] # AntwortAuf(id, registrierungen')
    BY DEF Neustart
  <2>2. /\ Anzahl(unterwegs'[id], registrierungen') = 0
        /\ Anzahl(hauptschlange', AntwortAuf(id, registrierungen')) = 0
    BY <2>1, AnzahlNull
  <2> QED BY <2>2 DEF Offen
<1>4. Bilanz'
  BY <1>1, <1>3, KontoLeer DEF Neustart
<1> QED BY <1>1, <1>2, <1>4 DEF Konto

\* A reload: all that was asked for belongs to an earlier era now.
LEMMA KontoReload ==
  ASSUME Konto, TypeOK', NEW st, observeChildAdded(st), UNCHANGED unterwegs,
         bestellungIDs' = <<>>, kopien' = [id \in ID |-> 0]
  PROVE  Konto'
<1> DEFINE r == registrierungen
           o == Ereignisse(st, ID, {r + 1})
<1>1. /\ r \in Nat /\ registrierungen' = r + 1
      /\ hauptschlange' = Melde(hauptschlange, o) \/ hauptschlange' = hauptschlange
  BY DEF observeChildAdded, Konto, TypeOK
<1>2. hauptschlange \in Seq(Block) /\ o \in SUBSET Schluessel
  BY EreignisseTyp DEF Konto, TypeOK, Block
<1>3. /\ \A id \in ID : \A j \in 1..Len(unterwegs[id]) :
           unterwegs[id][j] \in Nat /\ unterwegs[id][j] <= r
      /\ \A j \in 1..Len(hauptschlange) : hauptschlange[j].art = "order" =>
           hauptschlange[j].aera \in Nat /\ hauptschlange[j].aera <= r
  <2>1. ASSUME NEW id \in ID, NEW j \in 1..Len(unterwegs[id])
        PROVE  unterwegs[id][j] \in Nat
    <3>1. unterwegs[id] \in Seq(1..(MaxReload + 1))
      BY DEF Konto, TypeOK
    <3>2. unterwegs[id][j] \in 1..(MaxReload + 1)
      BY <3>1, FolgeElement
    <3> QED BY <3>2, GrenzenAnnahme
  <2>2. ASSUME NEW j \in 1..Len(hauptschlange), hauptschlange[j].art = "order"
        PROVE  hauptschlange[j].aera \in Nat
    <3>1. hauptschlange[j] \in Block
      BY <1>2, FolgeElement
    <3>2. hauptschlange[j] \in OrderBlock
      BY <2>2, <3>1 DEF Block, KeysBlock
    <3> QED BY <3>2, GrenzenAnnahme DEF OrderBlock
  <2> QED BY <2>1, <2>2 DEF Konto, AeraAlt
<1> HIDE DEF o
<1>4. ASSUME NEW id \in ID PROVE Offen(id)' = 0
  <2>1. \A j \in 1..Len(unterwegs[id]) : unterwegs[id][j] # r + 1
    BY <1>1, <1>3
  <2>2. \A j \in 1..Len(hauptschlange) : hauptschlange[j] # AntwortAuf(id, r + 1)
    <3> SUFFICES ASSUME NEW j \in 1..Len(hauptschlange),
                        hauptschlange[j] = AntwortAuf(id, r + 1)
                 PROVE  FALSE
      OBVIOUS
    <3>1. hauptschlange[j].art = "order" /\ hauptschlange[j].aera = r + 1
      BY DEF AntwortAuf
    <3> QED BY <3>1, <1>1, <1>3
  <2>3. /\ Anzahl(unterwegs[id], r + 1) = 0
        /\ Anzahl(hauptschlange, AntwortAuf(id, r + 1)) = 0
    BY <2>1, <2>2, AnzahlNull
  <2>4. Anzahl(Melde(hauptschlange, o), AntwortAuf(id, r + 1)) = 0
    BY <1>2, <2>3, MeldeAnzahl
  <2> QED BY <1>1, <2>3, <2>4 DEF Offen
<1>5. Bilanz'
  BY <1>4, KontoLeer
<1>6. AeraAlt'
  <2>1. \A j \in 1..Len(hauptschlange) :
          hauptschlange[j].art = "order" => hauptschlange[j].aera <= r + 1
    BY <1>1, <1>3
  <2>2. \A j \in 1..Len(hauptschlange') :
          hauptschlange'[j].art = "order" => hauptschlange'[j].aera <= r + 1
    BY <1>1, <1>2, <2>1, MeldeAlt
  <2>3. \A id \in ID : \A j \in 1..Len(unterwegs[id]) : unterwegs[id][j] <= r + 1
    BY <1>1, <1>3
  <2> QED BY <1>1, <2>2, <2>3 DEF AeraAlt
<1> QED BY <1>5, <1>6 DEF Konto

\* New child-added events ask for nothing.
LEMMA KontoMelde ==
  ASSUME Konto, TypeOK', NEW o \in SUBSET Schluessel,
         \/ hauptschlange' = Melde(hauptschlange, o)
         \/ hauptschlange' = hauptschlange,
         UNCHANGED <<registrierungen, unterwegs, bestellungIDs, kopien, fremd>>
  PROVE  Konto'
<1>1. hauptschlange \in Seq(Block)
  BY DEF Konto, TypeOK, Block
<1>2. \A id \in ID : Anzahl(hauptschlange', AntwortAuf(id, registrierungen))
                       = Anzahl(hauptschlange, AntwortAuf(id, registrierungen))
  BY <1>1, MeldeAnzahl
<1>3. \A id \in ID : Offen(id)' = Offen(id)
  BY <1>2 DEF Offen
<1>4. Bilanz'
  BY <1>3 DEF Bilanz, Konto
<1>5. \A j \in 1..Len(hauptschlange) :
        hauptschlange[j].art = "order" => hauptschlange[j].aera <= registrierungen
  BY DEF Konto, AeraAlt
<1>6. \A j \in 1..Len(hauptschlange') :
        hauptschlange'[j].art = "order" => hauptschlange'[j].aera <= registrierungen
  BY <1>1, <1>5, MeldeAlt
<1>7. AeraAlt'
  BY <1>6 DEF AeraAlt, Konto
<1> QED BY <1>4, <1>7 DEF Konto

\* When the client serves a record, the requests move to the main queue.
LEMMA KontoAntwort ==
  ASSUME Konto, TypeOK', NEW d \in ID, Antwort(d)
  PROVE  Konto'
<1> DEFINE r == registrierungen
           u == unterwegs[d]
           neu == [j \in 1..Len(u) |-> AntwortAuf(d, u[j])]
<1>1. /\ unterwegs \in [ID -> Seq(1..(MaxReload + 1))]
      /\ u \in Seq(1..(MaxReload + 1)) /\ hauptschlange \in Seq(Block)
      /\ \A j \in 1..Len(u) : u[j] \in 1..(MaxReload + 1)
  BY FolgeElement DEF Konto, TypeOK, Block
<1>2. neu \in Seq(Block) /\ Len(neu) = Len(u)
  <2>1. \A j \in 1..Len(u) : AntwortAuf(d, u[j]) \in Block
    BY <1>1 DEF Block, OrderBlock, AntwortAuf
  <2>2. Len(u) \in Nat
    BY <1>1
  <2> HIDE DEF u
  <2> QED BY <2>1, <2>2
<1>3. /\ hauptschlange' = hauptschlange \o neu
      /\ unterwegs' = [unterwegs EXCEPT ![d] = <<>>]
      /\ UNCHANGED <<registrierungen, bestellungIDs, kopien, fremd>>
  BY DEF Antwort, AntwortAuf, listeVars
<1>4. \A j \in 1..Len(neu) : neu[j] = AntwortAuf(d, u[j])
  BY <1>2
<1> HIDE DEF neu
<1>5. ASSUME NEW id \in ID PROVE Offen(id)' = Offen(id)
  <2>1. Anzahl(hauptschlange', AntwortAuf(id, r))
          = Anzahl(hauptschlange, AntwortAuf(id, r)) + Anzahl(neu, AntwortAuf(id, r))
    BY <1>1, <1>2, <1>3, AnzahlKette
  <2>2. /\ Anzahl(hauptschlange, AntwortAuf(id, r)) \in Nat
        /\ Anzahl(unterwegs[id], r) \in Nat
    BY KontoTyp DEF Konto
  <2>3. CASE id = d
    <3>1. \A j \in 1..Len(u) : u[j] = r <=> neu[j] = AntwortAuf(id, r)
      <4> SUFFICES ASSUME NEW j \in 1..Len(u)
                   PROVE  u[j] = r <=> neu[j] = AntwortAuf(id, r)
        OBVIOUS
      <4>1. neu[j] = AntwortAuf(id, u[j])
        BY <1>2, <1>4, <2>3
      <4>2. AntwortAuf(id, u[j]).aera = u[j] /\ AntwortAuf(id, r).aera = r
        BY DEF AntwortAuf
      <4> QED BY <4>1, <4>2
    <3>2. Anzahl(neu, AntwortAuf(id, r)) = Anzahl(unterwegs[id], r)
      BY <1>2, <2>3, <3>1, AnzahlGleich
    <3>3. Anzahl(unterwegs'[id], r) = 0
      <4>1. unterwegs'[id] = <<>>
        BY <1>1, <1>3, <2>3
      <4>2. \A i \in 1..Len(unterwegs'[id]) : unterwegs'[id][i] # r
        BY <4>1
      <4> QED BY <4>2, AnzahlNull
    <3> QED BY <1>3, <2>1, <2>2, <3>2, <3>3 DEF Offen
  <2>4. CASE id # d
    <3>1. \A j \in 1..Len(neu) : neu[j] # AntwortAuf(id, r)
      <4> SUFFICES ASSUME NEW j \in 1..Len(neu), neu[j] = AntwortAuf(id, r)
                   PROVE  FALSE
        OBVIOUS
      <4>1. AntwortAuf(d, u[j]).id = d /\ AntwortAuf(id, r).id = id
        BY DEF AntwortAuf
      <4> QED BY <1>4, <2>4, <4>1
    <3>2. Anzahl(neu, AntwortAuf(id, r)) = 0
      BY <3>1, AnzahlNull
    <3>3. unterwegs'[id] = unterwegs[id]
      BY <1>1, <1>3, <2>4
    <3> QED BY <1>3, <2>1, <2>2, <3>2, <3>3 DEF Offen
  <2> QED BY <2>3, <2>4
<1>6. Bilanz'
  BY <1>3, <1>5 DEF Bilanz, Konto
<1>7. \A id \in ID : \A j \in 1..Len(unterwegs'[id]) : unterwegs'[id][j] <= r
  BY <1>1, <1>3 DEF Konto, AeraAlt
<1>8. \A j \in 1..Len(hauptschlange') :
        hauptschlange'[j].art = "order" => hauptschlange'[j].aera <= r
  <2> SUFFICES ASSUME NEW j \in 1..Len(hauptschlange'),
                      hauptschlange'[j].art = "order"
               PROVE  hauptschlange'[j].aera <= r
    OBVIOUS
  <2> DEFINE m == Len(hauptschlange)
  <2>1. \/ j \in 1..m /\ hauptschlange'[j] = hauptschlange[j]
        \/ j - m \in 1..Len(u) /\ hauptschlange'[j] = neu[j - m]
    BY <1>1, <1>2, <1>3
  <2>2. CASE j \in 1..m /\ hauptschlange'[j] = hauptschlange[j]
    BY <2>2 DEF Konto, AeraAlt
  <2>3. CASE j - m \in 1..Len(u) /\ hauptschlange'[j] = neu[j - m]
    <3>1. hauptschlange'[j].aera = u[j - m]
      <4>1. hauptschlange'[j] = AntwortAuf(d, u[j - m])
        BY <1>2, <1>4, <2>3
      <4>2. AntwortAuf(d, u[j - m]).aera = u[j - m]
        BY DEF AntwortAuf
      <4> QED BY <4>1, <4>2
    <3>2. \A l \in 1..Len(u) : u[l] <= r
      BY DEF Konto, AeraAlt
    <3> QED BY <2>3, <3>1, <3>2
  <2> QED BY <2>1, <2>2, <2>3
<1>9. AeraAlt'
  BY <1>3, <1>7, <1>8 DEF AeraAlt
<1> QED BY <1>6, <1>9 DEF Konto

\* What the client and the other devices do keeps the account.
LEMMA KontoUmgebung ==
  ASSUME Konto, Umgebung
  PROVE  Konto'
<1>0. TypeOK /\ TypeOK'
  BY TypUmgebung DEF Konto
<1>1. CASE ErsteDaten
  BY <1>0, <1>1, EreignisseTyp, KontoMelde DEF ErsteDaten, listeVars
<1>2. ASSUME NEW id \in ID, Antwort(id)
      PROVE  Konto'
  BY <1>0, <1>2, KontoAntwort
<1>3. ASSUME NEW id \in ID, NEW s \in Status, NeueBestellung(id, s)
      PROVE  Konto'
  <2> DEFINE o == Ereignisse(status', {id}, 1..registrierungen)
  <2>1. o \in SUBSET Schluessel
    BY EreignisseTyp
  <2>2. /\ hauptschlange' = Melde(hauptschlange, o) \/ hauptschlange' = hauptschlange
        /\ UNCHANGED <<registrierungen, unterwegs, bestellungIDs, kopien, fremd>>
    BY <1>3 DEF NeueBestellung, listeVars
  <2> HIDE DEF o
  <2> QED BY <1>0, <2>1, <2>2, KontoMelde
<1>4. ASSUME NEW id \in ID, NEW s \in Status, FremdeAenderung(id, s)
      PROVE  Konto'
  <2>1. /\ hauptschlange' = hauptschlange
        /\ UNCHANGED <<registrierungen, unterwegs, bestellungIDs, kopien, fremd>>
    BY <1>4 DEF FremdeAenderung, listeVars
  <2>2. {} \in SUBSET Schluessel
    OBVIOUS
  <2> QED BY <1>0, <2>1, <2>2, KontoMelde
<1> QED BY <1>1, <1>2, <1>3, <1>4 DEF Umgebung

\* Running a child-added event takes no answer off the queue.
LEMMA SchluesselAnzahl ==
  ASSUME TypeOK, NEW p \in Schluessel, NaechsterSchluessel(p), NEW id, NEW a
  PROVE  Anzahl(hauptschlange', AntwortAuf(id, a))
           = Anzahl(hauptschlange, AntwortAuf(id, a))
<1> DEFINE q == hauptschlange
           x == AntwortAuf(id, a)
<1>1. q \in Seq(Block) /\ q # <<>> /\ Head(q) = q[1] /\ q[1].art = "keys"
  BY DEF TypeOK, Block, NaechsterSchluessel
<1>2. x.art = "order"
  BY DEF AntwortAuf
<1>3. Anzahl(Tail(q), x) \in Nat
  <2>1. Tail(q) \in Seq(Block)
    BY <1>1
  <2> QED BY <2>1, AnzahlTyp
<1> HIDE DEF x
<1>4. CASE hauptschlange' = Tail(q)
  <2>1. Head(q) # x
    BY <1>1, <1>2
  <2>2. Anzahl(q, x) = Anzahl(Tail(q), x) + IF Head(q) = x THEN 1 ELSE 0
    BY <1>1, AnzahlRest
  <2> QED BY <1>3, <1>4, <2>1, <2>2 DEF x
<1>5. CASE hauptschlange' = [q EXCEPT ![1].offen = @ \ {p}]
  <2>1. q[1] \in KeysBlock
    BY <1>1 DEF Block, OrderBlock
  <2>2. /\ Len(hauptschlange') = Len(q)
        /\ \A i \in 1..Len(q) : i # 1 => hauptschlange'[i] = q[i]
        /\ hauptschlange'[1].art = "keys"
    BY <1>1, <1>5, <2>1 DEF KeysBlock
  <2>3. \A i \in 1..Len(hauptschlange') : hauptschlange'[i] = x <=> q[i] = x
    BY <1>1, <1>2, <2>2
  <2> QED BY <2>2, <2>3, AnzahlGleich DEF x
<1> QED BY <1>4, <1>5 DEF NaechsterSchluessel

\* The answers that stay on the queue keep their era.
LEMMA SchluesselAlt ==
  ASSUME Konto, NEW p \in Schluessel, NaechsterSchluessel(p)
  PROVE  \A j \in 1..Len(hauptschlange') :
           hauptschlange'[j].art = "order" => hauptschlange'[j].aera <= registrierungen
<1> DEFINE q == hauptschlange
<1>1. q \in Seq(Block) /\ q # <<>> /\ Head(q) = q[1] /\ q[1].art = "keys"
  BY DEF Konto, TypeOK, Block, NaechsterSchluessel
<1>2. \A j \in 1..Len(q) : q[j].art = "order" => q[j].aera <= registrierungen
  BY DEF Konto, AeraAlt
<1>3. CASE hauptschlange' = Tail(q)
  BY <1>1, <1>2, <1>3
<1>4. CASE hauptschlange' = [q EXCEPT ![1].offen = @ \ {p}]
  <2>1. q[1] \in KeysBlock
    BY <1>1 DEF Block, OrderBlock
  <2>2. /\ Len(hauptschlange') = Len(q)
        /\ \A i \in 1..Len(q) : i # 1 => hauptschlange'[i] = q[i]
        /\ hauptschlange'[1].art = "keys"
    BY <1>1, <1>4, <2>1 DEF KeysBlock
  <2> QED BY <1>2, <2>2
<1> QED BY <1>3, <1>4 DEF NaechsterSchluessel

\* A key that is noted asks for its record once: one more on both sides.
LEMMA KontoNotiert ==
  ASSUME Konto, TypeOK', NEW p \in Schluessel, NaechsterSchluessel(p),
         bestellungIDs' = Append(bestellungIDs, p[1]), observeSingleEvent(p[1]),
         UNCHANGED <<registrierungen, kopien, fremd>>
  PROVE  Konto' /\ Offen(p[1])' > 0
<1> DEFINE r == registrierungen
           d == p[1]
<1>1. /\ d \in ID
      /\ unterwegs \in [ID -> Seq(1..(MaxReload + 1))]
      /\ bestellungIDs \in Seq(ID)
      /\ r \in 1..(MaxReload + 1)
  BY DEF Schluessel, Konto, TypeOK
<1>2. unterwegs' = [unterwegs EXCEPT ![d] = Append(@, r)]
  BY DEF observeSingleEvent
<1>3. ASSUME NEW id \in ID
      PROVE  /\ Offen(id)' = Offen(id) + IF d = id THEN 1 ELSE 0
             /\ Anzahl(bestellungIDs', id)
                  = Anzahl(bestellungIDs, id) + IF d = id THEN 1 ELSE 0
  <2>1. Anzahl(hauptschlange', AntwortAuf(id, r)) = Anzahl(hauptschlange, AntwortAuf(id, r))
    BY SchluesselAnzahl DEF Konto
  <2>2. Anzahl(unterwegs'[id], r) = Anzahl(unterwegs[id], r) + IF d = id THEN 1 ELSE 0
    <3>1. Anzahl(unterwegs[id], r) \in Nat
      BY KontoTyp DEF Konto
    <3>2. CASE d = id
      <4>1. unterwegs'[id] = Append(unterwegs[id], r)
        BY <1>1, <1>2, <3>2
      <4>2. unterwegs[id] \in Seq(1..(MaxReload + 1))
        BY <1>1
      <4>3. Anzahl(Append(unterwegs[id], r), r) = Anzahl(unterwegs[id], r) + 1
        BY <4>2, AnzahlAnhang
      <4> QED BY <3>2, <4>1, <4>3
    <3>3. CASE d # id
      BY <1>1, <1>2, <3>1, <3>3
    <3> QED BY <3>2, <3>3
  <2>3. Anzahl(bestellungIDs', id) = Anzahl(bestellungIDs, id) + IF d = id THEN 1 ELSE 0
    BY <1>1, AnzahlAnhang
  <2>4. /\ Anzahl(hauptschlange, AntwortAuf(id, r)) \in Nat
        /\ Anzahl(unterwegs[id], r) \in Nat
    BY KontoTyp DEF Konto
  <2> HIDE DEF d
  <2> QED BY <2>1, <2>2, <2>3, <2>4 DEF Offen
<1>4. \A id \in ID : /\ kopien[id] \in Nat /\ Offen(id) \in Nat
                     /\ Anzahl(bestellungIDs, id) \in Nat
  BY KontoTyp DEF Konto
<1> HIDE DEF d
<1>5. Bilanz'
  <2> SUFFICES ASSUME ~fremd, NEW id \in ID
               PROVE  /\ kopien[id] + Offen(id)' <= Anzahl(bestellungIDs', id)
                      /\ id \notin Leer =>
                           kopien[id] + Offen(id)' = Anzahl(bestellungIDs', id)
    BY DEF Bilanz
  <2>1. /\ kopien[id] + Offen(id) <= Anzahl(bestellungIDs, id)
        /\ id \notin Leer => kopien[id] + Offen(id) = Anzahl(bestellungIDs, id)
    BY DEF Konto, Bilanz
  <2> QED BY <1>3, <1>4, <2>1
<1>6. \A id \in ID : \A j \in 1..Len(unterwegs'[id]) : unterwegs'[id][j] <= r
  <2> SUFFICES ASSUME NEW id \in ID, NEW j \in 1..Len(unterwegs'[id])
               PROVE  unterwegs'[id][j] <= r
    OBVIOUS
  <2>1. \A l \in 1..Len(unterwegs[id]) : unterwegs[id][l] <= r
    BY DEF Konto, AeraAlt
  <2>2. unterwegs[id] \in Seq(1..(MaxReload + 1)) /\ r <= r
    BY <1>1, GrenzenAnnahme
  <2>3. CASE d = id
    <3>1. unterwegs'[id] = Append(unterwegs[id], r)
      BY <1>1, <1>2, <2>3
    <3> QED BY <2>1, <2>2, <3>1
  <2>4. CASE d # id
    BY <1>1, <1>2, <2>1, <2>4
  <2> QED BY <2>3, <2>4
<1>7. AeraAlt'
  BY <1>6, SchluesselAlt DEF AeraAlt
<1>8. Offen(d)' > 0
  BY <1>1, <1>3, <1>4
<1> QED BY <1>5, <1>7, <1>8 DEF Konto, d

\* A key that is passed over changes nothing.
LEMMA KontoUebergangen ==
  ASSUME Konto, TypeOK', NEW p \in Schluessel, NaechsterSchluessel(p),
         UNCHANGED <<registrierungen, unterwegs, bestellungIDs, kopien, fremd>>
  PROVE  Konto'
<1>1. \A id \in ID : Offen(id)' = Offen(id)
  <2> SUFFICES ASSUME NEW id \in ID PROVE Offen(id)' = Offen(id)
    OBVIOUS
  <2>1. Anzahl(hauptschlange', AntwortAuf(id, registrierungen))
          = Anzahl(hauptschlange, AntwortAuf(id, registrierungen))
    BY SchluesselAnzahl DEF Konto
  <2> QED BY <2>1 DEF Offen
<1>2. Bilanz'
  BY <1>1 DEF Bilanz, Konto
<1>3. AeraAlt'
  BY SchluesselAlt DEF AeraAlt, Konto
<1> QED BY <1>2, <1>3 DEF Konto

\* A record of this era that runs was asked for, and folding it in keeps the
\* account.
LEMMA KontoGefaltet ==
  ASSUME Konto, ~fremd, NEW b \in OrderBlock, NaechsteAntwort(b),
         b.aera = registrierungen, UNCHANGED <<registrierungen, unterwegs>>
  PROVE  /\ Offen(b.id) > 0
         /\ \A id \in ID :
              /\ Offen(id)' \in Nat
              /\ gefaltet(b.id)[id] + Offen(id)' <= Anzahl(bestellungIDs, id)
              /\ id \notin Leer =>
                   gefaltet(b.id)[id] + Offen(id)' = Anzahl(bestellungIDs, id)
<1> DEFINE q == hauptschlange
           r == registrierungen
<1>1. q \in Seq(Block) /\ q # <<>> /\ Head(q) = b /\ q' = Tail(q)
  BY DEF Konto, TypeOK, Block, NaechsteAntwort
<1>2. b = AntwortAuf(b.id, r) /\ b.id \in ID
  BY DEF OrderBlock, AntwortAuf
<1>3. ASSUME NEW id \in ID
      PROVE  Offen(id)' \in Nat /\ Offen(id) = Offen(id)' + IF b.id = id THEN 1 ELSE 0
  <2> DEFINE x == AntwortAuf(id, r)
  <2>1. b = x <=> b.id = id
    <3>1. x.id = id
      BY DEF AntwortAuf
    <3> QED BY <1>2, <3>1
  <2> HIDE DEF x
  <2>2. Anzahl(q, x) = Anzahl(Tail(q), x) + IF Head(q) = x THEN 1 ELSE 0
    BY <1>1, AnzahlRest
  <2>3. Tail(q) \in Seq(Block)
    BY <1>1
  <2>4. Anzahl(Tail(q), x) \in Nat
    BY <2>3, AnzahlTyp
  <2>5. Anzahl(unterwegs[id], r) \in Nat
    BY KontoTyp DEF Konto
  <2>6. /\ Offen(id) = Anzahl(unterwegs[id], r) + Anzahl(q, x)
        /\ Offen(id)' = Anzahl(unterwegs[id], r) + Anzahl(Tail(q), x)
    BY <1>1 DEF Offen, x
  <2> QED BY <1>1, <2>1, <2>2, <2>4, <2>5, <2>6
<1>4. ASSUME NEW id \in ID
      PROVE  /\ gefaltet(b.id)[id] + Offen(id)' <= Anzahl(bestellungIDs, id)
             /\ id \notin Leer =>
                  gefaltet(b.id)[id] + Offen(id)' = Anzahl(bestellungIDs, id)
  <2>1. /\ kopien[id] + Offen(id) <= Anzahl(bestellungIDs, id)
        /\ id \notin Leer => kopien[id] + Offen(id) = Anzahl(bestellungIDs, id)
    BY DEF Konto, Bilanz
  <2>2. kopien[id] \in Nat /\ Anzahl(bestellungIDs, id) \in Nat
    BY KontoTyp DEF Konto
  <2>3. gefaltet(b.id)[id] = kopien[id] + IF b.id = id /\ id \notin Leer THEN 1 ELSE 0
    BY <1>2, <2>2 DEF gefaltet, Konto, TypeOK
  <2> QED BY <1>3, <2>1, <2>2, <2>3
<1>5. Offen(b.id) > 0
  BY <1>2, <1>3
<1> QED BY <1>3, <1>4, <1>5

\* The eras after a record has run.
LEMMA AntwortAlt ==
  ASSUME Konto, NEW b \in OrderBlock, NaechsteAntwort(b),
         UNCHANGED <<registrierungen, unterwegs>>
  PROVE  AeraAlt'
<1>1. /\ hauptschlange \in Seq(Block) /\ hauptschlange # <<>>
      /\ hauptschlange' = Tail(hauptschlange)
  BY DEF Konto, TypeOK, Block, NaechsteAntwort
<1>2. \A j \in 1..Len(hauptschlange') : /\ j + 1 \in 1..Len(hauptschlange)
                                        /\ hauptschlange'[j] = hauptschlange[j + 1]
  BY <1>1
<1> QED BY <1>2 DEF Konto, AeraAlt

\* The account in the form the lemma on counting takes.
LEMMA NieZuviel ==
  ASSUME Konto, ~fremd
  PROVE  \A id \in ID : kopien[id] <= Anzahl(bestellungIDs, id)
<1> SUFFICES ASSUME NEW id \in ID PROVE kopien[id] <= Anzahl(bestellungIDs, id)
  OBVIOUS
<1>1. /\ kopien[id] \in Nat /\ Offen(id) \in Nat
      /\ Anzahl(bestellungIDs, id) \in Nat
  BY KontoTyp DEF Konto
<1>2. kopien[id] + Offen(id) <= Anzahl(bestellungIDs, id)
  BY DEF Konto, Bilanz
<1> QED BY <1>1, <1>2

\* While as many records are loaded as keys are noted, no request of this
\* era is open.
LEMMA NichtsOffen ==
  ASSUME Konto, ~fremd, NEW id \in ID, Offen(id) > 0
  PROVE  /\ bestellungIDs # <<>>
         /\ Len(bestellungIDs) # Cardinality(geladen(kopien))
<1>1. \A d \in ID : /\ kopien[d] \in Nat /\ Offen(d) \in Nat
                    /\ Anzahl(bestellungIDs, d) \in Nat
  BY KontoTyp DEF Konto
<1>2. \A d \in ID : kopien[d] + Offen(d) <= Anzahl(bestellungIDs, d)
  BY DEF Konto, Bilanz
<1>3. \A d \in ID : kopien[d] <= Anzahl(bestellungIDs, d)
  BY <1>1, <1>2
<1>4. kopien[id] # Anzahl(bestellungIDs, id) /\ Anzahl(bestellungIDs, id) # 0
  BY <1>1, <1>2
<1>5. bestellungIDs \in Seq(ID) /\ kopien \in [ID -> Nat]
  BY DEF Konto, TypeOK
<1>6. Len(bestellungIDs) # Cardinality(geladen(kopien))
  BY <1>3, <1>4, <1>5, Vollstaendig
<1>7. bestellungIDs # <<>>
  <2> SUFFICES ASSUME bestellungIDs = <<>> PROVE FALSE
    OBVIOUS
  <2>1. \A i \in 1..Len(bestellungIDs) : bestellungIDs[i] # id
    OBVIOUS
  <2> QED BY <1>4, <2>1, AnzahlNull
<1> QED BY <1>6, <1>7

\* The same of the state after a step.
LEMMA NichtsOffenDanach ==
  ASSUME NEW id \in ID
  PROVE  (Konto /\ ~fremd /\ Offen(id) > 0)' =>
           (/\ bestellungIDs # <<>>
            /\ Len(bestellungIDs) # Cardinality(geladen(kopien)))'
<1>1. (Konto /\ ~fremd /\ Offen(id) > 0) =>
        /\ bestellungIDs # <<>>
        /\ Len(bestellungIDs) # Cardinality(geladen(kopien))
  BY NichtsOffen
<1> QED BY <1>1, PTL
===============================================================================
