---------------------------- MODULE Filter_proofs ----------------------------
(***************************************************************************)
(* Proofs about the filtered list: what can end the process, that what is  *)
(* ticked is gathered, and how often a category is kept, for any finite    *)
(* set of orders, any menu, and any number of refreshes and taps on        *)
(* "Filtern".                                                              *)
(***************************************************************************)
EXTENDS Filter, FiniteSetTheorems, TLAPS

(***************************************************************************)
(* Counting.                                                               *)
(***************************************************************************)

\* Where a sequence has an element of X, and how often.
Stellen(s, X) == {i \in 1..Len(s) : s[i] \in X}
Zahl(s, X)    == Cardinality(Stellen(s, X))

LEMMA ZahlTyp ==
  ASSUME NEW S, NEW s \in Seq(S), NEW X
  PROVE  /\ IsFiniteSet(Stellen(s, X))
         /\ Zahl(s, X) \in Nat
         /\ Zahl(s, X) <= Len(s)
         /\ Zahl(s, X) = 0 <=> Stellen(s, X) = {}
<1>1. Len(s) \in Nat
  OBVIOUS
<1>2. IsFiniteSet(1..Len(s)) /\ Cardinality(1..Len(s)) = Len(s)
  BY <1>1, FS_Interval
<1>3. Stellen(s, X) \in SUBSET (1..Len(s))
  BY DEF Stellen
<1>4. IsFiniteSet(Stellen(s, X)) /\ Cardinality(Stellen(s, X)) <= Len(s)
  BY <1>2, <1>3, FS_Subset
<1> QED BY <1>4, FS_CardinalityType, FS_EmptySet DEF Zahl

\* Found at one place at the most, found at most once.
LEMMA ZahlEinmal ==
  ASSUME NEW S, NEW s \in Seq(S), NEW X,
         \A i, j \in 1..Len(s) : s[i] \in X /\ s[j] \in X => i = j
  PROVE  Zahl(s, X) \in {0, 1}
<1>1. CASE Stellen(s, X) = {}
  BY <1>1, FS_EmptySet DEF Zahl
<1>2. CASE Stellen(s, X) # {}
  <2>1. PICK i \in Stellen(s, X) : TRUE
    BY <1>2
  <2>2. Stellen(s, X) = {i}
    BY <2>1 DEF Stellen
  <2> QED BY <2>2, FS_Singleton DEF Zahl
<1> QED BY <1>1, <1>2

\* What is found in s \o t is found in s or in t.
LEMMA ZahlKette ==
  ASSUME NEW S, NEW s \in Seq(S), NEW t \in Seq(S), NEW X
  PROVE  Zahl(s \o t, X) = Zahl(s, X) + Zahl(t, X)
<1> DEFINE m == Len(s)
           A == Stellen(s, X)
           B == {i \in (m + 1)..(m + Len(t)) : t[i - m] \in X}
           f == [i \in Stellen(t, X) |-> i + m]
<1>1. m \in Nat /\ Len(t) \in Nat
  OBVIOUS
<1>2. /\ Len(s \o t) = m + Len(t)
      /\ \A i \in 1..m : (s \o t)[i] = s[i]
      /\ \A i \in (m + 1)..(m + Len(t)) : (s \o t)[i] = t[i - m]
  OBVIOUS
<1>3. Stellen(s \o t, X) = A \cup B
  BY <1>1, <1>2 DEF Stellen
<1>4. A \cap B = {}
  BY <1>1 DEF Stellen
<1>5. IsFiniteSet(A) /\ IsFiniteSet(Stellen(t, X))
  BY ZahlTyp
<1>6. f \in Bijection(Stellen(t, X), B)
  <2>1. f \in [Stellen(t, X) -> B]
    BY <1>1 DEF Stellen
  <2>2. \A i, j \in Stellen(t, X) : f[i] = f[j] => i = j
    BY <1>1 DEF Stellen
  <2>3. \A k \in B : \E i \in Stellen(t, X) : f[i] = k
    <3> SUFFICES ASSUME NEW k \in B PROVE \E i \in Stellen(t, X) : f[i] = k
      OBVIOUS
    <3>1. k - m \in Stellen(t, X) /\ (k - m) + m = k
      BY <1>1 DEF Stellen
    <3> QED BY <3>1
  <2> HIDE DEF f, B
  <2> QED BY <2>1, <2>2, <2>3 DEF Bijection, Injection, Surjection, IsInjective
<1>7. IsFiniteSet(B) /\ Cardinality(B) = Zahl(t, X)
  <2> HIDE DEF f, B
  <2> QED BY <1>5, <1>6, FS_Bijection DEF ExistsBijection, Zahl
<1>8. Cardinality(A \cup B) = Cardinality(A) + Cardinality(B) - Cardinality({})
  <2> HIDE DEF A, B
  <2> QED BY <1>4, <1>5, <1>7, FS_Union
<1>9. Zahl(s, X) \in Nat /\ Zahl(t, X) \in Nat
  BY ZahlTyp
<1> HIDE DEF B
<1> QED BY <1>3, <1>7, <1>8, <1>9, FS_EmptySet DEF Zahl

\* Taking the head off takes one away if the head is counted.
LEMMA ZahlRest ==
  ASSUME NEW S, NEW s \in Seq(S), s # <<>>, NEW X
  PROVE  Zahl(s, X) = Zahl(Tail(s), X) + IF Head(s) \in X THEN 1 ELSE 0
<1> DEFINE h == Head(s)
           r == Tail(s)
           e == <<h>>
<1>1. /\ s = e \o r /\ Len(e) = 1 /\ e[1] = h
      /\ e \in Seq(S) /\ r \in Seq(S)
  OBVIOUS
<1> HIDE DEF h, r, e
<1>2. Zahl(s, X) = Zahl(e, X) + Zahl(r, X)
  BY <1>1, ZahlKette
<1>3. Stellen(e, X) = IF h \in X THEN {1} ELSE {}
  BY <1>1 DEF Stellen
<1>4. Zahl(e, X) = IF h \in X THEN 1 ELSE 0
  BY <1>3, FS_EmptySet, FS_Singleton DEF Zahl
<1>5. Zahl(r, X) \in Nat
  BY <1>1, ZahlTyp
<1> QED BY <1>2, <1>4, <1>5 DEF h, r

\* A finite set put in order is a sequence with each element at one place.
LEMMA Geordnet ==
  ASSUME NEW S, IsFiniteSet(S)
  PROVE  /\ SetToSeq(S) \in Seq(S)
         /\ \A i, j \in 1..Len(SetToSeq(S)) :
              SetToSeq(S)[i] = SetToSeq(S)[j] => i = j
         /\ \A x \in S : \E i \in 1..Len(SetToSeq(S)) : SetToSeq(S)[i] = x
<1>1. Cardinality(S) \in Nat /\ ExistsBijection(1..Cardinality(S), S)
  BY FS_CardinalityType
<1>2. \E f \in [1..Cardinality(S) -> S] : IsInjective(f)
  BY <1>1 DEF ExistsBijection, Bijection, Injection
<1>3. SetToSeq(S) \in [1..Cardinality(S) -> S] /\ IsInjective(SetToSeq(S))
  BY <1>2 DEF SetToSeq
<1> DEFINE q == SetToSeq(S)
           n == Cardinality(S)
<1>4. n \in Nat /\ q \in [1..n -> S] /\ IsInjective(q)
  BY <1>1, <1>3
<1> HIDE DEF q, n
<1>5. q \in Seq(S) /\ Len(q) = n /\ DOMAIN q = 1..n
  BY <1>4
<1>6. \A i, j \in 1..Len(q) : q[i] = q[j] => i = j
  BY <1>4, <1>5 DEF IsInjective
<1>7. \A x \in S : \E i \in 1..Len(q) : q[i] = x
  <2>1. q \in Injection(1..n, S)
    BY <1>4 DEF Injection
  <2>2. Cardinality(1..n) = n
    BY <1>4, FS_Interval
  <2>3. q \in Surjection(1..n, S)
    BY <2>1, <2>2, FS_Injection DEF n
  <2> QED BY <1>5, <2>3 DEF Surjection
<1> QED BY <1>5, <1>6, <1>7 DEF q

(***************************************************************************)
(* How often a category is kept.  Each observer is told of an order once,  *)
(* each event asks for the record at most once, each answer adds a ticked  *)
(* category once: what is kept, asked for and still to be told of an order *)
(* is no more than there are observers.  That bound is kept by a new order *)
(* only because nothing at all was known of it before, and by a further    *)
(* observer because it is told of an order once.                           *)
(***************************************************************************)

Ereignis == [id : ID, status : Stand]
Von(id)  == [id : {id}, status : Stand]
Wiederholt(e, n) == [i \in 1..n |-> e]

TypInv ==
  /\ TypeOK
  /\ beobachter = 1 + gefiltert + neugeladen
  /\ IsFiniteSet(DropDownKats)

Kopien(id, k) ==
  IF id \in DOMAIN kategorien THEN Zahl(kategorien[id], {k}) ELSE 0

Gezaehlt ==
  \A id \in ID : \A k \in Karte :
    Kopien(id, k) + gefragt[id] + Zahl(ereignisse, Von(id)) <= beobachter

\* What is known of an order says that it exists or was accepted.
Herkunft ==
  /\ \A n \in 1..Len(ereignisse) :
       /\ status[ereignisse[n].id] # "keine"
       /\ ereignisse[n].status = "angenommen"
            => status[ereignisse[n].id] \in {"angenommen", "fertig"}
  /\ \A id \in ID :
       gefragt[id] > 0 => status[id] \in {"angenommen", "fertig"}
  /\ \A id \in DOMAIN kategorien : status[id] \in {"angenommen", "fertig"}

ZInv == TypInv /\ Gezaehlt /\ Herkunft

\* A new observer is told once of each order that exists.
LEMMA VorhandeneEinmal ==
  ASSUME NEW st \in [ID -> Stand]
  PROVE  /\ Vorhandene(st) \in Seq(Ereignis)
         /\ \A id \in ID : Zahl(Vorhandene(st), Von(id)) \in {0, 1}
         /\ \A n \in 1..Len(Vorhandene(st)) :
              /\ st[Vorhandene(st)[n].id] # "keine"
              /\ Vorhandene(st)[n].status = st[Vorhandene(st)[n].id]
         /\ \A id \in ID : st[id] # "keine" =>
              \E n \in 1..Len(Vorhandene(st)) :
                Vorhandene(st)[n] = [id |-> id, status |-> st[id]]
<1> DEFINE D == {id \in ID : st[id] # "keine"}
           da == SetToSeq(D)
           v == [n \in DOMAIN da |-> [id |-> da[n], status |-> st[da[n]]]]
<1>1. IsFiniteSet(D)
  <2>1. D \in SUBSET ID
    OBVIOUS
  <2> HIDE DEF D
  <2> QED BY <2>1, KarteAnnahme, FS_Subset
<1> HIDE DEF D
<1>2. /\ da \in Seq(D) /\ \A i, j \in 1..Len(da) : da[i] = da[j] => i = j
      /\ \A x \in D : \E i \in 1..Len(da) : da[i] = x
  BY <1>1, Geordnet
<1> HIDE DEF da
<1>3. \A n \in 1..Len(da) : da[n] \in ID /\ st[da[n]] # "keine"
                            /\ st[da[n]] \in Stand
  BY <1>2 DEF D
<1>4. v \in Seq(Ereignis) /\ Len(v) = Len(da)
  <2>1. Len(da) \in Nat /\ DOMAIN da = 1..Len(da)
    BY <1>2
  <2>2. \A n \in 1..Len(da) : [id |-> da[n], status |-> st[da[n]]] \in Ereignis
    BY <1>3 DEF Ereignis
  <2>3. v \in [1..Len(da) -> Ereignis]
    BY <2>1, <2>2
  <2> HIDE DEF v
  <2> QED BY <2>1, <2>3
<1>5. \A n \in 1..Len(v) : v[n].id = da[n] /\ v[n].status = st[da[n]]
  BY <1>2, <1>4
<1>8. ASSUME NEW id \in ID, st[id] # "keine"
      PROVE  \E n \in 1..Len(v) : v[n] = [id |-> id, status |-> st[id]]
  <2>1. PICK i \in 1..Len(da) : da[i] = id
    BY <1>2, <1>8 DEF D
  <2>2. i \in 1..Len(v) /\ v[i] = [id |-> id, status |-> st[id]]
    BY <1>2, <1>4, <2>1
  <2> QED BY <2>2
<1> HIDE DEF v
<1>6. ASSUME NEW id \in ID
      PROVE  Zahl(v, Von(id)) \in {0, 1}
  <2>1. \A i, j \in 1..Len(v) : v[i] \in Von(id) /\ v[j] \in Von(id) => i = j
    BY <1>2, <1>4, <1>5 DEF Von
  <2> QED BY <1>4, <2>1, ZahlEinmal
<1>7. Vorhandene(st) = v
  BY DEF Vorhandene, v, da, D
<1> QED BY <1>3, <1>4, <1>5, <1>6, <1>7, <1>8

\* Of a record the ticked categories are taken, each once.
LEMMA AngekreuzteEinmal ==
  ASSUME TypInv, NEW kats
  PROVE  /\ Angekreuzte(kats) \in Seq(Karte)
         /\ \A k \in Karte : Zahl(Angekreuzte(kats), {k}) \in {0, 1}
         /\ kats \cap DropDownKats \subseteq ToSet(Angekreuzte(kats))
<1> DEFINE D == kats \cap DropDownKats
           q == SetToSeq(D)
<1>1. IsFiniteSet(D) /\ D \subseteq Karte
  BY FS_Intersection DEF TypInv, TypeOK
<1> HIDE DEF D
<1>2. /\ q \in Seq(D) /\ \A i, j \in 1..Len(q) : q[i] = q[j] => i = j
      /\ \A x \in D : \E i \in 1..Len(q) : q[i] = x
  BY <1>1, Geordnet
<1> HIDE DEF q
<1>3. q \in Seq(Karte)
  BY <1>1, <1>2
<1>4. \A k \in Karte : Zahl(q, {k}) \in {0, 1}
  <2>1. \A i, j \in 1..Len(q) : q[i] = q[j] => i = j
    BY <1>2
  <2> QED BY <1>3, <2>1, ZahlEinmal
<1>5. D \subseteq ToSet(q)
  BY <1>2 DEF ToSet
<1> QED BY <1>3, <1>4, <1>5 DEF Angekreuzte, q, D

\* A new order is told to each observer once.
LEMMA WiederholtZahl ==
  ASSUME NEW e \in Ereignis, NEW n \in Nat, NEW id \in ID
  PROVE  /\ Wiederholt(e, n) \in Seq(Ereignis) /\ Len(Wiederholt(e, n)) = n
         /\ Zahl(Wiederholt(e, n), Von(id)) <= n
         /\ e.id # id => Zahl(Wiederholt(e, n), Von(id)) = 0
         /\ \A i \in 1..n : Wiederholt(e, n)[i] = e
<1> DEFINE w == Wiederholt(e, n)
<1>1. w \in Seq(Ereignis) /\ Len(w) = n /\ \A i \in 1..n : w[i] = e
  BY DEF Wiederholt
<1> HIDE DEF w
<1>2. Zahl(w, Von(id)) <= n
  BY <1>1, ZahlTyp
<1>3. ASSUME e.id # id
      PROVE  Zahl(w, Von(id)) = 0
  <2>1. Stellen(w, Von(id)) = {}
    BY <1>1, <1>3 DEF Stellen, Von
  <2> QED BY <2>1, FS_EmptySet DEF Zahl
<1> QED BY <1>1, <1>2, <1>3 DEF w

(***************************************************************************)
(* Types.                                                                  *)
(***************************************************************************)

LEMMA TypStart == Init => TypInv
<1> SUFFICES ASSUME Init PROVE TypInv
  OBVIOUS
<1> USE DEF Init
<1>1. status \in [ID -> Stand] /\ bestellt \in [ID -> SUBSET Kategorie]
  BY DEF Stand
<1>2. ereignisse \in Seq(Ereignis)
  BY <1>1, VorhandeneEinmal
<1>3. gefragt \in [ID -> Nat]
  OBVIOUS
<1>4. karteDa \in BOOLEAN /\ DropDownKats \subseteq Karte /\ isOpen \in BOOLEAN
      /\ absturz \in BOOLEAN /\ unsauber \in BOOLEAN
      /\ Bestellungen \subseteq ID /\ erwartet \in [ID -> SUBSET Karte]
  BY DEF Nichts
<1>5. DOMAIN IDfilter = {} /\ DOMAIN kategorien = {}
  OBVIOUS
<1>6. /\ beobachter \in 1..(1 + MaxFiltern + MaxReload)
      /\ gefiltert \in 0..MaxFiltern /\ neugeladen \in 0..MaxReload
      /\ beobachter = 1 + gefiltert + neugeladen
  BY MaxAnnahme
<1>7. IsFiniteSet(DropDownKats)
  BY FS_EmptySet
<1> QED BY <1>1, <1>2, <1>3, <1>4, <1>5, <1>6, <1>7 DEF TypInv, TypeOK, Ereignis

\* One more observer: it is counted, and its events are appended.
LEMMA TypBeobachter ==
  ASSUME TypInv, loadBestellungenKeys, UNCHANGED status
  PROVE  /\ beobachter' = beobachter + 1
         /\ ereignisse' \in Seq(Ereignis)
         /\ erwartet' \in [ID -> SUBSET Karte]
<1>1. status \in [ID -> Stand] /\ ereignisse \in Seq(Ereignis)
  BY DEF TypInv, TypeOK, Ereignis
<1>2. Vorhandene(status) \in Seq(Ereignis)
  BY <1>1, VorhandeneEinmal
<1>3. erwartet' \in [ID -> SUBSET Karte]
  BY DEF loadBestellungenKeys, TypInv, TypeOK
<1> QED BY <1>1, <1>2, <1>3 DEF loadBestellungenKeys

LEMMA TypFortschritt ==
  ASSUME TypInv, NEW id \in ID, NEW s \in Stand, Fortschritt(id, s)
  PROVE  TypInv'
<1> DEFINE e == [id |-> id, status |-> s]
<1>1. e \in Ereignis /\ beobachter \in Nat /\ ereignisse \in Seq(Ereignis)
  BY DEF Ereignis, TypInv, TypeOK
<1>2. ereignisse' \in {ereignisse, ereignisse \o Wiederholt(e, beobachter)}
  BY DEF Fortschritt, Wiederholt
<1> HIDE DEF e
<1>3. Wiederholt(e, beobachter) \in Seq(Ereignis)
  BY <1>1, WiederholtZahl
<1>4. ereignisse \o Wiederholt(e, beobachter) \in Seq(Ereignis)
  <2> DEFINE w == Wiederholt(e, beobachter)
  <2>1. w \in Seq(Ereignis)
    BY <1>3
  <2> HIDE DEF w
  <2>2. ereignisse \o w \in Seq(Ereignis)
    BY <1>1, <2>1
  <2> QED BY <2>2 DEF w
<1>5. ereignisse' \in Seq(Ereignis)
  BY <1>1, <1>2, <1>4
<1>6. status' \in [ID -> Stand]
  BY DEF Fortschritt, TypInv, TypeOK
<1> QED BY <1>5, <1>6
        DEF Fortschritt, TypInv, TypeOK, Ereignis, menueVars, listeVars

LEMMA TypKey ==
  ASSUME TypInv, KeyEreignis
  PROVE  TypInv'
<1>1. ereignisse \in Seq(Ereignis) /\ ereignisse # <<>>
  BY DEF TypInv, TypeOK, Ereignis, KeyEreignis
<1>2. Head(ereignisse) \in Ereignis /\ Tail(ereignisse) \in Seq(Ereignis)
  BY <1>1
<1>3. Head(ereignisse).id \in ID
  BY <1>2 DEF Ereignis
<1>4. ereignisse' \in Seq(Ereignis)
  BY <1>2 DEF KeyEreignis
<1>5. gefragt' \in [ID -> Nat]
  <2>1. gefragt \in [ID -> Nat]
    BY DEF TypInv, TypeOK
  <2>2. \/ gefragt' = gefragt
        \/ gefragt' = [gefragt EXCEPT ![Head(ereignisse).id] = @ + 1]
    BY Zenon DEF KeyEreignis
  <2> QED BY <1>3, <2>1, <2>2
<1>6. DOMAIN IDfilter' \subseteq ID
  <2>1. DOMAIN IDfilter \subseteq ID
    BY DEF TypInv, TypeOK
  <2>2. \/ IDfilter' = IDfilter
        \/ IDfilter' = Eintragen(IDfilter, Head(ereignisse).id, FALSE)
    BY Zenon DEF KeyEreignis
  <2>3. \A f, k, v : DOMAIN Eintragen(f, k, v) = DOMAIN f \cup {k}
    BY DEF Eintragen
  <2>4. \/ DOMAIN IDfilter' = DOMAIN IDfilter
        \/ DOMAIN IDfilter' = DOMAIN IDfilter \cup {Head(ereignisse).id}
    BY <2>2, <2>3, Zenon
  <2> QED BY <1>3, <2>1, <2>4
<1> QED BY <1>4, <1>5, <1>6
        DEF KeyEreignis, TypInv, TypeOK, Ereignis, dbVars, menueVars

\* What a record leaves with an order: the categories kept, and the new.
Dazugelegt(id, neue) ==
  IF id \in DOMAIN kategorien THEN kategorien[id] \o neue ELSE neue

LEMMA TypLaden ==
  ASSUME TypInv, NEW id \in ID, loadBestellungen(id)
  PROVE  TypInv'
<1> DEFINE neue == Angekreuzte(bestellt[id])
<1>1. neue \in Seq(Karte)
  BY AngekreuzteEinmal
<1>2. \A x \in DOMAIN kategorien : x \in ID /\ kategorien[x] \in Seq(Karte)
  <2>1. DropDownKats \cup Karte = Karte
    BY DEF TypInv, TypeOK
  <2> QED BY <2>1 DEF TypInv, TypeOK
<1>3. kategorien' \in {kategorien,
                       Eintragen(kategorien, id, Dazugelegt(id, neue))}
  BY DEF loadBestellungen, Dazugelegt
<1> HIDE DEF neue
<1>4. Dazugelegt(id, neue) \in Seq(Karte)
  BY <1>1, <1>2 DEF Dazugelegt
<1>5. \A x \in DOMAIN kategorien' : x \in ID /\ kategorien'[x] \in Seq(Karte)
  BY <1>2, <1>3, <1>4 DEF Eintragen
<1>6. DropDownKats' \cup Karte = Karte
  BY DEF loadBestellungen, menueVars, TypInv, TypeOK
<1>7. gefragt' \in [ID -> Nat]
  BY DEF loadBestellungen, TypInv, TypeOK
<1>8. Bestellungen' \subseteq ID /\ absturz' \in BOOLEAN
      /\ unsauber' \in BOOLEAN
  BY DEF loadBestellungen, TypInv, TypeOK
<1>9. \A x \in DOMAIN kategorien' : kategorien'[x] \in Seq(DropDownKats' \cup Karte)
  BY <1>5, <1>6
<1>10. DOMAIN kategorien' \subseteq ID
  BY <1>5
<1> QED BY <1>7, <1>8, <1>9, <1>10
        DEF loadBestellungen, TypInv, TypeOK, dbVars, menueVars

LEMMA TypTick ==
  ASSUME TypInv, NEW k \in Karte, CheckFilterTapped(k)
  PROVE  TypInv'
<1>1. DropDownKats' \in {DropDownKats \ {k}, DropDownKats \cup {k}}
  BY DEF CheckFilterTapped
<1>2. IsFiniteSet(DropDownKats') /\ DropDownKats' \subseteq Karte
  <2>1. IsFiniteSet(DropDownKats) /\ DropDownKats \subseteq Karte
    BY DEF TypInv, TypeOK
  <2> QED BY <1>1, <2>1, FS_AddElement, FS_RemoveElement
<1>3. DropDownKats \cup Karte = DropDownKats' \cup Karte
  BY <1>2 DEF TypInv, TypeOK
<1>4. erwartet' \in [ID -> SUBSET Karte]
  BY DEF CheckFilterTapped, Nichts
<1> QED BY <1>2, <1>3, <1>4
        DEF CheckFilterTapped, TypInv, TypeOK, dbVars, listeVars

LEMMA TypSchritt == TypInv /\ [Next]_vars => TypInv'
<1> SUFFICES ASSUME TypInv, [Next]_vars
             PROVE  TypInv'
  OBVIOUS
<1> USE DEF dbVars, menueVars, listeVars
<1>1. ASSUME NEW id \in ID, NEW s \in Stand, Fortschritt(id, s)
      PROVE  TypInv'
  BY <1>1, TypFortschritt
<1>2. CASE getKategorien
  <2>1. IsFiniteSet(DropDownKats') /\ DropDownKats' \cup Karte = Karte
    BY <1>2, FS_EmptySet DEF getKategorien
  <2>2. DropDownKats \cup Karte = Karte
    BY DEF TypInv, TypeOK
  <2>3. erwartet' \in [ID -> SUBSET Karte]
    BY <1>2 DEF getKategorien, Nichts
  <2> QED BY <1>2, <2>1, <2>2, <2>3 DEF getKategorien, TypInv, TypeOK
<1>3. CASE KeyEreignis
  BY <1>3, TypKey
<1>4. ASSUME NEW id \in ID, loadBestellungen(id)
      PROVE  TypInv'
  BY <1>4, TypLaden
<1>5. CASE BereichTapped
  BY <1>5 DEF BereichTapped, TypInv, TypeOK
<1>6. CASE FilternBtnTapped
  <2>1. /\ beobachter' = beobachter + 1 /\ ereignisse' \in Seq(Ereignis)
        /\ erwartet' \in [ID -> SUBSET Karte]
    BY <1>6, TypBeobachter DEF FilternBtnTapped
  <2>2. /\ gefiltert' \in 0..MaxFiltern
        /\ beobachter' = 1 + gefiltert' + neugeladen'
        /\ beobachter' \in 1..(1 + MaxFiltern + MaxReload)
    <3>1. gefiltert < MaxFiltern /\ gefiltert' = gefiltert + 1
          /\ neugeladen' = neugeladen
      BY <1>6 DEF FilternBtnTapped
    <3>2. /\ neugeladen \in 0..MaxReload /\ gefiltert \in 0..MaxFiltern
          /\ beobachter = 1 + gefiltert + neugeladen
      BY DEF TypInv, TypeOK
    <3> QED BY <2>1, <3>1, <3>2, MaxAnnahme
  <2> QED BY <1>6, <2>1, <2>2 DEF FilternBtnTapped, TypInv, TypeOK, Ereignis
<1>7. CASE reload
  <2>1. /\ beobachter' = beobachter + 1 /\ ereignisse' \in Seq(Ereignis)
        /\ erwartet' \in [ID -> SUBSET Karte]
    BY <1>7, TypBeobachter DEF reload
  <2>2. /\ neugeladen' \in 0..MaxReload
        /\ beobachter' = 1 + gefiltert' + neugeladen'
        /\ beobachter' \in 1..(1 + MaxFiltern + MaxReload)
    <3>1. neugeladen < MaxReload /\ neugeladen' = neugeladen + 1
          /\ gefiltert' = gefiltert
      BY <1>7 DEF reload
    <3>2. /\ neugeladen \in 0..MaxReload /\ gefiltert \in 0..MaxFiltern
          /\ beobachter = 1 + gefiltert + neugeladen
      BY DEF TypInv, TypeOK
    <3> QED BY <2>1, <3>1, <3>2, MaxAnnahme
  <2>3. DOMAIN kategorien' = {} /\ Bestellungen' = {}
    BY <1>7 DEF reload
  <2> QED BY <1>7, <2>1, <2>2, <2>3 DEF reload, TypInv, TypeOK, Ereignis
<1>8. ASSUME NEW k \in Karte, CheckFilterTapped(k)
      PROVE  TypInv'
  BY <1>8, TypTick
<1>9. CASE UNCHANGED vars
  BY <1>9 DEF vars, TypInv, TypeOK
<1> QED BY <1>1, <1>2, <1>3, <1>4, <1>5, <1>6, <1>7, <1>8, <1>9 DEF Next

\* Types: however the observers' events and the answers are ordered, the
\* dictionaries of DetailKatVC keep orders, categories of the menu and
\* Booleans, and there are as many observers as loads were asked for.
THEOREM TypKorrekt == Spec => []TypeOK
<1>1. TypInv => TypeOK
  BY DEF TypInv
<1> QED BY <1>1, TypStart, TypSchritt, PTL DEF Spec

(***************************************************************************)
(* What ends the process.  A record is folded only if its order was noted, *)
(* and a rest of extras is left only by an order noted whose record is not *)
(* of the kind Sauber; orders noted are never dropped from IDfilter.       *)
(***************************************************************************)
Befragt == \A id \in ID : gefragt[id] > 0 => id \in DOMAIN IDfilter
Rest    == unsauber => \E id \in DOMAIN IDfilter : id \notin Sauber

AInv == TypInv /\ Befragt /\ Rest /\ AbsturzErklaert

LEMMA AInit == Init => AInv
<1>1. Init => TypInv
  BY TypStart
<1>2. Init => Befragt /\ Rest /\ AbsturzErklaert
  BY DEF Init, Befragt, Rest, AbsturzErklaert
<1> QED BY <1>1, <1>2 DEF AInv

\* A step that folds no record and forgets no order noted.
LEMMA AbsturzUnberuehrt ==
  ASSUME AInv, TypInv', UNCHANGED <<bestellt, gefragt, IDfilter, unsauber,
                                    absturz>>,
         absturz => karteDa' = karteDa
  PROVE  AInv'
<1>1. Befragt' /\ Rest'
  BY DEF AInv, Befragt, Rest
<1>2. AbsturzErklaert'
  BY DEF AInv, AbsturzErklaert
<1> QED BY <1>1, <1>2 DEF AInv

\* An order is noted when its record is asked for.
LEMMA AbsturzKey ==
  ASSUME AInv, TypInv', KeyEreignis
  PROVE  AInv'
<1> DEFINE e == Head(ereignisse)
<1>1. /\ UNCHANGED <<bestellt, karteDa, unsauber, absturz>>
      /\ \/ /\ IDfilter' = Eintragen(IDfilter, e.id, FALSE)
            /\ gefragt' = [gefragt EXCEPT ![e.id] = @ + 1]
         \/ UNCHANGED <<IDfilter, gefragt>>
  BY DEF KeyEreignis, dbVars, menueVars
<1> HIDE DEF e
<1>2. gefragt \in [ID -> Nat]
  BY DEF AInv, TypInv, TypeOK
<1>3. DOMAIN IDfilter \subseteq DOMAIN IDfilter'
  BY <1>1 DEF Eintragen
<1>4. Befragt'
  <2> SUFFICES ASSUME NEW x \in ID, gefragt'[x] > 0
               PROVE  x \in DOMAIN IDfilter'
    BY DEF Befragt
  <2>1. CASE gefragt[x] > 0
    BY <1>3, <2>1 DEF AInv, Befragt
  <2>2. CASE ~(gefragt[x] > 0)
    <3>1. x = e.id /\ IDfilter' = Eintragen(IDfilter, e.id, FALSE)
      BY <1>1, <1>2, <2>2
    <3> QED BY <3>1 DEF Eintragen
  <2> QED BY <2>1, <2>2
<1>5. Rest'
  BY <1>1, <1>3 DEF AInv, Rest
<1>6. AbsturzErklaert'
  BY <1>1, <1>3 DEF AInv, AbsturzErklaert
<1> QED BY <1>4, <1>5, <1>6 DEF AInv

\* The unwrap of line 142 fails before the menu is read, or for a category
\* that is not on it; those of the fold for a record not of the kind
\* Sauber, or for what one has left behind.
LEMMA AbsturzSchritt ==
  ASSUME AInv, TypInv', NEW id \in ID, loadBestellungen(id)
  PROVE  AInv'
<1>1. UNCHANGED <<bestellt, karteDa, IDfilter>> /\ gefragt[id] > 0
      /\ gefragt' = [gefragt EXCEPT ![id] = @ - 1]
  BY DEF loadBestellungen, dbVars, menueVars
<1>2. gefragt \in [ID -> Nat]
  BY DEF AInv, TypInv, TypeOK
<1>3. id \in DOMAIN IDfilter
  BY <1>1 DEF AInv, Befragt
<1>4. Befragt'
  <2>1. \A x \in ID : gefragt'[x] > 0 => gefragt[x] > 0
    BY <1>1, <1>2
  <2> QED BY <1>1, <2>1 DEF AInv, Befragt
<1>5. Rest'
  <2>1. unsauber' => unsauber \/ id \notin Sauber
    BY DEF loadBestellungen
  <2> QED BY <1>1, <1>3, <2>1 DEF AInv, Rest
<1>6. AbsturzErklaert'
  <2>1. CASE absturz' = absturz
    BY <1>1, <2>1 DEF AInv, AbsturzErklaert
  <2>2. CASE Unbekannte(bestellt[id]) # {}
    <3>1. bestellt[id] \subseteq Karte \cup {Alt}
      BY DEF AInv, TypInv, TypeOK, Kategorie
    <3>2. ~karteDa \/ Alt \in bestellt[id]
      BY <2>2, <3>1 DEF Unbekannte
    <3> QED BY <1>1, <1>3, <3>2 DEF AbsturzErklaert
  <2>3. CASE heikel(id)
    <3>1. id \notin Sauber \/ unsauber
      BY <2>3 DEF heikel
    <3> QED BY <1>1, <1>3, <3>1 DEF AInv, Rest, AbsturzErklaert
  <2> QED BY <2>1, <2>2, <2>3 DEF loadBestellungen
<1> QED BY <1>4, <1>5, <1>6 DEF AInv

LEMMA ASchritt == AInv /\ [Next]_vars => AInv'
<1> SUFFICES ASSUME AInv, [Next]_vars
             PROVE  AInv'
  OBVIOUS
<1> USE DEF dbVars, menueVars, listeVars
<1>0. TypInv'
  BY TypSchritt DEF AInv
<1>1. ASSUME NEW id \in ID, NEW s \in Stand, Fortschritt(id, s)
      PROVE  AInv'
  BY <1>0, <1>1, AbsturzUnberuehrt DEF Fortschritt
<1>2. CASE getKategorien
  BY <1>0, <1>2, AbsturzUnberuehrt DEF getKategorien
<1>3. CASE KeyEreignis
  BY <1>0, <1>3, AbsturzKey
<1>4. ASSUME NEW id \in ID, loadBestellungen(id)
      PROVE  AInv'
  BY <1>0, <1>4, AbsturzSchritt
<1>5. CASE BereichTapped
  BY <1>0, <1>5, AbsturzUnberuehrt DEF BereichTapped
<1>6. CASE FilternBtnTapped
  BY <1>0, <1>6, AbsturzUnberuehrt DEF FilternBtnTapped
<1>7. CASE reload
  BY <1>0, <1>7, AbsturzUnberuehrt DEF reload
<1>8. ASSUME NEW k \in Karte, CheckFilterTapped(k)
      PROVE  AInv'
  BY <1>0, <1>8, AbsturzUnberuehrt DEF CheckFilterTapped
<1>9. CASE UNCHANGED vars
  BY <1>0, <1>9, AbsturzUnberuehrt DEF vars
<1> QED BY <1>1, <1>2, <1>3, <1>4, <1>5, <1>6, <1>7, <1>8, <1>9 DEF Next

\* The process ends only by an order noted as accepted that is read before
\* the menu, has a category the menu has not (DetailKatVC.swift 142), or
\* has a record the force-unwraps of the fold (143-522) are not made for.
THEOREM AbsturzErklaerbar == Spec => []AbsturzErklaert
<1>1. AInv => AbsturzErklaert
  BY DEF AInv
<1> QED BY <1>1, AInit, ASchritt, PTL DEF Spec

(***************************************************************************)
(* What is ticked is gathered.  What the last refresh or "Filtern" was to  *)
(* gather is still ticked and in the records, so that whichever answer     *)
(* comes next brings all of it.                                            *)
(***************************************************************************)
Ersehnt(id) == [id |-> id, status |-> "angenommen"]

Erreichbar(id) ==
  \/ id \in DOMAIN kategorien /\ erwartet[id] \subseteq ToSet(kategorien[id])
  \/ gefragt[id] > 0
  \/ Ersehnt(id) \in ToSet(ereignisse)

KommtInv ==
  /\ TypInv
  /\ \A id \in ID : erwartet[id] \subseteq bestellt[id] \cap DropDownKats
  /\ \A id \in ID : erwartet[id] # {} => Erreichbar(id)

LEMMA KommtReicht == KommtInv => AngekreuztesKommt
BY DEF KommtInv, Erreichbar, Ersehnt, AngekreuztesKommt

\* Nothing was to be gathered, or no longer.
LEMMA NichtsKommt == TypInv /\ erwartet = Nichts => KommtInv
BY DEF KommtInv, Nichts

\* Elements of two sequences joined.
LEMMA Beide ==
  ASSUME NEW S, NEW s \in Seq(S), NEW t \in Seq(S)
  PROVE  ToSet(s \o t) = ToSet(s) \cup ToSet(t)
<1>1. /\ DOMAIN s = 1..Len(s) /\ DOMAIN t = 1..Len(t)
      /\ DOMAIN (s \o t) = 1..(Len(s) + Len(t))
      /\ \A i \in 1..Len(s) : (s \o t)[i] = s[i]
      /\ \A i \in 1..Len(t) : (s \o t)[Len(s) + i] = t[i]
      /\ Len(s) \in Nat /\ Len(t) \in Nat
  OBVIOUS
<1>2. ASSUME NEW x \in ToSet(s) PROVE x \in ToSet(s \o t)
  <2>1. PICK i \in 1..Len(s) : x = s[i]
    BY <1>1 DEF ToSet
  <2>2. i \in DOMAIN (s \o t) /\ (s \o t)[i] = x
    BY <1>1, <2>1
  <2> QED BY <2>2 DEF ToSet
<1>3. ASSUME NEW x \in ToSet(t) PROVE x \in ToSet(s \o t)
  <2>1. PICK i \in 1..Len(t) : x = t[i]
    BY <1>1 DEF ToSet
  <2>2. Len(s) + i \in DOMAIN (s \o t) /\ (s \o t)[Len(s) + i] = x
    BY <1>1, <2>1
  <2> QED BY <2>2 DEF ToSet
<1>4. ASSUME NEW x \in ToSet(s \o t) PROVE x \in ToSet(s) \cup ToSet(t)
  <2>1. PICK i \in 1..(Len(s) + Len(t)) : x = (s \o t)[i]
    BY <1>1 DEF ToSet
  <2>2. CASE i <= Len(s)
    <3>1. i \in DOMAIN s /\ s[i] = x
      BY <1>1, <2>1, <2>2
    <3> QED BY <3>1 DEF ToSet
  <2>3. CASE ~(i <= Len(s))
    <3>1. i - Len(s) \in DOMAIN t /\ t[i - Len(s)] = x
      BY <1>1, <2>1, <2>3
    <3> QED BY <3>1 DEF ToSet
  <2> QED BY <1>1, <2>1, <2>2, <2>3
<1> QED BY <1>2, <1>3, <1>4

\* A step that at most queues further events.
LEMMA KommtUnberuehrt ==
  ASSUME KommtInv, TypInv', UNCHANGED <<bestellt, DropDownKats, erwartet,
                                        kategorien, gefragt>>,
         ToSet(ereignisse) \subseteq ToSet(ereignisse')
  PROVE  KommtInv'
<1>1. \A id \in ID : Erreichbar(id) => Erreichbar(id)'
  BY DEF Erreichbar
<1> QED BY <1>1 DEF KommtInv

LEMMA KommtFortschritt ==
  ASSUME KommtInv, TypInv', NEW id \in ID, NEW s \in Stand, Fortschritt(id, s)
  PROVE  KommtInv'
<1> DEFINE e == [id |-> id, status |-> s]
<1>1. /\ UNCHANGED <<bestellt, DropDownKats, erwartet, kategorien, gefragt>>
      /\ ereignisse' \in {ereignisse, ereignisse \o Wiederholt(e, beobachter)}
  BY DEF Fortschritt, Wiederholt, menueVars, listeVars
<1>2. e \in Ereignis /\ beobachter \in Nat /\ ereignisse \in Seq(Ereignis)
  BY DEF Ereignis, KommtInv, TypInv, TypeOK
<1> HIDE DEF e
<1>3. Wiederholt(e, beobachter) \in Seq(Ereignis)
  BY <1>2, WiederholtZahl
<1>4. ToSet(ereignisse) \subseteq ToSet(ereignisse \o Wiederholt(e, beobachter))
  BY <1>2, <1>3, Beide
<1>5. ToSet(ereignisse) \subseteq ToSet(ereignisse')
  BY <1>1, <1>4
<1> QED BY <1>1, <1>5, KommtUnberuehrt

\* The event that was to come becomes a request, whether the order was
\* noted before or not.
LEMMA KommtKey ==
  ASSUME KommtInv, TypInv', KeyEreignis
  PROVE  KommtInv'
<1> DEFINE e == Head(ereignisse)
<1>1. /\ UNCHANGED <<bestellt, DropDownKats, erwartet, kategorien>>
      /\ ereignisse # <<>> /\ ereignisse' = Tail(ereignisse)
      /\ \/ e.status = "angenommen" /\ gefragt' = [gefragt EXCEPT ![e.id] = @ + 1]
         \/ e.status # "angenommen" /\ gefragt' = gefragt
  BY DEF KeyEreignis, dbVars, menueVars, Angenommen
<1>2. ereignisse \in Seq(Ereignis) /\ gefragt \in [ID -> Nat]
  BY DEF KommtInv, TypInv, TypeOK, Ereignis
<1>3. \A n \in DOMAIN ereignisse :
        ereignisse[n] = e \/ ereignisse[n] \in ToSet(ereignisse')
  <2> SUFFICES ASSUME NEW n \in DOMAIN ereignisse, n # 1
               PROVE  ereignisse[n] \in ToSet(ereignisse')
    BY <1>1, <1>2
  <2>1. n - 1 \in DOMAIN Tail(ereignisse)
        /\ Tail(ereignisse)[n - 1] = ereignisse[n]
    BY <1>1, <1>2
  <2> QED BY <1>1, <2>1 DEF ToSet
<1> HIDE DEF e
<1>4. ASSUME NEW id \in ID, Erreichbar(id)
      PROVE  Erreichbar(id)'
  <2>1. CASE id \in DOMAIN kategorien
             /\ erwartet[id] \subseteq ToSet(kategorien[id])
    BY <1>1, <2>1 DEF Erreichbar
  <2>2. CASE gefragt[id] > 0
    <3>1. gefragt'[id] > 0
      BY <1>1, <1>2, <2>2
    <3> QED BY <3>1 DEF Erreichbar
  <2>3. CASE Ersehnt(id) \in ToSet(ereignisse)
    <3>1. Ersehnt(id) = e \/ Ersehnt(id) \in ToSet(ereignisse')
      BY <1>3, <2>3 DEF ToSet
    <3>2. CASE Ersehnt(id) = e
      <4>1. e.id = id /\ e.status = "angenommen"
        BY <3>2 DEF Ersehnt
      <4>2. gefragt'[id] > 0
        BY <1>1, <1>2, <4>1
      <4> QED BY <4>2 DEF Erreichbar
    <3>3. CASE Ersehnt(id) \in ToSet(ereignisse')
      BY <3>3 DEF Erreichbar, Ersehnt
    <3> QED BY <3>1, <3>2, <3>3
  <2> QED BY <1>4, <2>1, <2>2, <2>3 DEF Erreichbar
<1> QED BY <1>1, <1>4 DEF KommtInv

\* Any answer brings all that is ticked.
LEMMA KommtLaden ==
  ASSUME KommtInv, TypInv', NEW id \in ID, loadBestellungen(id), ~absturz'
  PROVE  KommtInv'
<1> DEFINE neue == Angekreuzte(bestellt[id])
<1>1. /\ UNCHANGED <<bestellt, DropDownKats, erwartet, ereignisse>>
      /\ gefragt' = [gefragt EXCEPT ![id] = @ - 1]
      /\ kategorien' = IF neue = <<>> THEN kategorien
                       ELSE Eintragen(kategorien, id, Dazugelegt(id, neue))
  BY DEF loadBestellungen, dbVars, menueVars, Dazugelegt
<1>2. gefragt \in [ID -> Nat] /\ TypInv
  BY DEF KommtInv, TypInv, TypeOK
<1>3. neue \in Seq(Karte) /\ bestellt[id] \cap DropDownKats \subseteq ToSet(neue)
  BY <1>2, AngekreuzteEinmal
<1> HIDE DEF neue
<1>4. ToSet(neue) \subseteq ToSet(Dazugelegt(id, neue))
  <2>1. CASE id \in DOMAIN kategorien
    <3>1. kategorien[id] \in Seq(Karte)
      <4>1. kategorien[id] \in Seq(DropDownKats \cup Karte)
            /\ DropDownKats \cup Karte = Karte
        BY <1>2, <2>1 DEF TypInv, TypeOK
      <4> QED BY <4>1
    <3>2. Dazugelegt(id, neue) = kategorien[id] \o neue
      BY <2>1 DEF Dazugelegt
    <3> QED BY <1>3, <3>1, <3>2, Beide
  <2>2. CASE id \notin DOMAIN kategorien
    BY <2>2 DEF Dazugelegt
  <2> QED BY <2>1, <2>2
<1>5. ASSUME NEW x \in ID, erwartet[x] # {}
      PROVE  Erreichbar(x)'
  <2>1. Erreichbar(x) /\ erwartet[x] \subseteq bestellt[x] \cap DropDownKats
    BY <1>5 DEF KommtInv
  <2>2. CASE x = id
    <3>1. neue # <<>> /\ erwartet[id] \subseteq ToSet(neue)
      <4>1. erwartet[id] \subseteq ToSet(neue) /\ erwartet[id] # {}
        BY <1>3, <1>5, <2>1, <2>2
      <4>2. neue = <<>> => ToSet(neue) = {}
        BY DEF ToSet
      <4> QED BY <4>1, <4>2
    <3>2. id \in DOMAIN kategorien' /\ kategorien'[id] = Dazugelegt(id, neue)
      BY <1>1, <3>1 DEF Eintragen
    <3>3. erwartet'[id] \subseteq ToSet(kategorien'[id])
      BY <1>1, <1>4, <3>1, <3>2
    <3> QED BY <2>2, <3>2, <3>3 DEF Erreichbar
  <2>3. CASE x # id
    <3>1. /\ x \in DOMAIN kategorien =>
               x \in DOMAIN kategorien' /\ kategorien'[x] = kategorien[x]
          /\ gefragt'[x] = gefragt[x]
      BY <1>1, <1>2, <2>3 DEF Eintragen
    <3> QED BY <1>1, <2>1, <3>1 DEF Erreichbar, Ersehnt
  <2> QED BY <2>2, <2>3
<1> QED BY <1>1, <1>5 DEF KommtInv

\* A new observer is told of every accepted order.
LEMMA KommtBeobachter ==
  ASSUME KommtInv, TypInv', loadBestellungenKeys,
         UNCHANGED <<status, bestellt, DropDownKats>>
  PROVE  KommtInv'
<1> DEFINE v == Vorhandene(status)
<1>1. /\ ereignisse' = ereignisse \o v
      /\ erwartet' = [id \in ID |-> IF Angenommen(status[id])
                                   THEN bestellt[id] \cap DropDownKats ELSE {}]
  BY DEF loadBestellungenKeys
<1>2. ereignisse \in Seq(Ereignis) /\ status \in [ID -> Stand]
  BY DEF KommtInv, TypInv, TypeOK, Ereignis
<1>3. /\ v \in Seq(Ereignis)
      /\ \A id \in ID : status[id] # "keine" =>
           \E n \in 1..Len(v) : v[n] = [id |-> id, status |-> status[id]]
  BY <1>2, VorhandeneEinmal
<1> HIDE DEF v
<1>4. ASSUME NEW id \in ID, erwartet'[id] # {}
      PROVE  Erreichbar(id)'
  <2>1. status[id] = "angenommen"
    BY <1>1, <1>4 DEF Angenommen
  <2>2. Ersehnt(id) \in ToSet(v)
    <3>1. PICK n \in 1..Len(v) : v[n] = [id |-> id, status |-> status[id]]
      BY <1>3, <2>1
    <3>2. n \in DOMAIN v /\ v[n] = Ersehnt(id)
      BY <1>3, <2>1, <3>1 DEF Ersehnt
    <3> QED BY <3>2 DEF ToSet
  <2>3. Ersehnt(id) \in ToSet(ereignisse')
    BY <1>1, <1>2, <1>3, <2>2, Beide
  <2> QED BY <2>3 DEF Erreichbar, Ersehnt
<1>5. \A id \in ID : erwartet'[id] \subseteq bestellt'[id] \cap DropDownKats'
  BY <1>1
<1> QED BY <1>4, <1>5 DEF KommtInv

\* Nothing is promised once the process has ended.
KommtOderEnde == TypInv /\ (absturz \/ KommtInv)

LEMMA KommtStart == Init => KommtOderEnde
BY TypStart, NichtsKommt DEF Init, KommtOderEnde

LEMMA KommtSchritt == KommtOderEnde /\ [Next]_vars => KommtOderEnde'
<1> SUFFICES ASSUME KommtOderEnde, [Next]_vars
             PROVE  KommtOderEnde'
  OBVIOUS
<1> USE DEF dbVars, menueVars, listeVars
<1>0. TypInv'
  BY TypSchritt DEF KommtOderEnde
<1> SUFFICES ASSUME ~absturz' PROVE KommtInv'
  BY <1>0 DEF KommtOderEnde
<1>a. ~absturz /\ KommtInv
  <2>1. absturz => absturz'
    BY DEF Next, vars, Fortschritt, getKategorien, KeyEreignis, loadBestellungen,
           BereichTapped, FilternBtnTapped, reload, CheckFilterTapped
  <2> QED BY <2>1 DEF KommtOderEnde
<1>1. ASSUME NEW id \in ID, NEW s \in Stand, Fortschritt(id, s)
      PROVE  KommtInv'
  BY <1>0, <1>a, <1>1, KommtFortschritt
<1>2. CASE getKategorien
  <2>1. erwartet' = Nichts
    BY <1>2 DEF getKategorien
  <2> QED BY <1>0, <2>1 DEF KommtInv, Nichts
<1>3. CASE KeyEreignis
  BY <1>0, <1>a, <1>3, KommtKey
<1>4. ASSUME NEW id \in ID, loadBestellungen(id)
      PROVE  KommtInv'
  BY <1>0, <1>a, <1>4, KommtLaden
<1>5. CASE BereichTapped
  BY <1>0, <1>a, <1>5, KommtUnberuehrt DEF BereichTapped
<1>6. CASE FilternBtnTapped
  BY <1>0, <1>a, <1>6, KommtBeobachter DEF FilternBtnTapped
<1>7. CASE reload
  BY <1>0, <1>a, <1>7, KommtBeobachter DEF reload
<1>8. ASSUME NEW k \in Karte, CheckFilterTapped(k)
      PROVE  KommtInv'
  <2>1. erwartet' = Nichts
    BY <1>8 DEF CheckFilterTapped
  <2> QED BY <1>0, <2>1 DEF KommtInv, Nichts
<1>9. CASE UNCHANGED vars
  BY <1>0, <1>a, <1>9, KommtUnberuehrt DEF vars
<1> QED BY <1>1, <1>2, <1>3, <1>4, <1>5, <1>6, <1>7, <1>8, <1>9 DEF Next

\* Whatever a refresh or "Filtern" was to gather is kept, or still on its
\* way: every observer asks for every accepted order again
\* (DetailKatVC.swift 103-120), noted before or not.
THEOREM AngekreuztesKommtAn == Spec => []AngekreuztesKommt
<1>1. KommtOderEnde => AngekreuztesKommt
  BY KommtReicht DEF KommtOderEnde, AngekreuztesKommt
<1> QED BY <1>1, KommtStart, KommtSchritt, PTL DEF Spec

(***************************************************************************)
(* The count.                                                              *)
(***************************************************************************)

\* The numbers the count is made of are natural numbers.
LEMMA Zahlen ==
  ASSUME TypInv, NEW id \in ID, NEW k \in Karte
  PROVE  /\ beobachter \in Nat /\ gefragt[id] \in Nat
         /\ Kopien(id, k) \in Nat
         /\ ereignisse \in Seq(Ereignis)
         /\ Zahl(ereignisse, Von(id)) \in Nat
<1>1. beobachter \in Nat /\ gefragt[id] \in Nat /\ ereignisse \in Seq(Ereignis)
  BY DEF TypInv, TypeOK, Ereignis
<1>2. Kopien(id, k) \in Nat
  <2>1. CASE id \in DOMAIN kategorien
    <3>1. kategorien[id] \in Seq(DropDownKats \cup Karte)
      BY <2>1 DEF TypInv, TypeOK
    <3>2. Zahl(kategorien[id], {k}) \in Nat
      BY <3>1, ZahlTyp
    <3> QED BY <2>1, <3>2 DEF Kopien
  <2>2. CASE id \notin DOMAIN kategorien
    BY <2>2 DEF Kopien
  <2> QED BY <2>1, <2>2
<1>3. Zahl(ereignisse, Von(id)) \in Nat
  BY <1>1, ZahlTyp
<1> QED BY <1>1, <1>2, <1>3

\* A step that changes none of what is counted keeps the count.
LEMMA Unveraendert ==
  ASSUME ZInv, TypInv', UNCHANGED <<status, ereignisse, gefragt, kategorien,
                                    beobachter>>
  PROVE  ZInv'
<1>1. \A id \in ID, k \in Karte : Kopien(id, k)' = Kopien(id, k)
  BY DEF Kopien
<1>2. Gezaehlt'
  BY <1>1 DEF ZInv, Gezaehlt
<1> QED BY <1>2 DEF ZInv, Herkunft

LEMMA ZahlStart == Init => ZInv
<1> SUFFICES ASSUME Init PROVE ZInv
  OBVIOUS
<1>1. TypInv
  BY TypStart
<1>2. status \in [ID -> Stand] /\ ereignisse = Vorhandene(status)
      /\ beobachter = 1 /\ kategorien = <<>>
  BY DEF Init, Stand
<1>3. \A id \in ID : gefragt[id] = 0
  BY DEF Init
<1>4. \A id \in ID : Zahl(ereignisse, Von(id)) \in {0, 1}
  BY <1>2, VorhandeneEinmal
<1>5. \A n \in 1..Len(ereignisse) :
         /\ status[ereignisse[n].id] # "keine"
         /\ ereignisse[n].status = status[ereignisse[n].id]
  BY <1>2, VorhandeneEinmal
<1>6. DOMAIN kategorien = {}
  BY <1>2
<1>7. \A id \in ID, k \in Karte : Kopien(id, k) = 0
  BY <1>6 DEF Kopien
<1>8. Gezaehlt
  BY <1>2, <1>3, <1>4, <1>7 DEF Gezaehlt
<1>9. Herkunft
  BY <1>3, <1>5, <1>6 DEF Herkunft
<1> QED BY <1>1, <1>8, <1>9 DEF ZInv

\* A further observer is told of an order once more, and is counted.
LEMMA ZahlBeobachter ==
  ASSUME ZInv, loadBestellungenKeys, UNCHANGED <<status, gefragt>>, TypInv',
         kategorien' \in {kategorien, <<>>}
  PROVE  ZInv'
<1> DEFINE v == Vorhandene(status)
<1>1. TypInv /\ status \in [ID -> Stand] /\ ereignisse \in Seq(Ereignis)
  BY DEF ZInv, TypInv, TypeOK, Ereignis
<1>2. /\ v \in Seq(Ereignis)
      /\ \A id \in ID : Zahl(v, Von(id)) \in {0, 1}
      /\ \A n \in 1..Len(v) : /\ status[v[n].id] # "keine"
                              /\ v[n].status = status[v[n].id]
  BY <1>1, VorhandeneEinmal
<1>3. ereignisse' = ereignisse \o v /\ beobachter' = beobachter + 1
  BY DEF loadBestellungenKeys
<1> HIDE DEF v
<1>4. \A id \in ID :
        Zahl(ereignisse', Von(id)) = Zahl(ereignisse, Von(id)) + Zahl(v, Von(id))
  BY <1>1, <1>2, <1>3, ZahlKette
<1>5. \A id \in DOMAIN kategorien' : id \in DOMAIN kategorien
                                     /\ kategorien' = kategorien
  OBVIOUS
<1>6. \A id \in ID, k \in Karte : Kopien(id, k)' \in {0, Kopien(id, k)}
  BY <1>5 DEF Kopien
<1>7. Gezaehlt'
  <2> SUFFICES ASSUME NEW id \in ID, NEW k \in Karte
               PROVE  Kopien(id, k)' + gefragt'[id]
                        + Zahl(ereignisse', Von(id)) <= beobachter'
    BY DEF Gezaehlt
  <2>1. /\ beobachter \in Nat /\ gefragt[id] \in Nat /\ Kopien(id, k) \in Nat
        /\ Zahl(ereignisse, Von(id)) \in Nat
    BY <1>1, Zahlen
  <2>2. Kopien(id, k) + gefragt[id] + Zahl(ereignisse, Von(id)) <= beobachter
    BY DEF ZInv, Gezaehlt
  <2>3. Zahl(v, Von(id)) \in {0, 1} /\ Kopien(id, k)' \in {0, Kopien(id, k)}
        /\ Zahl(ereignisse', Von(id))
             = Zahl(ereignisse, Von(id)) + Zahl(v, Von(id))
    BY <1>2, <1>4, <1>6
  <2> QED BY <1>3, <2>1, <2>2, <2>3
<1>8. Herkunft'
  <2>1. \A n \in 1..Len(ereignisse') :
          \/ n \in 1..Len(ereignisse) /\ ereignisse'[n] = ereignisse[n]
          \/ \E m \in 1..Len(v) : ereignisse'[n] = v[m]
    <3> SUFFICES ASSUME NEW n \in 1..Len(ereignisse'),
                        n \notin 1..Len(ereignisse)
                 PROVE  \E m \in 1..Len(v) : ereignisse'[n] = v[m]
      BY <1>1, <1>2, <1>3
    <3>1. n - Len(ereignisse) \in 1..Len(v)
          /\ ereignisse'[n] = v[n - Len(ereignisse)]
      BY <1>1, <1>2, <1>3
    <3> QED BY <3>1
  <2>2. \A n \in 1..Len(ereignisse') :
          /\ status[ereignisse'[n].id] # "keine"
          /\ ereignisse'[n].status = "angenommen"
               => status[ereignisse'[n].id] \in {"angenommen", "fertig"}
    BY <1>2, <2>1 DEF ZInv, Herkunft
  <2> QED BY <1>5, <2>2 DEF ZInv, Herkunft
<1> QED BY <1>7, <1>8 DEF ZInv

\* A change of an order that exists tells nobody; one that was accepted
\* stays accepted or is finished.
LEMMA ZahlGeaendert ==
  ASSUME ZInv, TypInv', NEW id \in ID, NEW s \in Stand, Fortschritt(id, s),
         status[id] # "keine"
  PROVE  ZInv'
<1>1. UNCHANGED <<ereignisse, gefragt, kategorien, beobachter>>
  BY DEF Fortschritt, listeVars
<1>2. \A x \in ID, k \in Karte : Kopien(x, k)' = Kopien(x, k)
  BY <1>1 DEF Kopien
<1>3. Gezaehlt'
  BY <1>1, <1>2 DEF ZInv, Gezaehlt
<1>4. /\ status \in [ID -> Stand] /\ status' = [status EXCEPT ![id] = s]
      /\ s # "keine"
      /\ status[id] \in {"angenommen", "fertig"} => s \in {"angenommen", "fertig"}
  BY DEF Fortschritt, ZInv, TypInv, TypeOK
<1>5. \A x \in ID :
        /\ status[x] # "keine" => status'[x] # "keine"
        /\ status[x] \in {"angenommen", "fertig"}
             => status'[x] \in {"angenommen", "fertig"}
  BY <1>4
<1>6. \A n \in 1..Len(ereignisse) : ereignisse[n].id \in ID
  <2>1. ereignisse \in Seq(Ereignis)
    BY DEF ZInv, TypInv, TypeOK, Ereignis
  <2>2. \A n \in 1..Len(ereignisse) : ereignisse[n] \in Ereignis
    BY <2>1
  <2> QED BY <2>2 DEF Ereignis
<1>7. DOMAIN kategorien \subseteq ID
  BY DEF ZInv, TypInv, TypeOK
<1>8. Herkunft'
  BY <1>1, <1>5, <1>6, <1>7 DEF ZInv, Herkunft
<1> QED BY <1>3, <1>8 DEF ZInv

\* A new order is told to every observer once; until then none knew of it.
LEMMA ZahlNeu ==
  ASSUME ZInv, TypInv', NEW id \in ID, NEW s \in Stand, Fortschritt(id, s),
         status[id] = "keine"
  PROVE  ZInv'
<1> DEFINE e == [id |-> id, status |-> s]
           w == Wiederholt(e, beobachter)
<1>1. /\ UNCHANGED <<gefragt, kategorien, beobachter>>
      /\ status' = [status EXCEPT ![id] = s] /\ s = "versendet"
      /\ ereignisse' = ereignisse \o w
  BY DEF Fortschritt, listeVars, Wiederholt
<1>2. /\ TypInv /\ beobachter \in Nat /\ ereignisse \in Seq(Ereignis)
      /\ gefragt \in [ID -> Nat] /\ status \in [ID -> Stand]
      /\ DOMAIN kategorien \subseteq ID
  <2>0. TypInv
    BY DEF ZInv
  <2>1. ereignisse \in Seq(Ereignis) /\ beobachter \in Nat
    BY <2>0 DEF TypInv, TypeOK, Ereignis
  <2>2. gefragt \in [ID -> Nat] /\ status \in [ID -> Stand]
        /\ DOMAIN kategorien \subseteq ID
    BY <2>0 DEF TypInv, TypeOK
  <2> QED BY <2>0, <2>1, <2>2
<1>3. e \in Ereignis /\ e.id = id /\ e.status = s
  BY DEF Ereignis
<1> HIDE DEF e
<1>4. w \in Seq(Ereignis) /\ Len(w) = beobachter
      /\ \A i \in 1..beobachter : w[i] = e
  BY <1>2, <1>3, WiederholtZahl
<1>5. \A x \in ID : /\ Zahl(w, Von(x)) <= beobachter
                    /\ x # id => Zahl(w, Von(x)) = 0
  BY <1>2, <1>3, WiederholtZahl
<1> HIDE DEF w
<1>6. \A x \in ID :
        Zahl(ereignisse', Von(x)) = Zahl(ereignisse, Von(x)) + Zahl(w, Von(x))
  BY <1>1, <1>2, <1>4, ZahlKette
<1>7. gefragt[id] = 0 /\ id \notin DOMAIN kategorien
  BY <1>2 DEF ZInv, Herkunft
<1>8. Zahl(ereignisse, Von(id)) = 0
  <2>1. \A n \in 1..Len(ereignisse) : ereignisse[n].id # id
    BY DEF ZInv, Herkunft
  <2>2. Stellen(ereignisse, Von(id)) = {}
    BY <2>1 DEF Stellen, Von
  <2> QED BY <2>2, FS_EmptySet DEF Zahl
<1>9. \A x \in ID, k \in Karte : Kopien(x, k)' = Kopien(x, k)
  BY <1>1 DEF Kopien
<1>10. Gezaehlt'
  <2> SUFFICES ASSUME NEW x \in ID, NEW k \in Karte
               PROVE  Kopien(x, k)' + gefragt'[x]
                        + Zahl(ereignisse', Von(x)) <= beobachter'
    BY DEF Gezaehlt
  <2>1. /\ beobachter \in Nat /\ gefragt[x] \in Nat /\ Kopien(x, k) \in Nat
        /\ Zahl(ereignisse, Von(x)) \in Nat
    BY <1>2, Zahlen
  <2>2. Kopien(x, k) + gefragt[x] + Zahl(ereignisse, Von(x)) <= beobachter
    BY DEF ZInv, Gezaehlt
  <2>3. Zahl(w, Von(x)) \in Nat
    BY <1>4, ZahlTyp
  <2>4. CASE x = id
    <3>1. Kopien(id, k) = 0
      BY <1>7 DEF Kopien
    <3> QED BY <1>1, <1>5, <1>6, <1>7, <1>8, <1>9, <2>1, <2>3, <2>4, <3>1
  <2>5. CASE x # id
    BY <1>1, <1>5, <1>6, <1>9, <2>1, <2>2, <2>5
  <2> QED BY <2>4, <2>5
<1>11. \A x \in ID : /\ status'[x] # "keine" \/ (x # id /\ status'[x] = status[x])
                     /\ x # id => status'[x] = status[x]
  BY <1>1, <1>2
<1>12. \A n \in 1..Len(ereignisse') :
         \/ n \in 1..Len(ereignisse) /\ ereignisse'[n] = ereignisse[n]
         \/ ereignisse'[n] = e
  <2> SUFFICES ASSUME NEW n \in 1..Len(ereignisse'),
                      n \notin 1..Len(ereignisse)
               PROVE  ereignisse'[n] = e
    BY <1>1, <1>2, <1>4
  <2>1. n - Len(ereignisse) \in 1..Len(w)
        /\ ereignisse'[n] = w[n - Len(ereignisse)]
    BY <1>1, <1>2, <1>4
  <2> QED BY <1>4, <2>1
<1>13. \A n \in 1..Len(ereignisse) : ereignisse[n].id \in ID \ {id}
  <2>1. \A n \in 1..Len(ereignisse) : ereignisse[n] \in Ereignis
    BY <1>2
  <2>2. \A n \in 1..Len(ereignisse) : ereignisse[n].id # id
    BY DEF ZInv, Herkunft
  <2> QED BY <2>1, <2>2 DEF Ereignis
<1>14. \A n \in 1..Len(ereignisse') :
         /\ status'[ereignisse'[n].id] # "keine"
         /\ ereignisse'[n].status = "angenommen"
              => status'[ereignisse'[n].id] \in {"angenommen", "fertig"}
  <2> SUFFICES ASSUME NEW n \in 1..Len(ereignisse')
               PROVE  /\ status'[ereignisse'[n].id] # "keine"
                      /\ ereignisse'[n].status = "angenommen"
                           => status'[ereignisse'[n].id] \in {"angenommen", "fertig"}
    OBVIOUS
  <2>1. CASE ereignisse'[n] = e
    BY <1>1, <1>3, <1>11, <2>1
  <2>2. CASE n \in 1..Len(ereignisse) /\ ereignisse'[n] = ereignisse[n]
    BY <1>11, <1>13, <2>2 DEF ZInv, Herkunft
  <2> QED BY <1>12, <2>1, <2>2
<1>15. /\ \A x \in ID :
            gefragt'[x] > 0 => status'[x] \in {"angenommen", "fertig"}
       /\ \A x \in DOMAIN kategorien' : status'[x] \in {"angenommen", "fertig"}
  BY <1>1, <1>2, <1>7, <1>11 DEF ZInv, Herkunft
<1> QED BY <1>10, <1>14, <1>15 DEF ZInv, Herkunft

\* An event becomes at most one request.
LEMMA ZahlKey ==
  ASSUME ZInv, TypInv', KeyEreignis
  PROVE  ZInv'
<1> DEFINE e == Head(ereignisse)
<1>1. /\ UNCHANGED <<status, kategorien, beobachter>>
      /\ ereignisse # <<>> /\ ereignisse' = Tail(ereignisse)
      /\ \/ e.status = "angenommen" /\ gefragt' = [gefragt EXCEPT ![e.id] = @ + 1]
         \/ gefragt' = gefragt
  BY DEF KeyEreignis, dbVars, Angenommen
<1>2. /\ TypInv /\ ereignisse \in Seq(Ereignis) /\ gefragt \in [ID -> Nat]
  BY DEF ZInv, TypInv, TypeOK, Ereignis
<1>3. e \in Ereignis /\ e = ereignisse[1] /\ 1 \in 1..Len(ereignisse)
  BY <1>1, <1>2
<1>4. \A x \in ID :
        Zahl(ereignisse, Von(x)) = Zahl(ereignisse', Von(x))
                                     + IF e \in Von(x) THEN 1 ELSE 0
  BY <1>1, <1>2, ZahlRest
<1> HIDE DEF e
<1>5. e.id \in ID /\ \A x \in ID : e \in Von(x) <=> e.id = x
  BY <1>3 DEF Ereignis, Von
<1>6. \A x \in ID, k \in Karte : Kopien(x, k)' = Kopien(x, k)
  BY <1>1 DEF Kopien
<1>7. \A x \in ID : gefragt'[x] \in {gefragt[x],
                                     IF x = e.id THEN gefragt[x] + 1 ELSE gefragt[x]}
  BY <1>1, <1>2
<1>8. Gezaehlt'
  <2> SUFFICES ASSUME NEW x \in ID, NEW k \in Karte
               PROVE  Kopien(x, k)' + gefragt'[x]
                        + Zahl(ereignisse', Von(x)) <= beobachter'
    BY DEF Gezaehlt
  <2>1. /\ beobachter \in Nat /\ gefragt[x] \in Nat /\ Kopien(x, k) \in Nat
        /\ Zahl(ereignisse, Von(x)) \in Nat
    BY <1>2, Zahlen
  <2>2. Zahl(ereignisse', Von(x)) \in Nat
    <3>1. ereignisse' \in Seq(Ereignis)
      BY <1>1, <1>2
    <3> QED BY <3>1, ZahlTyp
  <2>3. Kopien(x, k) + gefragt[x] + Zahl(ereignisse, Von(x)) <= beobachter
    BY DEF ZInv, Gezaehlt
  <2> QED BY <1>1, <1>4, <1>5, <1>6, <1>7, <2>1, <2>2, <2>3, SMTT(30)
<1>9. \A n \in 1..Len(ereignisse') :
        n + 1 \in 1..Len(ereignisse) /\ ereignisse'[n] = ereignisse[n + 1]
  BY <1>1, <1>2
<1>10. e.status = "angenommen" => status[e.id] \in {"angenommen", "fertig"}
  BY <1>3 DEF ZInv, Herkunft
<1>11. \A x \in ID : gefragt'[x] > 0 => status'[x] \in {"angenommen", "fertig"}
  BY <1>1, <1>2, <1>5, <1>10 DEF ZInv, Herkunft
<1> QED BY <1>1, <1>8, <1>9, <1>11 DEF ZInv, Herkunft

\* An answer adds a category at most once, and is no longer awaited.
LEMMA ZahlLaden ==
  ASSUME ZInv, TypInv', NEW id \in ID, loadBestellungen(id)
  PROVE  ZInv'
<1> DEFINE neue == Angekreuzte(bestellt[id])
<1>1. /\ UNCHANGED <<status, ereignisse, beobachter>>
      /\ gefragt[id] > 0 /\ gefragt' = [gefragt EXCEPT ![id] = @ - 1]
      /\ kategorien' \in {kategorien,
                          Eintragen(kategorien, id, Dazugelegt(id, neue))}
  BY DEF loadBestellungen, dbVars, Dazugelegt
<1>2. TypInv /\ gefragt \in [ID -> Nat] /\ DOMAIN kategorien \subseteq ID
  BY DEF ZInv, TypInv, TypeOK
<1>3. neue \in Seq(Karte) /\ \A k \in Karte : Zahl(neue, {k}) \in {0, 1}
  BY <1>2, AngekreuzteEinmal
<1> HIDE DEF neue
<1>4. ASSUME NEW k \in Karte
      PROVE  Zahl(Dazugelegt(id, neue), {k}) <= Kopien(id, k) + 1
  <2>1. CASE id \in DOMAIN kategorien
    <3>1. kategorien[id] \in Seq(DropDownKats \cup Karte)
          /\ DropDownKats \cup Karte = Karte
      BY <1>2, <2>1 DEF TypInv, TypeOK
    <3>2. kategorien[id] \in Seq(Karte)
      BY <3>1
    <3>3. Zahl(kategorien[id] \o neue, {k})
            = Zahl(kategorien[id], {k}) + Zahl(neue, {k})
      BY <1>3, <3>2, ZahlKette
    <3>4. Zahl(kategorien[id], {k}) \in Nat
      BY <3>2, ZahlTyp
    <3>5. Dazugelegt(id, neue) = kategorien[id] \o neue
          /\ Kopien(id, k) = Zahl(kategorien[id], {k})
      BY <2>1 DEF Dazugelegt, Kopien
    <3>6. Zahl(neue, {k}) \in {0, 1}
      BY <1>3
    <3> QED BY <3>3, <3>4, <3>5, <3>6
  <2>2. CASE id \notin DOMAIN kategorien
    BY <1>3, <2>2 DEF Dazugelegt, Kopien
  <2> QED BY <2>1, <2>2
<1>5. \A x \in DOMAIN kategorien' : x \in DOMAIN kategorien \cup {id}
  BY <1>1 DEF Eintragen
<1>6. ASSUME NEW x \in ID, NEW k \in Karte
      PROVE  Kopien(x, k)' <= Kopien(x, k) + IF x = id THEN 1 ELSE 0
  <2>1. Kopien(x, k) \in Nat
    BY <1>2, Zahlen
  <2>2. CASE kategorien' = kategorien
    BY <2>1, <2>2 DEF Kopien
  <2>3. CASE kategorien' = Eintragen(kategorien, id, Dazugelegt(id, neue))
    <3>1. CASE x = id
      <4>1. id \in DOMAIN kategorien' /\ kategorien'[id] = Dazugelegt(id, neue)
        BY <2>3 DEF Eintragen
      <4> QED BY <1>4, <3>1, <4>1 DEF Kopien
    <3>2. CASE x # id
      <4>1. /\ x \in DOMAIN kategorien' <=> x \in DOMAIN kategorien
            /\ x \in DOMAIN kategorien => kategorien'[x] = kategorien[x]
        BY <2>3, <3>2 DEF Eintragen
      <4> QED BY <2>1, <3>2, <4>1 DEF Kopien
    <3> QED BY <3>1, <3>2
  <2> QED BY <1>1, <2>2, <2>3
<1>7. Gezaehlt'
  <2> SUFFICES ASSUME NEW x \in ID, NEW k \in Karte
               PROVE  Kopien(x, k)' + gefragt'[x]
                        + Zahl(ereignisse', Von(x)) <= beobachter'
    BY DEF Gezaehlt
  <2>1. /\ beobachter \in Nat /\ gefragt[x] \in Nat /\ Kopien(x, k) \in Nat
        /\ Zahl(ereignisse, Von(x)) \in Nat
    BY <1>2, Zahlen
  <2>2. Kopien(x, k)' \in Nat
    <3>1. CASE x \in DOMAIN kategorien'
      <4>1. kategorien'[x] \in Seq((DropDownKats \cup Karte)')
        BY <3>1 DEF TypInv, TypeOK
      <4>2. Zahl(kategorien'[x], {k}) \in Nat
        BY <4>1, ZahlTyp
      <4> QED BY <3>1, <4>2 DEF Kopien
    <3>2. CASE x \notin DOMAIN kategorien'
      BY <3>2 DEF Kopien
    <3> QED BY <3>1, <3>2
  <2>3. Kopien(x, k) + gefragt[x] + Zahl(ereignisse, Von(x)) <= beobachter
    BY DEF ZInv, Gezaehlt
  <2>4. gefragt'[x] = IF x = id THEN gefragt[x] - 1 ELSE gefragt[x]
    BY <1>1, <1>2
  <2>5. Zahl(ereignisse', Von(x)) = Zahl(ereignisse, Von(x))
    BY <1>1
  <2> QED BY <1>1, <1>6, <2>1, <2>2, <2>3, <2>4, <2>5
<1>8. \A x \in ID : gefragt'[x] > 0 => gefragt[x] > 0
  BY <1>1, <1>2
<1> QED BY <1>1, <1>2, <1>5, <1>7, <1>8 DEF ZInv, Herkunft

LEMMA ZahlSchritt == ZInv /\ [Next]_vars => ZInv'
<1> SUFFICES ASSUME ZInv, [Next]_vars
             PROVE  ZInv'
  OBVIOUS
<1> USE DEF dbVars, menueVars, listeVars
<1>0. TypInv'
  BY TypSchritt DEF ZInv
<1>1. ASSUME NEW id \in ID, NEW s \in Stand, Fortschritt(id, s)
      PROVE  ZInv'
  BY <1>0, <1>1, ZahlGeaendert, ZahlNeu
<1>2. CASE getKategorien
  BY <1>0, <1>2, Unveraendert DEF getKategorien
<1>3. CASE KeyEreignis
  BY <1>0, <1>3, ZahlKey
<1>4. ASSUME NEW id \in ID, loadBestellungen(id)
      PROVE  ZInv'
  BY <1>0, <1>4, ZahlLaden
<1>5. CASE BereichTapped
  BY <1>0, <1>5, Unveraendert DEF BereichTapped
<1>6. CASE FilternBtnTapped
  BY <1>0, <1>6, ZahlBeobachter DEF FilternBtnTapped
<1>7. CASE reload
  BY <1>0, <1>7, ZahlBeobachter DEF reload
<1>8. ASSUME NEW k \in Karte, CheckFilterTapped(k)
      PROVE  ZInv'
  BY <1>0, <1>8, Unveraendert DEF CheckFilterTapped
<1>9. CASE UNCHANGED vars
  BY <1>0, <1>9, Unveraendert DEF vars
<1> QED BY <1>1, <1>2, <1>3, <1>4, <1>5, <1>6, <1>7, <1>8, <1>9 DEF Next

\* The count gives the bound: what is asked for and still to be told only
\* adds to it.
LEMMA GezaehltReicht == ZInv => HoechstensJeBeobachter
<1> SUFFICES ASSUME ZInv, NEW id \in DOMAIN kategorien
             PROVE  /\ status[id] \in {"angenommen", "fertig"}
                    /\ \A k \in Karte : Anzahl(kategorien[id], k) <= beobachter
  BY DEF HoechstensJeBeobachter
<1>1. TypInv /\ id \in ID /\ kategorien[id] \in Seq(DropDownKats \cup Karte)
  BY DEF ZInv, TypInv, TypeOK
<1>2. ASSUME NEW k \in Karte
      PROVE  Anzahl(kategorien[id], k) <= beobachter
  <2>1. DOMAIN kategorien[id] = 1..Len(kategorien[id])
    BY <1>1
  <2>2. {n \in DOMAIN kategorien[id] : kategorien[id][n] = k}
          = Stellen(kategorien[id], {k})
    BY <2>1 DEF Stellen
  <2>3. Anzahl(kategorien[id], k) = Kopien(id, k)
    BY <2>2 DEF Anzahl, Kopien, Zahl
  <2>4. /\ beobachter \in Nat /\ gefragt[id] \in Nat /\ Kopien(id, k) \in Nat
        /\ Zahl(ereignisse, Von(id)) \in Nat
    BY <1>1, Zahlen
  <2>5. Kopien(id, k) + gefragt[id] + Zahl(ereignisse, Von(id)) <= beobachter
    BY <1>1 DEF ZInv, Gezaehlt
  <2> QED BY <2>3, <2>4, <2>5
<1> QED BY <1>2 DEF ZInv, Herkunft

\* In whatever order events and answers arrive, a category is kept for an
\* order at most once per observer, and only for orders that were accepted
\* (DetailKatVC.swift 18 adds observers and removes none).
THEOREM ZahlGeltend == Spec => []HoechstensJeBeobachter
BY ZahlStart, ZahlSchritt, GezaehltReicht, PTL DEF Spec
=============================================================================
