---------------------------- MODULE Seiten_proofs ----------------------------
(***************************************************************************)
(* Proofs about the two pages that fold records into a table of sections:  *)
(* the bill (Abrechnung) and the menu (Produkte).                          *)
(*                                                                         *)
(* Both are built from recursive functions over the positions of a         *)
(* sequence.  What such a function computes is proved by the smallest      *)
(* counterexample: every nonempty set of numbers has a smallest member,    *)
(* hence a set that holds 0 and i whenever it holds i - 1 holds 0..n, and  *)
(* hence a function with the equations of the recursion exists.            *)
(***************************************************************************)
EXTENDS Abrechnung, Produkte, FiniteSetTheorems, TLAPS

(***************************************************************************)
(* Recursion over the positions of a sequence.                             *)
(***************************************************************************)

\* A set of natural numbers has a smallest one: of the intervals from zero
\* to its members, one contains no smaller one.
LEMMA Kleinstes ==
  ASSUME NEW T, T \subseteq Nat, T # {}
  PROVE  \E m \in T : \A k \in T : m <= k
<1> DEFINE Q == {0..j : j \in T}
<1>1. IsWellFoundedOn(StrictSubsetOrdering(Nat), FiniteSubsetsOf(Nat))
  BY FS_StrictSubsetOrderingWellFounded
<1>2. \A j \in T : j \in Nat /\ 0..j \subseteq Nat /\ IsFiniteSet(0..j)
  BY FS_Interval
<1>3. Q \subseteq FiniteSubsetsOf(Nat) /\ Q # {}
  BY <1>2 DEF FiniteSubsetsOf
<1>4. \E x \in Q : \A y \in Q : ~(<<y, x>> \in StrictSubsetOrdering(Nat))
  <2> HIDE DEF Q
  <2> QED BY <1>1, <1>3, WFMin
<1>5. PICK m \in T : \A y \in Q : ~(<<y, 0..m>> \in StrictSubsetOrdering(Nat))
  BY <1>4
<1>6. ASSUME NEW k \in T, k < m
      PROVE  FALSE
  <2>1. 0..k \in SUBSET Nat /\ 0..m \in SUBSET Nat /\ 0..k \in Q
    BY <1>2
  <2>2. 0..k \subseteq 0..m /\ 0..k # 0..m
    BY <1>2, <1>6
  <2>3. <<0..k, 0..m>> \in StrictSubsetOrdering(Nat)
    BY <2>1, <2>2 DEF StrictSubsetOrdering
  <2> QED BY <1>5, <2>1, <2>3
<1> QED BY <1>2, <1>6

\* Induction over the numbers up to n, for a property given as a set.
LEMMA Induktion ==
  ASSUME NEW n \in Nat, NEW P, 0 \in P,
         \A i \in 1..n : i - 1 \in P => i \in P
  PROVE  0..n \subseteq P
<1> DEFINE T == {i \in 0..n : i \notin P}
<1> SUFFICES ASSUME T # {} PROVE FALSE
  OBVIOUS
<1>1. PICK m \in T : \A k \in T : m <= k
  <2>1. T \subseteq Nat
    OBVIOUS
  <2> HIDE DEF T
  <2> QED BY <2>1, Kleinstes
<1>2. m \in 1..n /\ m - 1 \in 0..n /\ ~(m <= m - 1)
  BY <1>1
<1>3. m - 1 \in P
  BY <1>1, <1>2
<1> QED BY <1>1, <1>2, <1>3

\* The recursive function over 0..n with first value x0 and steps G.
IstRekursion(f, n, X, x0, G) ==
  /\ f \in [0..n -> X]
  /\ f[0] = x0
  /\ \A i \in 1..n : f[i] = G[i][f[i - 1]]

\* It exists if the steps stay in X.
LEMMA RekursionGibtEs ==
  ASSUME NEW n \in Nat, NEW X, NEW x0 \in X, NEW G \in [1..n -> [X -> X]]
  PROVE  \E f : IstRekursion(f, n, X, x0, G)
<1> DEFINE Gut(m, f) == f[0] = x0 /\ \A i \in 1..m : f[i] = G[i][f[i - 1]]
           P == {m \in 0..n : \E f \in [0..m -> X] : Gut(m, f)}
<1>1. 0 \in P
  <2> DEFINE f == [i \in 0..0 |-> x0]
  <2>1. f \in [0..0 -> X] /\ Gut(0, f)
    OBVIOUS
  <2> HIDE DEF f
  <2> QED BY <2>1
<1>2. ASSUME NEW i \in 1..n, i - 1 \in P
      PROVE  i \in P
  <2>1. PICK f \in [0..(i - 1) -> X] : Gut(i - 1, f)
    BY <1>2
  <2> DEFINE g == [j \in 0..i |-> IF j = i THEN G[i][f[i - 1]] ELSE f[j]]
  <2>2. f[i - 1] \in X /\ G[i][f[i - 1]] \in X
    <3>1. i - 1 \in 0..(i - 1)
      OBVIOUS
    <3>2. f[i - 1] \in X
      BY <3>1
    <3> QED BY <3>2
  <2>3. g \in [0..i -> X]
    BY <2>2
  <2>4. g[0] = x0
    BY <2>1
  <2>5. ASSUME NEW j \in 1..i
        PROVE  g[j] = G[j][g[j - 1]]
    <3>1. CASE j = i
      <4>1. g[i - 1] = f[i - 1] /\ g[i] = G[i][f[i - 1]]
        OBVIOUS
      <4> QED BY <3>1, <4>1
    <3>2. CASE j # i
      <4>1. j \in 1..(i - 1) /\ j - 1 \in 0..i /\ j - 1 # i
        BY <3>2
      <4>2. g[j] = f[j] /\ g[j - 1] = f[j - 1]
        BY <3>2, <4>1
      <4> QED BY <2>1, <4>1, <4>2
    <3> QED BY <3>1, <3>2
  <2>6. Gut(i, g) /\ i \in 0..n
    <3> HIDE DEF g
    <3> QED BY <2>4, <2>5
  <2> HIDE DEF g, Gut
  <2> QED BY <2>3, <2>6
<1>3. 0..n \subseteq P
  <2> HIDE DEF P
  <2> QED BY <1>1, <1>2, Induktion
<1>4. n \in P
  BY <1>3
<1> QED BY <1>4 DEF IstRekursion

\* A function over 1..n is a sequence of length n.
LEMMA FolgeAusFunktion ==
  ASSUME NEW T, NEW n \in Nat, NEW f \in [1..n -> T]
  PROVE  f \in Seq(T) /\ Len(f) = n
OBVIOUS

\* An empty sequence has no position.
LEMMA LeerOhneStelle == DOMAIN <<>> = {}
OBVIOUS

\* A counter of a set of numbers is raised or lowered.
LEMMA ZaehlerTyp ==
  ASSUME NEW S, NEW z \in [S -> Nat], NEW a \in S
  PROVE  /\ z[a] \in Nat
         /\ [z EXCEPT ![a] = @ + 1] \in [S -> Nat]
         /\ z[a] > 0 => [z EXCEPT ![a] = @ - 1] \in [S -> Nat]
<1>1. z[a] \in Nat
  OBVIOUS
<1>2. z[a] + 1 \in Nat /\ (z[a] > 0 => z[a] - 1 \in Nat)
  BY <1>1
<1> QED BY <1>1, <1>2

(***************************************************************************)
(*                                 THE BILL                                *)
(*                                                                         *)
(* The items of the orders of a table, in one sequence.                    *)
(***************************************************************************)

\* What setSectionsKellnerBestellung appends for an order.
Eintraege == [Tischnummer: Tische, menge: Seq(Nat \ {0})]

LEMMA AlleMengenTyp ==
  ASSUME NEW t, NEW b \in Seq(Eintraege)
  PROVE  AlleMengen(t, b) \in Seq(Nat \ {0})
<1> DEFINE X == Seq(Nat \ {0})
           n == Len(b)
           G == [i \in 1..n |-> [x \in X |->
                   IF b[i].Tischnummer = t THEN x \o b[i].menge ELSE x]]
           Wert(f, i) == IF i = 0 THEN <<>>
                         ELSE IF b[i].Tischnummer = t THEN f[i - 1] \o b[i].menge
                         ELSE f[i - 1]
           F(f) == [i \in 0..n |-> Wert(f, i)]
<1>1. n \in Nat /\ <<>> \in X
  OBVIOUS
<1>2. \A i \in 1..n : b[i] \in Eintraege
  OBVIOUS
<1>3. \A i \in 1..n : b[i].menge \in X
  BY <1>2 DEF Eintraege
<1>4. G \in [1..n -> [X -> X]]
  <2>1. \A i \in 1..n : \A x \in X : x \o b[i].menge \in X
    BY <1>3
  <2> HIDE DEF X
  <2> QED BY <2>1
<1>5. PICK f \in [0..n -> X] :
        f[0] = <<>> /\ \A i \in 1..n : f[i] = G[i][f[i - 1]]
  <2> DEFINE x0 == <<>>
  <2>1. n \in Nat /\ x0 \in X
    BY <1>1
  <2> HIDE DEF X, n, G, x0
  <2>2. \E f : IstRekursion(f, n, X, x0, G)
    BY <2>1, <1>4, RekursionGibtEs
  <2> QED BY <2>2 DEF x0, IstRekursion
<1>6. \A i \in 0..n : f[i] = Wert(f, i)
  <2> SUFFICES ASSUME NEW i \in 1..n
               PROVE  f[i] = Wert(f, i)
    <3>1. \A i \in 0..n : i = 0 \/ i \in 1..n
      BY <1>1
    <3>2. f[0] = Wert(f, 0)
      BY <1>5
    <3> HIDE DEF Wert
    <3> QED BY <3>1, <3>2
  <2>1. i - 1 \in 0..n /\ i # 0
    OBVIOUS
  <2>2. f[i - 1] \in X
    BY <2>1
  <2>3. f[i] = G[i][f[i - 1]]
    BY <1>5
  <2> HIDE DEF X
  <2> QED BY <2>1, <2>2, <2>3
<1>7. f = F(f)
  <2> HIDE DEF Wert
  <2> QED BY <1>6
<1> DEFINE g == CHOOSE h : h = F(h)
<1>8. g = F(g)
  <2> HIDE DEF F
  <2> QED BY <1>7
<1>9. AlleMengen(t, b) = g[n]
  BY DEF AlleMengen
<1> HIDE DEF g
<1>10. \A i \in 0..n : g[i] = Wert(g, i)
  <2> HIDE DEF Wert
  <2> QED BY <1>8
<1> DEFINE P == {i \in 0..n : g[i] \in X}
<1>11. 0 \in P
  <2>1. 0 \in 0..n
    BY <1>1
  <2>2. g[0] = <<>>
    BY <1>10, <2>1
  <2> QED BY <1>1, <2>1, <2>2
<1>12. ASSUME NEW i \in 1..n, i - 1 \in P
       PROVE  i \in P
  <2>1. g[i] = Wert(g, i) /\ i # 0
    BY <1>10
  <2>2. g[i - 1] \in X /\ b[i].menge \in X
    BY <1>3, <1>12
  <2>3. g[i - 1] \o b[i].menge \in X
    BY <2>2
  <2>4. Wert(g, i) \in X
    <3> HIDE DEF X
    <3> QED BY <2>1, <2>2, <2>3
  <2>5. i \in 0..n
    BY <1>1
  <2> HIDE DEF X, Wert
  <2> QED BY <2>1, <2>4, <2>5
<1>13. 0..n \subseteq P
  <2> HIDE DEF P, n
  <2> QED BY <1>1, <1>11, <1>12, Induktion
<1> QED BY <1>1, <1>9, <1>13

LEMMA NurTischTyp ==
  ASSUME NEW t, NEW b \in Seq(Eintraege)
  PROVE  /\ NurTisch(t, b) \in Seq(Eintraege)
         /\ Len(NurTisch(t, b)) <= Len(b)
<1> DEFINE X == Seq(Eintraege)
           n == Len(b)
           G == [i \in 1..n |-> [x \in X |->
                   IF b[i].Tischnummer = t THEN Append(x, b[i]) ELSE x]]
           Wert(f, i) == IF i = 0 THEN <<>>
                         ELSE IF b[i].Tischnummer = t THEN Append(f[i - 1], b[i])
                         ELSE f[i - 1]
           F(f) == [i \in 0..n |-> Wert(f, i)]
<1>1. n \in Nat /\ <<>> \in X
  OBVIOUS
<1>2. \A i \in 1..n : b[i] \in Eintraege
  OBVIOUS
<1>4. G \in [1..n -> [X -> X]]
  <2>1. \A i \in 1..n : \A x \in X : Append(x, b[i]) \in X
    BY <1>2
  <2> HIDE DEF X
  <2> QED BY <2>1
<1>5. PICK f \in [0..n -> X] :
        f[0] = <<>> /\ \A i \in 1..n : f[i] = G[i][f[i - 1]]
  <2> DEFINE x0 == <<>>
  <2>1. n \in Nat /\ x0 \in X
    BY <1>1
  <2> HIDE DEF X, n, G, x0
  <2>2. \E f : IstRekursion(f, n, X, x0, G)
    BY <2>1, <1>4, RekursionGibtEs
  <2> QED BY <2>2 DEF x0, IstRekursion
<1>6. \A i \in 0..n : f[i] = Wert(f, i)
  <2> SUFFICES ASSUME NEW i \in 1..n
               PROVE  f[i] = Wert(f, i)
    <3>1. \A i \in 0..n : i = 0 \/ i \in 1..n
      BY <1>1
    <3>2. f[0] = Wert(f, 0)
      BY <1>5
    <3> HIDE DEF Wert
    <3> QED BY <3>1, <3>2
  <2>1. i - 1 \in 0..n /\ i # 0
    OBVIOUS
  <2>2. f[i - 1] \in X
    BY <2>1
  <2>3. f[i] = G[i][f[i - 1]]
    BY <1>5
  <2> HIDE DEF X
  <2> QED BY <2>1, <2>2, <2>3
<1>7. f = F(f)
  <2> HIDE DEF Wert
  <2> QED BY <1>6
<1> DEFINE g == CHOOSE h : h = F(h)
<1>8. g = F(g)
  <2> HIDE DEF F
  <2> QED BY <1>7
<1>9. NurTisch(t, b) = g[n]
  BY DEF NurTisch
<1> HIDE DEF g
<1>10. \A i \in 0..n : g[i] = Wert(g, i)
  <2> HIDE DEF Wert
  <2> QED BY <1>8
<1> DEFINE P == {i \in 0..n : g[i] \in X /\ Len(g[i]) <= i}
<1>11. 0 \in P
  <2>1. 0 \in 0..n
    BY <1>1
  <2>2. g[0] = <<>>
    BY <1>10, <2>1
  <2>3. g[0] \in X /\ Len(g[0]) <= 0
    BY <1>1, <2>2
  <2> QED BY <2>1, <2>3
<1>12. ASSUME NEW i \in 1..n, i - 1 \in P
       PROVE  i \in P
  <2>1. g[i] = Wert(g, i) /\ i # 0
    BY <1>10
  <2>2. g[i - 1] \in X /\ b[i] \in Eintraege /\ Len(g[i - 1]) <= i - 1
    BY <1>2, <1>12
  <2> DEFINE y == g[i - 1]
  <2>3. Append(y, b[i]) \in X /\ Len(Append(y, b[i])) <= i /\ Len(y) <= i
    <3> HIDE DEF y
    <3>1. y \in X /\ b[i] \in Eintraege /\ Len(y) <= i - 1
      BY <2>2 DEF y
    <3> QED BY <3>1
  <2>4. g[i] \in X /\ Len(g[i]) <= i
    <3> HIDE DEF X
    <3> QED BY <2>1, <2>2, <2>3
  <2>5. i \in 0..n
    BY <1>1
  <2> HIDE DEF X, Wert
  <2> QED BY <2>4, <2>5
<1>13. 0..n \subseteq P
  <2> HIDE DEF P, n
  <2> QED BY <1>1, <1>11, <1>12, Induktion
<1> QED BY <1>1, <1>9, <1>13

(***************************************************************************)
(* The sections, on the left and on the right.                             *)
(***************************************************************************)
Woerterbuch == UNION {[D -> Seq(Nat)] : D \in SUBSET Nat}

Abschnitte ==
  {a \in [Tischnummer: Tische, menge: Seq(Nat \ {0}), expanded: BOOLEAN,
          bezahltMenge: Woerterbuch] : Begrenzt(a)}

LEMMA WoerterbuchTyp ==
  ASSUME NEW d
  PROVE  d \in Woerterbuch <=> /\ DOMAIN d \subseteq Nat
                               /\ d \in [DOMAIN d -> Seq(Nat)]
<1>1. ASSUME d \in Woerterbuch
      PROVE  DOMAIN d \subseteq Nat /\ d \in [DOMAIN d -> Seq(Nat)]
  <2>1. PICK D \in SUBSET Nat : d \in [D -> Seq(Nat)]
    BY <1>1 DEF Woerterbuch
  <2>2. DOMAIN d = D
    BY <2>1
  <2> QED BY <2>1, <2>2
<1>2. ASSUME DOMAIN d \subseteq Nat, d \in [DOMAIN d -> Seq(Nat)]
      PROVE  d \in Woerterbuch
  BY <1>2 DEF Woerterbuch
<1> QED BY <1>1, <1>2

\* A section is one again after its amounts are changed within their bounds.
LEMMA MitMengen ==
  ASSUME NEW a \in Abschnitte, NEW d,
         DOMAIN d \subseteq Nat, d \in [DOMAIN d -> Seq(Nat)],
         \A k \in DOMAIN d : /\ DOMAIN d[k] = DOMAIN a.menge
                             /\ \A r \in DOMAIN a.menge : d[k][r] <= a.menge[r]
  PROVE  /\ [a EXCEPT !.bezahltMenge = d] \in Abschnitte
         /\ [a EXCEPT !.bezahltMenge = d].menge = a.menge
         /\ [a EXCEPT !.bezahltMenge = d].Tischnummer = a.Tischnummer
         /\ [a EXCEPT !.bezahltMenge = d].bezahltMenge = d
<1> DEFINE b == [a EXCEPT !.bezahltMenge = d]
<1>1. d \in Woerterbuch
  BY WoerterbuchTyp
<1>2. a \in [Tischnummer: Tische, menge: Seq(Nat \ {0}), expanded: BOOLEAN,
             bezahltMenge: Woerterbuch]
  BY DEF Abschnitte
<1>3. /\ b \in [Tischnummer: Tische, menge: Seq(Nat \ {0}), expanded: BOOLEAN,
                bezahltMenge: Woerterbuch]
      /\ b.menge = a.menge /\ b.Tischnummer = a.Tischnummer
      /\ b.bezahltMenge = d
  BY <1>1, <1>2
<1>4. a.menge \in Seq(Nat \ {0})
  BY <1>2
<1>5. \A k \in DOMAIN d : \A r \in DOMAIN a.menge : d[k][r] \in 0..a.menge[r]
  <2> SUFFICES ASSUME NEW k \in DOMAIN d, NEW r \in DOMAIN a.menge
               PROVE  d[k][r] \in 0..a.menge[r]
    OBVIOUS
  <2>1. d[k] \in Seq(Nat) /\ r \in DOMAIN d[k] /\ a.menge[r] \in Nat
    BY <1>4
  <2>2. d[k][r] \in Nat /\ d[k][r] <= a.menge[r]
    BY <2>1
  <2> QED BY <2>1, <2>2
<1>6. Begrenzt(b)
  <2> HIDE DEF b
  <2> QED BY <1>3, <1>5 DEF Begrenzt
<1> HIDE DEF b
<1>7. b \in Abschnitte
  BY <1>3, <1>6 DEF Abschnitte
<1> QED BY <1>3, <1>7 DEF b

\* What is known of a section.
LEMMA AbschnittFelder ==
  ASSUME NEW a \in Abschnitte
  PROVE  /\ a.Tischnummer \in Tische
         /\ a.menge \in Seq(Nat \ {0})
         /\ a.expanded \in BOOLEAN
         /\ DOMAIN a.bezahltMenge \subseteq Nat
         /\ a.bezahltMenge \in [DOMAIN a.bezahltMenge -> Seq(Nat)]
         /\ Begrenzt(a)
         /\ \A r \in DOMAIN a.menge : a.menge[r] \in Nat
<1>1. a \in [Tischnummer: Tische, menge: Seq(Nat \ {0}), expanded: BOOLEAN,
             bezahltMenge: Woerterbuch] /\ Begrenzt(a)
  BY DEF Abschnitte
<1>2. /\ a.Tischnummer \in Tische /\ a.menge \in Seq(Nat \ {0})
      /\ a.expanded \in BOOLEAN /\ a.bezahltMenge \in Woerterbuch
  BY <1>1
<1>3. \A r \in DOMAIN a.menge : a.menge[r] \in Nat
  BY <1>2
<1> QED BY <1>1, <1>2, <1>3, WoerterbuchTyp

LEMMA AufgeklapptTyp ==
  ASSUME NEW a \in Abschnitte, NEW x \in BOOLEAN
  PROVE  /\ [a EXCEPT !.expanded = x] \in Abschnitte
         /\ [a EXCEPT !.expanded = x].Tischnummer = a.Tischnummer
         /\ [a EXCEPT !.expanded = x].menge = a.menge
         /\ [a EXCEPT !.expanded = x].bezahltMenge = a.bezahltMenge
<1> DEFINE b == [a EXCEPT !.expanded = x]
<1>1. a \in [Tischnummer: Tische, menge: Seq(Nat \ {0}), expanded: BOOLEAN,
             bezahltMenge: Woerterbuch] /\ Begrenzt(a)
  BY DEF Abschnitte
<1>2. /\ b \in [Tischnummer: Tische, menge: Seq(Nat \ {0}), expanded: BOOLEAN,
                bezahltMenge: Woerterbuch]
      /\ b.Tischnummer = a.Tischnummer /\ b.menge = a.menge
      /\ b.bezahltMenge = a.bezahltMenge
  BY <1>1
<1> HIDE DEF b
<1>3. Begrenzt(b)
  BY <1>1, <1>2 DEF Begrenzt
<1>4. b \in Abschnitte
  BY <1>2, <1>3 DEF Abschnitte
<1> QED BY <1>2, <1>4 DEF b

\* "Alles auswaehlen": every amount of the section is paid.
Voll(a, s) ==
  [k \in DOMAIN a.bezahltMenge \cup {s} |->
     IF k = s THEN a.menge ELSE a.bezahltMenge[k]]

LEMMA AllesTyp ==
  ASSUME NEW a \in Abschnitte, NEW s \in Nat
  PROVE  /\ [a EXCEPT !.bezahltMenge = Voll(a, s)] \in Abschnitte
         /\ [a EXCEPT !.bezahltMenge = Voll(a, s)].Tischnummer = a.Tischnummer
         /\ [a EXCEPT !.bezahltMenge = Voll(a, s)].menge = a.menge
         /\ DOMAIN [a EXCEPT !.bezahltMenge = Voll(a, s)].bezahltMenge
              = DOMAIN a.bezahltMenge \cup {s}
<1> DEFINE d == Voll(a, s)
<1>1. DOMAIN d = DOMAIN a.bezahltMenge \cup {s} /\ DOMAIN d \subseteq Nat
  BY AbschnittFelder DEF Voll
<1>2. a.menge \in Seq(Nat)
  BY AbschnittFelder
<1>3. ASSUME NEW k \in DOMAIN d
      PROVE  /\ d[k] \in Seq(Nat)
             /\ DOMAIN d[k] = DOMAIN a.menge
             /\ \A r \in DOMAIN a.menge : d[k][r] <= a.menge[r]
  <2>1. CASE k = s
    <3>1. d[k] = a.menge
      BY <2>1, <1>1 DEF Voll
    <3>2. \A r \in DOMAIN a.menge : a.menge[r] <= a.menge[r]
      BY AbschnittFelder
    <3> QED BY <1>2, <3>1, <3>2
  <2>2. CASE k # s
    <3>1. k \in DOMAIN a.bezahltMenge /\ d[k] = a.bezahltMenge[k]
      BY <2>2, <1>1 DEF Voll
    <3>2. d[k] \in Seq(Nat) /\ DOMAIN d[k] = DOMAIN a.menge
      BY <3>1, AbschnittFelder DEF Begrenzt
    <3>3. \A r \in DOMAIN a.menge :
            a.menge[r] \in Nat /\ d[k][r] \in 0..a.menge[r]
      BY <3>1, AbschnittFelder DEF Begrenzt
    <3> QED BY <3>2, <3>3
  <2> QED BY <2>1, <2>2
<1>4. d \in [DOMAIN d -> Seq(Nat)]
  <2>1. d = [k \in DOMAIN d |-> d[k]]
    BY DEF Voll
  <2> HIDE DEF d
  <2> QED BY <1>3, <2>1
<1> HIDE DEF d
<1> QED BY <1>1, <1>3, <1>4, MitMengen DEF d

\* A tap on the left or on the right changes one amount of one key.
Einen(a, s, r, v) == [a EXCEPT !.bezahltMenge[s][r] = v]

LEMMA EinenTyp ==
  ASSUME NEW a \in Abschnitte, NEW s, NEW r \in DOMAIN a.menge, NEW v \in Nat,
         v <= a.menge[r]
  PROVE  /\ Einen(a, s, r, v) \in Abschnitte
         /\ Einen(a, s, r, v).Tischnummer = a.Tischnummer
         /\ Einen(a, s, r, v).menge = a.menge
         /\ DOMAIN Einen(a, s, r, v).bezahltMenge = DOMAIN a.bezahltMenge
<1> DEFINE d == [a.bezahltMenge EXCEPT ![s][r] = v]
<1>1. Einen(a, s, r, v) = [a EXCEPT !.bezahltMenge = d]
  BY DEF Einen
<1>2. DOMAIN d = DOMAIN a.bezahltMenge /\ DOMAIN d \subseteq Nat
  BY AbschnittFelder
<1>3. ASSUME NEW k \in DOMAIN d
      PROVE  /\ d[k] \in Seq(Nat)
             /\ DOMAIN d[k] = DOMAIN a.menge
             /\ \A q \in DOMAIN a.menge : d[k][q] <= a.menge[q]
  <2> DEFINE e == a.bezahltMenge[k]
  <2>1. e \in Seq(Nat) /\ DOMAIN e = DOMAIN a.menge
    BY <1>2, AbschnittFelder DEF Begrenzt
  <2>2. \A q \in DOMAIN a.menge : a.menge[q] \in Nat /\ e[q] \in 0..a.menge[q]
    BY <1>2, AbschnittFelder DEF Begrenzt
  <2>3. \A q \in DOMAIN a.menge : e[q] <= a.menge[q]
    BY <2>2
  <2>4. CASE k = s
    <3>1. d[k] = [e EXCEPT ![r] = v]
      BY <2>4, <1>2
    <3> HIDE DEF d, e
    <3>2. [e EXCEPT ![r] = v] \in Seq(Nat)
      BY <2>1
    <3>3. DOMAIN [e EXCEPT ![r] = v] = DOMAIN a.menge
      BY <2>1
    <3>4. \A q \in DOMAIN a.menge : [e EXCEPT ![r] = v][q] <= a.menge[q]
      BY <2>1, <2>3
    <3> QED BY <3>1, <3>2, <3>3, <3>4
  <2>5. CASE k # s
    <3>1. d[k] = e
      BY <2>5, <1>2
    <3> HIDE DEF d, e
    <3> QED BY <3>1, <2>1, <2>3
  <2> QED BY <2>4, <2>5
<1>4. d \in [DOMAIN d -> Seq(Nat)]
  <2>1. d = [k \in DOMAIN d |-> d[k]]
    OBVIOUS
  <2> HIDE DEF d
  <2> QED BY <1>3, <2>1
<1> HIDE DEF d
<1>5. /\ [a EXCEPT !.bezahltMenge = d] \in Abschnitte
      /\ [a EXCEPT !.bezahltMenge = d].menge = a.menge
      /\ [a EXCEPT !.bezahltMenge = d].Tischnummer = a.Tischnummer
      /\ [a EXCEPT !.bezahltMenge = d].bezahltMenge = d
  BY <1>2, <1>3, <1>4, MitMengen
<1> QED BY <1>1, <1>2, <1>5

\* The section a merge builds: nothing of it is paid.
LEMMA AbschnittTyp ==
  ASSUME NEW t \in Tische, NEW n \in Nat, NEW b \in Seq(Eintraege)
  PROVE  /\ Abschnitt(t, n, b) \in Abschnitte
         /\ Abschnitt(t, n, b).Tischnummer = t
         /\ Abschnitt(t, n, b).menge = AlleMengen(t, b)
         /\ Abschnitt(t, n, b).menge # <<>> =>
              n \in DOMAIN Abschnitt(t, n, b).bezahltMenge
<1> DEFINE m == AlleMengen(t, b)
           z == [r \in DOMAIN m |-> 0]
           d == [s \in {x \in {n} : m # <<>>} |-> z]
           a == [Tischnummer |-> t, menge |-> m, expanded |-> FALSE,
                 bezahltMenge |-> d]
<1>1. Abschnitt(t, n, b) = a
  BY DEF Abschnitt
<1>2. m \in Seq(Nat \ {0})
  BY AlleMengenTyp
<1> HIDE DEF m
<1>3. z \in Seq(Nat) /\ DOMAIN z = DOMAIN m /\ \A r \in DOMAIN m : z[r] = 0
  BY <1>2
<1> HIDE DEF z
<1>4. /\ DOMAIN d \subseteq {n} /\ d \in [DOMAIN d -> Seq(Nat)]
      /\ \A k \in DOMAIN d : d[k] = z
      /\ m # <<>> => n \in DOMAIN d
  BY <1>3
<1> HIDE DEF d
<1>5. DOMAIN d \subseteq Nat
  BY <1>4
<1>6. d \in Woerterbuch
  BY <1>4, <1>5, WoerterbuchTyp
<1>7. /\ a \in [Tischnummer: Tische, menge: Seq(Nat \ {0}), expanded: BOOLEAN,
                bezahltMenge: Woerterbuch]
      /\ a.Tischnummer = t /\ a.menge = m /\ a.bezahltMenge = d
  BY <1>2, <1>6
<1> HIDE DEF a
<1>8. \A r \in DOMAIN m : m[r] \in Nat /\ z[r] \in 0..m[r]
  BY <1>2, <1>3
<1>9. Begrenzt(a)
  BY <1>3, <1>4, <1>7, <1>8 DEF Begrenzt
<1>10. a \in Abschnitte
  BY <1>7, <1>9 DEF Abschnitte
<1> QED BY <1>1, <1>4, <1>7, <1>10 DEF m

(***************************************************************************)
(* A merge.                                                                *)
(***************************************************************************)

\* The tables of a merge in some order: each of them at one place.
LEMMA FolgeTyp ==
  ASSUME NEW S, IsFiniteSet(S), NEW f \in SetToSeqs(S)
  PROVE  /\ f \in Seq(S)
         /\ \A i, j \in DOMAIN f : f[i] = f[j] => i = j
         /\ \A x \in S : \E i \in DOMAIN f : f[i] = x
<1> DEFINE c == Cardinality(S)
<1>1. c \in Nat /\ f \in [1..c -> S] /\ \A i, j \in 1..c : i # j => f[i] # f[j]
  BY FS_CardinalityType DEF SetToSeqs
<1>2. IsFiniteSet(1..c) /\ Cardinality(1..c) = c
  <2> HIDE DEF c
  <2>1. 1 \in Int /\ c \in Int /\ 1 <= c + 1 /\ (IF 1 <= c THEN c - 1 + 1 ELSE 0) = c
    BY <1>1
  <2> QED BY <2>1, FS_Interval
<1>3. f \in Injection(1..c, S)
  BY <1>1 DEF Injection, IsInjective
<1>4. f \in Surjection(1..c, S)
  <2> DEFINE D == 1..c
  <2>1. f \in Injection(D, S) /\ Cardinality(D) = Cardinality(S)
    BY <1>2, <1>3
  <2> HIDE DEF D
  <2>2. f \in Surjection(D, S)
    BY <2>1, FS_Injection
  <2> QED BY <2>2 DEF D
<1> HIDE DEF c
<1>5. f \in Seq(S) /\ DOMAIN f = 1..c
  BY <1>1
<1> QED BY <1>1, <1>4, <1>5 DEF Surjection

\* The sections appended by a merge of the tables in folge.
Neue(folge, b) == [n \in DOMAIN folge |-> Abschnitt(folge[n], n, b)]

LEMMA NeueTyp ==
  ASSUME NEW S, S \subseteq Tische, NEW f \in Seq(S), NEW b \in Seq(Eintraege)
  PROVE  /\ Neue(f, b) \in Seq(Abschnitte)
         /\ DOMAIN Neue(f, b) = DOMAIN f
         /\ \A n \in DOMAIN f :
              /\ Neue(f, b)[n].Tischnummer = f[n]
              /\ Neue(f, b)[n].menge = AlleMengen(f[n], b)
              /\ Neue(f, b)[n].menge # <<>> =>
                   n \in DOMAIN Neue(f, b)[n].bezahltMenge
<1>1. \A n \in DOMAIN f : f[n] \in Tische /\ n \in Nat
  OBVIOUS
<1> DEFINE A(n) == Abschnitt(f[n], n, b)
<1>2. \A n \in DOMAIN f :
        /\ A(n) \in Abschnitte
        /\ A(n).Tischnummer = f[n]
        /\ A(n).menge = AlleMengen(f[n], b)
        /\ A(n).menge # <<>> => n \in DOMAIN A(n).bezahltMenge
  BY <1>1, AbschnittTyp
<1>3. Neue(f, b) = [n \in 1..Len(f) |-> A(n)] /\ DOMAIN f = 1..Len(f)
  BY DEF Neue
<1> HIDE DEF A
<1>4. [n \in 1..Len(f) |-> A(n)] \in Seq(Abschnitte)
  BY <1>2, <1>3
<1> QED BY <1>2, <1>3, <1>4

LEMMA ZusammenfuehrenIst ==
  ASSUME IsFiniteSet(TischnummerIDs), NEW b, BestellungenZusammenfuehren(b)
  PROVE  \E f \in Seq(TischnummerIDs) :
           /\ \A i, j \in DOMAIN f : f[i] = f[j] => i = j
           /\ \A x \in TischnummerIDs : \E i \in DOMAIN f : f[i] = x
           /\ BestellungenFertig' = BestellungenFertig \o Neue(f, b)
<1>1. PICK f \in SetToSeqs(TischnummerIDs) :
        BestellungenFertig' = BestellungenFertig \o Neue(f, b)
  BY DEF BestellungenZusammenfuehren, Neue
<1> QED BY <1>1, FolgeTyp

(***************************************************************************)
(* The type of the state.  Every section, on the left and on the right,    *)
(* keeps its amounts between zero and what was ordered; the number of the  *)
(* table on the right is "" exactly when there is none.                    *)
(***************************************************************************)
RechtsTyp ==
  \/ BestellungenBezahlen = <<>> /\ tischnummerBezahlen = ""
  \/ \E a \in Abschnitte : /\ BestellungenBezahlen = <<a>>
                           /\ tischnummerBezahlen = a.Tischnummer

LadeTyp ==
  /\ unterwegs \in [Auftrag -> Nat]
  /\ veraltet \in [Auftrag -> Nat]
  /\ Tischnummer \in [Auftrag -> Tische \cup {""}]
  /\ BestellungItemsMengen \in [Auftrag -> Seq(Nat \ {0})]
  /\ \A a \in Auftrag : BestellungItemsMengen[a] # <<>> => Tischnummer[a] \in Tische
  /\ Bestellungen \in Seq(Eintraege)

Abstuerze == {"keiner", "nil", "index", "laden"}

TypInv ==
  /\ TischIndex \in [Auftrag -> Tische]
  /\ bestellungIDs \in Seq(Auftrag)
  /\ TischnummerIDs \subseteq {TischIndex[a] : a \in Auftrag}
  /\ \A i \in DOMAIN bestellungIDs : TischIndex[bestellungIDs[i]] \in TischnummerIDs
  /\ LadeTyp
  /\ BestellungenFertig \in Seq(Abschnitte)
  /\ RechtsTyp
  /\ absturz \in Abstuerze
  /\ aufgebaut \in 0..2

LEMMA TischeEndlich ==
  ASSUME NEW T \in [Auftrag -> Tische], NEW S, S \subseteq {T[a] : a \in Auftrag}
  PROVE  IsFiniteSet(S) /\ S \subseteq Tische
<1> DEFINE U == {T[a] : a \in Auftrag}
<1>1. T \in Surjection(Auftrag, U)
  BY DEF Surjection
<1>2. IsFiniteSet(Auftrag)
  BY AuftragAnnahme
<1>3. U \subseteq Tische /\ S \in SUBSET U
  OBVIOUS
<1> HIDE DEF U
<1>4. IsFiniteSet(U)
  BY <1>1, <1>2, FS_Surjection
<1> QED BY <1>3, <1>4, FS_Subset

\* The amounts of an order after a fold.
LEMMA GefaltetTyp ==
  ASSUME NEW a \in Auftrag, NEW alt \in Seq(Nat \ {0}), NEW m \in Gefaltet(a, alt)
  PROVE  /\ m \in Seq(Nat \ {0})
         /\ alt = <<>> => m = Menge[a]
<1>1. Menge[a] \in Seq(Nat \ {0})
  BY AuftragAnnahme
<1>2. CASE alt = <<>>
  BY <1>1, <1>2 DEF Gefaltet
<1>3. CASE alt # <<>>
  <2> DEFINE alle == alt \o Menge[a]
  <2>1. PICK f \in Bijection(DOMAIN alle, DOMAIN alle) :
          m = [i \in DOMAIN alle |-> alle[f[i]]]
    BY <1>3 DEF Gefaltet
  <2>2. alle \in Seq(Nat \ {0})
    BY <1>1
  <2> HIDE DEF alle
  <2>3. f \in [DOMAIN alle -> DOMAIN alle]
    BY DEF Bijection, Injection
  <2>4. DOMAIN alle = 1..Len(alle) /\ Len(alle) \in Nat
    BY <2>2
  <2>5. \A i \in 1..Len(alle) : alle[f[i]] \in Nat \ {0}
    <3>1. \A k \in DOMAIN alle : alle[k] \in Nat \ {0}
      BY <2>2
    <3>2. \A i \in DOMAIN alle : f[i] \in DOMAIN alle
      BY <2>3
    <3> QED BY <2>4, <3>1, <3>2, Zenon
  <2> DEFINE w == [i \in 1..Len(alle) |-> alle[f[i]]]
  <2>6. w \in Seq(Nat \ {0})
    <3>1. w \in [1..Len(alle) -> Nat \ {0}]
      BY <2>5
    <3> HIDE DEF w
    <3> QED BY <2>4, <3>1, FolgeAusFunktion
  <2> QED BY <1>3, <2>1, <2>4, <2>6
<1> QED BY <1>2, <1>3

\* The sections appended for the noted keys, each of which has an entry.
LEMMA GeladenTyp ==
  ASSUME NEW ids \in Seq(Auftrag), NEW tisch, NEW mengen,
         mengen \in [Auftrag -> Seq(Nat \ {0})],
         \A a \in Auftrag : mengen[a] # <<>> => tisch[a] \in Tische,
         \A i \in DOMAIN ids : mengen[ids[i]] # <<>>
  PROVE  /\ Geladen(ids, tisch, mengen) \in Seq(Eintraege)
         /\ Len(Geladen(ids, tisch, mengen)) = Len(ids)
<1> DEFINE A(i) == [Tischnummer |-> tisch[ids[i]], menge |-> mengen[ids[i]]]
<1>1. DOMAIN ids = 1..Len(ids) /\ Len(ids) \in Nat /\ \A i \in DOMAIN ids : ids[i] \in Auftrag
  OBVIOUS
<1>2. \A i \in DOMAIN ids : A(i) \in Eintraege
  BY <1>1 DEF Eintraege
<1>3. Geladen(ids, tisch, mengen) = [i \in 1..Len(ids) |-> A(i)]
  BY <1>1 DEF Geladen
<1> HIDE DEF A
<1> DEFINE w == [i \in 1..Len(ids) |-> A(i)]
<1>4. w \in Seq(Eintraege) /\ Len(w) = Len(ids)
  <2>1. w \in [1..Len(ids) -> Eintraege]
    BY <1>1, <1>2
  <2> HIDE DEF w
  <2> QED BY <1>1, <2>1, FolgeAusFunktion
<1> QED BY <1>3, <1>4

\* The orders a merge works on.
Zuerst(b, g, n) == SubSeq(b \o g, 1, n)

LEMMA ZuerstTyp ==
  ASSUME NEW b \in Seq(Eintraege), NEW g \in Seq(Eintraege), NEW n, n = Len(g)
  PROVE  /\ Zuerst(b, g, n) \in Seq(Eintraege)
         /\ b \o g \in Seq(Eintraege)
         /\ b = <<>> => Zuerst(b, g, n) = g
<1> DEFINE c == b \o g
<1>1. c \in Seq(Eintraege) /\ n <= Len(c) /\ n \in Nat
  OBVIOUS
<1>2. b = <<>> => SubSeq(c, 1, n) = g
  OBVIOUS
<1> HIDE DEF c
<1>3. SubSeq(c, 1, n) \in Seq(Eintraege)
  BY <1>1
<1> QED BY <1>1, <1>2, <1>3 DEF Zuerst, c

\* What a record that lands does to the dictionaries.
LEMMA RecordLandet ==
  ASSUME TypInv, NEW a \in Auftrag, NEW t \in Tische, bestellungGeladen(a, t)
  PROVE  /\ unterwegs' \in [Auftrag -> Nat]
         /\ veraltet' \in [Auftrag -> Nat]
         /\ \/ /\ unterwegs[a] > 0
               /\ unterwegs' = [unterwegs EXCEPT ![a] = @ - 1]
               /\ fremd' = fremd
            \/ fremd' = TRUE
         /\ Tischnummer' = [Tischnummer EXCEPT ![a] = t]
         /\ Tischnummer' \in [Auftrag -> Tische \cup {""}]
         /\ \E m \in Seq(Nat \ {0}) :
              /\ BestellungItemsMengen' = [BestellungItemsMengen EXCEPT ![a] = m]
              /\ BestellungItemsMengen[a] = <<>> => m = Menge[a]
         /\ BestellungItemsMengen' \in [Auftrag -> Seq(Nat \ {0})]
         /\ \A c \in Auftrag : BestellungItemsMengen'[c] # <<>> => Tischnummer'[c] \in Tische
         /\ absturz = "keiner"
         /\ Abschluss(Tischnummer', BestellungItemsMengen')
         /\ UNCHANGED <<meldeVars, bestellungIDs, TischnummerIDs, zahlVars>>
<1>1. /\ unterwegs \in [Auftrag -> Nat] /\ veraltet \in [Auftrag -> Nat]
      /\ Tischnummer \in [Auftrag -> Tische \cup {""}]
      /\ BestellungItemsMengen \in [Auftrag -> Seq(Nat \ {0})]
      /\ \A c \in Auftrag : BestellungItemsMengen[c] # <<>> => Tischnummer[c] \in Tische
  BY DEF TypInv, LadeTyp
<1>2. /\ unterwegs' \in [Auftrag -> Nat]
      /\ veraltet' \in [Auftrag -> Nat]
      /\ \/ /\ unterwegs[a] > 0
            /\ unterwegs' = [unterwegs EXCEPT ![a] = @ - 1]
            /\ fremd' = fremd
         \/ fremd' = TRUE
  <2>1. CASE /\ unterwegs[a] > 0
             /\ unterwegs' = [unterwegs EXCEPT ![a] = @ - 1]
             /\ UNCHANGED <<veraltet, fremd>>
    BY <1>1, <2>1, ZaehlerTyp
  <2>2. CASE /\ veraltet[a] > 0
             /\ veraltet' = [veraltet EXCEPT ![a] = @ - 1]
             /\ fremd' = TRUE
             /\ UNCHANGED unterwegs
    BY <1>1, <2>2, ZaehlerTyp
  <2> QED BY <2>1, <2>2 DEF bestellungGeladen
<1>3. /\ Tischnummer' = [Tischnummer EXCEPT ![a] = t]
      /\ Abschluss(Tischnummer', BestellungItemsMengen')
      /\ absturz = "keiner"
      /\ UNCHANGED <<meldeVars, bestellungIDs, TischnummerIDs, zahlVars>>
  BY DEF bestellungGeladen, laeuft
<1>4. PICK m \in Gefaltet(a, BestellungItemsMengen[a]) :
        BestellungItemsMengen' = [BestellungItemsMengen EXCEPT ![a] = m]
  BY DEF bestellungGeladen
<1>5. m \in Seq(Nat \ {0}) /\ (BestellungItemsMengen[a] = <<>> => m = Menge[a])
  BY <1>1, GefaltetTyp
<1>6. /\ Tischnummer' \in [Auftrag -> Tische \cup {""}]
      /\ BestellungItemsMengen' \in [Auftrag -> Seq(Nat \ {0})]
      /\ Tischnummer'[a] = t
      /\ \A c \in Auftrag : c # a => /\ Tischnummer'[c] = Tischnummer[c]
                                     /\ BestellungItemsMengen'[c] = BestellungItemsMengen[c]
  BY <1>1, <1>3, <1>4, <1>5
<1>7. \A c \in Auftrag : BestellungItemsMengen'[c] # <<>> => Tischnummer'[c] \in Tische
  BY <1>1, <1>6
<1> QED BY <1>2, <1>3, <1>4, <1>5, <1>6, <1>7

\* The sections b are merged: one for every noted table.
Gemischt(b) ==
  /\ \E f \in Seq(TischnummerIDs) :
       /\ \A i, j \in DOMAIN f : f[i] = f[j] => i = j
       /\ \A x \in TischnummerIDs : \E i \in DOMAIN f : f[i] = x
       /\ BestellungenFertig' = BestellungenFertig \o Neue(f, b)
  /\ aufgebaut' = IF aufgebaut = 2 THEN 2 ELSE aufgebaut + 1

\* The end of loadBestellungen: nothing new, orders appended but not
\* merged, or merged.
LEMMA AbschlussIst ==
  ASSUME TypInv, absturz = "keiner", NEW tisch, NEW mengen,
         mengen \in [Auftrag -> Seq(Nat \ {0})],
         \A a \in Auftrag : mengen[a] # <<>> => tisch[a] \in Tische,
         Abschluss(tisch, mengen)
  PROVE  /\ Bestellungen' \in Seq(Eintraege)
         /\ \/ /\ absturz' \in {"keiner", "laden"}
               /\ UNCHANGED <<BestellungenFertig, aufgebaut>>
               /\ Bestellungen = <<>> => Bestellungen' = <<>>
            \/ /\ alleGezaehlt(mengen)
               /\ \A i \in DOMAIN bestellungIDs : mengen[bestellungIDs[i]] # <<>>
               /\ bestellungIDs # <<>>
               /\ Gemischt(Zuerst(Bestellungen, Geladen(bestellungIDs, tisch, mengen),
                                  Len(bestellungIDs)))
               /\ absturz' = "keiner"
<1> DEFINE g == Geladen(bestellungIDs, tisch, mengen)
<1>1. bestellungIDs \in Seq(Auftrag) /\ Bestellungen \in Seq(Eintraege)
  BY DEF TypInv, LadeTyp
<1>2. CASE /\ absturz' \in {"keiner", "laden"}
           /\ UNCHANGED <<Bestellungen, BestellungenFertig, aufgebaut>>
  BY <1>1, <1>2
<1>3. CASE /\ alleGezaehlt(mengen)
           /\ \A i \in DOMAIN bestellungIDs : mengen[bestellungIDs[i]] # <<>>
           /\ Bestellungen' = Bestellungen \o g
           /\ \/ /\ Len(Bestellungen) < Len(bestellungIDs)
                 /\ BestellungenZusammenfuehren(
                      SubSeq(Bestellungen', 1, Len(bestellungIDs)))
              \/ /\ Len(Bestellungen) >= Len(bestellungIDs)
                 /\ UNCHANGED <<BestellungenFertig, aufgebaut>>
           /\ UNCHANGED absturz
  <2>1. g \in Seq(Eintraege) /\ Len(g) = Len(bestellungIDs)
    BY <1>1, <1>3, GeladenTyp
  <2> HIDE DEF g
  <2>2. Bestellungen' \in Seq(Eintraege)
    BY <1>1, <1>3, <2>1
  <2>3. CASE /\ Len(Bestellungen) >= Len(bestellungIDs)
             /\ UNCHANGED <<BestellungenFertig, aufgebaut>>
    <3>1. Bestellungen = <<>> => g = <<>>
      BY <1>1, <2>1, <2>3
    <3>2. <<>> \o <<>> = <<>>
      OBVIOUS
    <3>3. Bestellungen = <<>> => Bestellungen' = <<>>
      BY <1>3, <3>1, <3>2
    <3> QED BY <1>3, <2>2, <2>3, <3>3
  <2>4. CASE /\ Len(Bestellungen) < Len(bestellungIDs)
             /\ BestellungenZusammenfuehren(
                  SubSeq(Bestellungen', 1, Len(bestellungIDs)))
    <3> DEFINE z == Zuerst(Bestellungen, g, Len(bestellungIDs))
    <3>1. BestellungenZusammenfuehren(z)
      BY <1>3, <2>4 DEF Zuerst
    <3> HIDE DEF z
    <3>2. IsFiniteSet(TischnummerIDs)
      BY TischeEndlich DEF TypInv
    <3>3. Gemischt(z)
      BY <3>1, <3>2, ZusammenfuehrenIst DEF Gemischt, BestellungenZusammenfuehren
    <3>4. bestellungIDs # <<>>
      BY <1>1, <2>4
    <3> QED BY <1>3, <2>2, <3>3, <3>4 DEF z, g
  <2> QED BY <1>3, <2>3, <2>4
<1>4. \/ /\ absturz' \in {"keiner", "laden"}
         /\ UNCHANGED <<Bestellungen, BestellungenFertig, aufgebaut>>
      \/ /\ alleGezaehlt(mengen)
         /\ \A i \in DOMAIN bestellungIDs : mengen[bestellungIDs[i]] # <<>>
         /\ Bestellungen' = Bestellungen \o g
         /\ \/ /\ Len(Bestellungen) < Len(bestellungIDs)
               /\ BestellungenZusammenfuehren(
                    SubSeq(Bestellungen', 1, Len(bestellungIDs)))
            \/ /\ Len(Bestellungen) >= Len(bestellungIDs)
               /\ UNCHANGED <<BestellungenFertig, aufgebaut>>
         /\ UNCHANGED absturz
  <2> HIDE DEF g
  <2> QED BY DEF Abschluss, g
<1> HIDE DEF g
<1> QED BY <1>2, <1>3, <1>4

\* The sections of a merge are sections.
LEMMA GemischtTyp ==
  ASSUME TypInv, NEW b \in Seq(Eintraege), Gemischt(b)
  PROVE  /\ BestellungenFertig' \in Seq(Abschnitte)
         /\ aufgebaut' \in 0..2
<1>1. PICK f \in Seq(TischnummerIDs) :
        BestellungenFertig' = BestellungenFertig \o Neue(f, b)
  BY DEF Gemischt
<1>2. TischnummerIDs \subseteq Tische
  BY TischeEndlich DEF TypInv
<1>3. Neue(f, b) \in Seq(Abschnitte) /\ BestellungenFertig \in Seq(Abschnitte)
  BY <1>2, NeueTyp DEF TypInv
<1> DEFINE z == Neue(f, b)
<1> HIDE DEF z
<1>4. BestellungenFertig \o z \in Seq(Abschnitte)
  BY <1>3 DEF z
<1>5. aufgebaut' \in 0..2
  BY DEF Gemischt, TypInv
<1> QED BY <1>1, <1>4, <1>5 DEF z

\* The table on the right is a section, and its number is not "".
LEMMA RechtsIst ==
  ASSUME RechtsTyp, NEW n \in DOMAIN BestellungenBezahlen
  PROVE  /\ n = 1
         /\ BestellungenBezahlen = <<BestellungenBezahlen[1]>>
         /\ BestellungenBezahlen[1] \in Abschnitte
         /\ tischnummerBezahlen = BestellungenBezahlen[1].Tischnummer
<1>1. BestellungenBezahlen # <<>>
  OBVIOUS
<1>2. PICK a \in Abschnitte : /\ BestellungenBezahlen = <<a>>
                              /\ tischnummerBezahlen = a.Tischnummer
  BY <1>1 DEF RechtsTyp
<1>3. BestellungenBezahlen[1] = a /\ DOMAIN BestellungenBezahlen = {1}
  BY <1>2
<1> QED BY <1>2, <1>3

LEMMA RechtsDa ==
  ASSUME RechtsTyp, tischnummerBezahlen \in Tische
  PROVE  1 \in DOMAIN BestellungenBezahlen
<1>1. tischnummerBezahlen # ""
  BY AuftragAnnahme
<1>2. PICK a \in Abschnitte : BestellungenBezahlen = <<a>>
  BY <1>1 DEF RechtsTyp
<1> QED BY <1>2

\* The table a tap on row r of section s on the left works on.
Getippt(s) ==
  IF BestellungenFertig[s].Tischnummer # tischnummerBezahlen
  THEN BestellungenFertig[s] ELSE BestellungenBezahlen[1]

LEMMA GetipptTyp ==
  ASSUME TypInv, NEW s \in DOMAIN BestellungenFertig
  PROVE  /\ Getippt(s) \in Abschnitte
         /\ Getippt(s).Tischnummer = BestellungenFertig[s].Tischnummer
<1>1. BestellungenFertig[s] \in Abschnitte /\ RechtsTyp
  BY DEF TypInv
<1>2. BestellungenFertig[s].Tischnummer \in Tische
  BY <1>1, AbschnittFelder
<1>3. CASE BestellungenFertig[s].Tischnummer = tischnummerBezahlen
  <2>1. 1 \in DOMAIN BestellungenBezahlen
    BY <1>1, <1>2, <1>3, RechtsDa
  <2> QED BY <1>1, <1>3, <2>1, RechtsIst DEF Getippt
<1> QED BY <1>1, <1>3 DEF Getippt

LEMMA LinksIst ==
  ASSUME TypInv, NEW s \in DOMAIN BestellungenFertig,
         NEW r \in DOMAIN BestellungenFertig[s].menge, didSelectRowLinks(s, r)
  PROVE  \/ /\ s \notin DOMAIN Getippt(s).bezahltMenge
            /\ absturz' = "nil"
            /\ UNCHANGED <<meldeVars, ladeVars, BestellungenFertig, zahlVars>>
         \/ /\ s \in DOMAIN Getippt(s).bezahltMenge
            /\ r \notin DOMAIN Getippt(s).menge
            /\ absturz' = "index"
            /\ UNCHANGED <<meldeVars, ladeVars, BestellungenFertig, zahlVars>>
         \/ \E b \in Abschnitte :
              /\ s \in DOMAIN Getippt(s).bezahltMenge
              /\ b.menge = Getippt(s).menge
              /\ b.Tischnummer = Getippt(s).Tischnummer
              /\ DOMAIN b.bezahltMenge = DOMAIN Getippt(s).bezahltMenge
              /\ BestellungenBezahlen' = <<b>>
              /\ tischnummerBezahlen' = b.Tischnummer
              /\ ZeichneAbrechnen(BestellungenFertig, b, b.Tischnummer)
              /\ UNCHANGED <<meldeVars, ladeVars, BestellungenFertig>>
<1> DEFINE a == Getippt(s)
<1>1. a \in Abschnitte
  BY GetipptTyp
<1> DEFINE v == IF a.bezahltMenge[s][r] < a.menge[r]
                THEN a.bezahltMenge[s][r] + 1 ELSE a.bezahltMenge[s][r]
<1>2. \/ s \notin DOMAIN a.bezahltMenge /\ Trap("nil")
      \/ /\ s \in DOMAIN a.bezahltMenge /\ r \notin DOMAIN a.menge
         /\ Trap("index")
      \/ /\ s \in DOMAIN a.bezahltMenge /\ r \in DOMAIN a.menge
         /\ BestellungenBezahlen' = <<Einen(a, s, r, v)>>
         /\ tischnummerBezahlen' = Einen(a, s, r, v).Tischnummer
         /\ ZeichneAbrechnen(BestellungenFertig, Einen(a, s, r, v),
                             Einen(a, s, r, v).Tischnummer)
         /\ UNCHANGED <<meldeVars, ladeVars, BestellungenFertig>>
  BY DEF didSelectRowLinks, Getippt, Einen
<1> HIDE DEF a
<1>3. ASSUME s \in DOMAIN a.bezahltMenge, r \in DOMAIN a.menge
      PROVE  v \in Nat /\ v <= a.menge[r]
  <2>1. a.menge[r] \in Nat /\ a.bezahltMenge[s][r] \in 0..a.menge[r]
    BY <1>1, <1>3, AbschnittFelder DEF Begrenzt
  <2> QED BY <2>1
<1> HIDE DEF v
<1>4. ASSUME s \in DOMAIN a.bezahltMenge, r \in DOMAIN a.menge
      PROVE  /\ Einen(a, s, r, v) \in Abschnitte
             /\ Einen(a, s, r, v).Tischnummer = a.Tischnummer
             /\ Einen(a, s, r, v).menge = a.menge
             /\ DOMAIN Einen(a, s, r, v).bezahltMenge = DOMAIN a.bezahltMenge
  BY <1>1, <1>3, <1>4, EinenTyp
<1> DEFINE b == Einen(a, s, r, v)
<1> HIDE DEF b
<1> QED BY <1>2, <1>4 DEF Trap, a, b

LEMMA RechtsSchritt ==
  ASSUME TypInv, NEW n \in DOMAIN BestellungenBezahlen,
         NEW r \in DOMAIN BestellungenBezahlen[n].menge, didSelectRowRechts(r)
  PROVE  \E b \in Abschnitte :
           /\ b.menge = BestellungenBezahlen[1].menge
           /\ b.Tischnummer = BestellungenBezahlen[1].Tischnummer
           /\ DOMAIN b.bezahltMenge = DOMAIN BestellungenBezahlen[1].bezahltMenge
           /\ BestellungenBezahlen' = <<b>>
           /\ b.Tischnummer = tischnummerBezahlen
           /\ ZeichneAbrechnen(BestellungenFertig, b, b.Tischnummer)
           /\ UNCHANGED <<meldeVars, ladeVars, BestellungenFertig, tischnummerBezahlen>>
<1> DEFINE a == BestellungenBezahlen[1]
           w == a.bezahltMenge[trueSection][r]
           v == IF w > 0 THEN w - 1 ELSE w
           b == Einen(a, trueSection, r, v)
<1>1. /\ a \in Abschnitte /\ r \in DOMAIN a.menge
      /\ tischnummerBezahlen = a.Tischnummer
  BY RechtsIst DEF TypInv
<1>2. /\ BestellungenBezahlen' = <<b>>
      /\ ZeichneAbrechnen(BestellungenFertig, b, tischnummerBezahlen)
      /\ UNCHANGED <<meldeVars, ladeVars, BestellungenFertig, tischnummerBezahlen>>
  BY DEF didSelectRowRechts, Einen
<1> HIDE DEF a
<1>3. CASE trueSection \in DOMAIN a.bezahltMenge
  <2>1. a.menge[r] \in Nat /\ w \in 0..a.menge[r]
    BY <1>1, <1>3, AbschnittFelder DEF Begrenzt
  <2>2. v \in Nat /\ v <= a.menge[r]
    BY <2>1
  <2> HIDE DEF v
  <2>3. /\ b \in Abschnitte /\ b.Tischnummer = a.Tischnummer
        /\ b.menge = a.menge /\ DOMAIN b.bezahltMenge = DOMAIN a.bezahltMenge
    BY <1>1, <2>2, EinenTyp
  <2> HIDE DEF b
  <2> QED BY <1>1, <1>2, <2>3 DEF a
<1>4. CASE trueSection \notin DOMAIN a.bezahltMenge
  <2>1. b = a
    <3>1. a \in [Tischnummer: Tische, menge: Seq(Nat \ {0}), expanded: BOOLEAN,
                 bezahltMenge: Woerterbuch]
      BY <1>1 DEF Abschnitte
    <3>2. a.bezahltMenge = [k \in DOMAIN a.bezahltMenge |-> a.bezahltMenge[k]]
      BY <1>1, AbschnittFelder
    <3> DEFINE d == [a.bezahltMenge EXCEPT ![trueSection][r] = v]
    <3>3. d = a.bezahltMenge
      BY <1>4, <3>2
    <3>4. b = [a EXCEPT !.bezahltMenge = d]
      BY DEF Einen
    <3> HIDE DEF d
    <3> QED BY <3>1, <3>3, <3>4
  <2> HIDE DEF b
  <2> QED BY <1>1, <1>2, <2>1 DEF a
<1> QED BY <1>3, <1>4

LEMMA AllesIst ==
  ASSUME TypInv, NEW s \in DOMAIN BestellungenFertig, allesBezahlen(s)
  PROVE  \E b \in Abschnitte :
           /\ b.menge = BestellungenFertig[s].menge
           /\ b.Tischnummer = BestellungenFertig[s].Tischnummer
           /\ DOMAIN b.bezahltMenge
                = DOMAIN BestellungenFertig[s].bezahltMenge \cup {s}
           /\ BestellungenFertig' = [BestellungenFertig EXCEPT ![s] = b]
           /\ BestellungenBezahlen' = <<b>>
           /\ tischnummerBezahlen' = b.Tischnummer
           /\ ZeichneAbrechnen(BestellungenFertig', b, b.Tischnummer)
           /\ UNCHANGED <<meldeVars, ladeVars>>
<1> DEFINE a == BestellungenFertig[s]
           b == [a EXCEPT !.bezahltMenge = Voll(a, s)]
<1>1. a \in Abschnitte /\ s \in Nat
  BY DEF TypInv
<1>2. /\ BestellungenFertig' = [BestellungenFertig EXCEPT ![s] = b]
      /\ BestellungenBezahlen' = <<b>>
      /\ tischnummerBezahlen' = b.Tischnummer
      /\ ZeichneAbrechnen(BestellungenFertig', b, b.Tischnummer)
      /\ UNCHANGED <<meldeVars, ladeVars>>
  BY DEF allesBezahlen, Voll
<1> HIDE DEF a
<1>3. /\ b \in Abschnitte /\ b.Tischnummer = a.Tischnummer
      /\ b.menge = a.menge /\ DOMAIN b.bezahltMenge = DOMAIN a.bezahltMenge \cup {s}
  BY <1>1, AllesTyp
<1> HIDE DEF b
<1> QED BY <1>2, <1>3 DEF a

LEMMA AufklappenIst ==
  ASSUME TypInv, NEW s \in DOMAIN BestellungenFertig, toggleSection(s)
  PROVE  /\ BestellungenFertig' \in Seq(Abschnitte)
         /\ DOMAIN BestellungenFertig' = DOMAIN BestellungenFertig
         /\ \A i \in DOMAIN BestellungenFertig :
              /\ BestellungenFertig'[i].Tischnummer = BestellungenFertig[i].Tischnummer
              /\ BestellungenFertig'[i].menge = BestellungenFertig[i].menge
              /\ BestellungenFertig'[i].bezahltMenge
                   = BestellungenFertig[i].bezahltMenge
         /\ UNCHANGED <<meldeVars, ladeVars, zahlVars, absturz>>
<1> DEFINE x(i) == i = s /\ ~BestellungenFertig[i].expanded
           A(i) == [BestellungenFertig[i] EXCEPT !.expanded = x(i)]
           q == BestellungenFertig
<1>1. q \in Seq(Abschnitte) /\ DOMAIN q = 1..Len(q) /\ Len(q) \in Nat
  BY DEF TypInv
<1>2. /\ BestellungenFertig' = [i \in 1..Len(q) |-> A(i)]
      /\ UNCHANGED <<meldeVars, ladeVars, zahlVars, absturz>>
  BY <1>1 DEF toggleSection
<1>3. ASSUME NEW i \in DOMAIN q
      PROVE  /\ A(i) \in Abschnitte
             /\ A(i).Tischnummer = q[i].Tischnummer
             /\ A(i).menge = q[i].menge
             /\ A(i).bezahltMenge = q[i].bezahltMenge
  <2>1. q[i] \in Abschnitte
    BY <1>1
  <2>2. x(i) \in BOOLEAN
    OBVIOUS
  <2> HIDE DEF x
  <2> QED BY <2>1, <2>2, AufgeklapptTyp
<1> HIDE DEF A
<1>4. [i \in 1..Len(q) |-> A(i)] \in Seq(Abschnitte)
  BY <1>1, <1>3
<1> QED BY <1>1, <1>2, <1>3, <1>4

LEMMA ZeichneTyp ==
  ASSUME NEW fertig, NEW a, NEW tisch, ZeichneAbrechnen(fertig, a, tisch),
         absturz \in Abstuerze
  PROVE  absturz' \in Abstuerze
  BY DEF ZeichneAbrechnen, Abstuerze

LEMMA Leer == /\ <<>> \in Seq(Auftrag) /\ <<>> \in Seq(Abschnitte)
              /\ <<>> \in Seq(Eintraege) /\ <<>> \in Seq(Nat \ {0})
  OBVIOUS

\* Nothing is loaded.
Unbelegt ==
  /\ unterwegs = Nirgends /\ bestellungIDs = <<>> /\ Bestellungen = <<>>
  /\ Tischnummer = [a \in Auftrag |-> ""]
  /\ BestellungItemsMengen = [a \in Auftrag |-> <<>>]
  /\ BestellungenFertig = <<>>

LEMMA UnbelegtTyp ==
  ASSUME Unbelegt, veraltet \in [Auftrag -> Nat]
  PROVE  /\ LadeTyp /\ bestellungIDs \in Seq(Auftrag)
         /\ DOMAIN bestellungIDs = {}
         /\ BestellungenFertig \in Seq(Abschnitte)
<1>1. DOMAIN bestellungIDs = {} /\ bestellungIDs \in Seq(Auftrag)
  BY Leer, LeerOhneStelle DEF Unbelegt
<1>2. unterwegs \in [Auftrag -> Nat]
  BY DEF Unbelegt, Nirgends
<1>3. /\ Tischnummer \in [Auftrag -> Tische \cup {""}]
      /\ BestellungItemsMengen \in [Auftrag -> Seq(Nat \ {0})]
      /\ \A a \in Auftrag : BestellungItemsMengen[a] = <<>>
  BY Leer DEF Unbelegt
<1>4. /\ Bestellungen \in Seq(Eintraege) /\ BestellungenFertig \in Seq(Abschnitte)
  BY Leer DEF Unbelegt
<1> QED BY <1>1, <1>2, <1>3, <1>4 DEF LadeTyp

LEMMA TypStart == Init => TypInv
<1> SUFFICES ASSUME Init PROVE TypInv
  OBVIOUS
<1>1. RechtsTyp
  BY DEF Init, RechtsTyp
<1>2. Unbelegt /\ veraltet \in [Auftrag -> Nat]
  BY DEF Init, Unbelegt, Nirgends
<1>3. /\ TischIndex \in [Auftrag -> Tische] /\ TischnummerIDs = {}
      /\ absturz = "keiner" /\ aufgebaut = 0
  BY DEF Init
<1>4. /\ LadeTyp /\ bestellungIDs \in Seq(Auftrag)
      /\ DOMAIN bestellungIDs = {}
      /\ BestellungenFertig \in Seq(Abschnitte)
  BY <1>2, UnbelegtTyp
<1>5. absturz \in Abstuerze /\ aufgebaut \in 0..2
  BY <1>3 DEF Abstuerze
<1> QED BY <1>1, <1>3, <1>4, <1>5 DEF TypInv

\* A step of the two tables.
LEMMA TypTische ==
  ASSUME TypInv, UNCHANGED <<meldeVars, ladeVars>>,
         BestellungenFertig' \in Seq(Abschnitte), RechtsTyp', absturz' \in Abstuerze
  PROVE  TypInv'
  BY DEF TypInv, LadeTyp, meldeVars, ladeVars

LEMMA RechtsGleich == ASSUME RechtsTyp, UNCHANGED zahlVars PROVE RechtsTyp'
  BY DEF RechtsTyp, zahlVars

\* Every row of the amounts stays within its bounds, step by step.
LEMMA TypSchritt == TypInv /\ [Next]_vars => TypInv'
<1> SUFFICES ASSUME TypInv, [Next]_vars
             PROVE  TypInv'
  OBVIOUS
<1>0. /\ BestellungenFertig \in Seq(Abschnitte) /\ RechtsTyp /\ absturz \in Abstuerze
      /\ TischIndex \in [Auftrag -> Tische] /\ bestellungIDs \in Seq(Auftrag)
      /\ TischnummerIDs \subseteq {TischIndex[a] : a \in Auftrag} /\ LadeTyp
      /\ \A i \in DOMAIN bestellungIDs : TischIndex[bestellungIDs[i]] \in TischnummerIDs
      /\ aufgebaut \in 0..2
  BY DEF TypInv
<1>1. ASSUME NEW a \in Auftrag, NEW q, schluesselGemeldet(a, q)
      PROVE  TypInv'
  <2>1. /\ bestellungIDs' = Append(bestellungIDs, a)
        /\ TischnummerIDs' = TischnummerIDs \cup {TischIndex[a]}
        /\ unterwegs' = [unterwegs EXCEPT ![a] = @ + 1]
        /\ UNCHANGED <<TischIndex, veraltet, Tischnummer, BestellungItemsMengen,
                       Bestellungen, BestellungenFertig, zahlVars, absturz, aufgebaut>>
    BY <1>1 DEF schluesselGemeldet
  <2>2. LadeTyp'
    <3>1. unterwegs' \in [Auftrag -> Nat]
      BY <1>0, <2>1, ZaehlerTyp DEF LadeTyp
    <3> QED BY <1>0, <2>1, <3>1 DEF LadeTyp
  <2>3. /\ bestellungIDs' \in Seq(Auftrag)
        /\ \A i \in DOMAIN bestellungIDs' :
             \/ bestellungIDs'[i] = a
             \/ i \in DOMAIN bestellungIDs /\ bestellungIDs'[i] = bestellungIDs[i]
    BY <1>0, <2>1
  <2>4. \A i \in DOMAIN bestellungIDs' : TischIndex[bestellungIDs'[i]] \in TischnummerIDs'
    BY <1>0, <2>1, <2>3
  <2>5. RechtsTyp'
    BY <1>0, <2>1, RechtsGleich
  <2>6. TischnummerIDs' \subseteq {TischIndex[c] : c \in Auftrag}
    BY <1>0, <2>1
  <2> QED BY <1>0, <2>1, <2>2, <2>3, <2>4, <2>5, <2>6 DEF TypInv
<1>2. ASSUME NEW a \in Auftrag, NEW t \in Tische, bestellungGeladen(a, t)
      PROVE  TypInv'
  <2> DEFINE T == Tischnummer'
             M == BestellungItemsMengen'
             g == Geladen(bestellungIDs, T, M)
             z == Zuerst(Bestellungen, g, Len(bestellungIDs))
  <2>1. /\ unterwegs' \in [Auftrag -> Nat] /\ veraltet' \in [Auftrag -> Nat]
        /\ T \in [Auftrag -> Tische \cup {""}]
        /\ M \in [Auftrag -> Seq(Nat \ {0})]
        /\ \A c \in Auftrag : M[c] # <<>> => T[c] \in Tische
        /\ absturz = "keiner" /\ Abschluss(T, M)
        /\ UNCHANGED <<meldeVars, bestellungIDs, TischnummerIDs, zahlVars>>
    BY <1>2, RecordLandet
  <2> HIDE DEF T, M
  <2>2. /\ Bestellungen' \in Seq(Eintraege)
        /\ \/ /\ absturz' \in {"keiner", "laden"}
              /\ UNCHANGED <<BestellungenFertig, aufgebaut>>
           \/ /\ \A i \in DOMAIN bestellungIDs : M[bestellungIDs[i]] # <<>>
              /\ Gemischt(z) /\ absturz' = "keiner"
    BY <2>1, AbschlussIst
  <2>3. BestellungenFertig' \in Seq(Abschnitte) /\ aufgebaut' \in 0..2
    <3>1. CASE UNCHANGED <<BestellungenFertig, aufgebaut>>
      BY <1>0, <3>1
    <3>2. CASE Gemischt(z) /\ \A i \in DOMAIN bestellungIDs : M[bestellungIDs[i]] # <<>>
      <4>1. g \in Seq(Eintraege) /\ Len(g) = Len(bestellungIDs)
        BY <1>0, <2>1, <3>2, GeladenTyp
      <4> HIDE DEF g
      <4>2. z \in Seq(Eintraege)
        BY <1>0, <4>1, ZuerstTyp DEF LadeTyp
      <4> HIDE DEF z
      <4> QED BY <3>2, <4>2, GemischtTyp
    <3> HIDE DEF z
    <3> QED BY <2>2, <3>1, <3>2
  <2> HIDE DEF g, z
  <2>4. LadeTyp'
    BY <2>1, <2>2 DEF LadeTyp, T, M
  <2>5. RechtsTyp'
    BY <1>0, <2>1, RechtsGleich
  <2>6. absturz' \in Abstuerze
    BY <2>2 DEF Abstuerze
  <2> QED BY <1>0, <2>1, <2>3, <2>4, <2>5, <2>6 DEF TypInv, meldeVars
<1>3. ASSUME NEW a, FaltungTrap(a)
      PROVE  TypInv'
  <2>1. UNCHANGED <<meldeVars, ladeVars, BestellungenFertig, zahlVars>> /\ absturz' = "laden"
    BY <1>3 DEF FaltungTrap, Trap
  <2> QED BY <1>0, <2>1, RechtsGleich, TypTische DEF Abstuerze
<1>4. CASE reload
  <2>1. /\ Unbelegt'
        /\ veraltet' = [a \in Auftrag |-> veraltet[a] + unterwegs[a]]
        /\ UNCHANGED <<TischIndex, TischnummerIDs, zahlVars, absturz, aufgebaut>>
    BY <1>4 DEF reload, Unbelegt, Nirgends
  <2>2. veraltet' \in [Auftrag -> Nat]
    <3>1. \A a \in Auftrag : veraltet[a] \in Nat /\ unterwegs[a] \in Nat
      BY <1>0 DEF LadeTyp
    <3> QED BY <2>1, <3>1
  <2>3. (Unbelegt /\ veraltet \in [Auftrag -> Nat])' =>
          (/\ LadeTyp /\ bestellungIDs \in Seq(Auftrag)
           /\ DOMAIN bestellungIDs = {}
           /\ BestellungenFertig \in Seq(Abschnitte))'
    BY UnbelegtTyp, PTL
  <2>4. RechtsTyp'
    BY <1>0, <2>1, RechtsGleich
  <2> QED BY <1>0, <2>1, <2>2, <2>3, <2>4 DEF TypInv
<1>5. ASSUME Bestellungen' \in Seq(Eintraege),
             UNCHANGED <<meldeVars, unterwegs, veraltet, bestellungIDs, TischnummerIDs,
                 Tischnummer, BestellungItemsMengen, fremd, aufgebaut,
                 BestellungenFertig, zahlVars, absturz>>
      PROVE  TypInv'
  <2>1. LadeTyp'
    BY <1>0, <1>5 DEF LadeTyp
  <2>2. RechtsTyp'
    BY <1>0, <1>5, RechtsGleich
  <2> QED BY <1>0, <1>5, <2>1, <2>2 DEF TypInv, meldeVars
<1>6. ASSUME NEW t \in Tische, filteredContent(t)
      PROVE  TypInv'
  <2>1. Bestellungen' \in Seq(Eintraege)
    BY <1>0, <1>6, NurTischTyp DEF filteredContent, LadeTyp
  <2> QED BY <1>5, <1>6, <2>1 DEF filteredContent
<1>7. CASE searchBarCancelButtonClicked
  BY <1>5, <1>7, Leer DEF searchBarCancelButtonClicked
<1>8. ASSUME NEW s \in DOMAIN BestellungenFertig, toggleSection(s)
      PROVE  TypInv'
  BY <1>0, <1>8, AufklappenIst, RechtsGleich, TypTische
<1>9. ASSUME NEW s \in DOMAIN BestellungenFertig, ZeichneFertig(s)
      PROVE  TypInv'
  <2>1. UNCHANGED <<meldeVars, ladeVars, BestellungenFertig, zahlVars>> /\ absturz' = "nil"
    BY <1>9 DEF ZeichneFertig, Trap
  <2> QED BY <1>0, <2>1, RechtsGleich, TypTische DEF Abstuerze
<1>10. ASSUME NEW s \in DOMAIN BestellungenFertig, allesBezahlen(s)
       PROVE  TypInv'
  <2>1. PICK b \in Abschnitte :
           /\ BestellungenFertig' = [BestellungenFertig EXCEPT ![s] = b]
           /\ BestellungenBezahlen' = <<b>>
           /\ tischnummerBezahlen' = b.Tischnummer
           /\ ZeichneAbrechnen(BestellungenFertig', b, b.Tischnummer)
           /\ UNCHANGED <<meldeVars, ladeVars>>
    BY <1>10, AllesIst
  <2>2. BestellungenFertig' \in Seq(Abschnitte)
    BY <1>0, <2>1
  <2>3. RechtsTyp'
    BY <2>1 DEF RechtsTyp
  <2>4. absturz' \in Abstuerze
    BY <1>0, <2>1, ZeichneTyp
  <2> QED BY <2>1, <2>2, <2>3, <2>4, TypTische
<1>11. ASSUME NEW s \in DOMAIN BestellungenFertig,
              NEW r \in DOMAIN BestellungenFertig[s].menge,
              didSelectRowLinks(s, r)
       PROVE  TypInv'
  <2>1. CASE /\ absturz' \in {"nil", "index"}
             /\ UNCHANGED <<meldeVars, ladeVars, BestellungenFertig, zahlVars>>
    <3>1. RechtsTyp' /\ BestellungenFertig' \in Seq(Abschnitte) /\ absturz' \in Abstuerze
      BY <1>0, <2>1, RechtsGleich DEF Abstuerze
    <3> QED BY <2>1, <3>1, TypTische
  <2>2. CASE \E b \in Abschnitte :
              /\ BestellungenBezahlen' = <<b>>
              /\ tischnummerBezahlen' = b.Tischnummer
              /\ ZeichneAbrechnen(BestellungenFertig, b, b.Tischnummer)
              /\ UNCHANGED <<meldeVars, ladeVars, BestellungenFertig>>
    <3>1. RechtsTyp'
      BY <2>2 DEF RechtsTyp
    <3>2. absturz' \in Abstuerze
      BY <1>0, <2>2, ZeichneTyp
    <3>3. BestellungenFertig' \in Seq(Abschnitte) /\ UNCHANGED <<meldeVars, ladeVars>>
      BY <1>0, <2>2
    <3> QED BY <3>1, <3>2, <3>3, TypTische
  <2> QED BY <1>11, <2>1, <2>2, LinksIst
<1>12. ASSUME NEW n \in DOMAIN BestellungenBezahlen,
              NEW r \in DOMAIN BestellungenBezahlen[n].menge,
              didSelectRowRechts(r)
       PROVE  TypInv'
  <2>1. PICK b \in Abschnitte :
           /\ BestellungenBezahlen' = <<b>>
           /\ b.Tischnummer = tischnummerBezahlen
           /\ ZeichneAbrechnen(BestellungenFertig, b, b.Tischnummer)
           /\ UNCHANGED <<meldeVars, ladeVars, BestellungenFertig, tischnummerBezahlen>>
    BY <1>12, RechtsSchritt
  <2>2. RechtsTyp'
    BY <2>1 DEF RechtsTyp
  <2>3. absturz' \in Abstuerze
    BY <1>0, <2>1, ZeichneTyp
  <2> QED BY <1>0, <2>1, <2>2, <2>3, TypTische
<1>13. CASE scrollenRechts
  <2>1. absturz' \in Abstuerze
    BY <1>0, <1>13, ZeichneTyp DEF scrollenRechts
  <2>2. UNCHANGED <<meldeVars, ladeVars, BestellungenFertig, BestellungenBezahlen,
                    tischnummerBezahlen>>
    BY <1>13 DEF scrollenRechts
  <2>3. RechtsTyp'
    BY <1>0, <2>2 DEF RechtsTyp
  <2> QED BY <1>0, <2>1, <2>2, <2>3, TypTische
<1>14. CASE UNCHANGED vars
  <2>1. UNCHANGED <<meldeVars, ladeVars, BestellungenFertig, zahlVars, absturz>>
    BY <1>14 DEF vars
  <2> QED BY <1>0, <2>1, RechtsGleich, TypTische
<1> QED BY <1>1, <1>2, <1>3, <1>4, <1>6, <1>7, <1>8, <1>9, <1>10, <1>11, <1>12,
           <1>13, <1>14 DEF Next

\* The amounts shown stay between nothing and those of their rows, and the
\* number kept for the table on the right is that of the table itself: for
\* any orders, tables and amounts, and any number of reloads and merges.
THEOREM BezahltKorrekt == Spec => []BezahltBegrenzt
<1>1. TypInv => BezahltBegrenzt
  <2> SUFFICES ASSUME TypInv PROVE BezahltBegrenzt
    OBVIOUS
  <2>1. \A s \in DOMAIN BestellungenFertig : BestellungenFertig[s] \in Abschnitte
    BY DEF TypInv
  <2>2. \A s \in DOMAIN BestellungenFertig : Begrenzt(BestellungenFertig[s])
    BY <2>1, AbschnittFelder
  <2>3. ASSUME NEW n \in DOMAIN BestellungenBezahlen
        PROVE  /\ Begrenzt(BestellungenBezahlen[n])
               /\ BestellungenBezahlen[n].Tischnummer = tischnummerBezahlen
    <3>1. /\ n = 1 /\ BestellungenBezahlen[1] \in Abschnitte
          /\ tischnummerBezahlen = BestellungenBezahlen[1].Tischnummer
      BY RechtsIst DEF TypInv
    <3> QED BY <3>1, AbschnittFelder
  <2> QED BY <2>2, <2>3 DEF BezahltBegrenzt
<1> QED BY <1>1, TypStart, TypSchritt, PTL DEF Spec

(***************************************************************************)
(* The first merge since a reload makes the bill.  Before it no order was  *)
(* appended.  And unless a record asked for before the reload has landed,  *)
(* what is loaded or on its way was noted, and an order noted once has its *)
(* record on its way, or its own amounts, and not both.                    *)
(***************************************************************************)
LeerInv == BestellungenFertig = <<>> => Bestellungen = <<>>

Einmal(ids, i) == \A j \in DOMAIN ids : ids[j] = ids[i] => j = i

Gedeckt ==
  \A a \in Auftrag :
    BestellungItemsMengen[a] # <<>> \/ unterwegs[a] > 0 =>
      \E i \in DOMAIN bestellungIDs : bestellungIDs[i] = a

Einfach ==
  \A i \in DOMAIN bestellungIDs : Einmal(bestellungIDs, i) =>
    /\ unterwegs[bestellungIDs[i]] <= 1
    /\ BestellungItemsMengen[bestellungIDs[i]] # <<>> =>
         /\ unterwegs[bestellungIDs[i]] = 0
         /\ BestellungItemsMengen[bestellungIDs[i]] = Menge[bestellungIDs[i]]

KontoInv == ~fremd => Gedeckt /\ Einfach

LEMMA KontoGleich ==
  ASSUME KontoInv,
         UNCHANGED <<fremd, bestellungIDs, unterwegs, BestellungItemsMengen>>
  PROVE  KontoInv'
  BY DEF KontoInv, Gedeckt, Einfach

LEMMA KontoUnbelegt == ASSUME Unbelegt PROVE KontoInv /\ LeerInv
<1>1. DOMAIN bestellungIDs = {} /\ (BestellungenFertig = <<>> => Bestellungen = <<>>)
  BY LeerOhneStelle DEF Unbelegt
<1>2. \A a \in Auftrag : BestellungItemsMengen[a] = <<>> /\ ~(unterwegs[a] > 0)
  <2>1. ~(0 > 0)
    OBVIOUS
  <2>2. \A a \in Auftrag : BestellungItemsMengen[a] = <<>> /\ unterwegs[a] = 0
    BY DEF Unbelegt, Nirgends
  <2> QED BY <2>1, <2>2
<1> QED BY <1>1, <1>2 DEF KontoInv, Gedeckt, Einfach, LeerInv

\* A record that lands where none from before the last reload has.
LEMMA KontoLandet ==
  ASSUME TypInv, KontoInv, NEW a \in Auftrag, NEW t \in Tische, bestellungGeladen(a, t)
  PROVE  KontoInv'
<1>1. /\ unterwegs \in [Auftrag -> Nat]
      /\ BestellungItemsMengen \in [Auftrag -> Seq(Nat \ {0})]
      /\ bestellungIDs \in Seq(Auftrag)
  BY DEF TypInv, LadeTyp
<1> SUFFICES ASSUME ~fremd'
             PROVE  Gedeckt' /\ Einfach'
  BY DEF KontoInv
<1>2. /\ unterwegs[a] > 0
      /\ unterwegs' = [unterwegs EXCEPT ![a] = @ - 1]
      /\ ~fremd /\ bestellungIDs' = bestellungIDs
  BY RecordLandet
<1>3. PICK m \in Seq(Nat \ {0}) :
        /\ BestellungItemsMengen' = [BestellungItemsMengen EXCEPT ![a] = m]
        /\ BestellungItemsMengen[a] = <<>> => m = Menge[a]
  BY RecordLandet
<1>4. Gedeckt /\ Einfach
  BY <1>2 DEF KontoInv
<1>5. /\ unterwegs'[a] = unterwegs[a] - 1
      /\ BestellungItemsMengen'[a] = m
      /\ \A c \in Auftrag : c # a =>
           /\ unterwegs'[c] = unterwegs[c]
           /\ BestellungItemsMengen'[c] = BestellungItemsMengen[c]
  BY <1>1, <1>2, <1>3
<1>6. \E i \in DOMAIN bestellungIDs : bestellungIDs[i] = a
  BY <1>2, <1>4 DEF Gedeckt
<1>7. Gedeckt'
  <2> SUFFICES ASSUME NEW c \in Auftrag,
                      BestellungItemsMengen'[c] # <<>> \/ unterwegs'[c] > 0
               PROVE  \E i \in DOMAIN bestellungIDs : bestellungIDs[i] = c
    BY <1>2 DEF Gedeckt
  <2>1. CASE c = a
    BY <1>6, <2>1
  <2>2. CASE c # a
    BY <1>4, <1>5, <2>2 DEF Gedeckt
  <2> QED BY <2>1, <2>2
<1>8. Einfach'
  <2> SUFFICES ASSUME NEW i \in DOMAIN bestellungIDs, Einmal(bestellungIDs, i)
               PROVE  /\ unterwegs'[bestellungIDs[i]] <= 1
                      /\ BestellungItemsMengen'[bestellungIDs[i]] # <<>> =>
                           /\ unterwegs'[bestellungIDs[i]] = 0
                           /\ BestellungItemsMengen'[bestellungIDs[i]]
                                = Menge[bestellungIDs[i]]
    BY <1>2 DEF Einfach
  <2>1. /\ unterwegs[bestellungIDs[i]] <= 1
        /\ BestellungItemsMengen[bestellungIDs[i]] # <<>> =>
             /\ unterwegs[bestellungIDs[i]] = 0
             /\ BestellungItemsMengen[bestellungIDs[i]] = Menge[bestellungIDs[i]]
    BY <1>4 DEF Einfach
  <2>2. bestellungIDs[i] \in Auftrag
    BY <1>1
  <2>3. CASE bestellungIDs[i] = a
    <3>1. unterwegs[a] \in Nat /\ unterwegs[a] <= 1 /\ unterwegs[a] > 0
      BY <1>1, <1>2, <2>1, <2>3
    <3>2. unterwegs[a] = 1 /\ unterwegs'[a] = 0
      BY <1>5, <3>1
    <3>3. BestellungItemsMengen[a] = <<>>
      BY <2>1, <2>3, <3>2
    <3> QED BY <1>3, <1>5, <2>3, <3>2, <3>3
  <2>4. CASE bestellungIDs[i] # a
    BY <1>5, <2>1, <2>2, <2>4
  <2> QED BY <2>3, <2>4
<1> QED BY <1>7, <1>8

\* A key that is reported.
LEMMA KontoGemeldet ==
  ASSUME TypInv, KontoInv, NEW a \in Auftrag, NEW q, schluesselGemeldet(a, q)
  PROVE  KontoInv'
<1>1. /\ unterwegs \in [Auftrag -> Nat] /\ bestellungIDs \in Seq(Auftrag)
      /\ Len(bestellungIDs) \in Nat /\ DOMAIN bestellungIDs = 1..Len(bestellungIDs)
  <2>1. unterwegs \in [Auftrag -> Nat] /\ bestellungIDs \in Seq(Auftrag)
    BY DEF TypInv, LadeTyp
  <2> QED BY <2>1
<1>2. /\ bestellungIDs' = Append(bestellungIDs, a)
      /\ unterwegs' = [unterwegs EXCEPT ![a] = @ + 1]
      /\ UNCHANGED <<BestellungItemsMengen, fremd>>
  BY DEF schluesselGemeldet
<1> SUFFICES ASSUME ~fremd, Gedeckt, Einfach
             PROVE  Gedeckt' /\ Einfach'
  BY <1>2 DEF KontoInv
<1> DEFINE n == Len(bestellungIDs)
           I == bestellungIDs'
<1>3. /\ DOMAIN I = 1..(n + 1) /\ I[n + 1] = a /\ n + 1 \in DOMAIN I
      /\ \A i \in DOMAIN bestellungIDs : i \in DOMAIN I /\ I[i] = bestellungIDs[i] /\ i # n + 1
      /\ \A i \in DOMAIN I : i = n + 1 \/ i \in DOMAIN bestellungIDs
  BY <1>1, <1>2
<1> HIDE DEF n, I
<1>4. /\ unterwegs'[a] = unterwegs[a] + 1 /\ unterwegs[a] \in Nat
      /\ \A c \in Auftrag : c # a => unterwegs'[c] = unterwegs[c]
  BY <1>1, <1>2
<1>5. Gedeckt'
  <2> SUFFICES ASSUME NEW c \in Auftrag,
                      BestellungItemsMengen[c] # <<>> \/ unterwegs'[c] > 0
               PROVE  \E i \in DOMAIN I : I[i] = c
    BY <1>2 DEF Gedeckt, I
  <2>1. CASE c = a
    BY <1>3, <2>1
  <2>2. CASE c # a
    <3>1. \E i \in DOMAIN bestellungIDs : bestellungIDs[i] = c
      BY <1>4, <2>2 DEF Gedeckt
    <3> QED BY <1>3, <3>1
  <2> QED BY <2>1, <2>2
<1>6. Einfach'
  <2> SUFFICES ASSUME NEW i \in DOMAIN I, Einmal(I, i)
               PROVE  /\ unterwegs'[I[i]] <= 1
                      /\ BestellungItemsMengen[I[i]] # <<>> =>
                           /\ unterwegs'[I[i]] = 0
                           /\ BestellungItemsMengen[I[i]] = Menge[I[i]]
    BY <1>2 DEF Einfach, I
  <2>1. CASE i = n + 1
    <3>1. \A j \in DOMAIN bestellungIDs : bestellungIDs[j] # a
      BY <1>3, <2>1 DEF Einmal
    <3>2. BestellungItemsMengen[a] = <<>> /\ ~(unterwegs[a] > 0)
      BY <3>1 DEF Gedeckt
    <3>3. unterwegs'[a] = 1
      BY <1>4, <3>2
    <3> QED BY <1>3, <2>1, <3>2, <3>3
  <2>2. CASE i # n + 1
    <3>1. i \in DOMAIN bestellungIDs /\ I[i] = bestellungIDs[i]
      BY <1>3, <2>2
    <3>2. I[i] # a
      BY <1>3, <2>2 DEF Einmal
    <3>3. Einmal(bestellungIDs, i)
      BY <1>3, <3>1 DEF Einmal
    <3>4. I[i] \in Auftrag
      BY <1>1, <3>1
    <3> QED BY <1>4, <3>1, <3>2, <3>3, <3>4 DEF Einfach
  <2> QED BY <2>1, <2>2
<1> QED BY <1>5, <1>6

\* The numbers from 1 to n are n.
LEMMA BisZahl ==
  ASSUME NEW n \in Nat
  PROVE  IsFiniteSet(1..n) /\ Cardinality(1..n) = n
<1>1. IsFiniteSet(1..n) /\ Cardinality(1..n) = IF 1 > n THEN 0 ELSE n - 1 + 1
  BY FS_Interval
<1>2. (IF 1 > n THEN 0 ELSE n - 1 + 1) = n
  OBVIOUS
<1> QED BY <1>1, <1>2

\* If as many orders are loaded as keys were noted, and only noted ones are,
\* then no key was noted twice.
LEMMA Abgezaehlt ==
  ASSUME NEW ids \in Seq(Auftrag), NEW G, G \subseteq Auftrag,
         \A a \in G : \E i \in DOMAIN ids : ids[i] = a,
         Cardinality(G) = Len(ids)
  PROVE  \A i, j \in DOMAIN ids : ids[i] = ids[j] => i = j
<1> DEFINE D == 1..Len(ids)
           R == {ids[i] : i \in D}
           f == [i \in D |-> ids[i]]
<1>1. Len(ids) \in Nat /\ DOMAIN ids = D
  OBVIOUS
<1>2. IsFiniteSet(D) /\ Cardinality(D) = Len(ids)
  BY <1>1, BisZahl
<1>3. f \in Surjection(D, R)
  BY DEF Surjection
<1>4. G \in SUBSET R
  BY <1>1
<1>5. IsFiniteSet(R) /\ Cardinality(R) <= Len(ids)
      /\ (Cardinality(R) = Len(ids) => f \in Injection(D, R))
  <2> HIDE DEF D, R, f
  <2> QED BY <1>2, <1>3, FS_Surjection
<1>6. Cardinality(R) \in Nat /\ Cardinality(G) <= Cardinality(R)
  <2> HIDE DEF D, R, f
  <2> QED BY <1>4, <1>5, FS_Subset, FS_CardinalityType
<1>7. Cardinality(R) = Len(ids)
  <2> HIDE DEF D, R, f
  <2> QED BY <1>1, <1>5, <1>6
<1> QED BY <1>1, <1>5, <1>7 DEF Injection, IsInjective

LEMMA KontoSchritt == TypInv /\ KontoInv /\ [Next]_vars => KontoInv'
<1> SUFFICES ASSUME TypInv, KontoInv, [Next]_vars
             PROVE  KontoInv'
  OBVIOUS
<1>1. ASSUME NEW a \in Auftrag, NEW q, schluesselGemeldet(a, q)
      PROVE  KontoInv'
  BY <1>1, KontoGemeldet
<1>2. ASSUME NEW a \in Auftrag, NEW t \in Tische, bestellungGeladen(a, t)
      PROVE  KontoInv'
  BY <1>2, KontoLandet
<1>3. CASE reload
  <2>1. Unbelegt'
    BY <1>3 DEF reload, Unbelegt, Nirgends
  <2>2. Unbelegt' => KontoInv'
    BY KontoUnbelegt, PTL
  <2> QED BY <2>1, <2>2
<1>4. ASSUME UNCHANGED <<fremd, bestellungIDs, unterwegs, BestellungItemsMengen>>
      PROVE  KontoInv'
  BY <1>4, KontoGleich
<1>5. ASSUME NEW a, FaltungTrap(a) PROVE KontoInv'
  BY <1>4, <1>5 DEF FaltungTrap, Trap, ladeVars
<1>6. ASSUME NEW t, filteredContent(t) PROVE KontoInv'
  BY <1>4, <1>6 DEF filteredContent
<1>7. CASE searchBarCancelButtonClicked
  BY <1>4, <1>7 DEF searchBarCancelButtonClicked
<1>8. ASSUME NEW s, toggleSection(s) PROVE KontoInv'
  BY <1>4, <1>8 DEF toggleSection, ladeVars
<1>9. ASSUME NEW s, ZeichneFertig(s) PROVE KontoInv'
  BY <1>4, <1>9 DEF ZeichneFertig, Trap, ladeVars
<1>10. ASSUME NEW s, allesBezahlen(s) PROVE KontoInv'
  BY <1>4, <1>10 DEF allesBezahlen, ladeVars
<1>11. ASSUME NEW s \in DOMAIN BestellungenFertig,
              NEW r \in DOMAIN BestellungenFertig[s].menge, didSelectRowLinks(s, r)
       PROVE  KontoInv'
  <2>1. UNCHANGED ladeVars
    BY <1>11, LinksIst
  <2> QED BY <1>4, <2>1 DEF ladeVars
<1>12. ASSUME NEW r, didSelectRowRechts(r) PROVE KontoInv'
  BY <1>4, <1>12 DEF didSelectRowRechts, ladeVars
<1>13. CASE scrollenRechts
  BY <1>4, <1>13 DEF scrollenRechts, ladeVars
<1>14. CASE UNCHANGED vars
  BY <1>4, <1>14 DEF vars, ladeVars
<1> QED BY <1>1, <1>2, <1>3, <1>5, <1>6, <1>7, <1>8, <1>9, <1>10, <1>11, <1>12,
           <1>13, <1>14 DEF Next

\* What a merge into an empty list makes.
LEMMA ErsterMerge ==
  ASSUME TypInv, BestellungenFertig = <<>>, NEW b \in Seq(Eintraege), Gemischt(b)
  PROVE  /\ \A x \in TischnummerIDs : \E s \in DOMAIN BestellungenFertig' :
              BestellungenFertig'[s].Tischnummer = x
         /\ \A s, u \in DOMAIN BestellungenFertig' :
              BestellungenFertig'[s].Tischnummer = BestellungenFertig'[u].Tischnummer
                => s = u
         /\ \A s \in DOMAIN BestellungenFertig' :
              /\ BestellungenFertig'[s].menge
                   = AlleMengen(BestellungenFertig'[s].Tischnummer, b)
              /\ BestellungenFertig'[s].menge # <<>> =>
                   s \in DOMAIN BestellungenFertig'[s].bezahltMenge
<1>1. PICK f \in Seq(TischnummerIDs) :
        /\ \A i, j \in DOMAIN f : f[i] = f[j] => i = j
        /\ \A x \in TischnummerIDs : \E i \in DOMAIN f : f[i] = x
        /\ BestellungenFertig' = BestellungenFertig \o Neue(f, b)
  BY DEF Gemischt
<1>2. TischnummerIDs \subseteq Tische
  BY TischeEndlich DEF TypInv
<1> DEFINE z == Neue(f, b)
<1>3. /\ z \in Seq(Abschnitte) /\ DOMAIN z = DOMAIN f
      /\ \A n \in DOMAIN f : /\ z[n].Tischnummer = f[n]
                             /\ z[n].menge = AlleMengen(f[n], b)
                             /\ z[n].menge # <<>> => n \in DOMAIN z[n].bezahltMenge
  BY <1>2, NeueTyp
<1> HIDE DEF z
<1>4. BestellungenFertig' = z
  <2>1. BestellungenFertig' = <<>> \o z
    BY <1>1 DEF z
  <2> QED BY <1>3, <2>1
<1>5. \A i, j \in DOMAIN f : f[i] = f[j] => i = j
  BY <1>1
<1>6. \A s, u \in DOMAIN z : z[s].Tischnummer = z[u].Tischnummer => s = u
  BY <1>3, <1>5
<1>7. \A x \in TischnummerIDs : \E s \in DOMAIN z : z[s].Tischnummer = x
  BY <1>1, <1>3
<1>8. \A s \in DOMAIN z : /\ z[s].menge = AlleMengen(z[s].Tischnummer, b)
                          /\ z[s].menge # <<>> => s \in DOMAIN z[s].bezahltMenge
  BY <1>3
<1> QED BY <1>4, <1>6, <1>7, <1>8

LEMMA LeerSchritt == TypInv /\ LeerInv /\ [Next]_vars => LeerInv'
<1> SUFFICES ASSUME TypInv, LeerInv, [Next]_vars
             PROVE  LeerInv'
  OBVIOUS
<1>0. /\ BestellungenFertig \in Seq(Abschnitte) /\ Bestellungen \in Seq(Eintraege)
      /\ bestellungIDs \in Seq(Auftrag)
      /\ \A i \in DOMAIN bestellungIDs : TischIndex[bestellungIDs[i]] \in TischnummerIDs
  BY DEF TypInv, LadeTyp
<1>1. ASSUME UNCHANGED <<Bestellungen, BestellungenFertig>> PROVE LeerInv'
  BY <1>1 DEF LeerInv
<1>2. ASSUME NEW a \in Auftrag, NEW t \in Tische, bestellungGeladen(a, t)
      PROVE  LeerInv'
  <2> DEFINE T == Tischnummer'
             M == BestellungItemsMengen'
             g == Geladen(bestellungIDs, T, M)
             z == Zuerst(Bestellungen, g, Len(bestellungIDs))
  <2>1. /\ M \in [Auftrag -> Seq(Nat \ {0})]
        /\ \A c \in Auftrag : M[c] # <<>> => T[c] \in Tische
        /\ absturz = "keiner" /\ Abschluss(T, M)
    BY <1>2, RecordLandet
  <2> HIDE DEF T, M
  <2>2. \/ /\ UNCHANGED BestellungenFertig
           /\ Bestellungen = <<>> => Bestellungen' = <<>>
        \/ /\ \A i \in DOMAIN bestellungIDs : M[bestellungIDs[i]] # <<>>
           /\ bestellungIDs # <<>> /\ Gemischt(z)
    BY <2>1, AbschlussIst
  <2>3. CASE /\ \A i \in DOMAIN bestellungIDs : M[bestellungIDs[i]] # <<>>
             /\ bestellungIDs # <<>> /\ Gemischt(z)
    <3> SUFFICES ASSUME BestellungenFertig' = <<>> PROVE FALSE
      BY DEF LeerInv
    <3>1. PICK f \in Seq(TischnummerIDs) :
            /\ \A x \in TischnummerIDs : \E i \in DOMAIN f : f[i] = x
            /\ BestellungenFertig' = BestellungenFertig \o Neue(f, z)
      BY <2>3 DEF Gemischt
    <3>2. g \in Seq(Eintraege) /\ Len(g) = Len(bestellungIDs)
      BY <1>0, <2>1, <2>3, GeladenTyp
    <3> HIDE DEF g
    <3>3. z \in Seq(Eintraege)
      BY <1>0, <3>2, ZuerstTyp
    <3> HIDE DEF z
    <3>4. TischnummerIDs \subseteq Tische
      BY TischeEndlich DEF TypInv
    <3> DEFINE y == Neue(f, z)
    <3>5. y \in Seq(Abschnitte) /\ DOMAIN y = DOMAIN f
      BY <3>3, <3>4, NeueTyp
    <3> HIDE DEF y
    <3>6. 1 \in DOMAIN bestellungIDs
      BY <1>0, <2>3
    <3>7. \E i \in DOMAIN y : TRUE
      BY <1>0, <3>1, <3>5, <3>6
    <3>8. Len(y) > 0 /\ Len(y) \in Nat
      BY <3>5, <3>7
    <3>9. BestellungenFertig \o y = <<>>
      BY <3>1 DEF y
    <3>10. Len(BestellungenFertig \o y) = Len(BestellungenFertig) + Len(y)
           /\ Len(BestellungenFertig) \in Nat
      BY <1>0, <3>5
    <3>11. Len(BestellungenFertig \o y) = 0
      BY <3>9
    <3> QED BY <3>8, <3>10, <3>11
  <2> QED BY <2>2, <2>3 DEF LeerInv
<1>3. CASE reload
  <2>1. Bestellungen' = <<>>
    BY <1>3 DEF reload
  <2> QED BY <2>1 DEF LeerInv
<1>4. ASSUME NEW t, filteredContent(t) PROVE LeerInv'
  <2>1. /\ Bestellungen' \in Seq(Eintraege)
        /\ Len(Bestellungen') <= Len(Bestellungen)
        /\ UNCHANGED BestellungenFertig
    BY <1>0, <1>4, NurTischTyp DEF filteredContent
  <2>2. ASSUME Bestellungen = <<>> PROVE Bestellungen' = <<>>
    <3> DEFINE B == Bestellungen'
    <3>1. B \in Seq(Eintraege) /\ Len(B) <= 0
      BY <2>1, <2>2
    <3> HIDE DEF B
    <3>2. B = <<>>
      BY <3>1
    <3> QED BY <3>2 DEF B
  <2> QED BY <2>1, <2>2 DEF LeerInv
<1>5. CASE searchBarCancelButtonClicked
  BY <1>5 DEF searchBarCancelButtonClicked, LeerInv
<1>6. ASSUME NEW s \in DOMAIN BestellungenFertig, s \in DOMAIN BestellungenFertig'
      PROVE  LeerInv'
  BY <1>6 DEF LeerInv
<1>7. ASSUME NEW s \in DOMAIN BestellungenFertig, toggleSection(s) PROVE LeerInv'
  BY <1>6, <1>7, AufklappenIst
<1>8. ASSUME NEW s \in DOMAIN BestellungenFertig, allesBezahlen(s) PROVE LeerInv'
  <2>1. PICK b \in Abschnitte : BestellungenFertig' = [BestellungenFertig EXCEPT ![s] = b]
    BY <1>8, AllesIst
  <2>2. s \in DOMAIN BestellungenFertig'
    BY <2>1
  <2> QED BY <1>6, <2>2
<1>9. ASSUME NEW a, NEW q, schluesselGemeldet(a, q) PROVE LeerInv'
  BY <1>1, <1>9 DEF schluesselGemeldet
<1>10. ASSUME NEW a, FaltungTrap(a) PROVE LeerInv'
  BY <1>1, <1>10 DEF FaltungTrap, Trap, ladeVars
<1>11. ASSUME NEW s, ZeichneFertig(s) PROVE LeerInv'
  BY <1>1, <1>11 DEF ZeichneFertig, Trap, ladeVars
<1>12. ASSUME NEW s \in DOMAIN BestellungenFertig,
              NEW r \in DOMAIN BestellungenFertig[s].menge, didSelectRowLinks(s, r)
       PROVE  LeerInv'
  <2>1. UNCHANGED <<ladeVars, BestellungenFertig>>
    BY <1>12, LinksIst
  <2> QED BY <1>1, <2>1 DEF ladeVars
<1>13. ASSUME NEW r, didSelectRowRechts(r) PROVE LeerInv'
  BY <1>1, <1>13 DEF didSelectRowRechts, ladeVars
<1>14. CASE scrollenRechts
  BY <1>1, <1>14 DEF scrollenRechts, ladeVars
<1>15. CASE UNCHANGED vars
  BY <1>1, <1>15 DEF vars, ladeVars
<1> QED BY <1>2, <1>3, <1>4, <1>5, <1>7, <1>8, <1>9, <1>10, <1>11, <1>12, <1>13,
           <1>14, <1>15 DEF Next

\* The merge that makes the bill.
LEMMA RechnungSchritt ==
  ASSUME TypInv, LeerInv, KontoInv, [Next]_vars, ~fremd',
         BestellungenFertig = <<>>, BestellungenFertig' # <<>>
  PROVE  IstRechnung'
<1>0. /\ bestellungIDs \in Seq(Auftrag) /\ Bestellungen = <<>>
      /\ DOMAIN BestellungenFertig = {} /\ Bestellungen \in Seq(Eintraege)
      /\ \A i \in DOMAIN bestellungIDs : TischIndex[bestellungIDs[i]] \in TischnummerIDs
  BY LeerOhneStelle DEF TypInv, LadeTyp, LeerInv
<1>1. ASSUME NEW a \in Auftrag, NEW t \in Tische, bestellungGeladen(a, t)
      PROVE  IstRechnung'
  <2> DEFINE T == Tischnummer'
             M == BestellungItemsMengen'
             g == Geladen(bestellungIDs, T, M)
             z == Zuerst(Bestellungen, g, Len(bestellungIDs))
             G == {c \in Auftrag : M[c] # <<>>}
  <2>1. /\ M \in [Auftrag -> Seq(Nat \ {0})]
        /\ \A c \in Auftrag : M[c] # <<>> => T[c] \in Tische
        /\ absturz = "keiner" /\ Abschluss(T, M)
        /\ UNCHANGED <<meldeVars, bestellungIDs, TischnummerIDs>>
    BY <1>1, RecordLandet
  <2>2. Gedeckt' /\ Einfach'
    BY <1>1, KontoLandet DEF KontoInv
  <2>3. /\ \A c \in G : \E i \in DOMAIN bestellungIDs : bestellungIDs[i] = c
        /\ \A i \in DOMAIN bestellungIDs :
             Einmal(bestellungIDs, i) /\ M[bestellungIDs[i]] # <<>> =>
               M[bestellungIDs[i]] = Menge[bestellungIDs[i]]
    BY <2>1, <2>2 DEF Gedeckt, Einfach
  <2> HIDE DEF T, M
  <2>4. /\ alleGezaehlt(M)
        /\ \A i \in DOMAIN bestellungIDs : M[bestellungIDs[i]] # <<>>
        /\ Gemischt(z)
    BY <2>1, AbschlussIst
  <2>5. \A i, j \in DOMAIN bestellungIDs : bestellungIDs[i] = bestellungIDs[j] => i = j
    <3>1. Cardinality(G) = Len(bestellungIDs) /\ G \subseteq Auftrag
      BY <2>4 DEF alleGezaehlt
    <3> HIDE DEF G
    <3> QED BY <1>0, <2>3, <3>1, Abgezaehlt
  <2>6. \A i \in DOMAIN bestellungIDs : M[bestellungIDs[i]] = Menge[bestellungIDs[i]]
    BY <2>3, <2>4, <2>5 DEF Einmal
  <2>7. g = Posten(bestellungIDs, T)
    BY <2>6 DEF Geladen, Posten
  <2>8. g \in Seq(Eintraege) /\ Len(g) = Len(bestellungIDs)
    BY <1>0, <2>1, <2>4, GeladenTyp
  <2> HIDE DEF g
  <2>9. z \in Seq(Eintraege) /\ z = g
    BY <1>0, <2>8, ZuerstTyp
  <2> HIDE DEF z
  <2>10. /\ \A x \in TischnummerIDs : \E s \in DOMAIN BestellungenFertig' :
              BestellungenFertig'[s].Tischnummer = x
         /\ \A s, u \in DOMAIN BestellungenFertig' :
              BestellungenFertig'[s].Tischnummer = BestellungenFertig'[u].Tischnummer
                => s = u
         /\ \A s \in DOMAIN BestellungenFertig' : BestellungenFertig'[s].menge
                   = AlleMengen(BestellungenFertig'[s].Tischnummer, z)
    BY <2>4, <2>9, ErsterMerge
  <2>11. \A i \in DOMAIN bestellungIDs : \E s \in DOMAIN BestellungenFertig' :
           BestellungenFertig'[s].Tischnummer = TischIndex[bestellungIDs[i]]
    BY <1>0, <2>10
  <2>12. z = Posten(bestellungIDs, T)
    BY <2>7, <2>9
  <2>13. bestellungIDs' = bestellungIDs /\ TischIndex' = TischIndex
    BY <2>1 DEF meldeVars
  <2>14. \A s \in DOMAIN BestellungenFertig' : BestellungenFertig'[s].menge
           = AlleMengen(BestellungenFertig'[s].Tischnummer, Posten(bestellungIDs', Tischnummer'))
    BY <2>10, <2>12, <2>13 DEF T
  <2> QED BY <2>5, <2>10, <2>11, <2>13, <2>14 DEF IstRechnung
<1>2. ASSUME UNCHANGED BestellungenFertig PROVE FALSE
  BY <1>2
<1>3. ASSUME reload PROVE FALSE
  BY <1>3 DEF reload
<1>4. ASSUME NEW a, NEW q, schluesselGemeldet(a, q) PROVE FALSE
  BY <1>2, <1>4 DEF schluesselGemeldet
<1>5. ASSUME NEW a, FaltungTrap(a) PROVE FALSE
  BY <1>2, <1>5 DEF FaltungTrap, Trap
<1>6. ASSUME searchBarCancelButtonClicked \/ \E t \in Tische : filteredContent(t)
      PROVE  FALSE
  BY <1>2, <1>6 DEF searchBarCancelButtonClicked, filteredContent
<1>7. ASSUME NEW r, didSelectRowRechts(r) PROVE FALSE
  BY <1>2, <1>7 DEF didSelectRowRechts
<1>8. ASSUME scrollenRechts \/ UNCHANGED vars PROVE FALSE
  BY <1>2, <1>8 DEF scrollenRechts, vars
<1> QED BY <1>0, <1>1, <1>3, <1>4, <1>5, <1>6, <1>7, <1>8 DEF Next

\* The first merge since a reload makes the bill, for any orders, tables and
\* amounts, any number of reloads and any order of keys and records, unless
\* a record asked for before that reload has landed after it: no order is
\* noted twice, every table of the index has one section, and it has every
\* item of the noted orders whose record names the table, once.
THEOREM RechnungKorrekt == Spec => RechnungVollstaendig
<1>1. Init => KontoInv /\ LeerInv
  <2>1. Init => Unbelegt
    BY DEF Init, Unbelegt, Nirgends
  <2> QED BY <2>1, KontoUnbelegt
<1>2. TypInv /\ LeerInv /\ KontoInv /\ [Next]_vars =>
        [~fremd' /\ BestellungenFertig = <<>> /\ BestellungenFertig' # <<>>
           => IstRechnung']_vars
  BY RechnungSchritt
<1> QED BY <1>1, <1>2, TypStart, TypSchritt, LeerSchritt, KontoSchritt, PTL
     DEF Spec, RechnungVollstaendig

(***************************************************************************)
(* While the list was built at most once ever, every section stands at the *)
(* number it was built with.  So its amounts are found under the number it *)
(* has in the list; and those of the table on the right under the number   *)
(* of the section of that table, which is also where drawing the right     *)
(* side found it last.                                                     *)
(***************************************************************************)
Eigen(a, i) == a.menge # <<>> => i \in DOMAIN a.bezahltMenge

Passend(fertig, a) ==
  \A i \in DOMAIN fertig :
    fertig[i].Tischnummer = a.Tischnummer => fertig[i].menge = a.menge /\ Eigen(a, i)

Ordnung ==
  aufgebaut < 2 =>
    /\ absturz \notin {"nil", "index"}
    /\ aufgebaut = 0 => BestellungenFertig = <<>> /\ BestellungenBezahlen = <<>>
    /\ \A i \in DOMAIN BestellungenFertig : Eigen(BestellungenFertig[i], i)
    /\ \A i, j \in DOMAIN BestellungenFertig :
         BestellungenFertig[i].Tischnummer = BestellungenFertig[j].Tischnummer
           => i = j
    /\ \A n \in DOMAIN BestellungenBezahlen :
         /\ Passend(BestellungenFertig, BestellungenBezahlen[n])
         /\ Eigen(BestellungenBezahlen[n], trueSection)

\* Drawing the right side finds the amounts, if each table has one section.
LEMMA ZeichneFindet ==
  ASSUME NEW fertig, NEW a, ZeichneAbrechnen(fertig, a, a.Tischnummer),
         absturz = "keiner", Passend(fertig, a),
         \A i, j \in DOMAIN fertig :
           fertig[i].Tischnummer = fertig[j].Tischnummer => i = j,
         DOMAIN fertig \subseteq Nat,
         \/ Eigen(a, trueSection)
         \/ \E i \in DOMAIN fertig : fertig[i].Tischnummer = a.Tischnummer
  PROVE  absturz' = "keiner" /\ Eigen(a, trueSection')
<1>1. CASE a.menge = <<>>
  BY <1>1 DEF ZeichneAbrechnen, Eigen
<1>2. CASE a.menge # <<>>
  <2>1. /\ trueSection' = Gefunden(fertig, a.Tischnummer)
        /\ absturz' = IF trueSection' \in DOMAIN a.bezahltMenge THEN absturz ELSE "nil"
    BY <1>2 DEF ZeichneAbrechnen
  <2> DEFINE S == {i \in DOMAIN fertig : fertig[i].Tischnummer = a.Tischnummer}
             c == CHOOSE i \in S : \A j \in S : j <= i
  <2>2. Gefunden(fertig, a.Tischnummer) = IF S = {} THEN trueSection ELSE c
    BY DEF Gefunden
  <2>3. S # {} => c \in S
    <3>1. \A i, j \in S : i = j
      OBVIOUS
    <3>2. S \subseteq Nat
      OBVIOUS
    <3> HIDE DEF S
    <3>3. ASSUME NEW i \in S
          PROVE  \A j \in S : j <= i
      BY <3>1, <3>2
    <3> QED BY <3>3
  <2> HIDE DEF c
  <2>4. Gefunden(fertig, a.Tischnummer) \in DOMAIN a.bezahltMenge
    <3>1. CASE S = {}
      BY <1>2, <2>2, <3>1 DEF Eigen
    <3>2. CASE S # {}
      <4>1. c \in DOMAIN fertig /\ fertig[c].Tischnummer = a.Tischnummer
        BY <2>3, <3>2
      <4>2. c \in DOMAIN a.bezahltMenge
        BY <1>2, <4>1 DEF Passend, Eigen
      <4> QED BY <2>2, <3>2, <4>2
    <3> QED BY <3>1, <3>2
  <2> QED BY <2>1, <2>4 DEF Eigen
<1> QED BY <1>1, <1>2

LEMMA OrdnungSchritt ==
  TypInv /\ Ordnung /\ [Next]_vars => Ordnung'
<1> SUFFICES ASSUME TypInv, Ordnung, [Next]_vars, aufgebaut' < 2
             PROVE  Ordnung'
  BY DEF Ordnung
<1>0. /\ aufgebaut \in 0..2 /\ BestellungenFertig \in Seq(Abschnitte)
      /\ DOMAIN BestellungenFertig \subseteq Nat /\ RechtsTyp
  BY DEF TypInv
<1> DEFINE Einzeln(fertig) == \A i, j \in DOMAIN fertig :
             fertig[i].Tischnummer = fertig[j].Tischnummer => i = j
<1>1. ASSUME NEW a \in Auftrag, NEW t \in Tische, bestellungGeladen(a, t)
      PROVE  Ordnung'
  <2> DEFINE T == Tischnummer'
             M == BestellungItemsMengen'
             g == Geladen(bestellungIDs, T, M)
             z == Zuerst(Bestellungen, g, Len(bestellungIDs))
  <2>1. /\ M \in [Auftrag -> Seq(Nat \ {0})]
        /\ \A c \in Auftrag : M[c] # <<>> => T[c] \in Tische
        /\ absturz = "keiner" /\ Abschluss(T, M)
        /\ UNCHANGED <<BestellungenBezahlen, trueSection>>
    BY <1>1, RecordLandet DEF zahlVars
  <2> HIDE DEF T, M
  <2>2. \/ /\ absturz' \in {"keiner", "laden"}
           /\ UNCHANGED <<BestellungenFertig, aufgebaut>>
        \/ /\ \A i \in DOMAIN bestellungIDs : M[bestellungIDs[i]] # <<>>
           /\ Gemischt(z) /\ absturz' = "keiner"
    BY <2>1, AbschlussIst
  <2>3. CASE /\ absturz' \in {"keiner", "laden"}
             /\ UNCHANGED <<BestellungenFertig, aufgebaut>>
    BY <2>1, <2>3 DEF Ordnung, Passend, Eigen
  <2>4. CASE /\ \A i \in DOMAIN bestellungIDs : M[bestellungIDs[i]] # <<>>
             /\ Gemischt(z) /\ absturz' = "keiner"
    <3>1. aufgebaut = 0 /\ aufgebaut' = 1
      <4>1. aufgebaut' = IF aufgebaut = 2 THEN 2 ELSE aufgebaut + 1
        BY <2>4 DEF Gemischt
      <4> QED BY <1>0, <4>1
    <3>2. BestellungenBezahlen = <<>> /\ BestellungenFertig = <<>>
      BY <3>1 DEF Ordnung
    <3>3. g \in Seq(Eintraege) /\ Len(g) = Len(bestellungIDs)
      BY <2>1, <2>4, GeladenTyp DEF TypInv
    <3> HIDE DEF g
    <3>4. z \in Seq(Eintraege)
      BY <3>3, ZuerstTyp DEF TypInv, LadeTyp
    <3> HIDE DEF z
    <3>5. /\ \A i, j \in DOMAIN BestellungenFertig' :
              BestellungenFertig'[i].Tischnummer = BestellungenFertig'[j].Tischnummer
                => i = j
          /\ \A i \in DOMAIN BestellungenFertig' : Eigen(BestellungenFertig'[i], i)
      BY <2>4, <3>2, <3>4, ErsterMerge DEF Eigen
    <3>6. BestellungenBezahlen' = <<>>
      BY <2>1, <3>2
    <3> QED BY <2>4, <3>1, <3>5, <3>6 DEF Ordnung
  <2> HIDE DEF z
  <2> QED BY <2>2, <2>3, <2>4
<1> DEFINE Rest ==
        /\ aufgebaut < 2
        /\ absturz \notin {"nil", "index"}
        /\ aufgebaut = 0 => BestellungenFertig = <<>> /\ BestellungenBezahlen = <<>>
        /\ \A i \in DOMAIN BestellungenFertig : Eigen(BestellungenFertig[i], i)
        /\ Einzeln(BestellungenFertig)
        /\ \A n \in DOMAIN BestellungenBezahlen :
             /\ Passend(BestellungenFertig, BestellungenBezahlen[n])
             /\ Eigen(BestellungenBezahlen[n], trueSection)
<1>2. ASSUME UNCHANGED aufgebaut
      PROVE  Rest
  BY <1>2 DEF Ordnung
<1>3. CASE reload
  <2>1. /\ UNCHANGED <<BestellungenBezahlen, trueSection, absturz, aufgebaut>>
        /\ BestellungenFertig' = <<>>
    BY <1>3 DEF reload, zahlVars
  <2>2. Rest
    BY <1>2, <2>1
  <2> QED BY <2>1, <2>2 DEF Ordnung, Passend
<1>4. ASSUME UNCHANGED <<BestellungenBezahlen, trueSection, absturz, aufgebaut,
                         BestellungenFertig>>
      PROVE  Ordnung'
  BY <1>4 DEF Ordnung, Passend, Eigen
<1>5. ASSUME NEW s \in DOMAIN BestellungenFertig, toggleSection(s)
      PROVE  Ordnung'
  <2>1. /\ UNCHANGED <<BestellungenBezahlen, trueSection, absturz, aufgebaut>>
        /\ DOMAIN BestellungenFertig' = DOMAIN BestellungenFertig
        /\ \A i \in DOMAIN BestellungenFertig :
              /\ BestellungenFertig'[i].Tischnummer = BestellungenFertig[i].Tischnummer
              /\ BestellungenFertig'[i].menge = BestellungenFertig[i].menge
              /\ BestellungenFertig'[i].bezahltMenge
                   = BestellungenFertig[i].bezahltMenge
    BY <1>5, AufklappenIst DEF ladeVars, zahlVars
  <2>2. Rest
    BY <1>2, <2>1
  <2>3. /\ \A i \in DOMAIN BestellungenFertig' : Eigen(BestellungenFertig'[i], i)
        /\ aufgebaut # 0
    BY <2>1, <2>2 DEF Eigen
  <2>4. \A i, j \in DOMAIN BestellungenFertig' :
          BestellungenFertig'[i].Tischnummer = BestellungenFertig'[j].Tischnummer
            => i = j
    BY <2>1, <2>2
  <2>5. \A n \in DOMAIN BestellungenBezahlen' :
             /\ Passend(BestellungenFertig', BestellungenBezahlen'[n])
             /\ Eigen(BestellungenBezahlen'[n], trueSection')
    BY <2>1, <2>2 DEF Passend
  <2> QED BY <2>1, <2>2, <2>3, <2>4, <2>5 DEF Ordnung
<1>6. ASSUME NEW s \in DOMAIN BestellungenFertig, ZeichneFertig(s)
      PROVE  Ordnung'
  <2>1. /\ UNCHANGED aufgebaut /\ BestellungenFertig[s].menge # <<>>
        /\ s \notin DOMAIN BestellungenFertig[s].bezahltMenge
    BY <1>6 DEF ZeichneFertig, Trap, ladeVars
  <2> QED BY <1>2, <2>1 DEF Eigen
<1>7. ASSUME NEW s \in DOMAIN BestellungenFertig, allesBezahlen(s)
      PROVE  Ordnung'
  <2>1. PICK b \in Abschnitte :
           /\ b.menge = BestellungenFertig[s].menge
           /\ b.Tischnummer = BestellungenFertig[s].Tischnummer
           /\ DOMAIN b.bezahltMenge
                = DOMAIN BestellungenFertig[s].bezahltMenge \cup {s}
           /\ BestellungenFertig' = [BestellungenFertig EXCEPT ![s] = b]
           /\ BestellungenBezahlen' = <<b>>
           /\ ZeichneAbrechnen(BestellungenFertig', b, b.Tischnummer)
           /\ UNCHANGED <<meldeVars, ladeVars>>
    BY <1>7, AllesIst
  <2>2. UNCHANGED aufgebaut /\ Rest /\ absturz = "keiner"
    BY <1>2, <1>7, <2>1 DEF ladeVars, allesBezahlen, laeuft
  <2> DEFINE F == BestellungenFertig'
  <2>3. /\ DOMAIN F = DOMAIN BestellungenFertig /\ F[s] = b
        /\ \A i \in DOMAIN F : /\ F[i].Tischnummer = BestellungenFertig[i].Tischnummer
                               /\ F[i].menge = BestellungenFertig[i].menge
                               /\ i # s => F[i] = BestellungenFertig[i]
    BY <1>0, <2>1
  <2>4. Eigen(b, s)
    BY <2>1 DEF Eigen
  <2> HIDE DEF F
  <2>5. \A i \in DOMAIN F : Eigen(F[i], i)
    BY <2>2, <2>3, <2>4
  <2>6. \A i, j \in DOMAIN F : F[i].Tischnummer = F[j].Tischnummer => i = j
    BY <2>2, <2>3
  <2>7. Passend(F, b)
    <3> SUFFICES ASSUME NEW i \in DOMAIN F, F[i].Tischnummer = b.Tischnummer
                 PROVE  F[i].menge = b.menge /\ Eigen(b, i)
      BY DEF Passend
    <3>1. i = s
      BY <2>3, <2>6
    <3> QED BY <2>3, <2>4, <3>1
  <2>8. absturz' = "keiner" /\ Eigen(b, trueSection')
    <3>1. DOMAIN F \subseteq Nat
      BY <1>0, <2>3
    <3>2. \E i \in DOMAIN F : F[i].Tischnummer = b.Tischnummer
      BY <2>3
    <3>3. ZeichneAbrechnen(F, b, b.Tischnummer) /\ absturz = "keiner"
      BY <2>1, <2>2 DEF F
    <3> QED BY <2>6, <2>7, <3>1, <3>2, <3>3, ZeichneFindet
  <2>9. aufgebaut # 0
    BY <2>2
  <2>10. \A n \in DOMAIN BestellungenBezahlen' : BestellungenBezahlen'[n] = b
    BY <2>1
  <2> QED BY <2>2, <2>5, <2>6, <2>7, <2>8, <2>9, <2>10 DEF Ordnung, F
<1>8. ASSUME NEW s \in DOMAIN BestellungenFertig,
             NEW r \in DOMAIN BestellungenFertig[s].menge,
             didSelectRowLinks(s, r)
      PROVE  Ordnung'
  <2> DEFINE a == Getippt(s)
  <2>1. UNCHANGED <<aufgebaut, BestellungenFertig>>
    BY <1>8, LinksIst DEF ladeVars
  <2>2. Rest /\ absturz = "keiner"
    BY <1>2, <1>8, <2>1 DEF didSelectRowLinks, laeuft
  <2>3. a.Tischnummer = BestellungenFertig[s].Tischnummer
    BY GetipptTyp
  <2>4. BestellungenFertig[s].menge # <<>>
    BY <1>0
  <2>5. Passend(BestellungenFertig, a)
    <3>1. CASE BestellungenFertig[s].Tischnummer # tischnummerBezahlen
      <4>1. a = BestellungenFertig[s]
        BY <3>1 DEF Getippt
      <4> SUFFICES ASSUME NEW i \in DOMAIN BestellungenFertig,
                          BestellungenFertig[i].Tischnummer = a.Tischnummer
                   PROVE  BestellungenFertig[i].menge = a.menge /\ Eigen(a, i)
        BY DEF Passend
      <4>2. i = s
        BY <2>2, <4>1
      <4> QED BY <2>2, <4>1, <4>2
    <3>2. CASE BestellungenFertig[s].Tischnummer = tischnummerBezahlen
      <4>1. BestellungenFertig[s] \in Abschnitte
        BY <1>0
      <4>2. tischnummerBezahlen \in Tische
        BY <3>2, <4>1, AbschnittFelder
      <4>3. 1 \in DOMAIN BestellungenBezahlen
        BY <1>0, <4>2, RechtsDa
      <4> QED BY <2>2, <3>2, <4>3 DEF Getippt
    <3> QED BY <3>1, <3>2
  <2> HIDE DEF a
  <2>6. a.menge = BestellungenFertig[s].menge /\ s \in DOMAIN a.bezahltMenge
    BY <2>3, <2>4, <2>5 DEF Passend, Eigen
  <2>7. PICK b \in Abschnitte :
              /\ b.menge = a.menge
              /\ b.Tischnummer = a.Tischnummer
              /\ DOMAIN b.bezahltMenge = DOMAIN a.bezahltMenge
              /\ BestellungenBezahlen' = <<b>>
              /\ ZeichneAbrechnen(BestellungenFertig, b, b.Tischnummer)
    BY <1>8, <2>6, LinksIst DEF a
  <2>8. Passend(BestellungenFertig, b)
    BY <2>5, <2>7 DEF Passend, Eigen
  <2>9. absturz' = "keiner" /\ Eigen(b, trueSection')
    <3> DEFINE F == BestellungenFertig
    <3>1. /\ \E i \in DOMAIN F : F[i].Tischnummer = b.Tischnummer
          /\ \A i, j \in DOMAIN F : F[i].Tischnummer = F[j].Tischnummer => i = j
      BY <2>2, <2>3, <2>7
    <3> HIDE DEF F
    <3>2. DOMAIN F \subseteq Nat /\ Passend(F, b) /\ absturz = "keiner"
          /\ ZeichneAbrechnen(F, b, b.Tischnummer)
      BY <1>0, <2>2, <2>7, <2>8 DEF F
    <3> QED BY <3>1, <3>2, ZeichneFindet
  <2>10. aufgebaut # 0
    BY <2>2
  <2>11. \A n \in DOMAIN BestellungenBezahlen' : BestellungenBezahlen'[n] = b
    BY <2>7
  <2>12. Passend(BestellungenFertig', b)
    BY <2>1, <2>8
  <2> QED BY <2>1, <2>2, <2>9, <2>10, <2>11, <2>12 DEF Ordnung, Eigen
<1>9. ASSUME NEW n \in DOMAIN BestellungenBezahlen,
             NEW r \in DOMAIN BestellungenBezahlen[n].menge,
             didSelectRowRechts(r)
      PROVE  Ordnung'
  <2>1. PICK b \in Abschnitte :
           /\ b.menge = BestellungenBezahlen[1].menge
           /\ b.Tischnummer = BestellungenBezahlen[1].Tischnummer
           /\ DOMAIN b.bezahltMenge = DOMAIN BestellungenBezahlen[1].bezahltMenge
           /\ BestellungenBezahlen' = <<b>>
           /\ ZeichneAbrechnen(BestellungenFertig, b, b.Tischnummer)
           /\ UNCHANGED <<meldeVars, ladeVars, BestellungenFertig, tischnummerBezahlen>>
    BY <1>9, RechtsSchritt
  <2>2. UNCHANGED <<aufgebaut, BestellungenFertig>> /\ Rest /\ absturz = "keiner"
    BY <1>2, <1>9, <2>1 DEF ladeVars, didSelectRowRechts, laeuft
  <2>3. n = 1
    BY <1>0, RechtsIst
  <2>4. Passend(BestellungenFertig, b) /\ Eigen(b, trueSection)
    BY <2>1, <2>2, <2>3 DEF Passend, Eigen
  <2>5. absturz' = "keiner" /\ Eigen(b, trueSection')
    BY <1>0, <2>1, <2>2, <2>4, ZeichneFindet
  <2>6. \A m \in DOMAIN BestellungenBezahlen' : BestellungenBezahlen'[m] = b
    BY <2>1
  <2>7. aufgebaut # 0
    BY <2>2
  <2>8. Passend(BestellungenFertig', b)
    BY <2>2, <2>4
  <2> QED BY <2>2, <2>5, <2>6, <2>7, <2>8 DEF Ordnung, Eigen
<1>10. CASE scrollenRechts
  <2>1. PICK n \in DOMAIN BestellungenBezahlen :
          ZeichneAbrechnen(BestellungenFertig, BestellungenBezahlen[n],
                           tischnummerBezahlen)
    BY <1>10 DEF scrollenRechts
  <2>2. /\ UNCHANGED <<aufgebaut, BestellungenFertig, BestellungenBezahlen>>
        /\ absturz = "keiner"
    BY <1>10 DEF scrollenRechts, ladeVars, laeuft
  <2> DEFINE a == BestellungenBezahlen[1]
  <2>3. /\ n = 1 /\ tischnummerBezahlen = a.Tischnummer
        /\ BestellungenBezahlen = <<a>>
    BY <1>0, RechtsIst
  <2>4. Rest
    BY <1>2, <2>2
  <2>5. Passend(BestellungenFertig, a) /\ Eigen(a, trueSection)
    BY <2>3, <2>4
  <2>6. ZeichneAbrechnen(BestellungenFertig, a, a.Tischnummer)
    BY <2>1, <2>3
  <2>7. \A m \in DOMAIN BestellungenBezahlen : m = 1
    BY <1>0, RechtsIst
  <2> HIDE DEF a
  <2>8. absturz' = "keiner" /\ Eigen(a, trueSection')
    BY <1>0, <2>2, <2>4, <2>5, <2>6, ZeichneFindet
  <2>9. \A m \in DOMAIN BestellungenBezahlen' : BestellungenBezahlen'[m] = a
    BY <2>2, <2>7 DEF a
  <2>10. Passend(BestellungenFertig', a)
    BY <2>2, <2>5
  <2>11. aufgebaut # 0
    BY <2>1, <2>4
  <2> QED BY <2>2, <2>4, <2>8, <2>9, <2>10, <2>11 DEF Ordnung, Eigen
<1>11. CASE UNCHANGED vars
  <2>1. UNCHANGED <<BestellungenBezahlen, trueSection, absturz, aufgebaut,
                    BestellungenFertig>>
    BY <1>11 DEF vars, ladeVars, zahlVars
  <2> QED BY <1>4, <2>1
<1>12. ASSUME searchBarCancelButtonClicked \/ \E t \in Tische : filteredContent(t)
       PROVE  Ordnung'
  <2>1. UNCHANGED <<BestellungenBezahlen, trueSection, absturz, aufgebaut,
                    BestellungenFertig>>
    BY <1>12 DEF searchBarCancelButtonClicked, filteredContent, zahlVars
  <2> QED BY <1>4, <2>1
<1>13. ASSUME NEW a, NEW q, schluesselGemeldet(a, q) PROVE Ordnung'
  <2>1. UNCHANGED <<BestellungenBezahlen, trueSection, absturz, aufgebaut,
                    BestellungenFertig>>
    BY <1>13 DEF schluesselGemeldet, zahlVars
  <2> QED BY <1>4, <2>1
<1>14. ASSUME NEW a, FaltungTrap(a) PROVE Ordnung'
  <2>1. /\ UNCHANGED <<BestellungenBezahlen, trueSection, aufgebaut, BestellungenFertig>>
        /\ absturz' = "laden"
    BY <1>14 DEF FaltungTrap, Trap, zahlVars, ladeVars
  <2> QED BY <2>1 DEF Ordnung, Passend, Eigen
<1> QED BY <1>1, <1>3, <1>5, <1>6, <1>7, <1>8, <1>9, <1>10, <1>11, <1>12, <1>13,
           <1>14 DEF Next

\* The force-unwraps by section number and the index by row fail only once
\* the list has been built a second time.
THEOREM AbsturzKorrekt == Spec => []AbsturzNurNachWiederaufbau
<1>1. Init => Ordnung
  <2>1. Init => /\ BestellungenFertig = <<>> /\ BestellungenBezahlen = <<>>
                /\ absturz = "keiner"
    BY DEF Init
  <2> QED BY <2>1 DEF Ordnung
<1>2. TypInv /\ Ordnung => AbsturzNurNachWiederaufbau
  <2>1. TypInv => aufgebaut \in 0..2
    BY DEF TypInv
  <2> QED BY <2>1 DEF Ordnung, AbsturzNurNachWiederaufbau
<1> QED BY <1>1, <1>2, TypStart, TypSchritt, OrdnungSchritt, PTL
     DEF Spec

(***************************************************************************)
(*                                 THE MENU                                *)
(***************************************************************************)

(***************************************************************************)
(* Folding the items of a category into its arrays.                        *)
(***************************************************************************)

LEMMA EinordnenTyp ==
  ASSUME NEW T, NEW items \in Seq(Seq(T)), NEW it \in T, it[2] \in Nat \ {0}
  PROVE  Einordnen(items, it) \in Seq(Seq(T))
<1>1. <<it>> \in Seq(T)
  OBVIOUS
<1>2. CASE Len(items) < it[2]
  BY <1>1, <1>2 DEF Einordnen
<1>3. CASE ~(Len(items) < it[2])
  <2> DEFINE u == it[2]
  <2>1. u \in 1..Len(items)
    BY <1>3
  <2> HIDE DEF u
  <2>2. items[u] \in Seq(T)
    BY <2>1
  <2>3. Append(items[u], it) \in Seq(T)
    BY <2>2
  <2>4. [items EXCEPT ![u] = Append(@, it)] \in Seq(Seq(T))
    BY <2>1, <2>3
  <2>5. Einordnen(items, it) = [items EXCEPT ![u] = Append(@, it)]
    BY <1>3 DEF Einordnen, u
  <2> QED BY <2>4, <2>5
<1> QED BY <1>2, <1>3

\* The n items of subcategory u of category k are in T.
AlleIn(T, k, u, n) == \A i \in 1..n : <<k, u, i>> \in T

\* The inner loop, item by item.
IstEinordnen(g, T, items, k, u, n) ==
  /\ g \in [0..n -> Seq(Seq(T))]
  /\ g[0] = items
  /\ \A i \in 1..n : g[i] = Einordnen(g[i - 1], <<k, u, i>>)
  /\ EinordnenAlle(items, k, u, n) = g[n]

LEMMA EinordnenAlleRekursion ==
  ASSUME NEW T, NEW k, NEW u \in Nat \ {0}, NEW n \in Nat,
         AlleIn(T, k, u, n),
         NEW items \in Seq(Seq(T))
  PROVE  \E g : IstEinordnen(g, T, items, k, u, n)
<1> DEFINE X == Seq(Seq(T))
           G == [i \in 1..n |-> [x \in X |-> Einordnen(x, <<k, u, i>>)]]
           Wert(f, i) == IF i = 0 THEN items
                         ELSE Einordnen(f[i - 1], <<k, u, i>>)
           F(f) == [i \in 0..n |-> Wert(f, i)]
<1>1. \A i \in 1..n : \A x \in X : Einordnen(x, <<k, u, i>>) \in X
  <2> SUFFICES ASSUME NEW i \in 1..n, NEW x \in X
               PROVE  Einordnen(x, <<k, u, i>>) \in X
    OBVIOUS
  <2> DEFINE it == <<k, u, i>>
  <2>1. it \in T /\ it[2] \in Nat \ {0}
    BY DEF AlleIn
  <2> HIDE DEF it
  <2>2. Einordnen(x, it) \in X
    BY <2>1, EinordnenTyp
  <2> QED BY <2>2 DEF it
<1> HIDE DEF X
<1>2. G \in [1..n -> [X -> X]]
  BY <1>1
<1>3. PICK f : IstRekursion(f, n, X, items, G)
  <2>1. items \in X
    BY DEF X
  <2> HIDE DEF G
  <2> QED BY <1>2, <2>1, RekursionGibtEs
<1>4. f \in [0..n -> X] /\ f[0] = items /\ \A i \in 1..n : f[i] = G[i][f[i - 1]]
  <2> HIDE DEF G
  <2> QED BY <1>3 DEF IstRekursion
<1>5. ASSUME NEW i \in 1..n
      PROVE  f[i] = Einordnen(f[i - 1], <<k, u, i>>)
  <2>1. i - 1 \in 0..n
    OBVIOUS
  <2>2. f[i - 1] \in X /\ f[i] = G[i][f[i - 1]]
    BY <1>4, <2>1
  <2> QED BY <2>2
<1>6. \A i \in 0..n : f[i] = Wert(f, i)
  <2>1. \A i \in 0..n : i = 0 \/ i \in 1..n
    OBVIOUS
  <2> QED BY <1>4, <1>5, <2>1
<1>7. f = F(f)
  <2> HIDE DEF Wert
  <2> QED BY <1>4, <1>6
<1> DEFINE g == CHOOSE h : h = F(h)
<1>8. g = F(g)
  <2> HIDE DEF F
  <2> QED BY <1>7
<1>9. EinordnenAlle(items, k, u, n) = g[n]
  BY DEF EinordnenAlle
<1> HIDE DEF g
<1>10. DOMAIN g = 0..n /\ g = [i \in 0..n |-> g[i]]
       /\ \A i \in 0..n : g[i] = Wert(g, i)
  <2> HIDE DEF Wert
  <2> QED BY <1>8
<1>11. g[0] = items /\ \A i \in 1..n : g[i] = Einordnen(g[i - 1], <<k, u, i>>)
  <2>1. 0 \in 0..n /\ \A i \in 1..n : i \in 0..n /\ i # 0
    OBVIOUS
  <2>2. g[0] = items
    BY <1>10, <2>1
  <2>3. ASSUME NEW i \in 1..n
        PROVE  g[i] = Einordnen(g[i - 1], <<k, u, i>>)
    BY <1>10, <2>1
  <2> QED BY <2>2, <2>3
<1> DEFINE P == {i \in 0..n : g[i] \in X}
<1>12. 0 \in P
  BY <1>11 DEF X
<1>13. ASSUME NEW i \in 1..n, i - 1 \in P
       PROVE  i \in P
  <2>1. i \in 0..n
    OBVIOUS
  <2> QED BY <1>1, <1>11, <1>13, <2>1
<1>14. 0..n \subseteq P
  <2> HIDE DEF P
  <2> QED BY <1>12, <1>13, Induktion
<1>15. g \in [0..n -> X]
  BY <1>10, <1>14
<1>16. IstEinordnen(g, T, items, k, u, n)
  BY <1>9, <1>11, <1>15 DEF X, IstEinordnen
<1> QED BY <1>16

LEMMA EinordnenAlleTyp ==
  ASSUME NEW T, NEW k, NEW u \in Nat \ {0}, NEW n \in Nat,
         AlleIn(T, k, u, n),
         NEW items \in Seq(Seq(T))
  PROVE  EinordnenAlle(items, k, u, n) \in Seq(Seq(T))
<1>1. PICK g : IstEinordnen(g, T, items, k, u, n)
  BY EinordnenAlleRekursion
<1>2. n \in 0..n
  OBVIOUS
<1> QED BY <1>1, <1>2 DEF IstEinordnen

\* If the arrays of the subcategories before u are there and n > 0, the
\* loop adds the array of u.
Zeile(k, u, n) == [i \in 1..n |-> <<k, u, i>>]

ZeileDazu(items, k, u, n) ==
  EinordnenAlle(items, k, u, n) = Append(items, Zeile(k, u, n))

LEMMA EinordnenAlleWert ==
  ASSUME NEW T, NEW k, NEW u \in Nat \ {0}, NEW n \in Nat \ {0},
         AlleIn(T, k, u, n),
         NEW items \in Seq(Seq(T)), Len(items) = u - 1
  PROVE  ZeileDazu(items, k, u, n)
<1>0. PICK g : IstEinordnen(g, T, items, k, u, n)
  BY EinordnenAlleRekursion
<1>1. /\ g[0] = items
      /\ \A i \in 1..n : g[i] = Einordnen(g[i - 1], <<k, u, i>>)
      /\ EinordnenAlle(items, k, u, n) = g[n]
  BY <1>0 DEF IstEinordnen
<1> DEFINE P == {i \in 0..n : i > 0 => g[i] = Append(items, Zeile(k, u, i))}
<1>2. 0 \in P
  OBVIOUS
<1>3. ASSUME NEW i \in 1..n, i - 1 \in P
      PROVE  i \in P
  <2> DEFINE it == <<k, u, i>>
  <2>1. it[2] = u /\ it \in T
    BY DEF AlleIn
  <2>2. g[i] = Einordnen(g[i - 1], it)
    BY <1>1
  <2> HIDE DEF it
  <2>3. CASE i = 1
    <3>1. g[i - 1] = items
      BY <1>1, <2>3
    <3>2. g[i] = Append(items, <<it>>)
      BY <2>1, <2>2, <3>1 DEF Einordnen
    <3>3. <<it>> = Zeile(k, u, 1)
      BY <2>3 DEF Zeile, it
    <3>4. g[i] = Append(items, Zeile(k, u, i)) /\ i \in 0..n
      BY <2>3, <3>2, <3>3
    <3> QED BY <3>4
  <2>4. CASE i > 1
    <3> DEFINE z == Zeile(k, u, i - 1)
               a == Append(items, z)
    <3>1. g[i - 1] = a
      BY <1>3, <2>4
    <3>2. z \in Seq(T) /\ Len(z) = i - 1
      BY <2>4 DEF Zeile, AlleIn
    <3>3. Append(z, it) = Zeile(k, u, i)
      BY <2>4 DEF Zeile, it
    <3> HIDE DEF z
    <3>4. a \in Seq(Seq(T)) /\ Len(a) = u /\ a[u] = z
      BY <3>2
    <3>5. g[i] = [a EXCEPT ![u] = Append(@, it)]
      BY <2>1, <2>2, <3>1, <3>4 DEF Einordnen
    <3>6. [a EXCEPT ![u] = Append(@, it)] = Append(items, Append(z, it))
      <4> DEFINE y == Append(z, it)
      <4>1. y \in Seq(T)
        BY <2>1, <3>2
      <4> HIDE DEF y
      <4>2. [a EXCEPT ![u] = y] = Append(items, y)
        <5>1. Append(items, y) \in Seq(Seq(T)) /\ Len(Append(items, y)) = u
          BY <4>1
        <5>2. DOMAIN [a EXCEPT ![u] = y] = 1..u /\ DOMAIN a = 1..u
          BY <3>4
        <5>3. \A j \in 1..u : [a EXCEPT ![u] = y][j] = Append(items, y)[j]
          <6> SUFFICES ASSUME NEW j \in 1..u
                       PROVE  [a EXCEPT ![u] = y][j] = Append(items, y)[j]
            OBVIOUS
          <6>1. CASE j = u
            BY <3>4, <4>1, <5>2, <6>1
          <6>2. CASE j # u
            <7>1. j \in 1..Len(items)
              BY <6>2
            <7>2. Append(items, z)[j] = items[j] /\ Append(items, y)[j] = items[j]
              BY <7>1, <3>2, <4>1
            <7> QED BY <6>2, <7>2, <5>2
          <6> QED BY <6>1, <6>2
        <5>4. [a EXCEPT ![u] = y] = [j \in 1..u |-> [a EXCEPT ![u] = y][j]]
          BY <5>2
        <5>5. Append(items, y) = [j \in 1..u |-> Append(items, y)[j]]
          <6> DEFINE b == Append(items, y)
          <6>1. b \in Seq(Seq(T)) /\ Len(b) = u
            BY <5>1
          <6> HIDE DEF b
          <6>2. b = [j \in 1..u |-> b[j]]
            BY <6>1
          <6> QED BY <6>2 DEF b
        <5> HIDE DEF a
        <5> QED BY <5>3, <5>4, <5>5
      <4>3. [a EXCEPT ![u] = Append(@, it)] = [a EXCEPT ![u] = y]
        BY <3>4 DEF y
      <4> QED BY <4>2, <4>3 DEF y
    <3>7. g[i] = Append(items, Zeile(k, u, i)) /\ i \in 0..n
      BY <3>3, <3>5, <3>6
    <3> QED BY <3>7
  <2> QED BY <2>3, <2>4
<1>4. 0..n \subseteq P
  <2> HIDE DEF P
  <2> QED BY <1>2, <1>3, Induktion
<1>5. n \in P
  BY <1>4
<1> QED BY <1>1, <1>5 DEF ZeileDazu

\* The items of a category, and the outer loop, subcategory by subcategory.
LEMMA ItemsForm ==
  ASSUME NEW m \in Seq(Seq(Nat)), NEW k \in DOMAIN m
  PROVE  /\ m[k] \in Seq(Nat)
         /\ \A u \in 1..Len(m[k]) : m[k][u] \in Nat
         /\ \A u \in 1..Len(m[k]) : \A i \in 1..m[k][u] : <<k, u, i>> \in Items(m, k)
         /\ \A it \in Items(m, k) :
              /\ it[1] = k /\ it[2] \in 1..Len(m[k])
              /\ it = <<k, it[2], it[3]>> /\ it[3] \in 1..m[k][it[2]]
<1>1. m[k] \in Seq(Nat) /\ DOMAIN m[k] = 1..Len(m[k])
  OBVIOUS
<1>2. \A u \in 1..Len(m[k]) : \A i \in 1..m[k][u] : <<k, u, i>> \in Items(m, k)
  BY <1>1 DEF Items
<1>3. ASSUME NEW it \in Items(m, k)
      PROVE  /\ it[1] = k /\ it[2] \in 1..Len(m[k])
             /\ it = <<k, it[2], it[3]>> /\ it[3] \in 1..m[k][it[2]]
  <2>1. PICK u \in DOMAIN m[k] : it \in {<<k, u, i>> : i \in 1..m[k][u]}
    BY <1>3 DEF Items
  <2>2. PICK i \in 1..m[k][u] : it = <<k, u, i>>
    BY <2>1
  <2> QED BY <2>2, <1>1
<1> QED BY <1>1, <1>2, <1>3

IstAufbau(f, m, k) ==
  /\ f \in [0..Len(m[k]) -> Seq(Seq(Items(m, k)))]
  /\ f[0] = <<>>
  /\ \A u \in 1..Len(m[k]) : f[u] = EinordnenAlle(f[u - 1], k, u, m[k][u])
  /\ ItemsNachUnterkategorie(m, k) = f[Len(m[k])]

LEMMA AufbauRekursion ==
  ASSUME NEW m \in Seq(Seq(Nat)), NEW k \in DOMAIN m
  PROVE  \E f : IstAufbau(f, m, k)
<1> DEFINE T == Items(m, k)
           n == Len(m[k])
           X == Seq(Seq(T))
           G == [u \in 1..n |-> [x \in X |-> EinordnenAlle(x, k, u, m[k][u])]]
           Wert(h, u) == IF u = 0 THEN <<>>
                         ELSE EinordnenAlle(h[u - 1], k, u, m[k][u])
           F(h) == [u \in 0..n |-> Wert(h, u)]
           g == CHOOSE h : h = F(h)
<1>0. n \in Nat /\ <<>> \in X
  <2>1. m[k] \in Seq(Nat)
    BY ItemsForm
  <2> QED BY <2>1
<1>1. \A u \in 1..n : \A x \in X : EinordnenAlle(x, k, u, m[k][u]) \in X
  <2> SUFFICES ASSUME NEW u \in 1..n, NEW x \in X
               PROVE  EinordnenAlle(x, k, u, m[k][u]) \in X
    OBVIOUS
  <2> DEFINE c == m[k][u]
  <2>1. c \in Nat /\ AlleIn(T, k, u, c)
    BY ItemsForm DEF AlleIn
  <2>2. u \in Nat \ {0}
    BY <1>0
  <2>3. EinordnenAlle(x, k, u, c) \in X
    <3> HIDE DEF c, T
    <3> QED BY <2>1, <2>2, EinordnenAlleTyp
  <2> QED BY <2>3
<1>9. ItemsNachUnterkategorie(m, k) = g[n]
  BY DEF ItemsNachUnterkategorie
<1> HIDE DEF X, n, T
<1>2. G \in [1..n -> [X -> X]]
  BY <1>1
<1>3. PICK f : IstRekursion(f, n, X, <<>>, G)
  <2> HIDE DEF G
  <2> QED BY <1>0, <1>2, RekursionGibtEs
<1>4. f \in [0..n -> X] /\ f[0] = <<>> /\ \A i \in 1..n : f[i] = G[i][f[i - 1]]
  <2> HIDE DEF G
  <2> QED BY <1>3 DEF IstRekursion
<1>5. ASSUME NEW i \in 1..n
      PROVE  f[i] = EinordnenAlle(f[i - 1], k, i, m[k][i])
  <2>1. i - 1 \in 0..n
    BY <1>0
  <2>2. f[i - 1] \in X /\ f[i] = G[i][f[i - 1]]
    BY <1>4, <2>1
  <2> QED BY <2>2
<1>6. \A i \in 0..n : f[i] = Wert(f, i)
  <2>1. \A i \in 0..n : i = 0 \/ i \in 1..n
    BY <1>0
  <2> QED BY <1>4, <1>5, <2>1
<1>7. f = F(f)
  <2> HIDE DEF Wert
  <2> QED BY <1>4, <1>6
<1>8. g = F(g)
  <2> HIDE DEF F
  <2> QED BY <1>7
<1> HIDE DEF g
<1>10. DOMAIN g = 0..n /\ g = [i \in 0..n |-> g[i]]
       /\ \A i \in 0..n : g[i] = Wert(g, i)
  <2> HIDE DEF Wert
  <2> QED BY <1>8
<1>11. g[0] = <<>>
  <2>1. 0 \in 0..n
    BY <1>0
  <2> QED BY <1>10, <2>1
<1>11a. ASSUME NEW i \in 1..n
        PROVE  g[i] = EinordnenAlle(g[i - 1], k, i, m[k][i])
  <2>1. i \in 0..n /\ i # 0
    BY <1>0
  <2> QED BY <1>10, <2>1
<1> DEFINE P == {i \in 0..n : g[i] \in X}
<1>12. 0 \in P
  BY <1>11, <1>0
<1>13. ASSUME NEW i \in 1..n, i - 1 \in P
       PROVE  i \in P
  <2>1. i \in 0..n
    BY <1>0
  <2> QED BY <1>1, <1>11a, <1>13, <2>1
<1>14. 0..n \subseteq P
  <2> HIDE DEF P
  <2> QED BY <1>0, <1>12, <1>13, Induktion
<1>15. g \in [0..n -> X]
  BY <1>10, <1>14
<1>16. IstAufbau(g, m, k)
  BY <1>9, <1>11, <1>11a, <1>15 DEF X, n, T, IstAufbau
<1> QED BY <1>16

\* Items[Kategorie] holds items of the category only.
LEMMA AufbauTyp ==
  ASSUME NEW m \in Seq(Seq(Nat)), NEW k \in DOMAIN m
  PROVE  ItemsNachUnterkategorie(m, k) \in Seq(Seq(Items(m, k)))
<1>1. PICK f : IstAufbau(f, m, k)
  BY AufbauRekursion
<1>2. Len(m[k]) \in Nat
  BY ItemsForm
<1>3. Len(m[k]) \in 0..Len(m[k])
  BY <1>2
<1> QED BY <1>1, <1>3 DEF IstAufbau

\* If no subcategory is empty, every item is at its place.
LEMMA AufbauWert ==
  ASSUME NEW m \in Seq(Seq(Nat)), NEW k \in DOMAIN m,
         \A u \in DOMAIN m[k] : m[k][u] > 0
  PROVE  ItemsNachUnterkategorie(m, k) =
           [u \in DOMAIN m[k] |-> [i \in 1..m[k][u] |-> <<k, u, i>>]]
<1> DEFINE n == Len(m[k])
           T == Items(m, k)
           R(j) == [u \in 1..j |-> Zeile(k, u, m[k][u])]
<1>1. PICK f : IstAufbau(f, m, k)
  BY AufbauRekursion
<1>2. n \in Nat /\ DOMAIN m[k] = 1..n /\ \A u \in 1..n : m[k][u] \in Nat \ {0}
  <2>1. m[k] \in Seq(Nat)
    BY ItemsForm
  <2> QED BY <2>1
<1>3. /\ f \in [0..n -> Seq(Seq(T))]
      /\ f[0] = <<>>
      /\ \A u \in 1..n : f[u] = EinordnenAlle(f[u - 1], k, u, m[k][u])
      /\ ItemsNachUnterkategorie(m, k) = f[n]
  BY <1>1 DEF IstAufbau
<1>4. \A u \in 1..n : \A i \in 1..m[k][u] : <<k, u, i>> \in T
  BY ItemsForm
<1> HIDE DEF n, T
<1>5. \A u \in 1..n : Zeile(k, u, m[k][u]) \in Seq(T)
  <2> SUFFICES ASSUME NEW u \in 1..n
               PROVE  Zeile(k, u, m[k][u]) \in Seq(T)
    OBVIOUS
  <2> DEFINE c == m[k][u]
  <2>1. c \in Nat /\ \A i \in 1..c : <<k, u, i>> \in T
    BY <1>2, <1>4
  <2> HIDE DEF c
  <2>2. [i \in 1..c |-> <<k, u, i>>] \in Seq(T)
    <3> DEFINE z == [i \in 1..c |-> <<k, u, i>>]
    <3>1. z \in [1..c -> T]
      BY <2>1
    <3> HIDE DEF z
    <3>2. z \in Seq(T)
      BY <2>1, <3>1, FolgeAusFunktion
    <3> QED BY <3>2 DEF z
  <2> QED BY <2>2 DEF Zeile, c
<1> DEFINE P == {j \in 0..n : f[j] = R(j)}
<1>6. 0 \in P
  <2>1. 0 \in 0..n /\ R(0) = <<>>
    BY <1>2
  <2> QED BY <1>3, <2>1
<1>7. ASSUME NEW j \in 1..n, j - 1 \in P
      PROVE  j \in P
  <2> DEFINE x == R(j - 1)
             z == Zeile(k, j, m[k][j])
  <2>1. x \in Seq(Seq(T)) /\ Len(x) = j - 1 /\ z \in Seq(T)
    <3>1. j - 1 \in Nat /\ \A u \in 1..(j - 1) : u \in 1..n
      BY <1>2
    <3>2. \A u \in 1..(j - 1) : Zeile(k, u, m[k][u]) \in Seq(T)
      BY <1>5, <3>1
    <3> DEFINE e == j - 1
    <3>3. [u \in 1..e |-> Zeile(k, u, m[k][u])] \in Seq(Seq(T))
          /\ Len([u \in 1..e |-> Zeile(k, u, m[k][u])]) = e
      <4>1. e \in Nat /\ \A u \in 1..e : Zeile(k, u, m[k][u]) \in Seq(T)
        BY <3>1, <3>2
      <4> HIDE DEF e
      <4> DEFINE y == [u \in 1..e |-> Zeile(k, u, m[k][u])]
      <4>2. y \in [1..e -> Seq(T)]
        BY <4>1
      <4> HIDE DEF y
      <4>3. y \in Seq(Seq(T)) /\ Len(y) = e
        BY <4>1, <4>2, FolgeAusFunktion
      <4> QED BY <4>3 DEF y
    <3> QED BY <1>5, <3>3
  <2>2. f[j] = EinordnenAlle(x, k, j, m[k][j]) /\ j \in 0..n
    BY <1>2, <1>3, <1>7
  <2>3. R(j) = Append(x, z)
    <3>1. DOMAIN Append(x, z) = 1..j /\ Append(x, z) = [u \in 1..j |-> Append(x, z)[u]]
      <4> HIDE DEF x, z
      <4>1. Append(x, z) \in Seq(Seq(T)) /\ Len(Append(x, z)) = j
        BY <1>2, <2>1
      <4> DEFINE b == Append(x, z)
      <4>2. b \in Seq(Seq(T)) /\ Len(b) = j
        BY <4>1
      <4> HIDE DEF b
      <4>3. DOMAIN b = 1..j /\ b = [u \in 1..j |-> b[u]]
        BY <4>2
      <4> QED BY <4>3 DEF b
    <3>2. ASSUME NEW u \in 1..j
          PROVE  Append(x, z)[u] = Zeile(k, u, m[k][u])
      <4>1. CASE u = j
        <5>1. Append(x, z)[j] = z
          <6> HIDE DEF x, z
          <6> QED BY <1>2, <2>1
        <5> QED BY <4>1, <5>1
      <4>2. CASE u # j
        <5>1. u \in 1..(j - 1)
          BY <1>2, <4>2
        <5>2. x[u] = Zeile(k, u, m[k][u])
          BY <5>1
        <5>3. Append(x, z)[u] = x[u]
          <6> HIDE DEF x, z
          <6> QED BY <2>1, <5>1
        <5> QED BY <5>2, <5>3
      <4> QED BY <4>1, <4>2
    <3> HIDE DEF x, z
    <3> QED BY <3>1, <3>2
  <2>4. EinordnenAlle(x, k, j, m[k][j]) = Append(x, z)
    <3> DEFINE c == m[k][j]
    <3>1. c \in Nat \ {0} /\ AlleIn(T, k, j, c)
      BY <1>2, <1>4 DEF AlleIn
    <3>2. j \in Nat \ {0} /\ x \in Seq(Seq(T)) /\ Len(x) = j - 1
      BY <1>2, <2>1
    <3>3. ZeileDazu(x, k, j, c)
      <4> HIDE DEF x, c
      <4> QED BY <3>1, <3>2, EinordnenAlleWert
    <3> QED BY <3>3 DEF ZeileDazu
  <2> HIDE DEF x, z
  <2>5. f[j] = R(j)
    BY <2>2, <2>3, <2>4
  <2> QED BY <2>2, <2>5
<1>8. 0..n \subseteq P
  <2> HIDE DEF P
  <2> QED BY <1>2, <1>6, <1>7, Induktion
<1>9. n \in P
  BY <1>2, <1>8
<1> QED BY <1>2, <1>3, <1>9 DEF Zeile

\* The categories that are left, in their order, each once.
EinmalAlle(K) == \A i, j \in DOMAIN K : K[i] = K[j] => i = j

LEMMA UebrigForm ==
  ASSUME NEW m, Len(m) \in Nat, NEW weg
  PROVE  Uebrig(m, weg) \in Seq(1..Len(m)) /\ EinmalAlle(Uebrig(m, weg))
<1> DEFINE n == Len(m)
           X == Seq(Nat)
           Schritt(x, k) == IF k \in weg THEN x ELSE Append(x, k)
           G == [k \in 1..n |-> [x \in X |-> Schritt(x, k)]]
           Wert(h, k) == IF k = 0 THEN <<>>
                         ELSE IF k \in weg THEN h[k - 1] ELSE Append(h[k - 1], k)
           F(h) == [k \in 0..n |-> Wert(h, k)]
           g == CHOOSE h : h = F(h)
<1>0. n \in Nat /\ <<>> \in X
  OBVIOUS
<1>9. Uebrig(m, weg) = g[n]
  BY DEF Uebrig
<1> HIDE DEF n
<1>1. \A k \in 1..n : \A x \in X : Schritt(x, k) \in X
  BY <1>0
<1>2. G \in [1..n -> [X -> X]]
  <2> HIDE DEF X, Schritt
  <2> QED BY <1>1
<1>3. PICK f : IstRekursion(f, n, X, <<>>, G)
  <2> HIDE DEF G, X
  <2> QED BY <1>0, <1>2, RekursionGibtEs
<1>4. f \in [0..n -> X] /\ f[0] = <<>> /\ \A i \in 1..n : f[i] = G[i][f[i - 1]]
  <2> HIDE DEF G, X
  <2> QED BY <1>3 DEF IstRekursion
<1>5. ASSUME NEW i \in 1..n
      PROVE  f[i] = Schritt(f[i - 1], i)
  <2>1. i - 1 \in 0..n
    BY <1>0
  <2>2. f[i - 1] \in X /\ f[i] = G[i][f[i - 1]]
    <3> HIDE DEF G, X
    <3> QED BY <1>4, <2>1
  <2> HIDE DEF X, Schritt
  <2> QED BY <2>2
<1>6. \A i \in 0..n : f[i] = Wert(f, i)
  <2>1. \A i \in 0..n : i = 0 \/ i \in 1..n
    BY <1>0
  <2> HIDE DEF X, G
  <2> QED BY <1>4, <1>5, <2>1
<1>7. f = F(f)
  <2> HIDE DEF Wert, G, X
  <2> QED BY <1>4, <1>6
<1>8. g = F(g)
  <2> HIDE DEF F
  <2> QED BY <1>7
<1> HIDE DEF g
<1>10. \A i \in 0..n : g[i] = Wert(g, i)
  <2> HIDE DEF Wert
  <2> QED BY <1>8
<1> DEFINE Gut(x, k) == /\ x \in Seq(Nat)
                        /\ \A i \in 1..Len(x) : x[i] \in 1..k
                        /\ \A i, j \in 1..Len(x) : x[i] = x[j] => i = j
           P == {k \in 0..n : Gut(g[k], k)}
<1>11. 0 \in P
  <2>1. 0 \in 0..n
    BY <1>0
  <2>2. g[0] = <<>>
    BY <1>10, <2>1
  <2>3. <<>> \in Seq(Nat) /\ 1..Len(<<>>) = {}
    OBVIOUS
  <2>4. Gut(<<>>, 0)
    BY <2>3
  <2> HIDE DEF Gut
  <2> QED BY <2>1, <2>2, <2>4
<1>12. ASSUME NEW k \in 1..n, k - 1 \in P
       PROVE  k \in P
  <2> DEFINE x == g[k - 1]
  <2>1. k \in 0..n /\ k # 0 /\ k \in Nat
    BY <1>0
  <2>2. g[k] = IF k \in weg THEN x ELSE Append(x, k)
    BY <1>10, <2>1
  <2>3. Gut(x, k - 1)
    BY <1>12
  <2> HIDE DEF x
  <2>4. CASE k \in weg
    <3>1. Gut(x, k)
      BY <2>1, <2>3
    <3> QED BY <2>1, <2>2, <2>4, <3>1
  <2>5. CASE k \notin weg
    <3> DEFINE y == Append(x, k)
    <3>1. y \in Seq(Nat) /\ Len(y) = Len(x) + 1 /\ y[Len(x) + 1] = k
          /\ \A i \in 1..Len(x) : y[i] = x[i]
      BY <2>1, <2>3
    <3> HIDE DEF y
    <3>2. \A i \in 1..Len(y) : i = Len(x) + 1 \/ i \in 1..Len(x)
      BY <2>3, <3>1
    <3>3. \A i \in 1..Len(y) : y[i] \in 1..k
      <4> SUFFICES ASSUME NEW i \in 1..Len(y) PROVE y[i] \in 1..k
        OBVIOUS
      <4>1. CASE i = Len(x) + 1
        BY <2>1, <3>1, <4>1
      <4>2. CASE i \in 1..Len(x)
        <5>1. x[i] \in 1..(k - 1) /\ y[i] = x[i]
          BY <2>3, <3>1, <4>2
        <5> QED BY <5>1, <2>1
      <4> QED BY <3>2, <4>1, <4>2
    <3>4. \A i \in 1..Len(x) : y[i] # k
      <4> SUFFICES ASSUME NEW i \in 1..Len(x), y[i] = k PROVE FALSE
        OBVIOUS
      <4>1. x[i] \in 1..(k - 1) /\ y[i] = x[i]
        BY <2>3, <3>1
      <4> QED BY <4>1, <2>1
    <3>5. \A i, j \in 1..Len(y) : y[i] = y[j] => i = j
      <4> SUFFICES ASSUME NEW i \in 1..Len(y), NEW j \in 1..Len(y), y[i] = y[j]
                   PROVE  i = j
        OBVIOUS
      <4>1. CASE i \in 1..Len(x) /\ j \in 1..Len(x)
        BY <2>3, <3>1, <4>1
      <4>2. CASE i = Len(x) + 1 /\ j = Len(x) + 1
        BY <4>2
      <4>3. CASE i = Len(x) + 1 /\ j \in 1..Len(x)
        BY <3>1, <3>4, <4>3
      <4>4. CASE i \in 1..Len(x) /\ j = Len(x) + 1
        BY <3>1, <3>4, <4>4
      <4> QED BY <3>2, <4>1, <4>2, <4>3, <4>4
    <3>6. g[k] = y
      BY <2>2, <2>5 DEF y
    <3> QED BY <2>1, <3>1, <3>3, <3>5, <3>6
  <2> QED BY <2>4, <2>5
<1>13. 0..n \subseteq P
  <2> HIDE DEF P
  <2> QED BY <1>0, <1>11, <1>12, Induktion
<1>14. Gut(g[n], n)
  <2>1. n \in P
    <3> HIDE DEF P
    <3>1. n \in 0..n
      BY <1>0
    <3> QED BY <1>13, <3>1
  <2> HIDE DEF Gut
  <2> QED BY <2>1
<1>15. g[n] \in Seq(1..n)
  <2> DEFINE x == g[n]
  <2>1. x \in Seq(Nat) /\ \A i \in 1..Len(x) : x[i] \in 1..n
    BY <1>14
  <2> HIDE DEF x
  <2>2. x \in [1..Len(x) -> 1..n] /\ Len(x) \in Nat
    BY <2>1
  <2>3. x \in Seq(1..n)
    BY <2>2, FolgeAusFunktion
  <2> QED BY <2>3 DEF x
<1>16. EinmalAlle(g[n])
  <2> DEFINE x == g[n]
  <2>1. x \in Seq(Nat) /\ \A i, j \in 1..Len(x) : x[i] = x[j] => i = j
    BY <1>14
  <2> HIDE DEF x
  <2>2. EinmalAlle(x)
    BY <2>1 DEF EinmalAlle
  <2> QED BY <2>2 DEF x
<1> QED BY <1>9, <1>15, <1>16 DEF n

\* A set of as many categories as were noted holds all of them.
LEMMA AlleNotierten ==
  ASSUME NEW K \in Seq(Nat), EinmalAlle(K), NEW D, D \subseteq ToSet(K),
         Cardinality(D) = Len(K)
  PROVE  D = ToSet(K)
<1> DEFINE S == 1..Len(K)
<1>1. IsFiniteSet(S) /\ Cardinality(S) = Len(K)
  <2> DEFINE n == Len(K)
  <2>1. n \in Nat /\ n \in Int /\ 1 \in Int
    OBVIOUS
  <2> HIDE DEF n
  <2>2. IsFiniteSet(1..n) /\ Cardinality(1..n) = IF 1 > n THEN 0 ELSE n - 1 + 1
    BY <2>1, FS_Interval
  <2>3. IsFiniteSet(1..n) /\ Cardinality(1..n) = n
    BY <2>1, <2>2
  <2> QED BY <2>3 DEF n
<1>2. DOMAIN K = S
  OBVIOUS
<1>3. K \in [S -> ToSet(K)]
  BY <1>2 DEF ToSet
<1>4. K \in Injection(S, ToSet(K)) /\ K \in Surjection(S, ToSet(K))
  <2>1. \A a, b \in S : K[a] = K[b] => a = b
    BY <1>2 DEF EinmalAlle
  <2>2. \A t \in ToSet(K) : \E s \in S : K[s] = t
    BY <1>2 DEF ToSet
  <2> HIDE DEF S
  <2> QED BY <1>3, <2>1, <2>2 DEF Injection, Surjection, IsInjective
<1>5. ExistsBijection(S, ToSet(K))
  BY <1>4 DEF ExistsBijection, Bijection
<1>6. IsFiniteSet(ToSet(K)) /\ Cardinality(ToSet(K)) = Len(K)
  <2> HIDE DEF S
  <2> QED BY <1>1, <1>5, FS_Bijection
<1>7. D \in SUBSET ToSet(K)
  OBVIOUS
<1> QED BY <1>6, <1>7, FS_Subset

(***************************************************************************)
(* The state of the page.                                                  *)
(***************************************************************************)

\* A section of category k, and the sections of the categories K: the page
\* and every copy of a cell hold one.
Abschnittsform(k, m) ==
  [kat : {k}, items : {ItemsNachUnterkategorie(m, k)}, an : SUBSET Items(m, k),
   expanded : BOOLEAN, expanded2 : [DOMAIN m[k] -> BOOLEAN]]
Blatt(q, K, m) ==
  /\ q = [j \in DOMAIN K |-> q[j]]
  /\ \A j \in DOMAIN K : q[j] \in Abschnittsform(K[j], m)

DatenForm ==
  /\ karte \in Karten
  /\ gestrichen \subseteq DOMAIN karte
  /\ verfuegbar \subseteq Item
  /\ beruehrt \subseteq Item
ZaehlerForm ==
  /\ offen \in BOOLEAN
  /\ falle \in {"keine", "laden", "zeichnen", "index"}
  /\ besuche \in 0..MaxBesuche /\ aenderungen \in 0..MaxAenderungen
  /\ tipps \in 0..MaxTipps /\ gezeichnet \in 0..MaxZeichnen
  /\ fehlgriff \in {"nein", "anderes", "neu"}
\* While the menu is under way nothing is there; a category under way has
\* not been folded in, so it is counted once.
LadeForm ==
  /\ Kategorien \in Seq(DOMAIN karte) /\ EinmalAlle(Kategorien)
  /\ DOMAIN geladen \subseteq ToSet(Kategorien)
  /\ \A k \in DOMAIN geladen : geladen[k] \subseteq Items(karte, k)
  /\ \/ gefragt = {0} /\ Kategorien = <<>> /\ sections = <<>>
     \/ gefragt \subseteq ToSet(Kategorien) \ DOMAIN geladen
\* Sections are there only when every category has been folded in.
LeereTafel == sections = <<>> /\ zelle = <<>> /\ cellIndexPathSection = 0
VolleTafel ==
  /\ DOMAIN geladen = ToSet(Kategorien) /\ Kategorien # <<>>
  /\ Blatt(sections, Kategorien, karte)
  /\ DOMAIN zelle = DOMAIN Kategorien
  /\ \A s \in DOMAIN Kategorien : Blatt(zelle[s], Kategorien, karte)
  /\ cellIndexPathSection \in DOMAIN Kategorien
TafelForm == LeereTafel \/ VolleTafel

SeiteInv == DatenForm /\ ZaehlerForm /\ LadeForm /\ TafelForm

LEMMA KarteForm ==
  ASSUME DatenForm
  PROVE  /\ karte \in Seq(Seq(Nat)) /\ Len(karte) \in Nat
         /\ DOMAIN karte = 1..Len(karte) /\ 0 \notin DOMAIN karte
<1>1. karte \in Seq(Seq(Nat))
  BY KartenAnnahme DEF DatenForm
<1> QED BY <1>1

LEMMA ItemAusKarte ==
  ASSUME NEW k \in DOMAIN karte
  PROVE  Items(karte, k) \subseteq Item
BY DEF Item

LEMMA NotierteForm ==
  ASSUME DatenForm, LadeForm
  PROVE  /\ Kategorien \in Seq(Nat) /\ DOMAIN Kategorien = 1..Len(Kategorien)
         /\ \A j \in DOMAIN Kategorien : Kategorien[j] \in DOMAIN karte
         /\ ToSet(Kategorien) \subseteq DOMAIN karte
<1>1. DOMAIN karte = 1..Len(karte) /\ Len(karte) \in Nat
  BY KarteForm
<1>2. Kategorien \in Seq(1..Len(karte))
  BY <1>1 DEF LadeForm
<1>3. /\ Kategorien \in Seq(Nat) /\ DOMAIN Kategorien = 1..Len(Kategorien)
      /\ \A j \in DOMAIN Kategorien : Kategorien[j] \in 1..Len(karte)
  BY <1>1, <1>2
<1> QED BY <1>1, <1>3 DEF ToSet

\* With sections on the page no answer is under way.
LEMMA NichtsUnterwegs ==
  ASSUME DatenForm, LadeForm, VolleTafel
  PROVE  gefragt = {} /\ sections # <<>> /\ DOMAIN sections = DOMAIN Kategorien
<1>1. DOMAIN Kategorien = 1..Len(Kategorien) /\ Kategorien \in Seq(Nat)
  BY NotierteForm
<1>2. DOMAIN sections = DOMAIN Kategorien
  BY DEF VolleTafel, Blatt
<1>3. DOMAIN Kategorien # {}
  BY <1>1 DEF VolleTafel
<1>4. sections # <<>>
  BY <1>2, <1>3
<1> QED BY <1>2, <1>4 DEF VolleTafel, LadeForm

\* A new page.
LEMMA NeuForm ==
  ASSUME SeiteInv, speisekartebearbeiten
  PROVE  SeiteInv'
<1> USE DEF SeiteInv
<1>1. DatenForm'
  BY DEF speisekartebearbeiten, datenbank, DatenForm, Item
<1>2. ZaehlerForm'
  BY ProdukteMaxAnnahme DEF speisekartebearbeiten, ZaehlerForm, datenbank
<1>3. LadeForm'
  <2>1. <<>> \in Seq(DOMAIN karte) /\ DOMAIN <<>> = {}
    OBVIOUS
  <2> QED BY <2>1 DEF speisekartebearbeiten, LadeForm, datenbank, EinmalAlle, NeueSeite
<1>4. TafelForm'
  BY DEF speisekartebearbeiten, TafelForm, LeereTafel, NeueSeite
<1> QED BY <1>1, <1>2, <1>3, <1>4

LEMMA FertigForm ==
  ASSUME SeiteInv, fertigTapped
  PROVE  SeiteInv'
<1> USE DEF SeiteInv, fertigTapped, datenbank, laden, tafel
<1>1. DatenForm'
  BY DEF DatenForm, Item
<1>2. ZaehlerForm'
  BY DEF ZaehlerForm
<1>3. LadeForm'
  BY DEF LadeForm
<1>4. TafelForm'
  BY DEF TafelForm, LeereTafel, VolleTafel
<1> QED BY <1>1, <1>2, <1>3, <1>4

LEMMA MenueForm ==
  ASSUME SeiteInv, getKategorien
  PROVE  SeiteInv'
<1> USE DEF SeiteInv, getKategorien, datenbank, tafel
<1>1. DatenForm'
  BY DEF DatenForm, Item
<1>2. ZaehlerForm'
  BY DEF ZaehlerForm
<1>3. gefragt = {0} /\ Kategorien = <<>> /\ sections = <<>>
  <2>1. 0 \notin ToSet(Kategorien)
    BY KarteForm, NotierteForm
  <2> QED BY <2>1 DEF LadeForm
<1>4. DOMAIN geladen = {}
  BY <1>3 DEF LadeForm, ToSet
<1>5. LadeForm'
  <2>1. Len(karte) \in Nat /\ DOMAIN karte = 1..Len(karte)
    BY KarteForm
  <2>2. Kategorien' \in Seq(DOMAIN karte) /\ EinmalAlle(Kategorien)'
    BY <2>1, UebrigForm
  <2> QED BY <1>4, <2>2 DEF LadeForm
<1>6. TafelForm'
  BY <1>3 DEF TafelForm, LeereTafel, VolleTafel
<1> QED BY <1>1, <1>2, <1>5, <1>6

\* What the answer for category k leaves in the page's dictionaries.
LEMMA AntwortLaden ==
  ASSUME SeiteInv, NEW k, getUnterKategorienItems(k)
  PROVE  /\ k \in ToSet(Kategorien) /\ k \notin DOMAIN geladen /\ LeereTafel
         /\ DOMAIN geladen' \subseteq ToSet(Kategorien)
         /\ gefragt' \subseteq ToSet(Kategorien) \ DOMAIN geladen'
         /\ \A c \in DOMAIN geladen' :
              \/ c = k /\ geladen'[c] = verfuegbar \cap Items(karte, k)
              \/ c # k /\ c \in DOMAIN geladen /\ geladen'[c] = geladen[c]
         /\ AlleDa(geladen') => DOMAIN geladen' = ToSet(Kategorien)
<1> DEFINE neu == [c \in DOMAIN geladen \cup {k} |->
                     IF c = k THEN verfuegbar \cap Items(karte, k)
                     ELSE geladen[c]]
<1>1. /\ k \in gefragt \ {0} /\ gefragt' = gefragt \ {k}
      /\ geladen' = geladen \/ geladen' = neu
  BY DEF getUnterKategorienItems
<1>2. gefragt \subseteq ToSet(Kategorien) \ DOMAIN geladen
  BY <1>1 DEF SeiteInv, LadeForm
<1>3. LeereTafel
  BY <1>1, NichtsUnterwegs DEF SeiteInv, TafelForm
<1>4. DOMAIN neu = DOMAIN geladen \cup {k}
  OBVIOUS
<1>4a. ASSUME NEW c \in DOMAIN neu
       PROVE  \/ c = k /\ neu[c] = verfuegbar \cap Items(karte, k)
              \/ c # k /\ c \in DOMAIN geladen /\ neu[c] = geladen[c]
  <2>1. c \in DOMAIN geladen \cup {k}
    BY <1>4
  <2> QED BY <2>1
<1> HIDE DEF neu
<1>5. DOMAIN geladen' \subseteq ToSet(Kategorien)
  BY <1>1, <1>2, <1>4 DEF SeiteInv, LadeForm
<1>6. gefragt' \subseteq ToSet(Kategorien) \ DOMAIN geladen'
  BY <1>1, <1>2, <1>4
<1>7. ASSUME NEW c \in DOMAIN geladen'
      PROVE  \/ c = k /\ geladen'[c] = verfuegbar \cap Items(karte, k)
             \/ c # k /\ c \in DOMAIN geladen /\ geladen'[c] = geladen[c]
  BY <1>1, <1>2, <1>4a
<1>8. AlleDa(geladen') => DOMAIN geladen' = ToSet(Kategorien)
  <2> HAVE AlleDa(geladen')
  <2>1. Kategorien \in Seq(Nat) /\ EinmalAlle(Kategorien)
    BY NotierteForm DEF SeiteInv, LadeForm
  <2> DEFINE D == DOMAIN geladen'
  <2>2. Cardinality(D) = Len(Kategorien) /\ D \subseteq ToSet(Kategorien)
    BY <1>5 DEF AlleDa
  <2>3. D = ToSet(Kategorien)
    <3> HIDE DEF D
    <3> QED BY <2>1, <2>2, AlleNotierten
  <2> QED BY <2>3
<1> QED BY <1>1, <1>2, <1>3, <1>5, <1>6, <1>7, <1>8

\* The sections made of the dictionaries: all closed.
LEMMA SectionsForm ==
  ASSUME DatenForm, LadeForm, NEW g, DOMAIN g = ToSet(Kategorien),
         \A k \in DOMAIN g : g[k] \subseteq Items(karte, k)
  PROVE  /\ Blatt(Sections(g), Kategorien, karte)
         /\ DOMAIN Sections(g) = DOMAIN Kategorien
         /\ \A j \in DOMAIN Kategorien :
              /\ Sections(g)[j].kat = Kategorien[j]
              /\ Sections(g)[j].items = ItemsNachUnterkategorie(karte, Kategorien[j])
              /\ Sections(g)[j].an = g[Kategorien[j]]
              /\ Sections(g)[j].expanded = FALSE
<1>1. DOMAIN Sections(g) = DOMAIN Kategorien
      /\ Sections(g) = [j \in DOMAIN Kategorien |-> Sections(g)[j]]
  BY DEF Sections
<1>2. ASSUME NEW j \in DOMAIN Kategorien
      PROVE  /\ Sections(g)[j] \in Abschnittsform(Kategorien[j], karte)
             /\ Sections(g)[j].kat = Kategorien[j]
             /\ Sections(g)[j].items = ItemsNachUnterkategorie(karte, Kategorien[j])
             /\ Sections(g)[j].an = g[Kategorien[j]]
             /\ Sections(g)[j].expanded = FALSE
  <2>1. g[Kategorien[j]] \subseteq Items(karte, Kategorien[j])
    BY DEF ToSet
  <2> QED BY <2>1 DEF Sections, Abschnittsform
<1> QED BY <1>1, <1>2 DEF Blatt

LEMMA AntwortForm ==
  ASSUME SeiteInv, NEW k, getUnterKategorienItems(k)
  PROVE  SeiteInv'
<1>0. DatenForm /\ ZaehlerForm /\ LadeForm /\ TafelForm
  BY DEF SeiteInv
<1>1. DatenForm'
  BY <1>0 DEF getUnterKategorienItems, datenbank, DatenForm, Item
<1>2. ZaehlerForm'
  BY <1>0 DEF getUnterKategorienItems, datenbank, ZaehlerForm
<1>3. UNCHANGED <<karte, Kategorien>>
  BY DEF getUnterKategorienItems, datenbank
<1>4. /\ LeereTafel
      /\ DOMAIN geladen' \subseteq ToSet(Kategorien)
      /\ gefragt' \subseteq ToSet(Kategorien) \ DOMAIN geladen'
      /\ AlleDa(geladen') => DOMAIN geladen' = ToSet(Kategorien)
  BY AntwortLaden
<1>5. \A c \in DOMAIN geladen' : geladen'[c] \subseteq Items(karte, c)
  <2>1. \A c \in DOMAIN geladen' :
              \/ c = k /\ geladen'[c] = verfuegbar \cap Items(karte, k)
              \/ c # k /\ c \in DOMAIN geladen /\ geladen'[c] = geladen[c]
    BY AntwortLaden
  <2> QED BY <1>0, <2>1 DEF LadeForm
<1>6. LadeForm'
  BY <1>0, <1>3, <1>4, <1>5 DEF LadeForm
<1>7. TafelForm'
  <2>1. CASE UNCHANGED tafel
    BY <1>4, <2>1 DEF TafelForm, LeereTafel, tafel
  <2>2. CASE /\ AlleDa(geladen')
             /\ sections' = Sections(geladen')
             /\ zelle' = [j \in DOMAIN Sections(geladen') |-> Sections(geladen')]
             /\ cellIndexPathSection' = Len(Sections(geladen'))
    <3> DEFINE g == geladen'
               neue == Sections(g)
    <3>1. DOMAIN g = ToSet(Kategorien)
      BY <1>4, <2>2
    <3>2. Blatt(neue, Kategorien, karte) /\ DOMAIN neue = DOMAIN Kategorien
      <4>1. \A c \in DOMAIN g : g[c] \subseteq Items(karte, c)
        BY <1>5
      <4> HIDE DEF g
      <4> QED BY <1>0, <3>1, <4>1, SectionsForm
    <3>3. DOMAIN Kategorien = 1..Len(Kategorien) /\ Kategorien \in Seq(Nat)
      BY <1>0, NotierteForm
    <3>4. Kategorien # <<>>
      <4>1. k \in ToSet(Kategorien)
        BY AntwortLaden
      <4> QED BY <4>1 DEF ToSet
    <3>5. Len(Kategorien) \in DOMAIN Kategorien
      BY <3>3, <3>4
    <3>6. Len(neue) = Len(Kategorien)
      <4>1. neue \in [1..Len(Kategorien) -> {neue[j] : j \in DOMAIN Kategorien}]
        BY <3>2, <3>3 DEF Blatt
      <4>2. Len(Kategorien) \in Nat
        BY <3>3
      <4> HIDE DEF neue
      <4> QED BY <4>1, <4>2, FolgeAusFunktion
    <3>7. /\ sections' = neue
          /\ zelle' = [j \in DOMAIN neue |-> neue]
          /\ cellIndexPathSection' = Len(neue)
      BY <2>2
    <3>8. VolleTafel'
      <4> HIDE DEF neue
      <4>1. DOMAIN zelle' = DOMAIN Kategorien
            /\ \A s \in DOMAIN Kategorien : zelle'[s] = neue
        BY <3>2, <3>7
      <4>2. Blatt(sections', Kategorien, karte)
            /\ \A s \in DOMAIN Kategorien : Blatt(zelle'[s], Kategorien, karte)
        BY <3>2, <3>7, <4>1
      <4>3. cellIndexPathSection' \in DOMAIN Kategorien
        BY <3>5, <3>6, <3>7
      <4> QED BY <1>3, <3>1, <3>4, <4>1, <4>2, <4>3 DEF VolleTafel
    <3> QED BY <3>8 DEF TafelForm
  <2> QED BY <2>1, <2>2 DEF getUnterKategorienItems
<1> QED BY <1>1, <1>2, <1>6, <1>7 DEF SeiteInv

(***************************************************************************)
(* The table.                                                              *)
(***************************************************************************)

\* Sections for the page that have the form leave the table in form when
\* a cell is drawn with them.
LEMMA ZeichneForm ==
  ASSUME VolleTafel, NEW s \in DOMAIN Kategorien, Zeichne(s),
         Blatt(sections', Kategorien, karte),
         UNCHANGED <<karte, Kategorien, geladen>>
  PROVE  VolleTafel'
<1>1. zelle' = [zelle EXCEPT ![s] = sections'] /\ cellIndexPathSection' = s
  BY DEF Zeichne
<1>2. DOMAIN zelle' = DOMAIN Kategorien
      /\ \A t \in DOMAIN Kategorien : zelle'[t] = zelle[t] \/ zelle'[t] = sections'
  BY <1>1 DEF VolleTafel
<1>3. \A t \in DOMAIN Kategorien : Blatt(zelle'[t], Kategorien, karte)
  BY <1>2 DEF VolleTafel
<1> QED BY <1>1, <1>2, <1>3 DEF VolleTafel

LEMMA VolleTafelDa ==
  ASSUME SeiteInv, NEW s \in DOMAIN sections
  PROVE  /\ VolleTafel /\ DOMAIN sections = DOMAIN Kategorien
         /\ s \in DOMAIN Kategorien
<1>1. ~LeereTafel
  BY DEF LeereTafel
<1> QED BY <1>1, NichtsUnterwegs DEF SeiteInv, TafelForm

LEMMA InsBildForm ==
  ASSUME SeiteInv, NEW s, InsBild(s)
  PROVE  SeiteInv'
<1> USE DEF datenbank, laden
<1>0. DatenForm /\ ZaehlerForm /\ LadeForm /\ TafelForm
  BY DEF SeiteInv
<1>1. DatenForm'
  BY <1>0 DEF InsBild, DatenForm, Item
<1>2. ZaehlerForm'
  BY <1>0, ProdukteMaxAnnahme DEF InsBild, ZaehlerForm
<1>3. LadeForm'
  BY <1>0 DEF InsBild, LadeForm
<1>4. VolleTafel /\ s \in DOMAIN Kategorien
  BY VolleTafelDa DEF InsBild
<1>5. Blatt(sections', Kategorien, karte)
  BY <1>4 DEF InsBild, VolleTafel
<1>6. VolleTafel'
  BY <1>4, <1>5, ZeichneForm DEF InsBild
<1> QED BY <1>1, <1>2, <1>3, <1>6 DEF SeiteInv, TafelForm

\* Two sections of the same form have the same items on; at most one is
\* open; the same ones are open.
Gleiche(p, q, K) == \A j \in DOMAIN K : p[j].an = q[j].an
NurOffen(p, K, s) == \A j \in DOMAIN K : p[j].expanded => j = s
GleichOffen(p, q, K) == \A j \in DOMAIN K : p[j].expanded = q[j].expanded

\* The sections after a tap on a header.
Umgeschaltet(q, s) ==
  [j \in DOMAIN q |-> [q[j] EXCEPT !.expanded = j = s /\ ~@]]

LEMMA UmgeschaltetBlatt ==
  ASSUME NEW K, NEW m, NEW q, Blatt(q, K, m), NEW s
  PROVE  /\ Blatt(Umgeschaltet(q, s), K, m)
         /\ Gleiche(Umgeschaltet(q, s), q, K)
         /\ NurOffen(Umgeschaltet(q, s), K, s)
<1> DEFINE p == Umgeschaltet(q, s)
<1>1. DOMAIN q = DOMAIN K
  BY DEF Blatt
<1>2. p = [j \in DOMAIN K |-> p[j]]
  BY <1>1 DEF Umgeschaltet
<1>3. ASSUME NEW j \in DOMAIN K
      PROVE  p[j] \in Abschnittsform(K[j], m) /\ p[j].an = q[j].an
             /\ (p[j].expanded => j = s)
  <2>1. q[j] \in Abschnittsform(K[j], m)
    BY DEF Blatt
  <2> DEFINE x == q[j]
             b == j = s /\ ~x.expanded
  <2>2. b \in BOOLEAN /\ (b => j = s)
    OBVIOUS
  <2>3. p[j] = [x EXCEPT !.expanded = b]
    BY <1>1 DEF Umgeschaltet
  <2> HIDE DEF x, b, p
  <2>4. x \in Abschnittsform(K[j], m)
    BY <2>1 DEF x
  <2>5. [x EXCEPT !.expanded = b] \in Abschnittsform(K[j], m)
        /\ [x EXCEPT !.expanded = b].an = x.an
        /\ [x EXCEPT !.expanded = b].expanded = b
    BY <2>2, <2>4 DEF Abschnittsform
  <2> QED BY <2>2, <2>3, <2>5 DEF x
<1> HIDE DEF p
<1>4. Blatt(p, K, m) /\ Gleiche(p, q, K) /\ NurOffen(p, K, s)
  BY <1>2, <1>3 DEF Blatt, Gleiche, NurOffen
<1> QED BY <1>4 DEF p

LEMMA KopfForm ==
  ASSUME SeiteInv, NEW s, toggleSectionKategorie(s)
  PROVE  SeiteInv'
<1> USE DEF datenbank, laden
<1>0. DatenForm /\ ZaehlerForm /\ LadeForm /\ TafelForm
  BY DEF SeiteInv
<1>1. DatenForm'
  BY <1>0 DEF toggleSectionKategorie, DatenForm, Item
<1>2. ZaehlerForm'
  BY <1>0 DEF toggleSectionKategorie, ZaehlerForm
<1>4. VolleTafel /\ s \in DOMAIN Kategorien /\ sections # <<>>
  BY VolleTafelDa DEF toggleSectionKategorie
<1>3. LadeForm'
  BY <1>0, <1>4 DEF toggleSectionKategorie, LadeForm, VolleTafel
<1>5. Blatt(sections', Kategorien, karte)
  <2>1. sections' = Umgeschaltet(sections, s)
    BY DEF toggleSectionKategorie, Umgeschaltet
  <2>2. Blatt(sections, Kategorien, karte)
    BY <1>4 DEF VolleTafel
  <2> QED BY <2>1, <2>2, UmgeschaltetBlatt
<1>6. VolleTafel'
  BY <1>4, <1>5, ZeichneForm DEF toggleSectionKategorie
<1> QED BY <1>1, <1>2, <1>3, <1>6 DEF SeiteInv, TafelForm

\* The copy of a cell after a tap on subcategory u of its section s.
Aufgeklappt(q, s, u) ==
  [q EXCEPT ![s].expanded2 = [v \in DOMAIN @ |-> v = u /\ ~@[v]]]

LEMMA AufgeklapptBlatt ==
  ASSUME NEW K, NEW m, NEW q, Blatt(q, K, m), NEW s \in DOMAIN K, NEW u
  PROVE  /\ Blatt(Aufgeklappt(q, s, u), K, m)
         /\ Gleiche(Aufgeklappt(q, s, u), q, K)
         /\ GleichOffen(Aufgeklappt(q, s, u), q, K)
<1> DEFINE p == Aufgeklappt(q, s, u)
           x == q[s]
           e == [v \in DOMAIN x.expanded2 |-> v = u /\ ~x.expanded2[v]]
<1>1. DOMAIN q = DOMAIN K
  BY DEF Blatt
<1>2. p = [j \in DOMAIN K |-> p[j]]
  BY <1>1 DEF Aufgeklappt
<1>3. x \in Abschnittsform(K[s], m)
  BY DEF Blatt
<1>4. e \in [DOMAIN m[K[s]] -> BOOLEAN]
  <2>1. x.expanded2 \in [DOMAIN m[K[s]] -> BOOLEAN]
    BY <1>3 DEF Abschnittsform
  <2> HIDE DEF x
  <2> QED BY <2>1
<1>5. p[s] = [x EXCEPT !.expanded2 = e]
  BY <1>1 DEF Aufgeklappt
<1>6. \A j \in DOMAIN K : j # s => p[j] = q[j]
  BY <1>1 DEF Aufgeklappt
<1> HIDE DEF p, e
<1>7. p[s] \in Abschnittsform(K[s], m) /\ p[s].an = q[s].an
      /\ p[s].expanded = q[s].expanded
  <2>1. /\ [x EXCEPT !.expanded2 = e] \in Abschnittsform(K[s], m)
        /\ [x EXCEPT !.expanded2 = e].an = x.an
        /\ [x EXCEPT !.expanded2 = e].expanded = x.expanded
    <3> HIDE DEF x
    <3> QED BY <1>3, <1>4 DEF Abschnittsform
  <2> QED BY <1>5, <2>1
<1>8. ASSUME NEW j \in DOMAIN K
      PROVE  p[j] \in Abschnittsform(K[j], m) /\ p[j].an = q[j].an
             /\ p[j].expanded = q[j].expanded
  BY <1>6, <1>7 DEF Blatt
<1>9. Blatt(p, K, m) /\ Gleiche(p, q, K) /\ GleichOffen(p, q, K)
  BY <1>2, <1>8 DEF Blatt, Gleiche, GleichOffen
<1> QED BY <1>9 DEF p

\* The sections after a tap on item it of section c.
Geschaltet(q, c, it) ==
  [q EXCEPT ![c].an = IF it \in @ THEN @ \ {it} ELSE @ \cup {it}]

NurGeschaltet(p, q, K, c, it) ==
  /\ p[c].an = IF it \in q[c].an THEN q[c].an \ {it} ELSE q[c].an \cup {it}
  /\ \A j \in DOMAIN K : j # c => p[j].an = q[j].an

LEMMA GeschaltetBlatt ==
  ASSUME NEW K, NEW m, NEW q, Blatt(q, K, m), NEW c \in DOMAIN K,
         NEW it \in Items(m, K[c])
  PROVE  /\ Blatt(Geschaltet(q, c, it), K, m)
         /\ NurGeschaltet(Geschaltet(q, c, it), q, K, c, it)
         /\ GleichOffen(Geschaltet(q, c, it), q, K)
<1> DEFINE p == Geschaltet(q, c, it)
           x == q[c]
           e == IF it \in x.an THEN x.an \ {it} ELSE x.an \cup {it}
<1>1. DOMAIN q = DOMAIN K
  BY DEF Blatt
<1>2. p = [j \in DOMAIN K |-> p[j]]
  BY <1>1 DEF Geschaltet
<1>3. x \in Abschnittsform(K[c], m)
  BY DEF Blatt
<1>4. e \in SUBSET Items(m, K[c])
  <2>1. x.an \in SUBSET Items(m, K[c])
    BY <1>3 DEF Abschnittsform
  <2> HIDE DEF x
  <2> QED BY <2>1
<1>5. p[c] = [x EXCEPT !.an = e]
  BY <1>1 DEF Geschaltet
<1>6. \A j \in DOMAIN K : j # c => p[j] = q[j]
  BY <1>1 DEF Geschaltet
<1>7. p[c] \in Abschnittsform(K[c], m) /\ p[c].an = e
      /\ p[c].expanded = q[c].expanded
  <2>1. /\ [x EXCEPT !.an = e] \in Abschnittsform(K[c], m)
        /\ [x EXCEPT !.an = e].an = e
        /\ [x EXCEPT !.an = e].expanded = x.expanded
    <3> HIDE DEF x, e
    <3> QED BY <1>3, <1>4 DEF Abschnittsform
  <2> HIDE DEF p, e
  <2> QED BY <1>5, <2>1
<1> HIDE DEF p
<1>8. ASSUME NEW j \in DOMAIN K
      PROVE  p[j] \in Abschnittsform(K[j], m) /\ (j # c => p[j].an = q[j].an)
             /\ p[j].expanded = q[j].expanded
  <2> HIDE DEF e
  <2> QED BY <1>6, <1>7 DEF Blatt
<1>9. Blatt(p, K, m)
  BY <1>2, <1>8 DEF Blatt
<1> QED BY <1>7, <1>8, <1>9 DEF p, NurGeschaltet, GleichOffen

LEMMA UnterForm ==
  ASSUME SeiteInv, NEW s, NEW u, toggleUnterkategorie(s, u)
  PROVE  SeiteInv'
<1> USE DEF datenbank, laden
<1>0. DatenForm /\ ZaehlerForm /\ LadeForm /\ TafelForm
  BY DEF SeiteInv
<1>4. VolleTafel /\ s \in DOMAIN Kategorien /\ sections # <<>>
      /\ DOMAIN sections = DOMAIN Kategorien
  BY VolleTafelDa DEF toggleUnterkategorie
<1>1. DatenForm'
  <2>1. \A j \in DOMAIN sections : sections[j].kat \in DOMAIN karte
    <3>1. \A j \in DOMAIN sections : sections[j].kat = Kategorien[j]
      BY <1>4 DEF VolleTafel, Blatt, Abschnittsform
    <3> QED BY <1>0, <1>4, <3>1, NotierteForm
  <2>2. \A j \in DOMAIN sections : Items(karte, sections[j].kat) \subseteq Item
    BY <2>1, ItemAusKarte
  <2> DEFINE R == UNION {{it \in Items(karte, sections[j].kat) :
                            it \in sections[j].an <=> it \notin zelle[s][j].an} :
                         j \in DOMAIN sections}
  <2>3. R \subseteq Item
    BY <2>2
  <2>4. beruehrt' = beruehrt \cup R /\ UNCHANGED <<karte, gestrichen, verfuegbar>>
    BY DEF toggleUnterkategorie
  <2> HIDE DEF R
  <2>5. Item' = Item
    BY <2>4 DEF Item
  <2> QED BY <1>0, <2>3, <2>4, <2>5 DEF DatenForm
<1>2. ZaehlerForm'
  BY <1>0 DEF toggleUnterkategorie, ZaehlerForm
<1>3. LadeForm'
  BY <1>0, <1>4 DEF toggleUnterkategorie, LadeForm, VolleTafel
<1>5. Blatt(sections', Kategorien, karte)
  <2>1. sections' = Aufgeklappt(zelle[s], s, u)
    BY DEF toggleUnterkategorie, Aufgeklappt
  <2>2. Blatt(zelle[s], Kategorien, karte)
    BY <1>4 DEF VolleTafel
  <2> QED BY <1>4, <2>1, <2>2, AufgeklapptBlatt
<1>6. VolleTafel'
  BY <1>4, <1>5, ZeichneForm DEF toggleUnterkategorie
<1> QED BY <1>1, <1>2, <1>3, <1>6 DEF SeiteInv, TafelForm

\* The place a tap takes in the section drawn last, and the item there.
Ziel == sections[cellIndexPathSection]
ZielDa(u, i) == u \in DOMAIN Ziel.items /\ i \in DOMAIN Ziel.items[u]
ZielItem(u, i) == Ziel.items[u][i]
ImMenue(u, i) == ZielItem(u, i)[2] = u /\ Ziel.kat \notin gestrichen

LEMMA TippSchritt ==
  ASSUME NEW s, NEW u, NEW i, verfuegbarBtnTapped(s, u, i)
  PROVE  \/ /\ ~ZielDa(u, i) /\ falle' = "index"
            /\ UNCHANGED <<sections, verfuegbar, beruehrt, fehlgriff>>
         \/ /\ ZielDa(u, i) /\ UNCHANGED falle
            /\ sections' = Geschaltet(sections, cellIndexPathSection, ZielItem(u, i))
            /\ verfuegbar' =
                 IF ~ImMenue(u, i) THEN verfuegbar
                 ELSE IF ZielItem(u, i) \in Ziel.an THEN verfuegbar \ {ZielItem(u, i)}
                 ELSE verfuegbar \cup {ZielItem(u, i)}
            /\ beruehrt' = IF ImMenue(u, i) THEN beruehrt
                           ELSE beruehrt \cup {ZielItem(u, i)}
            /\ fehlgriff' =
                 IF ~ImMenue(u, i) THEN "neu"
                 ELSE IF ZielItem(u, i) # zelle[s][s].items[u][i] THEN "anderes"
                 ELSE fehlgriff
BY DEF verfuegbarBtnTapped, Schalte, Geschaltet, Ziel, ZielDa, ZielItem, ImMenue

LEMMA ZielForm ==
  ASSUME DatenForm, LadeForm, VolleTafel, NEW u, NEW i, ZielDa(u, i)
  PROVE  /\ Ziel.kat = Kategorien[cellIndexPathSection]
         /\ Kategorien[cellIndexPathSection] \in DOMAIN karte
         /\ ZielItem(u, i) \in Items(karte, Kategorien[cellIndexPathSection])
         /\ ZielItem(u, i) \in Item
<1> DEFINE c == cellIndexPathSection
           k == Kategorien[c]
           X == ItemsNachUnterkategorie(karte, k)
<1>1. c \in DOMAIN Kategorien
  BY DEF VolleTafel
<1>2. k \in DOMAIN karte
  BY <1>1, NotierteForm
<1>3. Ziel.kat = k /\ Ziel.items = X
  BY <1>1 DEF VolleTafel, Blatt, Abschnittsform, Ziel
<1>4. X \in Seq(Seq(Items(karte, k)))
  BY <1>2, KarteForm, AufbauTyp
<1>5. u \in DOMAIN X /\ i \in DOMAIN X[u] /\ ZielItem(u, i) = X[u][i]
  BY <1>3 DEF ZielDa, ZielItem
<1> HIDE DEF X, k
<1>6. X[u] \in Seq(Items(karte, k))
  BY <1>4, <1>5
<1>7. X[u][i] \in Items(karte, k)
  BY <1>5, <1>6
<1>8. Items(karte, k) \subseteq Item
  BY <1>2, ItemAusKarte
<1> QED BY <1>2, <1>3, <1>5, <1>7, <1>8 DEF k

LEMMA TippForm ==
  ASSUME SeiteInv, NEW s, NEW u, NEW i, verfuegbarBtnTapped(s, u, i)
  PROVE  SeiteInv'
<1>0. DatenForm /\ ZaehlerForm /\ LadeForm /\ TafelForm
  BY DEF SeiteInv
<1>1. VolleTafel /\ s \in DOMAIN Kategorien /\ sections # <<>>
  BY VolleTafelDa DEF verfuegbarBtnTapped
<1>2. /\ UNCHANGED <<karte, gestrichen, aenderungen, offen, gefragt, Kategorien, geladen,
                     zelle, cellIndexPathSection, besuche, gezeichnet>>
      /\ tipps < MaxTipps /\ tipps' = tipps + 1
  BY DEF verfuegbarBtnTapped, laden
<1>3. LadeForm'
  BY <1>0, <1>1, <1>2 DEF LadeForm, VolleTafel
<1>4. Item' = Item
  BY <1>2 DEF Item
<1>5. CASE ~ZielDa(u, i)
  <2>1. falle' = "index" /\ UNCHANGED <<sections, verfuegbar, beruehrt, fehlgriff>>
    BY <1>5, TippSchritt
  <2>2. DatenForm'
    BY <1>0, <1>2, <1>4, <2>1 DEF DatenForm
  <2>3. ZaehlerForm'
    BY <1>0, <1>2, <2>1, ProdukteMaxAnnahme DEF ZaehlerForm
  <2>4. VolleTafel'
    BY <1>1, <1>2, <2>1 DEF VolleTafel
  <2> QED BY <1>3, <2>2, <2>3, <2>4 DEF SeiteInv, TafelForm
<1>6. CASE ZielDa(u, i)
  <2> DEFINE it == ZielItem(u, i)
             c == cellIndexPathSection
  <2>1. /\ UNCHANGED falle
        /\ sections' = Geschaltet(sections, c, it)
        /\ verfuegbar' \subseteq verfuegbar \cup {it}
        /\ beruehrt' \subseteq beruehrt \cup {it}
        /\ fehlgriff' \in {"neu", "anderes", fehlgriff}
    BY <1>6, TippSchritt
  <2>2. it \in Items(karte, Kategorien[c]) /\ it \in Item
    BY <1>0, <1>1, <1>6, ZielForm
  <2>3. c \in DOMAIN Kategorien /\ Blatt(sections, Kategorien, karte)
    BY <1>1 DEF VolleTafel
  <2> HIDE DEF it
  <2>4. DatenForm'
    BY <1>0, <1>2, <1>4, <2>1, <2>2 DEF DatenForm
  <2>5. ZaehlerForm'
    BY <1>0, <1>2, <2>1, ProdukteMaxAnnahme DEF ZaehlerForm
  <2>6. Blatt(sections', Kategorien, karte)
    <3> HIDE DEF c
    <3> QED BY <2>1, <2>2, <2>3, GeschaltetBlatt
  <2>7. VolleTafel'
    BY <1>1, <1>2, <2>6 DEF VolleTafel
  <2> QED BY <1>3, <2>4, <2>5, <2>7 DEF SeiteInv, TafelForm
<1> QED BY <1>5, <1>6

LEMMA FremdSchaltenForm ==
  ASSUME SeiteInv, NEW it, FremdSchalten(it)
  PROVE  SeiteInv'
<1> USE DEF laden, tafel
<1>0. DatenForm /\ ZaehlerForm /\ LadeForm /\ TafelForm
  BY DEF SeiteInv
<1>1. DatenForm'
  <2>1. Item' = Item
    BY DEF FremdSchalten, Item
  <2>2. it \in Item /\ verfuegbar' \subseteq verfuegbar \cup {it}
        /\ beruehrt' = beruehrt \cup {it} /\ UNCHANGED <<karte, gestrichen>>
    BY DEF FremdSchalten
  <2> QED BY <1>0, <2>1, <2>2 DEF DatenForm
<1>2. ZaehlerForm'
  BY <1>0, ProdukteMaxAnnahme DEF FremdSchalten, ZaehlerForm
<1>3. LadeForm'
  BY <1>0 DEF FremdSchalten, LadeForm
<1>4. TafelForm'
  BY <1>0 DEF FremdSchalten, TafelForm, LeereTafel, VolleTafel
<1> QED BY <1>1, <1>2, <1>3, <1>4 DEF SeiteInv

LEMMA FremdStreichenForm ==
  ASSUME SeiteInv, NEW k, FremdStreichen(k)
  PROVE  SeiteInv'
<1> USE DEF laden, tafel
<1>0. DatenForm /\ ZaehlerForm /\ LadeForm /\ TafelForm
  BY DEF SeiteInv
<1>1. DatenForm'
  BY <1>0 DEF FremdStreichen, DatenForm, Item
<1>2. ZaehlerForm'
  BY <1>0, ProdukteMaxAnnahme DEF FremdStreichen, ZaehlerForm
<1>3. LadeForm'
  BY <1>0 DEF FremdStreichen, LadeForm
<1>4. TafelForm'
  BY <1>0 DEF FremdStreichen, TafelForm, LeereTafel, VolleTafel
<1> QED BY <1>1, <1>2, <1>3, <1>4 DEF SeiteInv

LEMMA SeiteSchritt ==
  SeiteInv /\ [ProdukteNext]_produkteVars => SeiteInv'
<1> SUFFICES ASSUME SeiteInv, [ProdukteNext]_produkteVars PROVE SeiteInv'
  OBVIOUS
<1>1. CASE UNCHANGED produkteVars
  BY <1>1 DEF produkteVars, datenbank, laden, tafel, SeiteInv, DatenForm, Item,
     ZaehlerForm, LadeForm, TafelForm, LeereTafel, VolleTafel
<1>2. CASE ProdukteNext
  BY <1>2, NeuForm, FertigForm, MenueForm, AntwortForm, InsBildForm, KopfForm,
     UnterForm, TippForm, FremdSchaltenForm, FremdStreichenForm DEF ProdukteNext
<1> QED BY <1>1, <1>2

LEMMA SeiteStart ==
  ProdukteInit => SeiteInv
<1> SUFFICES ASSUME ProdukteInit PROVE SeiteInv
  OBVIOUS
<1>1. DatenForm
  BY DEF ProdukteInit, DatenForm
<1>2. ZaehlerForm
  <2>1. /\ besuche = 0 /\ aenderungen = 0 /\ tipps = 0 /\ gezeichnet = 0
        /\ offen = FALSE /\ falle = "keine" /\ fehlgriff = "nein"
    BY DEF ProdukteInit
  <2>2. 0 \in 0..MaxBesuche /\ 0 \in 0..MaxAenderungen /\ 0 \in 0..MaxTipps
        /\ 0 \in 0..MaxZeichnen
    BY ProdukteMaxAnnahme
  <2> QED BY <2>1, <2>2 DEF ZaehlerForm
<1>3. LadeForm
  <2>1. <<>> \in Seq(DOMAIN karte) /\ DOMAIN <<>> = {}
    OBVIOUS
  <2> QED BY <2>1 DEF ProdukteInit, LadeForm, EinmalAlle
<1>4. TafelForm
  BY DEF ProdukteInit, TafelForm, LeereTafel
<1> QED BY <1>1, <1>2, <1>3, <1>4 DEF SeiteInv

LEMMA SeiteGilt ==
  ProdukteSpec => []SeiteInv
BY SeiteStart, SeiteSchritt, PTL DEF ProdukteSpec

LEMMA SeiteTyp ==
  SeiteInv => ProdukteTypeOK
<1> SUFFICES ASSUME SeiteInv PROVE ProdukteTypeOK
  OBVIOUS
<1>0. DatenForm /\ ZaehlerForm /\ LadeForm /\ TafelForm
  BY DEF SeiteInv
<1>1. /\ karte \in Seq(Seq(Nat)) /\ Kategorien \in Seq(Nat)
      /\ DOMAIN Kategorien = 1..Len(Kategorien)
      /\ \A j \in DOMAIN Kategorien : Kategorien[j] \in DOMAIN karte
      /\ ToSet(Kategorien) \subseteq DOMAIN karte
  BY <1>0, KarteForm, NotierteForm
<1>2. gefragt \subseteq {0} \cup DOMAIN karte
  BY <1>0, <1>1 DEF LadeForm
<1>3. /\ \A j \in DOMAIN sections :
            /\ sections[j].kat \in DOMAIN geladen
            /\ sections[j].an \subseteq Items(karte, sections[j].kat)
            /\ sections[j].expanded \in BOOLEAN
            /\ Len(sections[j].expanded2) = Len(karte[sections[j].kat])
      /\ DOMAIN zelle = DOMAIN sections
      /\ \A j \in DOMAIN zelle : Len(zelle[j]) = Len(sections)
      /\ cellIndexPathSection \in 0..Len(sections)
  <2>1. CASE LeereTafel
    <3>1. DOMAIN <<>> = {} /\ 0 \in 0..Len(<<>>)
      OBVIOUS
    <3> QED BY <2>1, <3>1 DEF LeereTafel
  <2>2. CASE VolleTafel
    <3>1. DOMAIN sections = DOMAIN Kategorien /\ DOMAIN zelle = DOMAIN Kategorien
      BY <2>2 DEF VolleTafel, Blatt
    <3>2. ASSUME NEW j \in DOMAIN sections
          PROVE  /\ sections[j].kat \in DOMAIN geladen
                 /\ sections[j].an \subseteq Items(karte, sections[j].kat)
                 /\ sections[j].expanded \in BOOLEAN
                 /\ Len(sections[j].expanded2) = Len(karte[sections[j].kat])
      <4> DEFINE k == Kategorien[j]
      <4>1. sections[j] \in Abschnittsform(k, karte)
        BY <2>2, <3>1 DEF VolleTafel, Blatt
      <4>2. k \in DOMAIN karte /\ k \in DOMAIN geladen
        BY <1>1, <2>2, <3>1 DEF VolleTafel, ToSet
      <4>3. karte[k] \in Seq(Nat)
        BY <1>1, <4>2
      <4>4. /\ sections[j].kat = k /\ sections[j].an \subseteq Items(karte, k)
            /\ sections[j].expanded \in BOOLEAN
            /\ sections[j].expanded2 \in [DOMAIN karte[k] -> BOOLEAN]
        BY <4>1 DEF Abschnittsform
      <4>5. Len(sections[j].expanded2) = Len(karte[k])
        <5> DEFINE e == sections[j].expanded2
                   n == Len(karte[k])
        <5>1. n \in Nat /\ e \in [1..n -> BOOLEAN]
          BY <4>3, <4>4
        <5>2. Len(e) = n
          <6> HIDE DEF e, n
          <6> QED BY <5>1, FolgeAusFunktion
        <5> QED BY <5>2
      <4> QED BY <4>2, <4>4, <4>5
    <3>3. \A q : Blatt(q, Kategorien, karte) => Len(q) = Len(Kategorien)
      <4> SUFFICES ASSUME NEW q, Blatt(q, Kategorien, karte)
                   PROVE  Len(q) = Len(Kategorien)
        OBVIOUS
      <4> DEFINE n == Len(Kategorien)
      <4>1. q \in [1..n -> {q[j] : j \in 1..n}] /\ n \in Nat
        BY <1>1 DEF Blatt
      <4> HIDE DEF n
      <4>2. Len(q) = n
        BY <4>1, FolgeAusFunktion
      <4> QED BY <4>2 DEF n
    <3>4. Len(sections) = Len(Kategorien)
          /\ \A j \in DOMAIN zelle : Len(zelle[j]) = Len(Kategorien)
      BY <2>2, <3>1, <3>3 DEF VolleTafel
    <3>5. cellIndexPathSection \in 0..Len(sections)
      BY <1>1, <2>2, <3>4 DEF VolleTafel
    <3> QED BY <3>1, <3>2, <3>4, <3>5
  <2> QED BY <1>0, <2>1, <2>2 DEF TafelForm
<1> QED BY <1>0, <1>1, <1>2, <1>3 DEF ProdukteTypeOK, DatenForm, ZaehlerForm, LadeForm

\* The arrays of the menu page, the copies in its cells and the database keep
\* their types, for menus of any shape: what getUnterKategorienItems sorts
\* into the nested arrays (ProdukteVC.swift 108-170) are items of the menu.
THEOREM ProdukteTypKorrekt == ProdukteSpec => []ProdukteTypeOK
BY SeiteGilt, SeiteTyp, PTL

\* If no entry of the menu is empty, the page has every item exactly where the
\* menu has it, for menus of any size and answers in any order, although the
\* page compares only lengths of arrays (ProdukteVC.swift 121-165).
THEOREM LadenKorrekt == ProdukteSpec => []LadenWieKarte
<1>1. ASSUME SeiteInv PROVE LadenWieKarte
  <2> SUFFICES ASSUME Regulaer, NEW j \in DOMAIN sections
               PROVE  sections[j].items =
                        [u \in DOMAIN karte[sections[j].kat] |->
                           [i \in 1..karte[sections[j].kat][u] |->
                              <<sections[j].kat, u, i>>]]
    BY DEF LadenWieKarte
  <2> DEFINE k == Kategorien[j]
  <2>1. VolleTafel /\ j \in DOMAIN Kategorien
    BY <1>1, VolleTafelDa
  <2>2. sections[j].kat = k /\ sections[j].items = ItemsNachUnterkategorie(karte, k)
    BY <2>1 DEF VolleTafel, Blatt, Abschnittsform
  <2>3. k \in DOMAIN karte /\ karte \in Seq(Seq(Nat))
    BY <1>1, <2>1, NotierteForm, KarteForm DEF SeiteInv
  <2>4. \A u \in DOMAIN karte[k] : karte[k][u] > 0
    BY <2>3 DEF Regulaer
  <2> HIDE DEF k
  <2>5. ItemsNachUnterkategorie(karte, k) =
          [u \in DOMAIN karte[k] |-> [i \in 1..karte[k][u] |-> <<k, u, i>>]]
    BY <2>3, <2>4, AufbauWert
  <2> QED BY <2>2, <2>5
<1> QED BY <1>1, SeiteGilt, PTL

(***************************************************************************)
(* Taps.                                                                   *)
(***************************************************************************)

\* Before a cell is drawn for scrolling, only the section drawn last is
\* open, and in the copy of a cell only its own.
NurGezeichnete ==
  /\ \A j \in DOMAIN sections : sections[j].expanded => j = cellIndexPathSection
  /\ \A s \in DOMAIN zelle : \A j \in DOMAIN zelle[s] :
       zelle[s][j].expanded => j = s
OffenInv == gezeichnet = 0 => NurGezeichnete

LEMMA ZeichneOffen ==
  ASSUME VolleTafel, NurGezeichnete, NEW s \in DOMAIN Kategorien, Zeichne(s),
         \A j \in DOMAIN sections' : sections'[j].expanded => j = s
  PROVE  NurGezeichnete'
<1>1. zelle' = [zelle EXCEPT ![s] = sections'] /\ cellIndexPathSection' = s
  BY DEF Zeichne
<1>2. DOMAIN zelle' = DOMAIN zelle /\ zelle'[s] = sections'
      /\ \A t \in DOMAIN zelle : t # s => zelle'[t] = zelle[t]
  BY <1>1 DEF VolleTafel
<1>3. \A t \in DOMAIN zelle' : \A j \in DOMAIN zelle'[t] :
        zelle'[t][j].expanded => j = t
  <2> SUFFICES ASSUME NEW t \in DOMAIN zelle', NEW j \in DOMAIN zelle'[t],
                      zelle'[t][j].expanded
               PROVE  j = t
    OBVIOUS
  <2>1. CASE t = s
    BY <1>2, <2>1
  <2>2. CASE t # s
    BY <1>2, <2>2 DEF NurGezeichnete
  <2> QED BY <2>1, <2>2
<1> QED BY <1>1, <1>3 DEF NurGezeichnete

LEMMA OffenSchritt ==
  SeiteInv /\ OffenInv /\ [ProdukteNext]_produkteVars => OffenInv'
<1> SUFFICES ASSUME SeiteInv, OffenInv, [ProdukteNext]_produkteVars,
                    gezeichnet' = 0
             PROVE  NurGezeichnete'
  BY DEF OffenInv
<1>0. DatenForm /\ ZaehlerForm /\ LadeForm /\ TafelForm
  BY DEF SeiteInv
<1>1. CASE UNCHANGED <<tafel, gezeichnet>>
  BY <1>1 DEF OffenInv, NurGezeichnete, tafel
<1>2. CASE speisekartebearbeiten
  <2>1. sections' = <<>> /\ zelle' = <<>>
    BY <1>2 DEF speisekartebearbeiten, NeueSeite
  <2> QED BY <2>1 DEF NurGezeichnete
<1>3. ASSUME NEW k, getUnterKategorienItems(k)
      PROVE  NurGezeichnete'
  <2>1. CASE UNCHANGED tafel
    <3>1. UNCHANGED gezeichnet
      BY <1>3 DEF getUnterKategorienItems
    <3> QED BY <1>1, <2>1, <3>1
  <2>2. CASE /\ AlleDa(geladen')
             /\ sections' = Sections(geladen')
             /\ zelle' = [j \in DOMAIN Sections(geladen') |-> Sections(geladen')]
    <3> DEFINE g == geladen'
               neue == Sections(g)
    <3>1. \A j \in DOMAIN neue : ~neue[j].expanded
      <4> HIDE DEF g
      <4> QED BY DEF Sections
    <3>2. sections' = neue /\ zelle' = [j \in DOMAIN neue |-> neue]
      BY <2>2
    <3> HIDE DEF neue
    <3> QED BY <3>1, <3>2 DEF NurGezeichnete
  <2> QED BY <1>3, <2>1, <2>2 DEF getUnterKategorienItems
<1>4. ASSUME NEW s, InsBild(s)
      PROVE  NurGezeichnete'
  <2>1. gezeichnet' = gezeichnet + 1 /\ gezeichnet \in 0..MaxZeichnen
    BY <1>0, <1>4 DEF InsBild, ZaehlerForm
  <2> QED BY <2>1, ProdukteMaxAnnahme
<1>5. ASSUME NEW s, toggleSectionKategorie(s)
      PROVE  NurGezeichnete'
  <2>1. VolleTafel /\ s \in DOMAIN Kategorien
    BY <1>5, VolleTafelDa DEF toggleSectionKategorie
  <2>2. NurGezeichnete /\ Zeichne(s)
    BY <1>5 DEF toggleSectionKategorie, OffenInv
  <2>3. sections' = Umgeschaltet(sections, s)
    BY <1>5 DEF toggleSectionKategorie, Umgeschaltet
  <2>4. Blatt(sections, Kategorien, karte)
    BY <2>1 DEF VolleTafel
  <2>5. \A j \in DOMAIN Kategorien : sections'[j].expanded => j = s
    <3>1. NurOffen(Umgeschaltet(sections, s), Kategorien, s)
      BY <2>4, UmgeschaltetBlatt
    <3> QED BY <2>3, <3>1 DEF NurOffen
  <2>6. DOMAIN sections' = DOMAIN Kategorien
    BY <2>3, <2>4 DEF Umgeschaltet, Blatt
  <2> QED BY <2>1, <2>2, <2>5, <2>6, ZeichneOffen
<1>6. ASSUME NEW s, NEW u, toggleUnterkategorie(s, u)
      PROVE  NurGezeichnete'
  <2>1. VolleTafel /\ s \in DOMAIN Kategorien
    BY <1>6, VolleTafelDa DEF toggleUnterkategorie
  <2>2. NurGezeichnete /\ Zeichne(s)
    BY <1>6 DEF toggleUnterkategorie, OffenInv
  <2>3. sections' = Aufgeklappt(zelle[s], s, u)
    BY <1>6 DEF toggleUnterkategorie, Aufgeklappt
  <2>4. Blatt(zelle[s], Kategorien, karte) /\ s \in DOMAIN zelle
        /\ DOMAIN zelle[s] = DOMAIN Kategorien
    BY <2>1 DEF VolleTafel, Blatt
  <2>5. \A j \in DOMAIN Kategorien : sections'[j].expanded = zelle[s][j].expanded
    BY <2>1, <2>3, <2>4, AufgeklapptBlatt DEF GleichOffen
  <2>6. DOMAIN sections' = DOMAIN Kategorien
    BY <2>3, <2>4 DEF Aufgeklappt
  <2>7. \A j \in DOMAIN sections' : sections'[j].expanded => j = s
    BY <2>2, <2>4, <2>5, <2>6 DEF NurGezeichnete
  <2> QED BY <2>1, <2>2, <2>7, ZeichneOffen
<1>7. ASSUME NEW s, NEW u, NEW i, verfuegbarBtnTapped(s, u, i)
      PROVE  NurGezeichnete'
  <2>1. UNCHANGED <<zelle, cellIndexPathSection, gezeichnet>> /\ NurGezeichnete
    BY <1>7 DEF verfuegbarBtnTapped, OffenInv
  <2>2. VolleTafel
    BY <1>7, VolleTafelDa DEF verfuegbarBtnTapped
  <2>3. CASE ~ZielDa(u, i)
    <3>1. UNCHANGED sections
      BY <1>7, <2>3, TippSchritt
    <3> QED BY <2>1, <3>1 DEF NurGezeichnete
  <2>4. CASE ZielDa(u, i)
    <3> DEFINE it == ZielItem(u, i)
               c == cellIndexPathSection
    <3>1. sections' = Geschaltet(sections, c, it)
      BY <1>7, <2>4, TippSchritt
    <3>2. it \in Items(karte, Kategorien[c])
      BY <1>0, <2>2, <2>4, ZielForm
    <3>3. c \in DOMAIN Kategorien /\ Blatt(sections, Kategorien, karte)
      BY <2>2 DEF VolleTafel
    <3>4. /\ DOMAIN sections' = DOMAIN Kategorien
          /\ DOMAIN sections = DOMAIN Kategorien
      BY <3>1, <3>3 DEF Geschaltet, Blatt
    <3>5. \A j \in DOMAIN Kategorien : sections'[j].expanded = sections[j].expanded
      <4>1. GleichOffen(Geschaltet(sections, c, it), sections, Kategorien)
        <5> HIDE DEF c, it
        <5> QED BY <3>2, <3>3, GeschaltetBlatt
      <4> QED BY <3>1, <4>1 DEF GleichOffen
    <3>6. \A j \in DOMAIN sections' : sections'[j].expanded => j = c
      BY <2>1, <3>4, <3>5 DEF NurGezeichnete
    <3> QED BY <2>1, <3>6 DEF NurGezeichnete
  <2> QED BY <2>3, <2>4
<1>8. CASE UNCHANGED produkteVars
  BY <1>1, <1>8 DEF produkteVars
<1>9. CASE fertigTapped \/ getKategorien \/ (\E k : FremdStreichen(k))
           \/ (\E it : FremdSchalten(it))
  BY <1>1, <1>9 DEF fertigTapped, getKategorien, FremdStreichen, FremdSchalten
<1> QED BY <1>2, <1>3, <1>4, <1>5, <1>6, <1>7, <1>8, <1>9 DEF ProdukteNext

\* While the section drawn last is the open one, and no entry is empty, a
\* tap takes the item it shows, and that item is where the menu has it.
LEMMA GriffRichtig ==
  ASSUME SeiteInv, NurGezeichnete, Regulaer,
         NEW s, NEW u, NEW i, verfuegbarBtnTapped(s, u, i)
  PROVE  /\ ZielDa(u, i) /\ ZielItem(u, i) = zelle[s][s].items[u][i]
         /\ ZielItem(u, i)[2] = u
<1> DEFINE k == Kategorien[s]
           X == ItemsNachUnterkategorie(karte, k)
<1>1. VolleTafel /\ s \in DOMAIN Kategorien /\ s \in DOMAIN sections
      /\ sections[s].expanded
  BY VolleTafelDa DEF verfuegbarBtnTapped
<1>2. s = cellIndexPathSection
  BY <1>1 DEF NurGezeichnete
<1>3. sections[s] \in Abschnittsform(k, karte)
      /\ zelle[s][s] \in Abschnittsform(k, karte)
  BY <1>1 DEF VolleTafel, Blatt
<1>4. sections[s].items = X /\ zelle[s][s].items = X
      /\ DOMAIN zelle[s][s].expanded2 = DOMAIN karte[k]
  BY <1>3 DEF Abschnittsform
<1>5. u \in DOMAIN karte[k] /\ i \in DOMAIN X[u]
  BY <1>4 DEF verfuegbarBtnTapped
<1>6. k \in DOMAIN karte /\ karte \in Seq(Seq(Nat))
  BY <1>1, NotierteForm, KarteForm DEF SeiteInv
<1>7. X = [v \in DOMAIN karte[k] |-> [n \in 1..karte[k][v] |-> <<k, v, n>>]]
  <2>1. \A v \in DOMAIN karte[k] : karte[k][v] > 0
    BY <1>6 DEF Regulaer
  <2> HIDE DEF k
  <2> QED BY <1>6, <2>1, AufbauWert DEF X
<1> HIDE DEF X
<1>8. DOMAIN X = DOMAIN karte[k] /\ X[u] = [n \in 1..karte[k][u] |-> <<k, u, n>>]
  BY <1>5, <1>7
<1>9. X[u][i] = <<k, u, i>>
  BY <1>5, <1>8
<1> HIDE DEF k
<1>10. ZielItem(u, i) = X[u][i]
  BY <1>2, <1>4 DEF ZielItem, Ziel
<1> QED BY <1>2, <1>4, <1>5, <1>8, <1>9, <1>10 DEF ZielDa, Ziel

\* The menu stays, and what excuses a slip stays.
LEMMA AnlassBleibt ==
  ASSUME SeiteInv, [ProdukteNext]_produkteVars
  PROVE  /\ karte' = karte /\ Regulaer' = Regulaer
         /\ gestrichen # {} => gestrichen' # {}
         /\ gezeichnet > 0 => gezeichnet' > 0
<1>1. /\ karte' = karte /\ gestrichen \subseteq gestrichen'
      /\ gezeichnet' \in {gezeichnet, gezeichnet + 1}
  BY DEF ProdukteNext, produkteVars, datenbank, speisekartebearbeiten,
     fertigTapped, getKategorien, getUnterKategorienItems, InsBild,
     toggleSectionKategorie, toggleUnterkategorie, verfuegbarBtnTapped, FremdSchalten,
     FremdStreichen
<1>2. gezeichnet \in Nat
  BY ProdukteMaxAnnahme DEF SeiteInv, ZaehlerForm
<1> QED BY <1>1, <1>2 DEF Regulaer

\* Only a tap can miss, and only an answer or a tap can end the process.
LEMMA SonstNichts ==
  ASSUME [ProdukteNext]_produkteVars,
         ~\E s, u, i : verfuegbarBtnTapped(s, u, i)
  PROVE  /\ fehlgriff' = fehlgriff
         /\ (~\E k : getUnterKategorienItems(k)) => falle' = falle
BY DEF ProdukteNext, produkteVars, speisekartebearbeiten,
   fertigTapped, getKategorien, getUnterKategorienItems, InsBild,
   toggleSectionKategorie, toggleUnterkategorie, FremdSchalten, FremdStreichen

LEMMA TippSchrittTrifft ==
  ASSUME SeiteInv, OffenInv, TippTrifft, [ProdukteNext]_produkteVars
  PROVE  TippTrifft'
<1>1. CASE ~\E s, u, i : verfuegbarBtnTapped(s, u, i)
  <2>1. fehlgriff' = fehlgriff
    BY <1>1, SonstNichts
  <2> QED BY <2>1, AnlassBleibt DEF TippTrifft
<1>2. ASSUME NEW s, NEW u, NEW i, verfuegbarBtnTapped(s, u, i)
      PROVE  TippTrifft'
  <2> SUFFICES ASSUME ~(gezeichnet > 0), gestrichen = {}, Regulaer
               PROVE  fehlgriff' = fehlgriff
    BY AnlassBleibt DEF TippTrifft
  <2>1. NurGezeichnete
    BY ProdukteMaxAnnahme DEF OffenInv, SeiteInv, ZaehlerForm
  <2>2. ZielDa(u, i) /\ ZielItem(u, i) = zelle[s][s].items[u][i] /\ ImMenue(u, i)
    BY <1>2, <2>1, GriffRichtig DEF ImMenue
  <2> QED BY <1>2, <2>2, TippSchritt
<1> QED BY <1>1, <1>2

\* A tap on the switch of an item reaches that item as long as no cell came
\* into sight since, no category was removed and no entry is empty, although
\* the page carries the tap out for the section it drew last
\* (ProdukteVC.swift 77).
THEOREM TippKorrekt == ProdukteSpec => []TippTrifft
<1>1. ProdukteInit => OffenInv /\ TippTrifft
  BY DEF ProdukteInit, OffenInv, NurGezeichnete, TippTrifft
<1>2. SeiteInv /\ OffenInv /\ TippTrifft /\ [ProdukteNext]_produkteVars => TippTrifft'
  BY TippSchrittTrifft
<1> QED BY <1>1, <1>2, OffenSchritt, SeiteGilt, PTL DEF ProdukteSpec

\* A category of a menu without empty entries has items.
LEMMA RegulaerItems ==
  ASSUME DatenForm, Regulaer, NEW k \in DOMAIN karte
  PROVE  /\ Items(karte, k) # {} /\ karte[k][1] # 0
         /\ Len(ItemsNachUnterkategorie(karte, k)) = Len(karte[k])
<1>1. karte \in Seq(Seq(Nat)) /\ karte[k] \in Seq(Nat)
  BY KarteForm
<1>2. karte[k] # <<>> /\ \A u \in DOMAIN karte[k] : karte[k][u] > 0
  BY DEF Regulaer
<1>3. 1 \in DOMAIN karte[k] /\ DOMAIN karte[k] = 1..Len(karte[k])
  BY <1>1, <1>2
<1>4. karte[k][1] \in Nat /\ karte[k][1] > 0
  <2> DEFINE z == karte[k]
  <2>1. z \in Seq(Nat) /\ 1 \in DOMAIN z /\ \A u \in DOMAIN z : z[u] > 0
    BY <1>1, <1>2, <1>3
  <2> HIDE DEF z
  <2>2. z[1] \in Nat /\ z[1] > 0
    BY <2>1
  <2> QED BY <2>2 DEF z
<1>5. 1 \in 1..karte[k][1]
  BY <1>4
<1>6. <<k, 1, 1>> \in Items(karte, k)
  BY <1>1, <1>3, <1>5, ItemsForm
<1>7. Len(ItemsNachUnterkategorie(karte, k)) = Len(karte[k])
  <2> DEFINE X == ItemsNachUnterkategorie(karte, k)
             n == Len(karte[k])
  <2>1. X = [u \in DOMAIN karte[k] |-> [i \in 1..karte[k][u] |-> <<k, u, i>>]]
    BY <1>1, <1>2, AufbauWert
  <2> HIDE DEF X
  <2>2. n \in Nat /\ X \in [1..n -> {X[u] : u \in 1..n}]
    BY <1>1, <1>3, <2>1
  <2> HIDE DEF n
  <2>3. Len(X) = n
    BY <2>2, FolgeAusFunktion
  <2> QED BY <2>3 DEF X, n
<1> QED BY <1>4, <1>6, <1>7

LEMMA FalleSchritt ==
  ASSUME SeiteInv, OffenInv, FalleErklaert, [ProdukteNext]_produkteVars
  PROVE  FalleErklaert'
<1>0. DatenForm /\ ZaehlerForm /\ LadeForm /\ TafelForm
  BY DEF SeiteInv
<1>1. CASE UNCHANGED falle
  BY <1>1, AnlassBleibt DEF FalleErklaert
<1>2. ASSUME NEW s, NEW u, NEW i, verfuegbarBtnTapped(s, u, i)
      PROVE  FalleErklaert'
  <2>1. CASE ZielDa(u, i)
    BY <1>1, <1>2, <2>1, TippSchritt
  <2>2. CASE ~ZielDa(u, i)
    <3>1. falle' = "index"
      BY <1>2, <2>2, TippSchritt
    <3>2. gezeichnet > 0 \/ ~Regulaer
      <4> SUFFICES ASSUME ~(gezeichnet > 0), Regulaer PROVE FALSE
        OBVIOUS
      <4>1. NurGezeichnete
        BY ProdukteMaxAnnahme DEF OffenInv, SeiteInv, ZaehlerForm
      <4> QED BY <1>2, <2>2, <4>1, GriffRichtig
    <3> QED BY <3>1, <3>2, AnlassBleibt DEF FalleErklaert
  <2> QED BY <2>1, <2>2
<1>3. ASSUME NEW k, getUnterKategorienItems(k)
      PROVE  FalleErklaert'
  <2>1. CASE ~Regulaer
    <3>1. falle' # "index"
      BY <1>3 DEF getUnterKategorienItems, seiteLaeuft
    <3> QED BY <2>1, <3>1, AnlassBleibt DEF FalleErklaert
  <2>2. CASE Regulaer
    <3>1. k \in ToSet(Kategorien) /\ ToSet(Kategorien) \subseteq DOMAIN karte
      BY <1>0, <1>3, AntwortLaden, NotierteForm
    <3>2. karte[k][1] # 0
      BY <1>0, <2>2, <3>1, RegulaerItems
    <3>3. ASSUME NEW j \in DOMAIN Kategorien
          PROVE  /\ Items(karte, Kategorien[j]) # {}
                 /\ Len(ItemsNachUnterkategorie(karte, Kategorien[j])) =
                      Len(karte[Kategorien[j]])
                 /\ Len(karte[Kategorien[j]]) \in Nat
      <4>1. Kategorien[j] \in DOMAIN karte /\ karte \in Seq(Seq(Nat))
        BY <1>0, NotierteForm, KarteForm
      <4> QED BY <1>0, <2>2, <4>1, RegulaerItems
    <3> DEFINE g == geladen'
               neue == Sections(g)
    <3>4. \A j \in DOMAIN neue : Zeichenbar(neue[j])
      <4> SUFFICES ASSUME NEW j \in DOMAIN neue PROVE Zeichenbar(neue[j])
        OBVIOUS
      <4> HIDE DEF g
      <4>1. j \in DOMAIN Kategorien /\ neue[j].kat = Kategorien[j]
            /\ neue[j].items = ItemsNachUnterkategorie(karte, Kategorien[j])
        BY DEF Sections
      <4> HIDE DEF neue
      <4> QED BY <3>3, <4>1 DEF Zeichenbar
    <3>5. falle' = "keine"
      <4> DEFINE nil  == k \notin gestrichen /\ Items(karte, k) # {} /\ karte[k][1] = 0
                 leer == \E j \in DOMAIN Kategorien : Items(karte, Kategorien[j]) = {}
      <4>1. ~nil /\ ~leer
        BY <3>2, <3>3
      <4>2. falle = "keine"
        BY <1>3 DEF getUnterKategorienItems, seiteLaeuft
      <4>3. \/ nil \/ leer \/ falle' = falle
            \/ falle' = IF \A j \in DOMAIN neue : Zeichenbar(neue[j])
                          THEN "keine" ELSE "zeichnen"
        BY <1>3 DEF getUnterKategorienItems
      <4> HIDE DEF nil, leer, neue
      <4> QED BY <3>4, <4>1, <4>2, <4>3
    <3> QED BY <3>5 DEF FalleErklaert
  <2> QED BY <2>1, <2>2
<1>4. CASE /\ ~\E s, u, i : verfuegbarBtnTapped(s, u, i)
           /\ ~\E k : getUnterKategorienItems(k)
  BY <1>1, <1>4, SonstNichts
<1> QED BY <1>2, <1>3, <1>4

\* Only a menu with an empty entry ends the process while it is loaded or
\* drawn, and only such a menu or a cell drawn in between lets a tap end it
\* (the indexing of ProdukteVC.swift 77 and 121-165).
THEOREM FalleKorrekt == ProdukteSpec => []FalleErklaert
<1>1. ProdukteInit => OffenInv /\ FalleErklaert
  BY DEF ProdukteInit, OffenInv, NurGezeichnete, FalleErklaert
<1>2. SeiteInv /\ OffenInv /\ FalleErklaert /\ [ProdukteNext]_produkteVars
        => FalleErklaert'
  BY FalleSchritt
<1> QED BY <1>1, <1>2, OffenSchritt, SeiteGilt, PTL DEF ProdukteSpec

(***************************************************************************)
(* The page and the database.                                              *)
(***************************************************************************)

\* The items a of category k and the database v agree but for those in b.
Einig(a, k, m, b, v) == \A it \in Items(m, k) \ b : it \in a <=> it \in v

\* While it loads the dictionaries agree with the database, then the
\* sections do.
TreueInv ==
  /\ sections = <<>> =>
       \A k \in DOMAIN geladen : Einig(geladen[k], k, karte, beruehrt, verfuegbar)
  /\ \A j \in DOMAIN sections :
       Einig(sections[j].an, Kategorien[j], karte, beruehrt, verfuegbar)

LEMMA TreueAbweichung ==
  ASSUME SeiteInv, TreueInv
  PROVE  AbweichungErklaert
<1> SUFFICES ASSUME NEW j \in DOMAIN sections,
                    NEW it \in Items(karte, sections[j].kat) \ beruehrt
             PROVE  it \in sections[j].an <=> it \in verfuegbar
  BY DEF AbweichungErklaert
<1>1. VolleTafel /\ j \in DOMAIN Kategorien
  BY VolleTafelDa
<1>2. sections[j].kat = Kategorien[j]
  BY <1>1 DEF VolleTafel, Blatt, Abschnittsform
<1> QED BY <1>2 DEF TreueInv, Einig

LEMMA TreueAntwort ==
  ASSUME SeiteInv, TreueInv, NEW k, getUnterKategorienItems(k)
  PROVE  TreueInv'
<1>0. DatenForm /\ LadeForm
  BY DEF SeiteInv
<1>1. UNCHANGED <<karte, Kategorien, beruehrt, verfuegbar>>
  BY DEF getUnterKategorienItems, datenbank
<1>2. LeereTafel /\ (AlleDa(geladen') => DOMAIN geladen' = ToSet(Kategorien))
  BY AntwortLaden
<1>3. \A c \in DOMAIN geladen' :
              \/ c = k /\ geladen'[c] = verfuegbar \cap Items(karte, k)
              \/ c # k /\ c \in DOMAIN geladen /\ geladen'[c] = geladen[c]
  BY AntwortLaden
<1>4. ASSUME NEW c \in DOMAIN geladen'
      PROVE  /\ Einig(geladen'[c], c, karte, beruehrt, verfuegbar)
             /\ geladen'[c] \subseteq Items(karte, c)
  <2>1. CASE c = k /\ geladen'[c] = verfuegbar \cap Items(karte, k)
    BY <2>1 DEF Einig
  <2>2. CASE c \in DOMAIN geladen /\ geladen'[c] = geladen[c]
    BY <1>0, <1>2, <2>2 DEF TreueInv, LeereTafel, LadeForm
  <2> QED BY <1>3, <2>1, <2>2
<1>5. CASE UNCHANGED tafel
  <2>1. sections' = <<>> /\ DOMAIN <<>> = {}
    BY <1>2, <1>5 DEF tafel, LeereTafel
  <2> QED BY <1>1, <1>4, <2>1 DEF TreueInv
<1>6. CASE AlleDa(geladen') /\ sections' = Sections(geladen')
  <2> DEFINE g == geladen'
  <2>1. DOMAIN g = ToSet(Kategorien) /\ \A c \in DOMAIN g : g[c] \subseteq Items(karte, c)
    BY <1>2, <1>4, <1>6
  <2>2. DOMAIN Sections(g) = DOMAIN Kategorien
        /\ \A j \in DOMAIN Kategorien : Sections(g)[j].an = g[Kategorien[j]]
    <3> HIDE DEF g
    <3> QED BY DEF Sections
  <2>3. \A j \in DOMAIN Kategorien : Kategorien[j] \in DOMAIN g
    BY <2>1 DEF ToSet
  <2>4. sections' = Sections(g)
    BY <1>6
  <2>5. \A j \in DOMAIN sections' :
          Einig(sections'[j].an, Kategorien[j], karte, beruehrt, verfuegbar)
    BY <1>4, <2>2, <2>3, <2>4
  <2>6. \A c \in DOMAIN g : Einig(g[c], c, karte, beruehrt, verfuegbar)
    BY <1>4
  <2> QED BY <1>1, <2>5, <2>6 DEF TreueInv
<1> QED BY <1>5, <1>6 DEF getUnterKategorienItems

LEMMA TreueTipp ==
  ASSUME SeiteInv, TreueInv, NEW s, NEW u, NEW i, verfuegbarBtnTapped(s, u, i)
  PROVE  TreueInv'
<1>0. DatenForm /\ LadeForm
  BY DEF SeiteInv
<1>1. VolleTafel /\ sections # <<>> /\ DOMAIN sections = DOMAIN Kategorien
  BY VolleTafelDa DEF verfuegbarBtnTapped
<1>2. UNCHANGED <<karte, Kategorien, geladen>>
  BY DEF verfuegbarBtnTapped, laden
<1>3. CASE ~ZielDa(u, i)
  <2>1. UNCHANGED <<sections, verfuegbar, beruehrt>>
    BY <1>3, TippSchritt
  <2> QED BY <1>2, <2>1 DEF TreueInv
<1>4. CASE ZielDa(u, i)
  <2> DEFINE it == ZielItem(u, i)
             c == cellIndexPathSection
             drin == ImMenue(u, i)
             a == sections[c].an
  <2>1. /\ sections' = Geschaltet(sections, c, it)
        /\ verfuegbar' = IF ~drin THEN verfuegbar
                         ELSE IF it \in a THEN verfuegbar \ {it}
                         ELSE verfuegbar \cup {it}
        /\ beruehrt' = IF drin THEN beruehrt ELSE beruehrt \cup {it}
    BY <1>4, TippSchritt DEF Ziel
  <2>2. it \in Items(karte, Kategorien[c])
    BY <1>0, <1>1, <1>4, ZielForm
  <2>3. c \in DOMAIN Kategorien /\ Blatt(sections, Kategorien, karte)
    BY <1>1 DEF VolleTafel
  <2> HIDE DEF it, c, drin
  <2>4. /\ Blatt(sections', Kategorien, karte)
        /\ NurGeschaltet(sections', sections, Kategorien, c, it)
    BY <2>1, <2>2, <2>3, GeschaltetBlatt
  <2>5. DOMAIN sections' = DOMAIN Kategorien /\ sections' # <<>>
    <3>1. DOMAIN sections' = DOMAIN Kategorien
      BY <2>4 DEF Blatt
    <3> QED BY <2>3, <3>1
  <2>6. \A j \in DOMAIN Kategorien :
          Einig(sections[j].an, Kategorien[j], karte, beruehrt, verfuegbar)
    BY <1>1 DEF TreueInv
  <2>7. Einig(sections'[c].an, Kategorien[c], karte, beruehrt', verfuegbar')
    <3> SUFFICES ASSUME NEW x \in Items(karte, Kategorien[c]) \ beruehrt'
                 PROVE  x \in sections'[c].an <=> x \in verfuegbar'
      BY DEF Einig
    <3>1. sections'[c].an = IF it \in a THEN a \ {it} ELSE a \cup {it}
      BY <2>4 DEF NurGeschaltet
    <3>2. x \notin beruehrt
      BY <2>1
    <3>3. x \in a <=> x \in verfuegbar
      BY <2>3, <2>6, <3>2 DEF Einig
    <3> HIDE DEF a
    <3>4. CASE x = it
      BY <2>1, <3>1, <3>4
    <3>5. CASE x # it
      BY <2>1, <3>1, <3>3, <3>5
    <3> QED BY <3>4, <3>5
  <2>8. ASSUME NEW j \in DOMAIN Kategorien, j # c
        PROVE  Einig(sections'[j].an, Kategorien[j], karte, beruehrt', verfuegbar')
    <3> SUFFICES ASSUME NEW x \in Items(karte, Kategorien[j]) \ beruehrt'
                 PROVE  x \in sections'[j].an <=> x \in verfuegbar'
      BY DEF Einig
    <3>1. sections'[j].an = sections[j].an
      BY <2>4, <2>8 DEF NurGeschaltet
    <3>2. x \notin beruehrt
      BY <2>1
    <3>3. x \in sections[j].an <=> x \in verfuegbar
      BY <2>6, <3>2 DEF Einig
    <3>4. x # it
      <4>1. Kategorien[j] # Kategorien[c]
        BY <1>0, <2>3, <2>8 DEF LadeForm, EinmalAlle
      <4>2. /\ karte \in Seq(Seq(Nat))
            /\ Kategorien[j] \in DOMAIN karte /\ Kategorien[c] \in DOMAIN karte
        BY <1>0, <2>3, KarteForm, NotierteForm
      <4>3. \A y \in Items(karte, Kategorien[j]) : y[1] = Kategorien[j]
        BY <4>2, ItemsForm
      <4>4. \A y \in Items(karte, Kategorien[c]) : y[1] = Kategorien[c]
        BY <4>2, ItemsForm
      <4> QED BY <2>2, <4>1, <4>3, <4>4
    <3> HIDE DEF a
    <3> QED BY <2>1, <3>1, <3>3, <3>4
  <2>9. \A j \in DOMAIN sections' :
          Einig(sections'[j].an, Kategorien[j], karte, beruehrt', verfuegbar')
    BY <2>5, <2>7, <2>8
  <2> QED BY <1>2, <2>5, <2>9 DEF TreueInv
<1> QED BY <1>3, <1>4

LEMMA TreueTafel ==
  ASSUME SeiteInv, TreueInv, NEW s,
         InsBild(s) \/ toggleSectionKategorie(s) \/ (\E u : toggleUnterkategorie(s, u))
  PROVE  TreueInv'
<1>1. VolleTafel /\ s \in DOMAIN Kategorien /\ sections # <<>>
      /\ DOMAIN sections = DOMAIN Kategorien
  BY VolleTafelDa DEF InsBild, toggleSectionKategorie, toggleUnterkategorie
<1>2. UNCHANGED <<karte, Kategorien, geladen, verfuegbar>>
  BY DEF InsBild, toggleSectionKategorie, toggleUnterkategorie, datenbank, laden
<1>3. Blatt(sections, Kategorien, karte) /\ Blatt(zelle[s], Kategorien, karte)
  BY <1>1 DEF VolleTafel
<1>4. \A j \in DOMAIN Kategorien :
        Einig(sections[j].an, Kategorien[j], karte, beruehrt, verfuegbar)
  BY <1>1 DEF TreueInv
<1>5. CASE InsBild(s)
  BY <1>1, <1>2, <1>5 DEF InsBild, TreueInv
<1>6. CASE toggleSectionKategorie(s)
  <2>1. sections' = Umgeschaltet(sections, s) /\ UNCHANGED beruehrt
    BY <1>6 DEF toggleSectionKategorie, Umgeschaltet
  <2>2. Gleiche(sections', sections, Kategorien) /\ Blatt(sections', Kategorien, karte)
    BY <1>3, <2>1, UmgeschaltetBlatt
  <2>3. DOMAIN sections' = DOMAIN Kategorien /\ sections' # <<>>
    <3>1. DOMAIN sections' = DOMAIN Kategorien
      BY <2>2 DEF Blatt
    <3> QED BY <1>1, <3>1
  <2> QED BY <1>2, <1>4, <2>1, <2>2, <2>3 DEF TreueInv, Gleiche
<1>7. ASSUME NEW u, toggleUnterkategorie(s, u)
      PROVE  TreueInv'
  <2>1. sections' = Aufgeklappt(zelle[s], s, u)
    BY <1>7 DEF toggleUnterkategorie, Aufgeklappt
  <2>2. Gleiche(sections', zelle[s], Kategorien) /\ Blatt(sections', Kategorien, karte)
    BY <1>1, <1>3, <2>1, AufgeklapptBlatt
  <2>3. DOMAIN sections' = DOMAIN Kategorien /\ sections' # <<>>
    <3>1. DOMAIN sections' = DOMAIN Kategorien
      BY <2>2 DEF Blatt
    <3> QED BY <1>1, <3>1
  <2> DEFINE R(j) == {it \in Items(karte, sections[j].kat) :
                        it \in sections[j].an <=> it \notin zelle[s][j].an}
  <2>4. beruehrt' = beruehrt \cup UNION {R(j) : j \in DOMAIN sections}
    BY <1>7 DEF toggleUnterkategorie
  <2>5. ASSUME NEW j \in DOMAIN Kategorien
        PROVE  Einig(sections'[j].an, Kategorien[j], karte, beruehrt', verfuegbar)
    <3> SUFFICES ASSUME NEW x \in Items(karte, Kategorien[j]) \ beruehrt'
                 PROVE  x \in sections'[j].an <=> x \in verfuegbar
      BY DEF Einig
    <3>1. sections'[j].an = zelle[s][j].an
      BY <2>2 DEF Gleiche
    <3>2. sections[j].kat = Kategorien[j]
      BY <1>3 DEF Blatt, Abschnittsform
    <3>3. x \notin beruehrt /\ x \notin R(j)
      <4> HIDE DEF R
      <4> QED BY <1>1, <2>4
    <3>4. x \in sections[j].an <=> x \in zelle[s][j].an
      BY <3>2, <3>3
    <3>5. x \in sections[j].an <=> x \in verfuegbar
      BY <1>4, <3>3 DEF Einig
    <3> QED BY <3>1, <3>4, <3>5
  <2> QED BY <1>2, <2>3, <2>5 DEF TreueInv
<1> QED BY <1>5, <1>6, <1>7

LEMMA TreueSchritt ==
  ASSUME SeiteInv, TreueInv, [ProdukteNext]_produkteVars
  PROVE  TreueInv'
<1> USE DEF datenbank, laden, tafel
<1>1. CASE UNCHANGED <<karte, Kategorien, geladen, sections, verfuegbar, beruehrt>>
  BY <1>1 DEF TreueInv
<1>2. CASE speisekartebearbeiten
  <2>1. sections' = <<>> /\ geladen' = <<>> /\ DOMAIN <<>> = {}
    BY <1>2 DEF speisekartebearbeiten, NeueSeite
  <2> QED BY <2>1 DEF TreueInv
<1>3. CASE getKategorien
  <2>1. UNCHANGED <<karte, geladen, sections, verfuegbar, beruehrt>>
    BY <1>3 DEF getKategorien
  <2>2. sections = <<>>
    <3>1. 0 \notin ToSet(Kategorien)
      BY KarteForm, NotierteForm DEF SeiteInv
    <3> QED BY <1>3, <3>1 DEF getKategorien, SeiteInv, LadeForm
  <2> QED BY <2>1, <2>2 DEF TreueInv
<1>4. ASSUME NEW it, FremdSchalten(it)
      PROVE  TreueInv'
  <2>1. UNCHANGED <<karte, Kategorien, geladen, sections>>
        /\ beruehrt' = beruehrt \cup {it}
        /\ verfuegbar' \cup {it} = verfuegbar \cup {it}
    BY <1>4 DEF FremdSchalten
  <2>2. ASSUME NEW a, NEW k, Einig(a, k, karte, beruehrt, verfuegbar)
        PROVE  Einig(a, k, karte, beruehrt', verfuegbar')
    BY <2>1, <2>2 DEF Einig
  <2> QED BY <2>1, <2>2 DEF TreueInv
<1>5. CASE UNCHANGED produkteVars
  BY <1>1, <1>5 DEF produkteVars
<1>6. CASE fertigTapped \/ (\E k : FremdStreichen(k))
  BY <1>1, <1>6 DEF fertigTapped, FremdStreichen
<1> QED BY <1>2, <1>3, <1>4, <1>5, <1>6, TreueAntwort, TreueTipp, TreueTafel
        DEF ProdukteNext

\* Page and database agree on every item but for those another device
\* switched, those an older copy of the sections put back (ProdukteVC.swift
\* 50) and those a tap missed, whatever is loaded, opened and tapped.
THEOREM AbweichungKorrekt == ProdukteSpec => []AbweichungErklaert
<1>1. ProdukteInit => TreueInv
  <2> SUFFICES ASSUME ProdukteInit PROVE TreueInv
    OBVIOUS
  <2>1. sections = <<>> /\ geladen = <<>> /\ DOMAIN <<>> = {}
    BY DEF ProdukteInit
  <2> QED BY <2>1 DEF TreueInv
<1>2. SeiteInv /\ TreueInv /\ [ProdukteNext]_produkteVars => TreueInv'
  BY TreueSchritt
<1>3. SeiteInv /\ TreueInv => AbweichungErklaert
  BY TreueAbweichung
<1> QED BY <1>1, <1>2, <1>3, SeiteGilt, PTL DEF ProdukteSpec
=============================================================================
