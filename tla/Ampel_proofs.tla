---------------------------- MODULE Ampel_proofs -----------------------------
(***************************************************************************)
(* Proofs about the traffic light, for any limits and ages, any number of  *)
(* writes on their way and events waiting, and any bounds.                 *)
(***************************************************************************)
EXTENDS Ampel, FiniteSetTheorems, TLAPS

Regel     == [Grenzen -> Nat \cup {Fehlt}]
Schreibung == [key: Grenzen, wert: Nat]
Meldung   == [an: SUBSET Beobachter, regel: Regel]

(***************************************************************************)
(* What a device sees: the last of its own writes of a key, if any.        *)
(***************************************************************************)
Eigene(w, g) == {j \in DOMAIN w : w[j].key = g}
Letzte(E) == CHOOSE j \in E : \A k \in E : k <= j

LEMMA SichtWert ==
  ASSUME NEW r, NEW w, NEW g \in Grenzen
  PROVE  Sicht(r, w)[g] = IF Eigene(w, g) = {} THEN r[g]
                          ELSE w[Letzte(Eigene(w, g))].wert
BY DEF Sicht, Eigene, Letzte

\* A set of positions has a largest one: of the intervals from its members
\* to n, one contains no smaller one.
LEMMA Groesstes ==
  ASSUME NEW n \in Nat, NEW T, T \subseteq 1..n, T # {}
  PROVE  \E m \in T : \A k \in T : k <= m
<1> DEFINE Q == {j..n : j \in T}
<1>1. IsWellFoundedOn(StrictSubsetOrdering(Nat), FiniteSubsetsOf(Nat))
  BY FS_StrictSubsetOrderingWellFounded
<1>2. \A j \in T : j \in Nat /\ j..n \subseteq Nat /\ IsFiniteSet(j..n)
  BY FS_Interval
<1>3. Q \subseteq FiniteSubsetsOf(Nat) /\ Q # {}
  BY <1>2 DEF FiniteSubsetsOf
<1>4. \E x \in Q : \A y \in Q : ~(<<y, x>> \in StrictSubsetOrdering(Nat))
  <2> HIDE DEF Q
  <2> QED BY <1>1, <1>3, WFMin
<1>5. PICK m \in T : \A y \in Q : ~(<<y, m..n>> \in StrictSubsetOrdering(Nat))
  BY <1>4
<1>6. ASSUME NEW k \in T, k > m
      PROVE  FALSE
  <2>1. k..n \in SUBSET Nat /\ m..n \in SUBSET Nat /\ k..n \in Q
    BY <1>2
  <2>2. k..n \subseteq m..n /\ k..n # m..n
    BY <1>2, <1>6
  <2>3. <<k..n, m..n>> \in StrictSubsetOrdering(Nat)
    BY <2>1, <2>2 DEF StrictSubsetOrdering
  <2> QED BY <1>5, <2>1, <2>3
<1> QED BY <1>2, <1>6

LEMMA LetzteIst ==
  ASSUME NEW E, E \subseteq Nat, NEW j \in E, \A k \in E : k <= j
  PROVE  Letzte(E) = j
<1>1. Letzte(E) \in E /\ \A k \in E : k <= Letzte(E)
  BY DEF Letzte
<1>2. Letzte(E) \in Nat /\ j \in Nat /\ j <= Letzte(E) /\ Letzte(E) <= j
  BY <1>1
<1> HIDE DEF Letzte
<1> QED BY <1>2

LEMMA LetzteGibtEs ==
  ASSUME NEW w \in Seq(Schreibung), NEW g \in Grenzen, Eigene(w, g) # {}
  PROVE  /\ Letzte(Eigene(w, g)) \in Eigene(w, g)
         /\ \A k \in Eigene(w, g) : k <= Letzte(Eigene(w, g))
         /\ Eigene(w, g) \subseteq 1..Len(w)
<1>1. Eigene(w, g) \subseteq 1..Len(w)
  BY DEF Eigene
<1>2. \E m \in Eigene(w, g) : \A k \in Eigene(w, g) : k <= m
  BY <1>1, Groesstes
<1> QED BY <1>1, <1>2 DEF Letzte

LEMMA SichtTyp ==
  ASSUME NEW r \in Regel, NEW w \in Seq(Schreibung)
  PROVE  Sicht(r, w) \in Regel
<1>1. ASSUME NEW g \in Grenzen
      PROVE  Sicht(r, w)[g] \in Nat \cup {Fehlt}
  <2>1. CASE Eigene(w, g) = {}
    BY <2>1, SichtWert DEF Regel
  <2>2. CASE Eigene(w, g) # {}
    <3> DEFINE l == Letzte(Eigene(w, g))
    <3>1. l \in 1..Len(w)
      BY <2>2, LetzteGibtEs
    <3>2. Sicht(r, w)[g] = w[l].wert
      BY <2>2, SichtWert
    <3> HIDE DEF l
    <3>3. w[l] \in Schreibung
      BY <3>1
    <3>4. w[l].wert \in Nat
      BY <3>3 DEF Schreibung
    <3> QED BY <3>2, <3>4
  <2> QED BY <2>1, <2>2
<1> DEFINE v == Sicht(r, w)
<1>2. v = [g \in Grenzen |-> v[g]]
  BY DEF Sicht
<1>3. \A g \in Grenzen : v[g] \in Nat \cup {Fehlt}
  BY <1>1
<1> HIDE DEF v
<1>4. v \in [Grenzen -> Nat \cup {Fehlt}]
  BY <1>2, <1>3
<1> QED BY <1>4 DEF Regel, v

\* Two views are equal if they agree on every key.
LEMMA SichtGleich ==
  ASSUME NEW r, NEW w, NEW v \in Regel, \A g \in Grenzen : Sicht(r, w)[g] = v[g]
  PROVE  Sicht(r, w) = v
<1>1. Sicht(r, w) = [g \in Grenzen |-> Sicht(r, w)[g]]
  BY DEF Sicht
<1>2. v = [g \in Grenzen |-> v[g]]
  BY DEF Regel
<1> QED BY <1>1, <1>2

\* A write of this device is seen at once, and changes nothing else.
LEMMA SichtAnhang ==
  ASSUME NEW r \in Regel, NEW w \in Seq(Schreibung), NEW x \in Schreibung
  PROVE  Sicht(r, Append(w, x)) = [Sicht(r, w) EXCEPT ![x.key] = x.wert]
<1> DEFINE u == Append(w, x)
           v == [Sicht(r, w) EXCEPT ![x.key] = x.wert]
<1>1. /\ u \in Seq(Schreibung) /\ Len(u) = Len(w) + 1 /\ u[Len(w) + 1] = x
      /\ \A j \in 1..Len(w) : u[j] = w[j]
      /\ DOMAIN u = 1..(Len(w) + 1) /\ DOMAIN w = 1..Len(w) /\ Len(w) \in Nat
  OBVIOUS
<1>2. x.key \in Grenzen /\ x.wert \in Nat
  BY DEF Schreibung
<1>3. Sicht(r, w) \in Regel
  BY SichtTyp
<1>4. /\ v \in Regel /\ v[x.key] = x.wert
      /\ \A g \in Grenzen : g # x.key => v[g] = Sicht(r, w)[g]
  BY <1>2, <1>3 DEF Regel
<1> HIDE DEF u, v
<1>5. ASSUME NEW g \in Grenzen
      PROVE  Sicht(r, u)[g] = v[g]
  <2>1. CASE g = x.key
    <3>1. Len(w) + 1 \in Eigene(u, g) /\ Eigene(u, g) \subseteq Nat
          /\ \A k \in Eigene(u, g) : k <= Len(w) + 1
      BY <1>1, <2>1 DEF Eigene
    <3>2. Letzte(Eigene(u, g)) = Len(w) + 1
      BY <3>1, LetzteIst
    <3>3. Sicht(r, u)[g] = u[Letzte(Eigene(u, g))].wert
      BY <3>1, SichtWert
    <3> QED BY <1>1, <1>4, <2>1, <3>2, <3>3
  <2>2. CASE g # x.key
    <3>1. Eigene(u, g) = Eigene(w, g)
      BY <1>1, <2>2 DEF Eigene
    <3>2. CASE Eigene(w, g) = {}
      BY <1>4, <2>2, <3>1, <3>2, SichtWert
    <3>3. CASE Eigene(w, g) # {}
      <4>1. Letzte(Eigene(w, g)) \in 1..Len(w)
        BY <3>3, LetzteGibtEs
      <4>2. Sicht(r, u)[g] = u[Letzte(Eigene(w, g))].wert
        BY <3>1, <3>3, SichtWert
      <4>3. Sicht(r, w)[g] = w[Letzte(Eigene(w, g))].wert
        BY <3>3, SichtWert
      <4> QED BY <1>1, <1>4, <2>2, <4>1, <4>2, <4>3
    <3> QED BY <3>2, <3>3
  <2> QED BY <2>1, <2>2
<1>6. Sicht(r, u) = v
  BY <1>4, <1>5, SichtGleich
<1> QED BY <1>6 DEF u, v

\* Without writes of its own a device sees the record.
LEMMA SichtLeer ==
  ASSUME NEW r \in Regel
  PROVE  Sicht(r, <<>>) = r
<1>1. \A g \in Grenzen : Eigene(<<>>, g) = {}
  BY DEF Eigene
<1>2. \A g \in Grenzen : Sicht(r, <<>>)[g] = r[g]
  BY <1>1, SichtWert
<1> QED BY <1>2, SichtGleich

\* When the server takes the oldest write, nobody on this device sees it.
LEMMA SichtServer ==
  ASSUME NEW r \in Regel, NEW w \in Seq(Schreibung), w # <<>>
  PROVE  Sicht([r EXCEPT ![Head(w).key] = Head(w).wert], Tail(w)) = Sicht(r, w)
<1> DEFINE q == [r EXCEPT ![Head(w).key] = Head(w).wert]
           t == Tail(w)
           x == Head(w)
<1>1. /\ t \in Seq(Schreibung) /\ Len(t) = Len(w) - 1 /\ Len(w) \in Nat \ {0}
      /\ \A j \in 1..Len(t) : t[j] = w[j + 1]
      /\ DOMAIN t = 1..Len(t) /\ DOMAIN w = 1..Len(w)
      /\ x = w[1] /\ x \in Schreibung
  OBVIOUS
<1>2. x.key \in Grenzen /\ x.wert \in Nat
  BY <1>1 DEF Schreibung
<1>3. /\ q \in Regel /\ q[x.key] = x.wert
      /\ \A g \in Grenzen : g # x.key => q[g] = r[g]
  BY <1>2 DEF Regel
<1>4. Sicht(r, w) \in Regel
  BY SichtTyp
<1> HIDE DEF q, t, x
<1>5. ASSUME NEW g \in Grenzen
      PROVE  Sicht(q, t)[g] = Sicht(r, w)[g]
  <2>1. \A j \in 1..Len(w) : j \in Eigene(w, g) <=>
             (j = 1 /\ x.key = g) \/ (j > 1 /\ j - 1 \in Eigene(t, g))
    BY <1>1 DEF Eigene
  <2>2. Eigene(w, g) \subseteq 1..Len(w) /\ Eigene(t, g) \subseteq 1..Len(t)
    BY <1>1 DEF Eigene
  <2>3. CASE Eigene(t, g) # {}
    <3> DEFINE l == Letzte(Eigene(t, g))
    <3>1. l \in Eigene(t, g) /\ (\A k \in Eigene(t, g) : k <= l) /\ l \in 1..Len(t)
      BY <1>1, <2>2, <2>3, LetzteGibtEs
    <3>2. Sicht(q, t)[g] = t[l].wert
      BY <2>3, SichtWert
    <3> HIDE DEF l
    <3>3. l + 1 \in 1..Len(w) /\ l + 1 \in Eigene(w, g)
      BY <1>1, <2>1, <3>1
    <3>4. \A k \in Eigene(w, g) : k <= l + 1
      BY <1>1, <2>1, <2>2, <3>1
    <3>5. Letzte(Eigene(w, g)) = l + 1
      BY <2>2, <3>3, <3>4, LetzteIst
    <3>6. Sicht(r, w)[g] = w[l + 1].wert
      BY <3>3, <3>5, SichtWert
    <3> QED BY <1>1, <3>1, <3>2, <3>6
  <2>4. CASE Eigene(t, g) = {} /\ g = x.key
    <3>1. 1 \in Eigene(w, g) /\ \A k \in Eigene(w, g) : k <= 1
      BY <1>1, <2>1, <2>2, <2>4
    <3>2. Letzte(Eigene(w, g)) = 1
      BY <2>2, <3>1, LetzteIst
    <3>3. Sicht(r, w)[g] = w[1].wert /\ Sicht(q, t)[g] = q[g]
      BY <2>4, <3>1, <3>2, SichtWert
    <3> QED BY <1>1, <1>3, <2>4, <3>3
  <2>5. CASE Eigene(t, g) = {} /\ g # x.key
    <3>1. Eigene(w, g) = {}
      BY <2>1, <2>2, <2>5
    <3> QED BY <1>3, <2>5, <3>1, SichtWert
  <2> QED BY <2>3, <2>4, <2>5
<1>6. Sicht(q, t) = Sicht(r, w)
  BY <1>4, <1>5, SichtGleich
<1> QED BY <1>6 DEF q, t

(***************************************************************************)
(* The four updates of a save.                                             *)
(***************************************************************************)
Stand == [ausstehend: Seq(Schreibung), ereignisse: Seq(Meldung),
          absturz: {"keiner", "text"}]
Update == [feld: Grenzen, key: Grenzen]

Nach0 == [ausstehend |-> ausstehend, ereignisse |-> ereignisse, absturz |-> absturz]
Nach1 == Schreibe(Nach0, Schreibfolge[1])
Nach2 == Schreibe(Nach1, Schreibfolge[2])
Nach3 == Schreibe(Nach2, Schreibfolge[3])
Nach4 == Schreibe(Nach3, Schreibfolge[4])

LEMMA Typen ==
  TypeOK => /\ regel \in Regel /\ ausstehend \in Seq(Schreibung)
            /\ ereignisse \in Seq(Meldung)
            /\ Sicht(regel, ausstehend) \in Regel
BY SichtTyp DEF TypeOK, Regel, Schreibung, Meldung

LEMMA EreignisTyp ==
  ASSUME NEW r \in Regel
  PROVE  /\ Ereignis(r) \in Meldung /\ Ereignis(r).regel = r
         /\ seite = "offen" => "seite" \in Ereignis(r).an
<1>1. Registriert \subseteq Beobachter
  BY DEF Registriert, Beobachter
<1>2. Ereignis(r).regel = r /\ Ereignis(r).an = Registriert
  BY DEF Ereignis
<1>3. Ereignis(r) \in Meldung
  BY <1>1 DEF Ereignis, Meldung
<1>4. seite = "offen" => "seite" \in Registriert
  BY DEF Registriert
<1> QED BY <1>2, <1>3, <1>4

\* What one update does: nothing, a trap, or one more write of this device,
\* told to the observers if the device sees a difference.
Nichts(z, s, y) == y = z /\ (z.absturz # "keiner" \/ feld[s.feld] = KeinText)

Falle(z, s, y) ==
  /\ z.absturz = "keiner" /\ feld[s.feld] = KeineZahl
  /\ y.absturz = "text" /\ y.ausstehend = z.ausstehend /\ y.ereignisse = z.ereignisse

Auftrag(s) == [key |-> s.key, wert |-> 60 * feld[s.feld]]

Geschrieben(z, s, y) ==
  /\ z.absturz = "keiner" /\ y.absturz = "keiner"
  /\ feld[s.feld] \in Nat
  /\ Auftrag(s) \in Schreibung
  /\ Auftrag(s).key = s.key /\ Auftrag(s).wert = 60 * feld[s.feld]
  /\ y.ausstehend = Append(z.ausstehend, Auftrag(s))
  /\ Sicht(regel, y.ausstehend) =
       [Sicht(regel, z.ausstehend) EXCEPT ![s.key] = 60 * feld[s.feld]]
  /\ Sicht(regel, y.ausstehend) \in Regel
  /\ IF verbunden /\ Sicht(regel, y.ausstehend) # Sicht(regel, z.ausstehend)
     THEN y.ereignisse = Append(z.ereignisse, Ereignis(Sicht(regel, y.ausstehend)))
     ELSE y.ereignisse = z.ereignisse

LEMMA SchreibeWirkung ==
  ASSUME TypeOK, NEW z \in Stand, NEW s \in Update
  PROVE  /\ Schreibe(z, s) \in Stand
         /\ \/ Nichts(z, s, Schreibe(z, s))
            \/ Falle(z, s, Schreibe(z, s))
            \/ Geschrieben(z, s, Schreibe(z, s))
<1> DEFINE y == Schreibe(z, s)
           w == Append(z.ausstehend, Auftrag(s))
           r == Sicht(regel, w)
           e == IF verbunden /\ r # Sicht(regel, z.ausstehend)
                THEN Append(z.ereignisse, Ereignis(r)) ELSE z.ereignisse
<1>1. /\ z.ausstehend \in Seq(Schreibung) /\ z.ereignisse \in Seq(Meldung)
      /\ z.absturz \in {"keiner", "text"}
      /\ s.feld \in Grenzen /\ s.key \in Grenzen
  BY DEF Stand, Update
<1>2. feld[s.feld] \in Nat \cup {KeinText, KeineZahl} /\ regel \in Regel
  BY <1>1, Typen DEF TypeOK
<1>3. CASE z.absturz # "keiner" \/ feld[s.feld] = KeinText
  <2>1. y = z
    BY <1>3 DEF Schreibe, KeinText, KeineZahl
  <2> QED BY <1>3, <2>1 DEF Nichts
<1>4. CASE z.absturz = "keiner" /\ feld[s.feld] = KeineZahl
  <2>1. feld[s.feld] # KeinText
    BY <1>4 DEF KeinText, KeineZahl
  <2>2. y = [z EXCEPT !.absturz = "text"]
    BY <1>4, <2>1 DEF Schreibe
  <2>3. /\ y \in Stand /\ y.absturz = "text" /\ y.ausstehend = z.ausstehend
        /\ y.ereignisse = z.ereignisse
    BY <2>2 DEF Stand
  <2> QED BY <1>4, <2>3 DEF Falle
<1>5. CASE z.absturz = "keiner" /\ feld[s.feld] \notin {KeinText, KeineZahl}
  <2>1. feld[s.feld] \in Nat
    BY <1>2, <1>5
  <2>2. /\ Auftrag(s) \in Schreibung
        /\ Auftrag(s).key = s.key /\ Auftrag(s).wert = 60 * feld[s.feld]
    BY <1>1, <2>1 DEF Auftrag, Schreibung
  <2>3. w \in Seq(Schreibung)
    BY <1>1, <2>2
  <2>4. /\ r \in Regel
        /\ r = [Sicht(regel, z.ausstehend) EXCEPT ![s.key] = 60 * feld[s.feld]]
    <3> DEFINE v == z.ausstehend
               x == Auftrag(s)
    <3>1. v \in Seq(Schreibung) /\ x \in Schreibung /\ w = Append(v, x)
      BY <1>1, <2>2
    <3> HIDE DEF v, x, w
    <3>2. r \in Regel
      BY <1>2, <2>3, SichtTyp
    <3>3. Sicht(regel, Append(v, x)) = [Sicht(regel, v) EXCEPT ![x.key] = x.wert]
      BY <1>2, <3>1, SichtAnhang
    <3>4. x.key = s.key /\ x.wert = 60 * feld[s.feld]
      BY <2>2 DEF x
    <3> QED BY <3>1, <3>2, <3>3, <3>4 DEF v
  <2>5. y = [ausstehend |-> w, absturz |-> "keiner", ereignisse |-> e]
    BY <1>5 DEF Schreibe, Auftrag
  <2> HIDE DEF w, r
  <2>6. e \in Seq(Meldung)
    <3>1. Ereignis(r) \in Meldung
      BY <2>4, EreignisTyp
    <3> HIDE DEF Ereignis
    <3>2. Append(z.ereignisse, Ereignis(r)) \in Seq(Meldung)
      BY <1>1, <3>1
    <3> QED BY <1>1, <3>2
  <2> HIDE DEF e, y
  <2>7. /\ y.ausstehend = w /\ y.absturz = "keiner" /\ y.ereignisse = e
        /\ y \in Stand
    BY <2>3, <2>5, <2>6 DEF Stand
  <2>8. Geschrieben(z, s, y)
    BY <1>5, <2>1, <2>2, <2>4, <2>7 DEF Geschrieben, w, r, e
  <2> QED BY <2>7, <2>8 DEF y
<1> QED BY <1>1, <1>2, <1>3, <1>4, <1>5

LEMMA Folge ==
  /\ \A i \in 1..4 : Schreibfolge[i] \in Update
  /\ Schreibfolge[1] = [feld |-> "gelb", key |-> "gelb"]
  /\ Schreibfolge[2] = [feld |-> "rot", key |-> "rot"]
  /\ Schreibfolge[3] = [feld |-> "rot2", key |-> "rot"]
  /\ Schreibfolge[4] = [feld |-> "gelb2", key |-> "rot"]
BY DEF Schreibfolge, Update, Grenzen

\* A save leaves what the four updates leave, one after the other.
LEMMA Speichern ==
  ASSUME TypeOK, updateAmpel
  PROVE  /\ Nach0 \in Stand /\ Nach1 \in Stand /\ Nach2 \in Stand /\ Nach3 \in Stand /\ Nach4 \in Stand
         /\ Nach0.ausstehend = ausstehend /\ Nach0.ereignisse = ereignisse
         /\ Nach0.absturz = "keiner"
         /\ ausstehend' = Nach4.ausstehend /\ ereignisse' = Nach4.ereignisse
         /\ absturz' = Nach4.absturz
         /\ eingabe' = IF Nach4.absturz = "keiner" THEN feld ELSE Leer
         /\ seite = "offen" /\ speicherungen' = speicherungen + 1
         /\ speicherungen < MaxSpeichern
         /\ UNCHANGED <<regel, verbunden, seiteVars, grenze, fremde>>
<1>1. /\ Nach0.ausstehend = ausstehend /\ Nach0.ereignisse = ereignisse /\ Nach0.absturz = absturz
  BY DEF Nach0
<1>2. absturz = "keiner" /\ seite = "offen"
  BY DEF updateAmpel, laeuft
<1>3. Nach0 \in Stand
  BY <1>2, Typen DEF Nach0, Stand
<1>4. Nach1 \in Stand
  BY <1>3, Folge, SchreibeWirkung DEF Nach1
<1>5. Nach2 \in Stand
  BY <1>4, Folge, SchreibeWirkung DEF Nach2
<1>6. Nach3 \in Stand
  BY <1>5, Folge, SchreibeWirkung DEF Nach3
<1>7. Nach4 \in Stand
  BY <1>6, Folge, SchreibeWirkung DEF Nach4
<1>8. /\ ausstehend' = Nach4.ausstehend /\ ereignisse' = Nach4.ereignisse
      /\ absturz' = Nach4.absturz
      /\ eingabe' = IF Nach4.absturz = "keiner" THEN feld ELSE Leer
  BY DEF updateAmpel, Nach4, Nach3, Nach2, Nach1, Nach0
<1>9. /\ speicherungen' = speicherungen + 1 /\ speicherungen < MaxSpeichern
      /\ UNCHANGED <<regel, verbunden, seiteVars, grenze, fremde>>
  BY DEF updateAmpel
<1> QED BY <1>1, <1>2, <1>3, <1>4, <1>5, <1>6, <1>7, <1>8, <1>9

(***************************************************************************)
(* Types.                                                                  *)
(***************************************************************************)
LEMMA AmpelmodelTyp ==
  ASSUME NEW r \in Regel
  PROVE  /\ Ampelmodel(r) \in [Grenzen -> Nat]
         /\ \A g \in Grenzen : Ampelmodel(r)[g] \in {r[g], 3000, 6000}
<1>1. \A g \in Grenzen : r[g] \in Nat \cup {Fehlt}
  BY DEF Regel
<1>2. ASSUME NEW g \in Grenzen
      PROVE  Ampelmodel(r)[g] \in Nat /\ Ampelmodel(r)[g] \in {r[g], 3000, 6000}
  BY <1>1 DEF Ampelmodel
<1>3. Ampelmodel(r) \in [Grenzen -> Nat]
  BY <1>1 DEF Ampelmodel
<1> QED BY <1>2, <1>3

LEMMA AnzeigeTyp ==
  ASSUME NEW a \in [Grenzen -> Nat]
  PROVE  /\ Anzeige(a) \in [Grenzen -> Nat]
         /\ \A g \in Grenzen : Anzeige(a)[g] = a[g] \div 60 /\ 60 * Anzeige(a)[g] <= a[g]
<1>1. \A g \in Grenzen : a[g] \div 60 \in Nat /\ 60 * (a[g] \div 60) <= a[g]
  OBVIOUS
<1> QED BY <1>1 DEF Anzeige

\* The main queue: an event at its end, and the first one taken off.
LEMMA Angehaengt ==
  ASSUME NEW S, NEW s \in Seq(S), NEW x \in S
  PROVE  /\ Append(s, x) \in Seq(S) /\ Append(s, x) # <<>>
         /\ Len(Append(s, x)) = Len(s) + 1
         /\ Append(s, x)[Len(Append(s, x))] = x
         /\ \A i \in 1..Len(Append(s, x)) :
              (i \in 1..Len(s) /\ Append(s, x)[i] = s[i]) \/ Append(s, x)[i] = x
OBVIOUS

LEMMA Abgenommen ==
  ASSUME NEW S, NEW s \in Seq(S), s # <<>>
  PROVE  /\ Head(s) \in S /\ Tail(s) \in Seq(S)
         /\ Len(s) \in Nat /\ 1 \in 1..Len(s) /\ Head(s) = s[1]
         /\ Len(Tail(s)) = Len(s) - 1
         /\ \A i \in 1..Len(Tail(s)) : i + 1 \in 1..Len(s) /\ Tail(s)[i] = s[i + 1]
         /\ Tail(s) = <<>> => Len(s) = 1
         /\ Tail(s) # <<>> => Tail(s)[Len(Tail(s))] = s[Len(s)]
<1>1. /\ Head(s) \in S /\ Tail(s) \in Seq(S)
      /\ Len(s) \in Nat /\ 1 \in 1..Len(s) /\ Head(s) = s[1]
      /\ Len(Tail(s)) = Len(s) - 1
      /\ \A i \in 1..Len(Tail(s)) : i + 1 \in 1..Len(s) /\ Tail(s)[i] = s[i + 1]
  OBVIOUS
<1> DEFINE t == Tail(s)
<1> HIDE DEF t
<1>2. t \in Seq(S) /\ Len(t) = Len(s) - 1 /\ \A i \in 1..Len(t) : t[i] = s[i + 1]
  BY <1>1 DEF t
<1>3. t = <<>> => Len(s) = 1
  <2>1. t = <<>> => Len(t) = 0
    OBVIOUS
  <2>2. Len(t) = Len(s) - 1 /\ Len(s) \in Nat
    BY <1>1, <1>2
  <2> QED BY <2>1, <2>2
<1>4. t # <<>> => Len(t) \in 1..Len(t)
  BY <1>2
<1>5. t # <<>> => t[Len(t)] = s[Len(s)]
  <2>1. Len(t) + 1 = Len(s)
    BY <1>1, <1>2
  <2> QED BY <1>2, <1>4, <2>1
<1> QED BY <1>1, <1>3, <1>5 DEF t

LEMMA TypStart == Init => TypeOK
<1> SUFFICES ASSUME Init
             PROVE  TypeOK
  OBVIOUS
<1>1. Keine \in Regel /\ \A s \in Sekunden : [Keine EXCEPT !.gelb = s] \in Regel
  BY SekundenAnnahme DEF Keine, Regel
<1>2. regel \in Regel
  BY <1>1 DEF Init
<1>3. /\ feld \in [Grenzen -> Nat \cup {KeinText, KeineZahl}]
      /\ eingabe \in [Grenzen -> Nat \cup {KeinText}]
      /\ grenze \in [Grenzen -> Nat]
  BY DEF Init, Leer
<1>4. /\ ausstehend = <<>> /\ ereignisse = <<>> /\ speicherungen = 0 /\ fremde = 0
      /\ eingaben = 0
  BY DEF Init
<1>5. ausstehend \in Seq(Schreibung) /\ ereignisse \in Seq(Meldung)
  BY <1>4
<1>6. /\ speicherungen \in 0..MaxSpeichern /\ fremde \in 0..MaxFremd
      /\ eingaben \in 0..MaxTippen
  BY <1>4, MaxAnnahme
<1>7. /\ verbunden \in BOOLEAN /\ aktualisieren \in BOOLEAN /\ getippt \in BOOLEAN
      /\ seite \in {"zu", "offen", "verlassen"}
      /\ absturz \in {"keiner", "text", "int"}
  BY DEF Init
<1> QED BY <1>2, <1>3, <1>5, <1>6, <1>7 DEF TypeOK, Regel, Schreibung, Meldung

LEMMA TypLaden == TypeOK /\ loadampel => TypeOK'
<1> SUFFICES ASSUME TypeOK, loadampel
             PROVE  TypeOK'
  OBVIOUS
<1> DEFINE e == Head(ereignisse)
           a == Ampelmodel(e.regel)
<1>1. ereignisse \in Seq(Meldung) /\ ereignisse # <<>> /\ ereignisse' = Tail(ereignisse)
  BY Typen DEF loadampel
<1>2. e \in Meldung /\ ereignisse' \in Seq(Meldung)
  BY <1>1, Abgenommen
<1>3. a \in [Grenzen -> Nat] /\ Anzeige(a) \in [Grenzen -> Nat]
  BY <1>2, AmpelmodelTyp, AnzeigeTyp DEF Meldung
<1>4. /\ grenze' = a \/ grenze' = grenze
      /\ feld' = Anzeige(a) \/ feld' = feld
      /\ getippt' = FALSE \/ getippt' = getippt
      /\ absturz' = "int" \/ absturz' = absturz
      /\ UNCHANGED <<dbVars, seite, aktualisieren, eingaben, speicherungen, fremde,
                     eingabe>>
  BY DEF loadampel, Uebernahme
<1> HIDE DEF a, e
<1>5. feld' \in [Grenzen -> Nat \cup {KeinText, KeineZahl}] /\ grenze' \in [Grenzen -> Nat]
  BY <1>3, <1>4 DEF TypeOK
<1>6. getippt' \in BOOLEAN /\ absturz' \in {"keiner", "text", "int"}
  BY <1>4 DEF TypeOK
<1> QED BY <1>2, <1>4, <1>5, <1>6 DEF TypeOK, dbVars, Meldung, Regel

LEMMA TypDatenbank ==
  ASSUME TypeOK, \/ ErsteDaten \/ ServerNimmt
                 \/ \E g \in Grenzen, s \in Sekunden : FremdeAenderung(g, s)
  PROVE  TypeOK'
<1>1. CASE ErsteDaten
  <2>1. Ereignis(Sicht(regel, ausstehend)) \in Meldung
    BY Typen, EreignisTyp
  <2>2. ereignisse' = Append(ereignisse, Ereignis(Sicht(regel, ausstehend)))
    BY <1>1 DEF ErsteDaten
  <2>3. ereignisse' \in Seq(Meldung)
    BY <2>1, <2>2, Typen, Angehaengt
  <2> QED BY <1>1, <2>3 DEF ErsteDaten, TypeOK, Meldung, Regel, seiteVars
<1>2. CASE ServerNimmt
  <2>1. /\ ausstehend \in Seq(Schreibung) /\ ausstehend # <<>>
        /\ regel' = [regel EXCEPT ![Head(ausstehend).key] = Head(ausstehend).wert]
        /\ ausstehend' = Tail(ausstehend)
        /\ UNCHANGED <<verbunden, ereignisse, seiteVars, grenze, absturz,
                       speicherungen, fremde, eingabe>>
    BY <1>2, Typen DEF ServerNimmt
  <2>2. Head(ausstehend) \in Schreibung /\ ausstehend' \in Seq(Schreibung)
    BY <2>1, Abgenommen
  <2>3. regel' \in Regel
    BY <2>1, <2>2, Typen DEF Regel, Schreibung
  <2> QED BY <2>1, <2>2, <2>3 DEF TypeOK, Schreibung, Regel, seiteVars
<1>3. ASSUME NEW g \in Grenzen, NEW s \in Sekunden, FremdeAenderung(g, s)
      PROVE  TypeOK'
  <2> DEFINE r == Sicht(regel', ausstehend)
  <2>1. regel' \in Regel
    BY <1>3, Typen, SekundenAnnahme DEF FremdeAenderung, Regel
  <2>2. Ereignis(r) \in Meldung
    BY <2>1, Typen, SichtTyp, EreignisTyp
  <2>3. ereignisse' = Append(ereignisse, Ereignis(r)) \/ ereignisse' = ereignisse
    BY <1>3 DEF FremdeAenderung
  <2>4. ereignisse' \in Seq(Meldung)
    BY <2>2, <2>3, Typen, Angehaengt
  <2>5. fremde' \in 0..MaxFremd /\ eingabe' \in [Grenzen -> Nat \cup {KeinText}]
    BY <1>3, MaxAnnahme DEF FremdeAenderung, TypeOK, Leer
  <2>6. UNCHANGED <<ausstehend, verbunden, seiteVars, grenze, absturz, speicherungen>>
    BY <1>3 DEF FremdeAenderung
  <2> QED BY <2>1, <2>4, <2>5, <2>6 DEF TypeOK, Meldung, Regel, seiteVars
<1> QED BY <1>1, <1>2, <1>3

\* A save without a trap has read a number or nothing from every field.
LEMMA SchreibeGelesen ==
  ASSUME TypeOK, NEW z \in Stand, NEW s \in Update, Schreibe(z, s).absturz = "keiner"
  PROVE  z.absturz = "keiner" /\ feld[s.feld] # KeineZahl
<1> DEFINE y == Schreibe(z, s)
<1>1. Nichts(z, s, y) \/ Falle(z, s, y) \/ Geschrieben(z, s, y)
  BY SchreibeWirkung
<1>2. KeinText # KeineZahl /\ KeineZahl \notin Nat
  BY DEF KeinText, KeineZahl
<1>3. y.absturz = "keiner"
  OBVIOUS
<1> HIDE DEF y
<1>4. CASE Nichts(z, s, y)
  BY <1>2, <1>3, <1>4 DEF Nichts
<1>5. CASE Falle(z, s, y)
  BY <1>3, <1>5 DEF Falle
<1>6. CASE Geschrieben(z, s, y)
  BY <1>2, <1>6 DEF Geschrieben
<1> QED BY <1>1, <1>4, <1>5, <1>6

LEMMA AlleGelesen ==
  ASSUME TypeOK, updateAmpel, Nach4.absturz = "keiner"
  PROVE  /\ Nach1.absturz = "keiner" /\ Nach2.absturz = "keiner" /\ Nach3.absturz = "keiner"
         /\ \A g \in Grenzen : feld[g] # KeineZahl
<1>1. Nach0 \in Stand /\ Nach1 \in Stand /\ Nach2 \in Stand /\ Nach3 \in Stand
  BY Speichern
<1>2. /\ \A i \in 1..4 : Schreibfolge[i] \in Update
      /\ Schreibfolge[1].feld = "gelb" /\ Schreibfolge[2].feld = "rot"
      /\ Schreibfolge[3].feld = "rot2" /\ Schreibfolge[4].feld = "gelb2"
  BY Folge
<1>3. Nach3.absturz = "keiner" /\ feld["gelb2"] # KeineZahl
  BY <1>1, <1>2, SchreibeGelesen DEF Nach4
<1>4. Nach2.absturz = "keiner" /\ feld["rot2"] # KeineZahl
  BY <1>1, <1>2, <1>3, SchreibeGelesen DEF Nach3
<1>5. Nach1.absturz = "keiner" /\ feld["rot"] # KeineZahl
  BY <1>1, <1>2, <1>4, SchreibeGelesen DEF Nach2
<1>6. feld["gelb"] # KeineZahl
  BY <1>1, <1>2, <1>5, SchreibeGelesen DEF Nach1
<1> QED BY <1>3, <1>4, <1>5, <1>6 DEF Grenzen

LEMMA TypSpeichern ==
  ASSUME TypeOK, updateAmpel
  PROVE  TypeOK'
<1>1. Nach4 \in Stand /\ ausstehend' = Nach4.ausstehend /\ ereignisse' = Nach4.ereignisse
      /\ absturz' = Nach4.absturz
  BY Speichern
<1>2. /\ ausstehend' \in Seq(Schreibung) /\ ereignisse' \in Seq(Meldung)
      /\ absturz' \in {"keiner", "text", "int"}
  BY <1>1 DEF Stand
<1>3. eingabe' \in [Grenzen -> Nat \cup {KeinText}]
  <2>1. eingabe' = IF Nach4.absturz = "keiner" THEN feld ELSE Leer
    BY Speichern
  <2>2. CASE Nach4.absturz = "keiner"
    BY <2>1, <2>2, AlleGelesen DEF TypeOK
  <2>3. CASE Nach4.absturz # "keiner"
    BY <2>1, <2>3 DEF Leer
  <2> QED BY <2>2, <2>3
<1>4. speicherungen' \in 0..MaxSpeichern
  BY MaxAnnahme DEF updateAmpel, TypeOK
<1>5. UNCHANGED <<regel, verbunden, seiteVars, grenze, fremde>>
  BY DEF updateAmpel
<1> QED BY <1>2, <1>3, <1>4, <1>5 DEF TypeOK, Schreibung, Meldung, Regel, seiteVars

LEMMA TypSchritt == TypeOK /\ [Next]_vars => TypeOK'
<1> SUFFICES ASSUME TypeOK, [Next]_vars
             PROVE  TypeOK'
  OBVIOUS
<1>1. CASE oeffnen
  <2> DEFINE x == [an |-> {"seite"}, regel |-> Sicht(regel, ausstehend)]
  <2>1. x \in Meldung
    BY Typen DEF Meldung, Beobachter
  <2>2. ereignisse' = Append(ereignisse, x) \/ ereignisse' = ereignisse
    BY <1>1 DEF oeffnen
  <2> HIDE DEF x
  <2>3. ereignisse' \in Seq(Meldung)
    BY <2>1, <2>2, Typen, Angehaengt
  <2>4. /\ feld' \in [Grenzen -> Nat \cup {KeinText, KeineZahl}]
        /\ aktualisieren' \in BOOLEAN /\ getippt' \in BOOLEAN
        /\ seite' \in {"zu", "offen", "verlassen"}
    BY <1>1 DEF oeffnen, Leer
  <2>5. UNCHANGED <<dbVars, eingaben, grenze, absturz, speicherungen, fremde, eingabe>>
    BY <1>1 DEF oeffnen
  <2> QED BY <2>3, <2>4, <2>5 DEF TypeOK, Meldung, Regel, dbVars
<1>2. CASE verlassen
  BY <1>2 DEF verlassen, TypeOK, dbVars
<1>3. CASE textFieldDidEndEditing
  <2>1. aktualisieren' \in BOOLEAN
    BY <1>3 DEF textFieldDidEndEditing
  <2> QED BY <1>3, <2>1 DEF textFieldDidEndEditing, TypeOK, dbVars
<1>4. ASSUME NEW g \in Grenzen, NEW t \in Text, tippen(g, t)
      PROVE  TypeOK'
  <2>1. t \in Nat \cup {KeinText, KeineZahl}
    BY MinutenAnnahme DEF Text
  <2>2. feld' \in [Grenzen -> Nat \cup {KeinText, KeineZahl}] /\ getippt' \in BOOLEAN
    BY <1>4, <2>1 DEF tippen, TypeOK
  <2>3. eingaben' \in 0..MaxTippen
    BY <1>4, MaxAnnahme DEF tippen, TypeOK
  <2> QED BY <1>4, <2>2, <2>3 DEF tippen, TypeOK, dbVars
<1>5. CASE UNCHANGED vars
  BY <1>5 DEF vars, dbVars, seiteVars, TypeOK
<1> QED BY <1>1, <1>2, <1>3, <1>4, <1>5, TypLaden, TypDatenbank, TypSpeichern DEF Next

\* The record, the fields and the limits keep their types: no list colours by
\* a missing limit, and what a save remembers of the fields are numbers
\* (DetailEinstellungenVC.swift 93-116).
THEOREM TypKorrekt == Spec => []TypeOK
BY TypStart, TypSchritt, PTL DEF Spec

(***************************************************************************)
(* The colour of a header.                                                 *)
(***************************************************************************)
LEMMA FarbeSteigt ==
  ASSUME NEW gelb \in Nat, NEW rot \in Nat, NEW a \in Nat, NEW b \in Nat,
         a \notin {gelb, rot}, b \notin {gelb, rot}, a < b
  PROVE  Rang(Farbe(a, gelb, rot)) <= Rang(Farbe(b, gelb, rot))
<1>1. Rang("gruen") = 1 /\ Rang("gelb") = 2 /\ Rang("rot") = 3
  BY DEF Rang
<1>2. /\ Farbe(a, gelb, rot) = IF a > rot THEN "rot" ELSE IF a > gelb THEN "gelb" ELSE "gruen"
      /\ Farbe(b, gelb, rot) = IF b > rot THEN "rot" ELSE IF b > gelb THEN "gelb" ELSE "gruen"
  BY DEF Farbe
<1>3. CASE a > rot
  BY <1>1, <1>2, <1>3
<1>4. CASE ~(a > rot) /\ a > gelb
  BY <1>1, <1>2, <1>4
<1>5. CASE ~(a > rot) /\ ~(a > gelb)
  BY <1>1, <1>2, <1>5
<1> QED BY <1>3, <1>4, <1>5

\* An older order never looks fresher than a younger one, for all limits
\* loadampel may have stored, also when red is below yellow
\* (viewForHeaderInSection, KellnerVC.swift and KellnerAngenommenVC.swift).
THEOREM FarbeGeltend == Spec => []FarbeMonoton
<1>1. TypeOK => FarbeMonoton
  <2> SUFFICES ASSUME TypeOK
               PROVE  FarbeMonoton
    OBVIOUS
  <2>1. /\ grenze["gelb"] \in Nat /\ grenze["rot"] \in Nat
        /\ grenze["gelb2"] \in Nat /\ grenze["rot2"] \in Nat
    BY DEF TypeOK, Grenzen
  <2>2. ASSUME NEW g, NEW r, grenze[g] \in Nat, grenze[r] \in Nat,
               NEW a \in Alter \ {grenze[g], grenze[r]},
               NEW b \in Alter \ {grenze[g], grenze[r]}, a < b
        PROVE  Rang(Farbe(a, grenze[g], grenze[r])) <= Rang(Farbe(b, grenze[g], grenze[r]))
    BY <2>2, FarbeSteigt, SekundenAnnahme
  <2>3. ASSUME NEW z \in {<<"gelb", "rot">>, <<"gelb2", "rot2">>},
               NEW a \in Alter \ {grenze[z[1]], grenze[z[2]]},
               NEW b \in Alter \ {grenze[z[1]], grenze[z[2]]}, a < b
        PROVE  Rang(Farbe(a, grenze[z[1]], grenze[z[2]]))
                 <= Rang(Farbe(b, grenze[z[1]], grenze[z[2]]))
    <3>1. grenze[z[1]] \in Nat /\ grenze[z[2]] \in Nat
      BY <2>1
    <3> QED BY <2>2, <2>3, <3>1
  <2> QED BY <2>3 DEF FarbeMonoton
<1> QED BY <1>1, TypKorrekt, PTL

(***************************************************************************)
(* What a save leaves in the database.  The writes of this device may wait *)
(* for long, so the invariant speaks of what the device sees.              *)
(***************************************************************************)
LetztesFeld == IF eingabe["gelb2"] # KeinText THEN "gelb2"
               ELSE IF eingabe["rot2"] # KeinText THEN "rot2" ELSE "rot"

GesehenWieEingegeben ==
  /\ eingabe["gelb"] # KeinText =>
       Sicht(regel, ausstehend)["gelb"] = 60 * eingabe["gelb"]
  /\ eingabe[LetztesFeld] # KeinText =>
       Sicht(regel, ausstehend)["rot"] = 60 * eingabe[LetztesFeld]

SpeicherInv == TypeOK /\ GesehenWieEingegeben

\* One update, if nothing traps: what is seen afterwards.
LEMMA SchreibeGesehen ==
  ASSUME TypeOK, NEW z \in Stand, NEW s \in Update, Schreibe(z, s).absturz = "keiner",
         z.absturz = "keiner"
  PROVE  Sicht(regel, Schreibe(z, s).ausstehend) =
           IF feld[s.feld] = KeinText THEN Sicht(regel, z.ausstehend)
           ELSE [Sicht(regel, z.ausstehend) EXCEPT ![s.key] = 60 * feld[s.feld]]
<1> DEFINE y == Schreibe(z, s)
<1>1. Nichts(z, s, y) \/ Falle(z, s, y) \/ Geschrieben(z, s, y)
  BY SchreibeWirkung
<1>2. KeinText \notin Nat
  BY DEF KeinText
<1>3. y.absturz = "keiner"
  OBVIOUS
<1> HIDE DEF y
<1>4. CASE Nichts(z, s, y)
  BY <1>4 DEF Nichts, y
<1>5. CASE Falle(z, s, y)
  BY <1>3, <1>5 DEF Falle
<1>6. CASE Geschrieben(z, s, y)
  BY <1>2, <1>6 DEF Geschrieben, y
<1> QED BY <1>1, <1>4, <1>5, <1>6

LEMMA GesehenSpeichern ==
  ASSUME TypeOK, updateAmpel
  PROVE  GesehenWieEingegeben'
<1>1. /\ Nach0 \in Stand /\ Nach1 \in Stand /\ Nach2 \in Stand /\ Nach3 \in Stand /\ Nach4 \in Stand
      /\ Nach0.absturz = "keiner" /\ ausstehend' = Nach4.ausstehend /\ regel' = regel
      /\ eingabe' = IF Nach4.absturz = "keiner" THEN feld ELSE Leer
  BY Speichern
<1>2. CASE Nach4.absturz # "keiner"
  <2>1. \A g \in Grenzen : eingabe'[g] = KeinText
    BY <1>1, <1>2 DEF Leer
  <2>2. eingabe'["gelb"] = KeinText /\ eingabe'["gelb2"] = KeinText
        /\ eingabe'["rot2"] = KeinText /\ eingabe'["rot"] = KeinText
    BY <2>1 DEF Grenzen
  <2> QED BY <2>2 DEF GesehenWieEingegeben, LetztesFeld
<1>3. CASE Nach4.absturz = "keiner"
  <2> DEFINE S0 == Sicht(regel, Nach0.ausstehend)
             S1 == Sicht(regel, Nach1.ausstehend)
             S2 == Sicht(regel, Nach2.ausstehend)
             S3 == Sicht(regel, Nach3.ausstehend)
             S4 == Sicht(regel, Nach4.ausstehend)
  <2>1. Nach1.absturz = "keiner" /\ Nach2.absturz = "keiner" /\ Nach3.absturz = "keiner"
    BY <1>3, AlleGelesen
  <2>2. /\ \A i \in 1..4 : Schreibfolge[i] \in Update
        /\ Schreibfolge[1].feld = "gelb" /\ Schreibfolge[1].key = "gelb"
        /\ Schreibfolge[2].feld = "rot" /\ Schreibfolge[2].key = "rot"
        /\ Schreibfolge[3].feld = "rot2" /\ Schreibfolge[3].key = "rot"
        /\ Schreibfolge[4].feld = "gelb2" /\ Schreibfolge[4].key = "rot"
    BY Folge
  <2>3. S1 = IF feld["gelb"] = KeinText THEN S0
             ELSE [S0 EXCEPT !["gelb"] = 60 * feld["gelb"]]
    BY <1>1, <2>1, <2>2, SchreibeGesehen DEF Nach1
  <2>4. S2 = IF feld["rot"] = KeinText THEN S1
             ELSE [S1 EXCEPT !["rot"] = 60 * feld["rot"]]
    BY <1>1, <2>1, <2>2, SchreibeGesehen DEF Nach2
  <2>5. S3 = IF feld["rot2"] = KeinText THEN S2
             ELSE [S2 EXCEPT !["rot"] = 60 * feld["rot2"]]
    BY <1>1, <2>1, <2>2, SchreibeGesehen DEF Nach3
  <2>6. S4 = IF feld["gelb2"] = KeinText THEN S3
             ELSE [S3 EXCEPT !["rot"] = 60 * feld["gelb2"]]
    BY <1>1, <1>3, <2>1, <2>2, SchreibeGesehen DEF Nach4
  <2>7. DOMAIN S0 = Grenzen /\ "gelb" \in Grenzen /\ "rot" \in Grenzen
    BY DEF Sicht, Grenzen
  <2> HIDE DEF S0, S1, S2, S3, S4
  <2>8. DOMAIN S1 = Grenzen /\ DOMAIN S2 = Grenzen /\ DOMAIN S3 = Grenzen
    BY <2>3, <2>4, <2>5, <2>7
  <2>9. feld["gelb"] # KeinText => S1["gelb"] = 60 * feld["gelb"]
    BY <2>3, <2>7
  <2>10. S2["gelb"] = S1["gelb"] /\ S3["gelb"] = S2["gelb"] /\ S4["gelb"] = S3["gelb"]
    BY <2>4, <2>5, <2>6, <2>7, <2>8
  <2>11. /\ feld["gelb2"] # KeinText => S4["rot"] = 60 * feld["gelb2"]
         /\ feld["gelb2"] = KeinText => S4["rot"] = S3["rot"]
    BY <2>6, <2>7, <2>8
  <2>12. /\ feld["rot2"] # KeinText => S3["rot"] = 60 * feld["rot2"]
         /\ feld["rot2"] = KeinText => S3["rot"] = S2["rot"]
    BY <2>5, <2>7, <2>8
  <2>13. feld["rot"] # KeinText => S2["rot"] = 60 * feld["rot"]
    BY <2>4, <2>7, <2>8
  <2>14. eingabe' = feld /\ Sicht(regel', ausstehend') = S4
    BY <1>1, <1>3 DEF S4
  <2> QED BY <2>9, <2>10, <2>11, <2>12, <2>13, <2>14
          DEF GesehenWieEingegeben, LetztesFeld
<1> QED BY <1>2, <1>3

LEMMA SpeicherSchritt == SpeicherInv /\ [Next]_vars => SpeicherInv'
<1> SUFFICES ASSUME SpeicherInv, [Next]_vars
             PROVE  GesehenWieEingegeben'
  BY TypSchritt DEF SpeicherInv
<1>1. TypeOK /\ GesehenWieEingegeben
  BY DEF SpeicherInv
<1>2. CASE UNCHANGED <<eingabe, regel, ausstehend>>
  BY <1>1, <1>2 DEF GesehenWieEingegeben, LetztesFeld
<1>3. CASE ServerNimmt
  <2>1. Sicht(regel', ausstehend') = Sicht(regel, ausstehend) /\ UNCHANGED eingabe
    BY <1>1, <1>3, Typen, SichtServer DEF ServerNimmt
  <2> QED BY <1>1, <2>1 DEF GesehenWieEingegeben, LetztesFeld
<1>4. ASSUME NEW g \in Grenzen, NEW s \in Sekunden, FremdeAenderung(g, s)
      PROVE  GesehenWieEingegeben'
  <2>1. eingabe' = Leer
    BY <1>4 DEF FremdeAenderung
  <2>2. eingabe'["gelb"] = KeinText /\ eingabe'["gelb2"] = KeinText
        /\ eingabe'["rot2"] = KeinText /\ eingabe'["rot"] = KeinText
    BY <2>1 DEF Leer, Grenzen
  <2> QED BY <2>2 DEF GesehenWieEingegeben, LetztesFeld
<1>5. CASE updateAmpel
  BY <1>1, <1>5, GesehenSpeichern
<1> QED BY <1>2, <1>3, <1>4, <1>5
        DEF Next, ErsteDaten, loadampel, oeffnen, verlassen, textFieldDidEndEditing,
            tippen, vars, dbVars

\* However long the writes of a save wait, and whatever the page does in the
\* meantime: once they are sent, the first red limit is the last filled one of
\* three fields, since three of the four updates name the key "rot"
\* (DetailEinstellungenVC.swift 104, 109, 114).
THEOREM SpeichernGeltend == Spec => []LetztesFeldWirdRot
<1>1. Init => SpeicherInv
  <2> SUFFICES ASSUME Init
               PROVE  GesehenWieEingegeben
    BY TypStart DEF SpeicherInv
  <2>1. eingabe["gelb"] = KeinText /\ eingabe["gelb2"] = KeinText
        /\ eingabe["rot2"] = KeinText /\ eingabe["rot"] = KeinText
    BY DEF Init, Leer, Grenzen
  <2> QED BY <2>1 DEF GesehenWieEingegeben, LetztesFeld
<1>2. SpeicherInv => LetztesFeldWirdRot
  <2> SUFFICES ASSUME SpeicherInv, ausstehend = <<>>
               PROVE  /\ eingabe["gelb"] # KeinText => regel["gelb"] = 60 * eingabe["gelb"]
                      /\ eingabe[LetztesFeld] # KeinText =>
                           regel["rot"] = 60 * eingabe[LetztesFeld]
    BY DEF LetztesFeldWirdRot, LetztesFeld
  <2>1. Sicht(regel, ausstehend) = regel
    BY Typen, SichtLeer DEF SpeicherInv
  <2> QED BY <2>1 DEF SpeicherInv, GesehenWieEingegeben
<1>3. Spec => []SpeicherInv
  BY <1>1, SpeicherSchritt, PTL DEF Spec
<1> QED BY <1>2, <1>3, PTL

(***************************************************************************)
(* What an open page shows.  The last event waiting carries what the       *)
(* device sees and is for the page; if none waits, the fields show it.     *)
(***************************************************************************)
LetztesEreignis(e, r) ==
  e # <<>> => "seite" \in e[Len(e)].an /\ e[Len(e)].regel = r

Gezeigt ==
  (ereignisse = <<>> /\ ~getippt /\ Sicht(regel, ausstehend) # Keine) =>
    feld = Anzeige(Ampelmodel(Sicht(regel, ausstehend)))

Offen == laeuft /\ verbunden /\ seite = "offen"

FormularFolgt ==
  Offen => LetztesEreignis(ereignisse, Sicht(regel, ausstehend)) /\ Gezeigt

FormularInv == TypeOK /\ FormularFolgt

\* An event at the end of the queue that carries what is seen now.
LEMMA NeuesEreignis ==
  ASSUME NEW e \in Seq(Meldung), NEW x \in Meldung, NEW r, x.regel = r, "seite" \in x.an
  PROVE  LetztesEreignis(Append(e, x), r) /\ Append(e, x) # <<>>
BY Angehaengt DEF LetztesEreignis

\* One update of a save: the queue ends with what is seen, or is as before.
FolgeStand(z) ==
  /\ LetztesEreignis(z.ereignisse, Sicht(regel, z.ausstehend))
  /\ z.ereignisse = <<>> => /\ ereignisse = <<>>
                            /\ Sicht(regel, z.ausstehend) = Sicht(regel, ausstehend)

LEMMA SchreibeFolgt ==
  ASSUME TypeOK, NEW z \in Stand, NEW s \in Update, FolgeStand(z), verbunden,
         seite = "offen"
  PROVE  FolgeStand(Schreibe(z, s))
<1> DEFINE y == Schreibe(z, s)
           r == Sicht(regel, y.ausstehend)
<1>1. Nichts(z, s, y) \/ Falle(z, s, y) \/ Geschrieben(z, s, y)
  BY SchreibeWirkung
<1>2. z.ereignisse \in Seq(Meldung)
  BY DEF Stand
<1> HIDE DEF y
<1>3. CASE Nichts(z, s, y)
  BY <1>3 DEF Nichts, y
<1>4. CASE Falle(z, s, y)
  BY <1>4 DEF Falle, FolgeStand, y
<1>5. CASE Geschrieben(z, s, y)
  <2>1. CASE r # Sicht(regel, z.ausstehend)
    <3>1. r \in Regel /\ y.ereignisse = Append(z.ereignisse, Ereignis(r))
      BY <1>5, <2>1 DEF Geschrieben
    <3>2. Ereignis(r) \in Meldung /\ Ereignis(r).regel = r /\ "seite" \in Ereignis(r).an
      BY <3>1, EreignisTyp
    <3> DEFINE x == Ereignis(r)
    <3> HIDE DEF r, x
    <3>3. /\ LetztesEreignis(Append(z.ereignisse, x), r)
          /\ Append(z.ereignisse, x) # <<>>
      BY <1>2, <3>2, NeuesEreignis DEF x
    <3>4. FolgeStand(y)
      BY <3>1, <3>3 DEF FolgeStand, r, x
    <3> QED BY <3>4 DEF y
  <2>2. CASE r = Sicht(regel, z.ausstehend)
    <3>1. y.ereignisse = z.ereignisse
      BY <1>5, <2>2 DEF Geschrieben
    <3>2. FolgeStand(y)
      BY <2>2, <3>1 DEF FolgeStand
    <3> QED BY <3>2 DEF y
  <2> QED BY <2>1, <2>2
<1> QED BY <1>1, <1>3, <1>4, <1>5

LEMMA FormularSpeichern ==
  ASSUME FormularInv, updateAmpel
  PROVE  FormularFolgt'
<1>1. TypeOK /\ FormularFolgt
  BY DEF FormularInv
<1>2. /\ Nach0 \in Stand /\ Nach1 \in Stand /\ Nach2 \in Stand /\ Nach3 \in Stand /\ Nach4 \in Stand
      /\ Nach0.ausstehend = ausstehend /\ Nach0.ereignisse = ereignisse
      /\ ausstehend' = Nach4.ausstehend /\ ereignisse' = Nach4.ereignisse
      /\ seite = "offen" /\ UNCHANGED <<regel, verbunden, seiteVars, grenze, fremde>>
  BY <1>1, Speichern
<1>3. laeuft
  BY DEF updateAmpel
<1>4. CASE ~verbunden
  BY <1>2, <1>4 DEF FormularFolgt, Offen
<1>5. CASE verbunden
  <2>1. Offen /\ FolgeStand(Nach0)
    BY <1>1, <1>2, <1>3, <1>5 DEF FormularFolgt, Offen, FolgeStand
  <2>2. \A i \in 1..4 : Schreibfolge[i] \in Update
    BY Folge
  <2>3. FolgeStand(Nach1)
    BY <1>1, <1>2, <1>5, <2>1, <2>2, SchreibeFolgt DEF Nach1
  <2>4. FolgeStand(Nach2)
    BY <1>1, <1>2, <1>5, <2>2, <2>3, SchreibeFolgt DEF Nach2
  <2>5. FolgeStand(Nach3)
    BY <1>1, <1>2, <1>5, <2>2, <2>4, SchreibeFolgt DEF Nach3
  <2>6. FolgeStand(Nach4)
    BY <1>1, <1>2, <1>5, <2>2, <2>5, SchreibeFolgt DEF Nach4
  <2>7. LetztesEreignis(ereignisse', Sicht(regel', ausstehend'))
    BY <1>2, <2>6 DEF FolgeStand
  <2>8. Gezeigt'
    <3>1. SUFFICES ASSUME ereignisse' = <<>>, ~getippt', Sicht(regel', ausstehend') # Keine
                   PROVE  feld' = Anzeige(Ampelmodel(Sicht(regel', ausstehend')))
      BY DEF Gezeigt
    <3>2. Sicht(regel', ausstehend') = Sicht(regel, ausstehend)
      BY <1>2, <2>6, <3>1 DEF FolgeStand
    <3>3. ereignisse = <<>>
      BY <1>2, <2>6, <3>1 DEF FolgeStand
    <3>4. feld' = feld /\ getippt' = getippt
      BY <1>2 DEF seiteVars
    <3> QED BY <1>1, <2>1, <3>1, <3>2, <3>3, <3>4 DEF FormularFolgt, Gezeigt
  <2> QED BY <2>7, <2>8 DEF FormularFolgt
<1> QED BY <1>4, <1>5

LEMMA FormularSchritt == FormularInv /\ [Next]_vars => FormularInv'
<1> SUFFICES ASSUME FormularInv, [Next]_vars
             PROVE  FormularFolgt'
  BY TypSchritt DEF FormularInv
<1> DEFINE r == Sicht(regel, ausstehend)
<1>1. TypeOK /\ FormularFolgt /\ ereignisse \in Seq(Meldung) /\ r \in Regel
  BY Typen DEF FormularInv
<1>2. CASE ErsteDaten
  <2>1. /\ ereignisse' = Append(ereignisse, Ereignis(r))
        /\ Sicht(regel', ausstehend') = r /\ seite' = seite
    BY <1>2 DEF ErsteDaten, seiteVars
  <2>2. /\ Ereignis(r) \in Meldung /\ Ereignis(r).regel = r
        /\ seite = "offen" => "seite" \in Ereignis(r).an
    BY <1>1, EreignisTyp
  <2> DEFINE x == Ereignis(r)
  <2> HIDE DEF r, x
  <2>3. seite = "offen" => LetztesEreignis(Append(ereignisse, x), r)
                           /\ Append(ereignisse, x) # <<>>
    BY <1>1, <2>2, NeuesEreignis DEF x
  <2> QED BY <2>1, <2>3 DEF FormularFolgt, Offen, Gezeigt, x
<1>3. CASE ServerNimmt
  <2>1. Sicht(regel', ausstehend') = r
    BY <1>1, <1>3, Typen, SichtServer DEF ServerNimmt
  <2>2. UNCHANGED <<verbunden, ereignisse, seite, feld, getippt, absturz>>
    BY <1>3 DEF ServerNimmt, seiteVars
  <2> QED BY <1>1, <2>1, <2>2 DEF FormularFolgt, Offen, Gezeigt, laeuft
<1>4. ASSUME NEW g \in Grenzen, NEW s \in Sekunden, FremdeAenderung(g, s)
      PROVE  FormularFolgt'
  <2> DEFINE q == Sicht(regel', ausstehend)
  <2>1. /\ UNCHANGED <<ausstehend, verbunden, seite, feld, getippt, absturz>>
        /\ ereignisse' = IF verbunden /\ q # r THEN Append(ereignisse, Ereignis(q))
                         ELSE ereignisse
    BY <1>4 DEF FremdeAenderung, seiteVars
  <2>2. q \in Regel
    <3>1. regel' \in Regel
      BY <1>1, <1>4, Typen, SekundenAnnahme DEF FremdeAenderung, Regel
    <3> QED BY <1>1, <3>1, Typen, SichtTyp
  <2>3. /\ Ereignis(q) \in Meldung /\ Ereignis(q).regel = q
        /\ seite = "offen" => "seite" \in Ereignis(q).an
    BY <2>2, EreignisTyp
  <2>4. Sicht(regel', ausstehend') = q
    BY <2>1
  <2>5. CASE verbunden /\ q # r
    <3> DEFINE x == Ereignis(q)
    <3>1. ereignisse' = Append(ereignisse, x)
      BY <2>1, <2>5
    <3> HIDE DEF x, q
    <3>2. seite = "offen" => LetztesEreignis(Append(ereignisse, x), q)
                             /\ Append(ereignisse, x) # <<>>
      BY <1>1, <2>3, NeuesEreignis DEF x
    <3> QED BY <2>1, <2>4, <3>1, <3>2 DEF FormularFolgt, Offen, Gezeigt
  <2>6. CASE ~(verbunden /\ q # r)
    <3>1. ereignisse' = ereignisse /\ (verbunden => Sicht(regel', ausstehend') = r)
      BY <2>1, <2>4, <2>6
    <3> QED BY <1>1, <2>1, <3>1 DEF FormularFolgt, Offen, Gezeigt, laeuft
  <2> QED BY <2>5, <2>6
<1>5. CASE loadampel
  <2> DEFINE e == Head(ereignisse)
             a == Ampelmodel(e.regel)
  <2>1. /\ laeuft /\ ereignisse # <<>> /\ ereignisse' = Tail(ereignisse)
        /\ UNCHANGED <<regel, ausstehend, verbunden, seite>>
    BY <1>5 DEF loadampel, dbVars
  <2>2. SUFFICES ASSUME Offen'
                 PROVE  LetztesEreignis(ereignisse', r) /\ Gezeigt'
    BY <2>1 DEF FormularFolgt
  <2>3. LetztesEreignis(ereignisse, r)
    BY <1>1, <2>1, <2>2 DEF FormularFolgt, Offen
  <2>4. /\ e = ereignisse[1]
        /\ ereignisse' = <<>> => Len(ereignisse) = 1
        /\ ereignisse' # <<>> => ereignisse'[Len(ereignisse')] = ereignisse[Len(ereignisse)]
    BY <1>1, <2>1, Abgenommen
  <2>5. LetztesEreignis(ereignisse', r)
    BY <2>1, <2>3, <2>4 DEF LetztesEreignis
  <2>6. ASSUME ereignisse' = <<>>, r # Keine
        PROVE  feld' = Anzeige(Ampelmodel(r))
    <3>1. "seite" \in e.an /\ e.regel = r
      BY <2>1, <2>3, <2>4, <2>6 DEF LetztesEreignis
    <3>2. absturz' # "int"
      BY <2>2 DEF Offen, laeuft
    <3>3. feld' = Anzeige(a)
      BY <1>5, <2>6, <3>1, <3>2 DEF loadampel
    <3> QED BY <3>1, <3>3
  <2>7. Gezeigt'
    BY <2>1, <2>6 DEF Gezeigt
  <2> QED BY <2>5, <2>7
<1>6. CASE oeffnen
  <2> DEFINE x == [an |-> {"seite"}, regel |-> r]
  <2>1. /\ UNCHANGED <<regel, ausstehend, verbunden>>
        /\ verbunden => ereignisse' = Append(ereignisse, x)
    BY <1>6 DEF oeffnen, dbVars
  <2>2. x \in Meldung /\ x.regel = r /\ "seite" \in x.an
    BY <1>1 DEF Meldung, Beobachter
  <2> HIDE DEF x, r
  <2>3. LetztesEreignis(Append(ereignisse, x), r) /\ Append(ereignisse, x) # <<>>
    BY <1>1, <2>2, NeuesEreignis
  <2> QED BY <2>1, <2>3 DEF FormularFolgt, Offen, Gezeigt, r
<1>7. CASE verlassen
  BY <1>7 DEF verlassen, FormularFolgt, Offen
<1>8. CASE textFieldDidEndEditing \/ UNCHANGED vars
  <2>1. UNCHANGED <<regel, ausstehend, verbunden, ereignisse, seite, feld, getippt, absturz>>
    BY <1>8 DEF textFieldDidEndEditing, vars, dbVars, seiteVars
  <2> QED BY <1>1, <2>1 DEF FormularFolgt, Offen, Gezeigt, laeuft
<1>9. ASSUME NEW g \in Grenzen, NEW t \in Text, tippen(g, t)
      PROVE  FormularFolgt'
  <2>1. /\ UNCHANGED <<regel, ausstehend, verbunden, ereignisse, seite, absturz>>
        /\ getippt' = TRUE
    BY <1>9 DEF tippen, dbVars
  <2> QED BY <1>1, <2>1 DEF FormularFolgt, Offen, Gezeigt, laeuft
<1>10. CASE updateAmpel
  BY <1>10, FormularSpeichern
<1> QED BY <1>2, <1>3, <1>4, <1>5, <1>6, <1>7, <1>8, <1>9, <1>10 DEF Next

\* When no event is waiting and nothing was typed after the last one, the
\* fields of an open page are the limits this device sees in whole minutes,
\* although every event carries the record as it was when raised and several
\* may wait (loadampel, DetailEinstellungenVC.swift).
THEOREM FormularGeltend == Spec => []FormularStimmt
<1>1. Init => FormularInv
  BY TypStart DEF Init, FormularInv, FormularFolgt, Offen
<1>2. FormularInv => FormularStimmt
  <2> SUFFICES ASSUME FormularInv, Offen, ereignisse = <<>>, ~getippt,
                      Sicht(regel, ausstehend) # Keine, NEW g \in Grenzen
               PROVE  feld[g] = Ampelmodel(Sicht(regel, ausstehend))[g] \div 60
    BY DEF FormularStimmt, Offen
  <2> DEFINE a == Ampelmodel(Sicht(regel, ausstehend))
  <2>1. feld = Anzeige(a)
    BY DEF FormularInv, FormularFolgt, Gezeigt
  <2> HIDE DEF a
  <2>2. feld[g] = a[g] \div 60
    BY <2>1 DEF Anzeige
  <2> QED BY <2>2 DEF a
<1>3. Spec => []FormularInv
  BY <1>1, FormularSchritt, PTL DEF Spec
<1> QED BY <1>2, <1>3, PTL

(***************************************************************************)
(* What ends the process.  Unless somebody has saved a limit too large for *)
(* Int, none is in the record, in a write or in an event; and the first    *)
(* two fields hold numbers.                                                *)
(***************************************************************************)
GrosseZahl == \E m \in Minuten : 60 * m > IntMax
Ausnahme == (\E s \in Sekunden : s > IntMax) \/ (GrosseZahl /\ speicherungen > 0)

KleineRegel(r) == \A g \in Grenzen : r[g] <= IntMax
KleineSchreibungen(w) == \A i \in 1..Len(w) : w[i].wert <= IntMax
KleineEreignisse(e) == \A i \in 1..Len(e) : KleineRegel(e[i].regel)

FelderGeprueft ==
  /\ feld["gelb"] # KeineZahl /\ feld["rot"] # KeineZahl
  /\ \A g \in Grenzen : feld[g] \in Nat /\ 60 * feld[g] > IntMax => GrosseZahl

AllesKlein ==
  ~Ausnahme => /\ KleineRegel(regel) /\ KleineSchreibungen(ausstehend)
               /\ KleineEreignisse(ereignisse)

AbsturzInv == TypeOK /\ FelderGeprueft /\ AllesKlein /\ AbsturzErklaert

\* A device sees small limits if the record and its own writes are small.
LEMMA SichtKlein ==
  ASSUME NEW r \in Regel, NEW w \in Seq(Schreibung), KleineRegel(r), KleineSchreibungen(w)
  PROVE  KleineRegel(Sicht(r, w))
<1>1. ASSUME NEW g \in Grenzen
      PROVE  Sicht(r, w)[g] <= IntMax
  <2>1. CASE Eigene(w, g) = {}
    BY <2>1, SichtWert DEF KleineRegel
  <2>2. CASE Eigene(w, g) # {}
    <3> DEFINE l == Letzte(Eigene(w, g))
    <3>1. l \in 1..Len(w)
      BY <2>2, LetzteGibtEs
    <3>2. Sicht(r, w)[g] = w[l].wert
      BY <2>2, SichtWert
    <3> QED BY <3>1, <3>2 DEF KleineSchreibungen
  <2> QED BY <2>1, <2>2
<1> QED BY <1>1 DEF KleineRegel

LEMMA EreignisKlein ==
  ASSUME NEW e \in Seq(Meldung), KleineEreignisse(e), NEW x \in Meldung,
         KleineRegel(x.regel)
  PROVE  KleineEreignisse(Append(e, x))
<1>1. \A i \in 1..Len(Append(e, x)) :
        (i \in 1..Len(e) /\ Append(e, x)[i] = e[i]) \/ Append(e, x)[i] = x
  BY Angehaengt
<1> QED BY <1>1 DEF KleineEreignisse

\* One update of a save, while no field is too large.
KleinerStand(z) == KleineSchreibungen(z.ausstehend) /\ KleineEreignisse(z.ereignisse)

LEMMA SchreibeKlein ==
  ASSUME TypeOK, NEW z \in Stand, NEW s \in Update, KleinerStand(z), KleineRegel(regel),
         feld[s.feld] \in Nat => 60 * feld[s.feld] <= IntMax
  PROVE  KleinerStand(Schreibe(z, s))
<1> DEFINE y == Schreibe(z, s)
           r == Sicht(regel, y.ausstehend)
<1>1. y \in Stand /\ (Nichts(z, s, y) \/ Falle(z, s, y) \/ Geschrieben(z, s, y))
  BY SchreibeWirkung
<1>2. z.ereignisse \in Seq(Meldung) /\ z.ausstehend \in Seq(Schreibung)
  BY DEF Stand
<1> HIDE DEF y
<1>3. CASE Nichts(z, s, y)
  BY <1>3 DEF Nichts, y
<1>4. CASE Falle(z, s, y)
  BY <1>4 DEF Falle, KleinerStand, y
<1>5. CASE Geschrieben(z, s, y)
  <2> DEFINE x == Auftrag(s)
  <2>1. x \in Schreibung /\ x.wert <= IntMax /\ y.ausstehend = Append(z.ausstehend, x)
    BY <1>5 DEF Geschrieben
  <2> HIDE DEF x
  <2>2. \A i \in 1..Len(y.ausstehend) :
          \/ i \in 1..Len(z.ausstehend) /\ y.ausstehend[i] = z.ausstehend[i]
          \/ y.ausstehend[i] = x
    BY <1>2, <2>1, Angehaengt
  <2>3. KleineSchreibungen(y.ausstehend)
    BY <2>1, <2>2 DEF KleinerStand, KleineSchreibungen
  <2>4. y.ausstehend \in Seq(Schreibung) /\ regel \in Regel
    BY <1>1, Typen DEF Stand
  <2>5. KleineRegel(r) /\ r \in Regel
    BY <2>3, <2>4, SichtKlein, SichtTyp
  <2>6. Ereignis(r) \in Meldung /\ Ereignis(r).regel = r
    BY <2>5, EreignisTyp
  <2>7. y.ereignisse = z.ereignisse \/ y.ereignisse = Append(z.ereignisse, Ereignis(r))
    BY <1>5 DEF Geschrieben
  <2> DEFINE e == Ereignis(r)
  <2> HIDE DEF r, e
  <2>8. KleineEreignisse(Append(z.ereignisse, e))
    BY <1>2, <2>5, <2>6, EreignisKlein DEF KleinerStand, e
  <2>9. KleinerStand(y)
    BY <2>3, <2>7, <2>8 DEF KleinerStand, e
  <2> QED BY <2>9 DEF y
<1> QED BY <1>1, <1>3, <1>4, <1>5

\* A trap of an update is at a field that is no number.
LEMMA SchreibeFalle ==
  ASSUME TypeOK, NEW z \in Stand, NEW s \in Update, Schreibe(z, s).absturz # "keiner"
  PROVE  z.absturz # "keiner" \/ feld[s.feld] = KeineZahl
<1> DEFINE y == Schreibe(z, s)
<1>1. Nichts(z, s, y) \/ Falle(z, s, y) \/ Geschrieben(z, s, y)
  BY SchreibeWirkung
<1>2. y.absturz # "keiner"
  OBVIOUS
<1> HIDE DEF y
<1> QED BY <1>1, <1>2 DEF Nichts, Falle, Geschrieben

LEMMA AbsturzSpeichern ==
  ASSUME AbsturzInv, updateAmpel
  PROVE  FelderGeprueft' /\ AllesKlein' /\ AbsturzErklaert'
<1>1. TypeOK /\ FelderGeprueft /\ AllesKlein
  BY DEF AbsturzInv
<1>2. /\ Nach0 \in Stand /\ Nach1 \in Stand /\ Nach2 \in Stand /\ Nach3 \in Stand /\ Nach4 \in Stand
      /\ Nach0.ausstehend = ausstehend /\ Nach0.ereignisse = ereignisse
      /\ Nach0.absturz = "keiner"
      /\ ausstehend' = Nach4.ausstehend /\ ereignisse' = Nach4.ereignisse
      /\ absturz' = Nach4.absturz /\ speicherungen' = speicherungen + 1
      /\ UNCHANGED <<regel, verbunden, seiteVars, grenze, fremde>>
  BY <1>1, Speichern
<1>3. feld' = feld /\ speicherungen \in Nat
  BY <1>1, <1>2 DEF seiteVars, TypeOK
<1>4. FelderGeprueft'
  BY <1>1, <1>3 DEF FelderGeprueft
<1>5. /\ \A i \in 1..4 : Schreibfolge[i] \in Update /\ Schreibfolge[i].feld \in Grenzen
      /\ Schreibfolge[1].feld = "gelb" /\ Schreibfolge[2].feld = "rot"
      /\ Schreibfolge[3].feld = "rot2" /\ Schreibfolge[4].feld = "gelb2"
  BY Folge DEF Update
<1>6. AllesKlein'
  <2> SUFFICES ASSUME ~Ausnahme'
               PROVE  /\ KleineRegel(regel') /\ KleineSchreibungen(ausstehend')
                      /\ KleineEreignisse(ereignisse')
    BY DEF AllesKlein
  <2>1. ~Ausnahme /\ ~GrosseZahl
    BY <1>2, <1>3 DEF Ausnahme, GrosseZahl
  <2>2. KleineRegel(regel) /\ KleinerStand(Nach0)
    BY <1>1, <1>2, <2>1 DEF AllesKlein, KleinerStand
  <2>3. \A g \in Grenzen : feld[g] \in Nat => 60 * feld[g] <= IntMax
    BY <1>1, <2>1, IntMaxAnnahme DEF FelderGeprueft
  <2>4. KleinerStand(Nach1)
    BY <1>1, <1>2, <1>5, <2>2, <2>3, SchreibeKlein DEF Nach1
  <2>5. KleinerStand(Nach2)
    BY <1>1, <1>2, <1>5, <2>2, <2>3, <2>4, SchreibeKlein DEF Nach2
  <2>6. KleinerStand(Nach3)
    BY <1>1, <1>2, <1>5, <2>2, <2>3, <2>5, SchreibeKlein DEF Nach3
  <2>7. KleinerStand(Nach4)
    BY <1>1, <1>2, <1>5, <2>2, <2>3, <2>6, SchreibeKlein DEF Nach4
  <2> QED BY <1>2, <2>2, <2>7 DEF KleinerStand
<1>7. AbsturzErklaert'
  <2>1. Nach4.absturz \in {"keiner", "text"}
    BY <1>2 DEF Stand
  <2>2. ASSUME Nach4.absturz # "keiner"
        PROVE  \E g \in {"gelb2", "rot2"} : feld[g] = KeineZahl
    <3>1. Nach3.absturz # "keiner" \/ feld["gelb2"] = KeineZahl
      BY <1>1, <1>2, <1>5, <2>2, SchreibeFalle DEF Nach4
    <3>2. Nach3.absturz # "keiner" => Nach2.absturz # "keiner" \/ feld["rot2"] = KeineZahl
      BY <1>1, <1>2, <1>5, SchreibeFalle DEF Nach3
    <3>3. Nach2.absturz # "keiner" => Nach1.absturz # "keiner" \/ feld["rot"] = KeineZahl
      BY <1>1, <1>2, <1>5, SchreibeFalle DEF Nach2
    <3>4. Nach1.absturz # "keiner" => feld["gelb"] = KeineZahl
      BY <1>1, <1>2, <1>5, SchreibeFalle DEF Nach1
    <3> QED BY <1>1, <3>1, <3>2, <3>3, <3>4 DEF FelderGeprueft
  <2> QED BY <1>2, <1>3, <2>1, <2>2 DEF AbsturzErklaert
<1> QED BY <1>4, <1>6, <1>7

LEMMA AbsturzLaden ==
  ASSUME AbsturzInv, loadampel
  PROVE  FelderGeprueft' /\ AllesKlein' /\ AbsturzErklaert'
<1> DEFINE e == Head(ereignisse)
           a == Ampelmodel(e.regel)
<1>1. TypeOK /\ FelderGeprueft /\ AllesKlein /\ ereignisse \in Seq(Meldung)
  BY Typen DEF AbsturzInv
<1>2. /\ absturz = "keiner" /\ ereignisse # <<>> /\ ereignisse' = Tail(ereignisse)
      /\ UNCHANGED <<regel, ausstehend, speicherungen>>
  BY DEF loadampel, laeuft, dbVars
<1>3. /\ e \in Meldung /\ 1 \in 1..Len(ereignisse) /\ e = ereignisse[1]
      /\ \A i \in 1..Len(ereignisse') : /\ i + 1 \in 1..Len(ereignisse)
                                        /\ ereignisse'[i] = ereignisse[i + 1]
  BY <1>1, <1>2, Abgenommen
<1>4. AllesKlein'
  BY <1>1, <1>2, <1>3 DEF AllesKlein, Ausnahme, GrosseZahl, KleineEreignisse
<1>5. e.regel \in Regel
  BY <1>3 DEF Meldung
<1>6. /\ a \in [Grenzen -> Nat] /\ Anzeige(a) \in [Grenzen -> Nat]
      /\ \A g \in Grenzen : a[g] \in {e.regel[g], 3000, 6000}
      /\ \A g \in Grenzen : 60 * Anzeige(a)[g] <= a[g]
  BY <1>5, AmpelmodelTyp, AnzeigeTyp
<1>7. \/ UNCHANGED <<feld, absturz>>
      \/ feld' = Anzeige(a) /\ UNCHANGED absturz /\ \A g \in Grenzen : ~(a[g] > IntMax)
      \/ UNCHANGED feld /\ absturz' = "int" /\ \E g \in Grenzen : a[g] > IntMax
  BY DEF loadampel
<1>8. ~Ausnahme => \A g \in Grenzen : e.regel[g] <= IntMax
  BY <1>1, <1>3 DEF AllesKlein, KleineEreignisse, KleineRegel
<1>9. \A g \in Grenzen : e.regel[g] \in Int
  BY <1>5 DEF Regel, Fehlt
<1> HIDE DEF a, e
<1>10. CASE UNCHANGED <<feld, absturz>>
  BY <1>1, <1>2, <1>4, <1>10 DEF FelderGeprueft, AbsturzInv, AbsturzErklaert
<1>11. CASE /\ feld' = Anzeige(a) /\ UNCHANGED absturz
            /\ \A g \in Grenzen : ~(a[g] > IntMax)
  <2>1. \A g \in Grenzen : feld'[g] \in Nat /\ 60 * feld'[g] <= IntMax
    BY <1>6, <1>11, IntMaxAnnahme
  <2>2. feld'["gelb"] # KeineZahl /\ feld'["rot"] # KeineZahl
    <3>1. KeineZahl \notin Nat
      BY DEF KeineZahl
    <3> QED BY <2>1, <3>1 DEF Grenzen
  <2>3. FelderGeprueft'
    BY <2>1, <2>2, IntMaxAnnahme DEF FelderGeprueft
  <2>4. AbsturzErklaert'
    BY <1>2, <1>11 DEF AbsturzErklaert
  <2> QED BY <1>4, <2>3, <2>4
<1>12. CASE UNCHANGED feld /\ absturz' = "int" /\ \E g \in Grenzen : a[g] > IntMax
  <2>1. PICK g \in Grenzen : a[g] > IntMax
    BY <1>12
  <2>2. a[g] = e.regel[g]
    BY <1>6, <2>1, IntMaxAnnahme
  <2>3. e.regel[g] > IntMax /\ e.regel[g] \in Int
    BY <1>9, <2>1, <2>2
  <2>4. Ausnahme
    BY <1>8, <2>3, IntMaxAnnahme
  <2>5. AbsturzErklaert'
    BY <1>2, <1>12, <2>4 DEF AbsturzErklaert, Ausnahme, GrosseZahl
  <2>6. FelderGeprueft'
    BY <1>1, <1>12 DEF FelderGeprueft
  <2> QED BY <1>4, <2>5, <2>6
<1> QED BY <1>7, <1>10, <1>11, <1>12

LEMMA AbsturzSchritt == AbsturzInv /\ [Next]_vars => AbsturzInv'
<1> SUFFICES ASSUME AbsturzInv, [Next]_vars
             PROVE  FelderGeprueft' /\ AllesKlein' /\ AbsturzErklaert'
  BY TypSchritt DEF AbsturzInv
<1> DEFINE r == Sicht(regel, ausstehend)
<1>1. /\ TypeOK /\ FelderGeprueft /\ AllesKlein /\ AbsturzErklaert
      /\ regel \in Regel /\ ausstehend \in Seq(Schreibung)
      /\ ereignisse \in Seq(Meldung) /\ r \in Regel
  BY Typen DEF AbsturzInv
<1>2. ~Ausnahme => KleineRegel(r)
  BY <1>1, SichtKlein DEF AllesKlein
<1>3. CASE ErsteDaten
  <2> DEFINE x == Ereignis(r)
  <2>1. /\ ereignisse' = Append(ereignisse, x)
        /\ UNCHANGED <<regel, ausstehend, feld, absturz, speicherungen>>
    BY <1>3 DEF ErsteDaten, seiteVars
  <2>2. x \in Meldung /\ x.regel = r
    BY <1>1, EreignisTyp
  <2> HIDE DEF x, r
  <2>3. ~Ausnahme => KleineEreignisse(Append(ereignisse, x))
    BY <1>1, <1>2, <2>2, EreignisKlein DEF AllesKlein
  <2>4. AllesKlein'
    BY <1>1, <2>1, <2>3 DEF AllesKlein, Ausnahme, GrosseZahl
  <2> QED BY <1>1, <2>1, <2>4 DEF FelderGeprueft, AbsturzErklaert
<1>4. CASE ServerNimmt
  <2>1. /\ ausstehend # <<>> /\ ausstehend' = Tail(ausstehend)
        /\ regel' = [regel EXCEPT ![Head(ausstehend).key] = Head(ausstehend).wert]
        /\ UNCHANGED <<ereignisse, feld, absturz, speicherungen>>
    BY <1>4 DEF ServerNimmt, seiteVars
  <2> DEFINE x == Head(ausstehend)
  <2>2. /\ x \in Schreibung /\ 1 \in 1..Len(ausstehend) /\ x = ausstehend[1]
        /\ \A i \in 1..Len(ausstehend') : /\ i + 1 \in 1..Len(ausstehend)
                                          /\ ausstehend'[i] = ausstehend[i + 1]
    BY <1>1, <2>1, Abgenommen
  <2>3. regel' = [regel EXCEPT ![x.key] = x.wert]
    BY <2>1
  <2> HIDE DEF x
  <2>4. ~Ausnahme => KleineSchreibungen(ausstehend') /\ x.wert <= IntMax
    BY <1>1, <2>2 DEF AllesKlein, KleineSchreibungen
  <2>5. ~Ausnahme => KleineRegel(regel')
    <3>1. \A g \in Grenzen : regel'[g] = regel[g] \/ regel'[g] = x.wert
      BY <1>1, <2>3 DEF Regel
    <3> QED BY <1>1, <2>4, <3>1 DEF AllesKlein, KleineRegel
  <2>6. AllesKlein'
    BY <1>1, <2>1, <2>4, <2>5 DEF AllesKlein, Ausnahme, GrosseZahl
  <2> QED BY <1>1, <2>1, <2>6 DEF FelderGeprueft, AbsturzErklaert
<1>5. ASSUME NEW g \in Grenzen, NEW s \in Sekunden, FremdeAenderung(g, s)
      PROVE  FelderGeprueft' /\ AllesKlein' /\ AbsturzErklaert'
  <2> DEFINE q == Sicht(regel', ausstehend)
             x == Ereignis(q)
  <2>1. /\ regel' = [regel EXCEPT ![g] = s]
        /\ ereignisse' = Append(ereignisse, x) \/ ereignisse' = ereignisse
        /\ UNCHANGED <<ausstehend, feld, absturz, speicherungen>>
    BY <1>5 DEF FremdeAenderung, seiteVars
  <2>2. regel' \in Regel /\ \A h \in Grenzen : regel'[h] = regel[h] \/ regel'[h] = s
    BY <1>1, <2>1, SekundenAnnahme DEF Regel
  <2>3. ~Ausnahme => s <= IntMax
    BY SekundenAnnahme, IntMaxAnnahme DEF Ausnahme
  <2>4. ~Ausnahme => KleineRegel(regel') /\ KleineSchreibungen(ausstehend)
    BY <1>1, <2>2, <2>3 DEF AllesKlein, KleineRegel
  <2>5. q \in Regel /\ (~Ausnahme => KleineRegel(q))
    BY <1>1, <2>2, <2>4, SichtTyp, SichtKlein
  <2>6. x \in Meldung /\ x.regel = q
    BY <2>5, EreignisTyp
  <2> HIDE DEF x, q
  <2>7. ~Ausnahme => KleineEreignisse(Append(ereignisse, x))
    BY <1>1, <2>5, <2>6, EreignisKlein DEF AllesKlein
  <2>8. AllesKlein'
    BY <1>1, <2>1, <2>4, <2>7 DEF AllesKlein, Ausnahme, GrosseZahl
  <2> QED BY <1>1, <2>1, <2>8 DEF FelderGeprueft, AbsturzErklaert
<1>6. CASE oeffnen
  <2> DEFINE x == [an |-> {"seite"}, regel |-> r]
  <2>1. /\ ereignisse' = Append(ereignisse, x) \/ ereignisse' = ereignisse
        /\ feld' = Leer /\ absturz = "keiner"
        /\ UNCHANGED <<regel, ausstehend, absturz, speicherungen>>
    BY <1>6 DEF oeffnen, dbVars, laeuft
  <2>2. x \in Meldung /\ x.regel = r
    BY <1>1 DEF Meldung, Beobachter
  <2> HIDE DEF x, r
  <2>3. ~Ausnahme => KleineEreignisse(Append(ereignisse, x))
    BY <1>1, <1>2, <2>2, EreignisKlein DEF AllesKlein
  <2>4. AllesKlein'
    BY <1>1, <2>1, <2>3 DEF AllesKlein, Ausnahme, GrosseZahl
  <2>5. \A g \in Grenzen : feld'[g] \notin Nat /\ feld'[g] # KeineZahl
    BY <2>1 DEF Leer, KeinText, KeineZahl
  <2>6. FelderGeprueft'
    BY <2>5 DEF FelderGeprueft, Grenzen
  <2> QED BY <2>1, <2>4, <2>6 DEF AbsturzErklaert
<1>7. ASSUME NEW g \in Grenzen, NEW t \in Text, tippen(g, t)
      PROVE  FelderGeprueft' /\ AllesKlein' /\ AbsturzErklaert'
  <2>1. /\ feld' = [feld EXCEPT ![g] = t] /\ absturz = "keiner"
        /\ g \in {"gelb", "rot"} => t # KeineZahl
        /\ UNCHANGED <<regel, ausstehend, ereignisse, absturz, speicherungen>>
    BY <1>7 DEF tippen, dbVars, laeuft
  <2>2. t \in Nat => t \in Minuten
    BY DEF Text, KeinText, KeineZahl
  <2>3. DOMAIN feld = Grenzen /\ "gelb" \in Grenzen /\ "rot" \in Grenzen
    BY <1>1 DEF TypeOK, Grenzen
  <2>4. \A h \in Grenzen : (h = g /\ feld'[h] = t) \/ (h # g /\ feld'[h] = feld[h])
    BY <2>1, <2>3
  <2>5. FelderGeprueft'
    BY <1>1, <2>1, <2>2, <2>3, <2>4 DEF FelderGeprueft, GrosseZahl
  <2>6. AllesKlein'
    BY <1>1, <2>1 DEF AllesKlein, Ausnahme, GrosseZahl
  <2> QED BY <2>1, <2>5, <2>6 DEF AbsturzErklaert
<1>8. CASE verlassen \/ textFieldDidEndEditing \/ UNCHANGED vars
  <2>1. UNCHANGED <<regel, ausstehend, ereignisse, feld, absturz, speicherungen>>
    BY <1>8 DEF verlassen, textFieldDidEndEditing, vars, dbVars, seiteVars
  <2> QED BY <1>1, <2>1 DEF FelderGeprueft, AllesKlein, AbsturzErklaert, Ausnahme,
                            GrosseZahl
<1> QED BY <1>3, <1>4, <1>5, <1>6, <1>7, <1>8, AbsturzLaden, AbsturzSpeichern DEF Next

\* The process ends only by a text that is no number in one of the two fields
\* that accept one, or by a limit too large for Int that some device has
\* saved (DetailEinstellungenVC.swift 93-116 and loadampel there).
THEOREM AbsturzGeltend == Spec => []AbsturzErklaert
<1>1. Init => AbsturzInv
  <2> SUFFICES ASSUME Init
               PROVE  FelderGeprueft /\ AllesKlein /\ AbsturzErklaert
    BY TypStart DEF AbsturzInv
  <2>1. /\ feld = Leer /\ ausstehend = <<>> /\ ereignisse = <<>> /\ absturz = "keiner"
        /\ regel \in {Keine} \cup {[Keine EXCEPT !.gelb = s] : s \in Sekunden}
    BY DEF Init
  <2>2. \A g \in Grenzen : feld[g] \notin Nat /\ feld[g] # KeineZahl
    BY <2>1 DEF Leer, KeinText, KeineZahl
  <2>3. FelderGeprueft
    BY <2>2 DEF FelderGeprueft, Grenzen
  <2>4. \A g \in Grenzen : regel[g] = Fehlt \/ regel[g] \in Sekunden
    BY <2>1 DEF Keine
  <2>5. ~Ausnahme => KleineRegel(regel)
    <3>1. Fehlt <= IntMax
      BY IntMaxAnnahme DEF Fehlt
    <3>2. ~Ausnahme => \A s \in Sekunden : s <= IntMax
      BY SekundenAnnahme, IntMaxAnnahme DEF Ausnahme
    <3> QED BY <2>4, <3>1, <3>2 DEF KleineRegel
  <2>6. KleineSchreibungen(ausstehend) /\ KleineEreignisse(ereignisse)
    BY <2>1 DEF KleineSchreibungen, KleineEreignisse
  <2> QED BY <2>1, <2>3, <2>5, <2>6 DEF AllesKlein, AbsturzErklaert
<1>2. AbsturzInv => AbsturzErklaert
  BY DEF AbsturzInv
<1>3. Spec => []AbsturzInv
  BY <1>1, AbsturzSchritt, PTL DEF Spec
<1> QED BY <1>2, <1>3, PTL
=============================================================================
