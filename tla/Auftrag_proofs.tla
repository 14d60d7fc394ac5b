---------------------------- MODULE Auftrag_proofs ---------------------------
(***************************************************************************)
(* Proofs about an order: its status in the database (Auftragsstatus), for *)
(* any orders, any devices and any bound on the unsent writes, and how its *)
(* record is folded into the dictionaries of a list (Ladevorgang), for     *)
(* records of any size and any sequence of folds.                          *)
(***************************************************************************)
EXTENDS Auftragsstatus, Ladevorgang, SequenceTheorems, FiniteSetTheorems, TLAPS

(***************************************************************************)
(*                         THE STATUS OF AN ORDER                          *)
(*                                                                         *)
(* InformationVoraus is not inductive: whether the record has been written *)
(* when the index is depends on the writes a device still holds.  IInv     *)
(* says of them that a write to the index has the write to the record      *)
(* before it, and that "fertig" has an earlier write of the same path      *)
(* before it, unless the server already has that one; and of the list of   *)
(* accepted orders that both paths of its orders are written or about to   *)
(* be.                                                                     *)
(***************************************************************************)

\* Among the first n writes of q is one to path p of order id.
Davor(q, p, id, n) ==
  \E j \in 1..Len(q) : j <= n /\ q[j].pfad = p /\ q[j].id = id

\* The Status st of id is written, or will be by the first n writes of q.
Gedeckt(st, q, p, id, n) == st[id] \in Bearbeitet \/ Davor(q, p, id, n)

Bekannt ==
  /\ \A id \in Bestellung : (user[id] = "keine") <=> (information[id] = "keine")
  /\ \A g \in Geraet, id \in Bestellung :
       /\ cache[g][id] # "keine" => user[id] # "keine"
       /\ cache[g][id] \in Bearbeitet => user[id] \in Bearbeitet
       /\ id \in neu[g] \cup inArbeit[g] => user[id] # "keine"
  /\ \A g \in Geraet : \A k \in 1..Len(ausstehend[g]) :
       user[ausstehend[g][k].id] # "keine"

\* The k-th unsent write w of a device is covered by those before it.
Geordnet(inf, usr, q, k) ==
  LET w == q[k]
  IN /\ w.pfad = "user" \/ w.status = "fertig" =>
          Gedeckt(inf, q, "Information", w.id, k - 1)
     /\ w.pfad = "user" /\ w.status = "fertig" =>
          Gedeckt(usr, q, "user", w.id, k - 1)

Reihenfolge ==
  \A g \in Geraet : \A k \in 1..Len(ausstehend[g]) :
    Geordnet(information, user, ausstehend[g], k)

InArbeitGeschrieben ==
  \A g \in Geraet : \A id \in inArbeit[g] :
    /\ Gedeckt(information, ausstehend[g], "Information", id, Len(ausstehend[g]))
    /\ Gedeckt(user, ausstehend[g], "user", id, Len(ausstehend[g]))

IInv ==
  /\ TypeOK
  /\ InformationVoraus
  /\ Bekannt
  /\ Reihenfolge
  /\ InArbeitGeschrieben

-----------------------------------------------------------------------------

\* What appending two elements to a sequence and dropping its first leave
\* at every index; the form in which the writes of a device are used.
LEMMA ZweiAnhaengen ==
  ASSUME NEW S, NEW q \in Seq(S), NEW a \in S, NEW b \in S
  PROVE  /\ q \o <<a, b>> \in Seq(S)
         /\ Len(q \o <<a, b>>) = Len(q) + 2
         /\ \A k \in 1..Len(q) : (q \o <<a, b>>)[k] = q[k]
         /\ (q \o <<a, b>>)[Len(q) + 1] = a
         /\ (q \o <<a, b>>)[Len(q) + 2] = b
<1>1. <<a, b>> \in Seq(S) /\ Len(<<a, b>>) = 2 /\ <<a, b>>[1] = a /\ <<a, b>>[2] = b
  OBVIOUS
<1> DEFINE z == <<a, b>>
<1>2. z \in Seq(S) /\ Len(z) = 2 /\ z[1] = a /\ z[2] = b
  BY <1>1
<1> HIDE DEF z
<1>3. /\ q \o z \in Seq(S)
      /\ Len(q \o z) = Len(q) + Len(z)
      /\ \A k \in 1 .. Len(q) + Len(z) :
           (q \o z)[k] = IF k <= Len(q) THEN q[k] ELSE z[k - Len(q)]
  BY <1>2, ConcatProperties, Zenon
<1>4. Len(q) \in Nat
  OBVIOUS
<1>5. /\ \A k \in 1..Len(q) : (q \o z)[k] = q[k]
      /\ (q \o z)[Len(q) + 1] = z[1]
      /\ (q \o z)[Len(q) + 2] = z[2]
  BY <1>2, <1>3, <1>4
<1>6. QED
  BY <1>2, <1>3, <1>5 DEF z

\* Every handler keeps every variable in its set.
LEMMA TypSchritt == TypeOK /\ [Next]_vars => TypeOK'
<1> SUFFICES ASSUME TypeOK, [Next]_vars
             PROVE  TypeOK'
  OBVIOUS
<1> USE DEF TypeOK, Status, Bearbeitet
<1>1. CASE UNCHANGED vars
  BY <1>1 DEF vars
<1>2. ASSUME NEW id \in Bestellung, Senden(id)
      PROVE  TypeOK'
  BY <1>2 DEF Senden
<1>3. ASSUME NEW g \in Geraet, NEW id \in Bestellung, Empfangen(g, id)
      PROVE  TypeOK'
  BY <1>3 DEF Empfangen
<1>4. ASSUME NEW g \in Geraet, NEW id \in Bestellung,
             NeueNotieren(g, id) \/ AngenommeneNotieren(g, id)
      PROVE  TypeOK'
  <2>1. neu[g] \cup {id} \in SUBSET Bestellung
    OBVIOUS
  <2>2. inArbeit[g] \cup {id} \in SUBSET Bestellung
    OBVIOUS
  <2>3. CASE NeueNotieren(g, id)
    BY <2>1, <2>3 DEF NeueNotieren
  <2>4. CASE AngenommeneNotieren(g, id)
    BY <2>2, <2>4 DEF AngenommeneNotieren
  <2>5. QED
    BY <1>4, <2>3, <2>4
<1>5. ASSUME NEW g \in Geraet, NEW id \in Bestellung,
             annehmen(g, id) \/ fertigstellen(g, id)
      PROVE  TypeOK'
  <2>1. ASSUME NEW s \in Bearbeitet, schreibe(g, id, s)
        PROVE  ausstehend' \in [Geraet -> Seq(Schreiben)]
    <3> DEFINE i == [pfad |-> "Information", id |-> id, status |-> s]
               u == [pfad |-> "user", id |-> id, status |-> s]
    <3>1. i \in Schreiben /\ u \in Schreiben
      BY DEF Schreiben
    <3>2. ausstehend[g] \o <<i, u>> \in Seq(Schreiben)
      BY <3>1, ZweiAnhaengen
    <3>3. QED
      BY <2>1, <3>2 DEF schreibe
  <2>2. ausstehend' \in [Geraet -> Seq(Schreiben)]
    BY <1>5, <2>1 DEF annehmen, fertigstellen
  <2>3. QED
    BY <1>5, <2>2 DEF annehmen, fertigstellen, nachReload
<1>6. ASSUME NEW g \in Geraet, ServerSchreibt(g)
      PROVE  TypeOK'
  <2>1. Head(ausstehend[g]) \in Schreiben /\ Tail(ausstehend[g]) \in Seq(Schreiben)
    BY <1>6 DEF ServerSchreibt
  <2> DEFINE w == Head(ausstehend[g])
  <2>2. w.pfad \in {"Information", "user"} /\ w.id \in Bestellung /\ w.status \in Status
    BY <2>1 DEF Schreiben
  <2>3. \/ /\ w.pfad = "Information"
           /\ information' = [information EXCEPT ![w.id] = w.status]
           /\ UNCHANGED <<user, cache>>
        \/ /\ w.pfad = "user"
           /\ user' = [user EXCEPT ![w.id] = w.status]
           /\ cache' = [cache EXCEPT ![g][w.id] = w.status]
           /\ UNCHANGED information
    BY <1>6 DEF ServerSchreibt
  <2>4. /\ ausstehend' = [ausstehend EXCEPT ![g] = Tail(ausstehend[g])]
        /\ UNCHANGED <<neu, inArbeit>>
    BY <1>6 DEF ServerSchreibt
  <2> HIDE DEF w
  <2>5. information' \in [Bestellung -> Status] /\ user' \in [Bestellung -> Status]
    BY <2>2, <2>3
  <2>6. cache' \in [Geraet -> [Bestellung -> Status]]
    <3>1. [cache[g] EXCEPT ![w.id] = w.status] \in [Bestellung -> Status]
      BY <2>2
    <3>2. QED
      BY <2>3, <3>1
  <2>7. QED
    BY <2>1, <2>4, <2>5, <2>6
<1>7. ASSUME NEW g \in Geraet, Beenden(g)
      PROVE  TypeOK'
  BY <1>7 DEF Beenden
<1>8. QED
  BY <1>1, <1>2, <1>3, <1>4, <1>5, <1>6, <1>7 DEF Next

\* Type correctness, for any orders and devices.
THEOREM TypKorrekt == Spec => []TypeOK
<1>1. Init => TypeOK
  BY DEF Init, TypeOK, Status
<1>2. QED
  BY <1>1, TypSchritt, PTL DEF Spec

-----------------------------------------------------------------------------

\* Writes keep their place when two more are appended.
LEMMA GedecktAnhaengen ==
  ASSUME NEW q \in Seq(Schreiben), NEW a \in Schreiben, NEW b \in Schreiben,
         NEW st, NEW p, NEW id, NEW n, Gedeckt(st, q, p, id, n)
  PROVE  Gedeckt(st, q \o <<a, b>>, p, id, n)
<1>1. /\ Len(q \o <<a, b>>) = Len(q) + 2
      /\ \A k \in 1..Len(q) : (q \o <<a, b>>)[k] = q[k]
      /\ Len(q) \in Nat
  BY ZweiAnhaengen
<1> DEFINE r == q \o <<a, b>>
<1>2. Len(r) = Len(q) + 2 /\ \A k \in 1..Len(q) : r[k] = q[k]
  BY <1>1
<1> HIDE DEF r
<1>3. Gedeckt(st, r, p, id, n)
  BY <1>1, <1>2 DEF Gedeckt, Davor
<1>4. QED
  BY <1>3 DEF r

\* Dropping the oldest write w moves the others forward by one; what w
\* covered is covered once w is applied to the Status.
LEMMA GedecktTail ==
  ASSUME NEW q \in Seq(Schreiben), q # <<>>, NEW st, NEW st1, NEW p, NEW id,
         NEW n \in Nat, Gedeckt(st, q, p, id, n),
         st[id] \in Bearbeitet => st1[id] \in Bearbeitet,
         q[1].pfad = p /\ q[1].id = id => st1[id] \in Bearbeitet
  PROVE  Gedeckt(st1, Tail(q), p, id, n - 1)
<1>1. /\ Len(Tail(q)) = Len(q) - 1
      /\ \A k \in 1..Len(Tail(q)) : Tail(q)[k] = q[k + 1]
      /\ Len(q) \in Nat
  OBVIOUS
<1>2. CASE st[id] \in Bearbeitet
  BY <1>2 DEF Gedeckt
<1>3. ASSUME NEW j \in 1..Len(q), j <= n, q[j].pfad = p, q[j].id = id
      PROVE  Gedeckt(st1, Tail(q), p, id, n - 1)
  <2>1. CASE j = 1
    BY <1>3, <2>1 DEF Gedeckt
  <2>2. CASE j # 1
    <3>1. j - 1 \in 1..Len(Tail(q)) /\ j - 1 <= n - 1 /\ Tail(q)[j - 1] = q[j]
      BY <1>1, <1>3, <2>2
    <3>2. QED
      BY <1>3, <3>1 DEF Gedeckt, Davor
  <2>3. QED
    BY <2>1, <2>2
<1>4. QED
  BY <1>2, <1>3 DEF Gedeckt, Davor

\* More writes and a Status written before cover no less.
LEMMA GedecktMonoton ==
  ASSUME NEW q \in Seq(Schreiben), NEW st, NEW st1, NEW p, NEW id,
         NEW m \in Int, NEW n \in Int, m <= n, Gedeckt(st, q, p, id, m),
         st[id] \in Bearbeitet => st1[id] \in Bearbeitet
  PROVE  Gedeckt(st1, q, p, id, n)
  BY DEF Gedeckt, Davor

\* The oldest write of a device has nothing before it.
LEMMA GedecktVorn ==
  ASSUME NEW q, NEW st, NEW p, NEW id, Gedeckt(st, q, p, id, 0)
  PROVE  st[id] \in Bearbeitet
  BY DEF Gedeckt, Davor

-----------------------------------------------------------------------------

\* What TypeOK says of the unsent writes, element by element.
LEMMA SchreibenTyp ==
  ASSUME NEW q \in Seq(Schreiben)
  PROVE  /\ Len(q) \in Nat
         /\ \A k \in 1..Len(q) :
              /\ q[k] \in Schreiben
              /\ q[k].pfad \in {"Information", "user"}
              /\ q[k].id \in Bestellung
              /\ q[k].status \in Bearbeitet
<1>1. Len(q) \in Nat /\ \A k \in 1..Len(q) : q[k] \in Schreiben
  OBVIOUS
<1>2. QED
  BY <1>1 DEF Schreiben

\* The steps that leave the unsent writes alone keep IInv.
LEMMA RuhigeSchritte ==
  ASSUME IInv, TypeOK', UNCHANGED ausstehend,
         \/ UNCHANGED vars
         \/ \E id \in Bestellung : Senden(id)
         \/ \E g \in Geraet, id \in Bestellung :
              \/ Empfangen(g, id)
              \/ NeueNotieren(g, id)
              \/ AngenommeneNotieren(g, id)
  PROVE  IInv'
<1> USE DEF IInv, Bearbeitet
<1>t. TypeOK
  OBVIOUS
<1>1. \A id \in Bestellung :
        /\ information[id] \in Bearbeitet => information'[id] \in Bearbeitet
        /\ user[id] \in Bearbeitet => user'[id] \in Bearbeitet
        /\ user[id] # "keine" => user'[id] # "keine"
  BY DEF vars, Senden, Empfangen, NeueNotieren, AngenommeneNotieren, TypeOK,
         Bekannt
<1>2. \A g \in Geraet :
        /\ ausstehend[g] \in Seq(Schreiben)
        /\ ausstehend'[g] = ausstehend[g]
        /\ Len(ausstehend[g]) \in Nat
        /\ \A k \in 1..Len(ausstehend[g]) : ausstehend[g][k].id \in Bestellung
  <2>1. TAKE g \in Geraet
  <2>2. ausstehend[g] \in Seq(Schreiben)
    BY DEF TypeOK
  <2>3. QED
    BY <2>2, SchreibenTyp
<1>3. InformationVoraus'
  BY DEF vars, Senden, Empfangen, NeueNotieren, AngenommeneNotieren, TypeOK,
         Bekannt, InformationVoraus
<1>4. ASSUME NEW g \in Geraet, NEW id \in Bestellung,
             \/ Sieht(g, id, "versendet")
             \/ Sieht(g, id, "angenommen")
      PROVE  user[id] # "keine"
  BY <1>2, <1>4 DEF Sieht, Bekannt
<1>5. Bekannt'
  <2>1. CASE UNCHANGED vars
    BY <2>1 DEF vars, Bekannt
  <2>2. ASSUME NEW id \in Bestellung, Senden(id)
        PROVE  Bekannt'
    BY <1>2, <2>2 DEF Senden, Bekannt, TypeOK
  <2>3. ASSUME NEW g \in Geraet, NEW id \in Bestellung, Empfangen(g, id)
        PROVE  Bekannt'
    BY <1>2, <2>3 DEF Empfangen, Bekannt, TypeOK
  <2>4. ASSUME NEW g \in Geraet, NEW id \in Bestellung, NeueNotieren(g, id)
        PROVE  Bekannt'
    BY <1>2, <1>4, <2>4 DEF NeueNotieren, Bekannt, TypeOK
  <2>5. ASSUME NEW g \in Geraet, NEW id \in Bestellung,
               AngenommeneNotieren(g, id)
        PROVE  Bekannt'
    BY <1>2, <1>4, <2>5 DEF AngenommeneNotieren, Bekannt, TypeOK
  <2>6. QED
    BY <2>1, <2>2, <2>3, <2>4, <2>5
<1>6. Reihenfolge'
  <2> SUFFICES ASSUME NEW g \in Geraet, NEW k \in 1..Len(ausstehend[g])
               PROVE  Geordnet(information', user', ausstehend[g], k)
    BY <1>2 DEF Reihenfolge
  <2>1. Geordnet(information, user, ausstehend[g], k)
    BY DEF Reihenfolge
  <2>2. ausstehend[g][k].id \in Bestellung
    BY <1>2
  <2>3. QED
    BY <1>1, <2>1, <2>2 DEF Geordnet, Gedeckt
<1>7. InArbeitGeschrieben'
  <2> SUFFICES ASSUME NEW g \in Geraet, NEW id \in inArbeit'[g]
               PROVE  /\ Gedeckt(information', ausstehend[g], "Information", id,
                                 Len(ausstehend[g]))
                      /\ Gedeckt(user', ausstehend[g], "user", id,
                                 Len(ausstehend[g]))
    BY <1>2 DEF InArbeitGeschrieben
  <2>0. id \in Bestellung
    BY DEF TypeOK
  <2>1. CASE id \in inArbeit[g]
    BY <1>1, <2>0, <2>1 DEF InArbeitGeschrieben, Gedeckt
  <2>2. CASE id \notin inArbeit[g]
    <3>0. inArbeit' # inArbeit
      BY <2>2
    <3>a. PICK h \in Geraet, x \in Bestellung : AngenommeneNotieren(h, x)
      BY <3>0 DEF vars, Senden, Empfangen, NeueNotieren
    <3>b. h = g /\ x = id
      BY <2>2, <3>a DEF AngenommeneNotieren, TypeOK
    <3>1. AngenommeneNotieren(g, id) /\ UNCHANGED <<information, user>>
      BY <3>a, <3>b DEF AngenommeneNotieren
    <3>2. CASE cache[g][id] = "angenommen"
      <4>1. user[id] \in Bearbeitet /\ information[id] \in Bearbeitet
        BY <2>0, <3>2 DEF Bekannt, InformationVoraus
      <4>2. QED
        BY <3>1, <4>1 DEF Gedeckt
    <3>3. ASSUME NEW k \in 1..Len(ausstehend[g]),
                 ausstehend[g][k].pfad = "user", ausstehend[g][k].id = id
          PROVE  /\ Gedeckt(information', ausstehend[g], "Information", id,
                            Len(ausstehend[g]))
                 /\ Gedeckt(user', ausstehend[g], "user", id,
                            Len(ausstehend[g]))
      <4>1. Gedeckt(information, ausstehend[g], "Information", id, k - 1)
        BY <3>3 DEF Reihenfolge, Geordnet
      <4>2. Gedeckt(information, ausstehend[g], "Information", id,
                    Len(ausstehend[g]))
        BY <1>2, <4>1, GedecktMonoton
      <4>3. Gedeckt(user, ausstehend[g], "user", id, Len(ausstehend[g]))
        BY <1>2, <3>3 DEF Gedeckt, Davor
      <4>4. QED
        BY <3>1, <4>2, <4>3
    <3>4. QED
      BY <1>2, <3>1, <3>2, <3>3 DEF AngenommeneNotieren, Sieht
  <2>3. QED
    BY <2>1, <2>2
<1>8. QED
  BY <1>3, <1>5, <1>6, <1>7

\* Accepting and finishing an order keep IInv: the two new writes are in
\* the right order, and a finished order was in the list of accepted ones.
LEMMA SchreibendeSchritte ==
  ASSUME IInv, TypeOK', NEW g \in Geraet, NEW id \in Bestellung,
         annehmen(g, id) \/ fertigstellen(g, id)
  PROVE  IInv'
<1> USE DEF IInv
<1> DEFINE q == ausstehend[g]
<1>1. PICK s \in Bearbeitet :
        /\ schreibe(g, id, s)
        /\ id \in neu[g] \cup inArbeit[g]
        /\ s = "fertig" => id \in inArbeit[g]
  BY DEF annehmen, fertigstellen, Bearbeitet
<1> DEFINE i == [pfad |-> "Information", id |-> id, status |-> s]
           u == [pfad |-> "user", id |-> id, status |-> s]
           r == q \o <<i, u>>
<1>2. i \in Schreiben /\ u \in Schreiben /\ q \in Seq(Schreiben)
  BY DEF Schreiben, TypeOK
<1>3. /\ r \in Seq(Schreiben) /\ Len(r) = Len(q) + 2 /\ Len(q) \in Nat
      /\ \A k \in 1..Len(q) : r[k] = q[k]
      /\ r[Len(q) + 1] = i /\ r[Len(q) + 2] = u
  BY <1>2, ZweiAnhaengen
<1>4. \A st, p, x, n : Gedeckt(st, q, p, x, n) => Gedeckt(st, r, p, x, n)
  BY <1>2, GedecktAnhaengen
<1>5. /\ ausstehend' = [ausstehend EXCEPT ![g] = r]
      /\ UNCHANGED <<information, user, cache>>
      /\ \A h \in Geraet : neu'[h] \subseteq neu[h] /\ inArbeit'[h] \subseteq inArbeit[h]
  BY <1>1 DEF annehmen, fertigstellen, schreibe, nachReload, TypeOK
<1>6. /\ i.pfad = "Information" /\ i.id = id /\ i.status = s
      /\ u.pfad = "user" /\ u.id = id /\ u.status = s
  OBVIOUS
<1>7. /\ ausstehend'[g] = r
      /\ \A h \in Geraet \ {g} : ausstehend'[h] = ausstehend[h]
  BY <1>5 DEF TypeOK
<1> HIDE DEF r, i, u
<1>8. InformationVoraus'
  BY <1>5 DEF InformationVoraus
<1>9. Bekannt'
  <2>1. user[id] # "keine"
    BY <1>1 DEF Bekannt
  <2>2. \A k \in 1..Len(r) : user[r[k].id] # "keine"
    <3>1. TAKE k \in 1..Len(r)
    <3>2. k \in 1..Len(q) \/ k = Len(q) + 1 \/ k = Len(q) + 2
      BY <1>3
    <3>3. QED
      BY <1>3, <1>6, <2>1, <3>2 DEF Bekannt
  <2>3. \A h \in Geraet : \A k \in 1..Len(ausstehend'[h]) :
          user[ausstehend'[h][k].id] # "keine"
    BY <1>7, <2>2 DEF Bekannt
  <2>4. QED
    BY <1>5, <2>3 DEF Bekannt
<1>10. ASSUME NEW x \in inArbeit[g]
       PROVE  /\ Gedeckt(information, r, "Information", x, Len(q))
              /\ Gedeckt(user, r, "user", x, Len(q))
  BY <1>4 DEF InArbeitGeschrieben
<1>11. Reihenfolge'
  <2>1. \A k \in 1..Len(q) : Geordnet(information, user, q, k)
    BY DEF Reihenfolge
  <2>2. ASSUME NEW k \in 1..Len(q)
        PROVE  Geordnet(information, user, r, k)
    BY <1>3, <1>4, <2>1 DEF Geordnet
  <2>3. Geordnet(information, user, r, Len(q) + 1)
    <3>1. s = "fertig" => Gedeckt(information, r, "Information", id, Len(q))
      BY <1>1, <1>10
    <3>2. Len(q) + 1 - 1 = Len(q)
      BY <1>3
    <3>3. QED
      BY <1>3, <1>6, <3>1, <3>2 DEF Geordnet
  <2>4. Geordnet(information, user, r, Len(q) + 2)
    <3>1. Gedeckt(information, r, "Information", id, Len(q) + 1)
      BY <1>3, <1>6 DEF Gedeckt, Davor
    <3>2. s = "fertig" => Gedeckt(user, r, "user", id, Len(q))
      BY <1>1, <1>10
    <3>3. s = "fertig" => Gedeckt(user, r, "user", id, Len(q) + 1)
      BY <1>3, <3>2, GedecktMonoton
    <3>4. Len(q) + 2 - 1 = Len(q) + 1
      BY <1>3
    <3>5. QED
      BY <1>3, <1>6, <3>1, <3>3, <3>4 DEF Geordnet
  <2>5. \A k \in 1..Len(r) : Geordnet(information, user, r, k)
    <3>1. TAKE k \in 1..Len(r)
    <3>2. k \in 1..Len(q) \/ k = Len(q) + 1 \/ k = Len(q) + 2
      BY <1>3
    <3>3. QED
      BY <2>2, <2>3, <2>4, <3>2
  <2>6. \A h \in Geraet : \A k \in 1..Len(ausstehend'[h]) :
          Geordnet(information, user, ausstehend'[h], k)
    BY <1>7, <2>5 DEF Reihenfolge
  <2>7. QED
    BY <1>5, <2>6 DEF Reihenfolge
<1>12. InArbeitGeschrieben'
  <2>1. ASSUME NEW h \in Geraet, NEW x \in inArbeit'[h]
        PROVE  /\ Gedeckt(information, ausstehend'[h], "Information", x,
                          Len(ausstehend'[h]))
               /\ Gedeckt(user, ausstehend'[h], "user", x, Len(ausstehend'[h]))
    <3>0. x \in inArbeit[h]
      BY <1>5
    <3>1. CASE h # g
      BY <1>7, <3>0, <3>1 DEF InArbeitGeschrieben
    <3>2. CASE h = g
      <4>1. /\ Gedeckt(information, r, "Information", x, Len(q))
            /\ Gedeckt(user, r, "user", x, Len(q))
        BY <1>10, <3>0, <3>2
      <4>2. /\ Gedeckt(information, r, "Information", x, Len(r))
            /\ Gedeckt(user, r, "user", x, Len(r))
        BY <1>3, <4>1, GedecktMonoton
      <4>3. QED
        BY <1>7, <3>2, <4>2
    <3>3. QED
      BY <3>1, <3>2
  <2>2. QED
    BY <1>5, <2>1 DEF InArbeitGeschrieben
<1>13. QED
  BY <1>8, <1>9, <1>11, <1>12

\* The server taking the oldest write of a device keeps IInv: a write to the
\* index finds the record written, and every later write loses at most what
\* this one has now brought to the server.
LEMMA ServerSchritt ==
  ASSUME IInv, TypeOK', NEW g \in Geraet, ServerSchreibt(g)
  PROVE  IInv'
<1> USE DEF IInv
<1> DEFINE q == ausstehend[g]
           w == q[1]
<1>1. q \in Seq(Schreiben) /\ q # <<>> /\ Head(q) = w
  BY DEF ServerSchreibt, TypeOK
<1>2. /\ Len(q) \in Nat \ {0} /\ 1 \in 1..Len(q)
      /\ Len(Tail(q)) = Len(q) - 1
      /\ \A k \in 1..Len(Tail(q)) : k + 1 \in 1..Len(q) /\ Tail(q)[k] = q[k + 1]
  BY <1>1
<1>3. w.pfad \in {"Information", "user"} /\ w.id \in Bestellung /\ w.status \in Bearbeitet
  BY <1>1, <1>2, SchreibenTyp
<1>4. /\ \/ /\ w.pfad = "Information"
            /\ information' = [information EXCEPT ![w.id] = w.status]
            /\ UNCHANGED <<user, cache>>
         \/ /\ w.pfad = "user"
            /\ user' = [user EXCEPT ![w.id] = w.status]
            /\ cache' = [cache EXCEPT ![g][w.id] = w.status]
            /\ UNCHANGED information
      /\ ausstehend' = [ausstehend EXCEPT ![g] = Tail(q)]
      /\ UNCHANGED <<neu, inArbeit>>
  BY <1>1 DEF ServerSchreibt
<1>5. /\ ausstehend'[g] = Tail(q)
      /\ \A h \in Geraet \ {g} : ausstehend'[h] = ausstehend[h]
  BY <1>4 DEF TypeOK
<1>6. Geordnet(information, user, q, 1) /\ user[w.id] # "keine"
  BY <1>2 DEF Reihenfolge, Bekannt
<1>7. \A h \in Geraet : /\ ausstehend[h] \in Seq(Schreiben)
                        /\ Len(ausstehend[h]) \in Nat
                        /\ \A k \in 1..Len(ausstehend[h]) :
                             ausstehend[h][k].id \in Bestellung
  <2>1. TAKE h \in Geraet
  <2>2. ausstehend[h] \in Seq(Schreiben)
    BY DEF TypeOK
  <2>3. QED
    BY <2>2, SchreibenTyp
<1> HIDE DEF w
<1>8. \A id \in Bestellung :
        /\ information[id] \in Bearbeitet => information'[id] \in Bearbeitet
        /\ user[id] \in Bearbeitet => user'[id] \in Bearbeitet
        /\ user[id] # "keine" => user'[id] # "keine"
        /\ w.pfad = "Information" /\ w.id = id => information'[id] \in Bearbeitet
        /\ w.pfad = "user" /\ w.id = id => user'[id] \in Bearbeitet
  BY <1>3, <1>4 DEF TypeOK, Bearbeitet
<1>9. InformationVoraus'
  <2>1. CASE w.pfad = "Information"
    BY <1>3, <1>4, <1>8, <2>1 DEF InformationVoraus
  <2>2. CASE w.pfad = "user"
    <3>1. information[w.id] \in Bearbeitet
      <4>1. Gedeckt(information, q, "Information", w.id, 0)
        BY <1>6, <2>2 DEF Geordnet, w
      <4>2. QED
        BY <4>1, GedecktVorn
    <3>2. QED
      BY <1>3, <1>4, <2>2, <3>1 DEF InformationVoraus, TypeOK
  <2>3. QED
    BY <1>3, <2>1, <2>2
<1>10. Bekannt'
  <2>1. \A id \in Bestellung : (user'[id] = "keine") <=> (information'[id] = "keine")
    BY <1>3, <1>4, <1>6 DEF Bekannt, TypeOK, Bearbeitet
  <2>2. \A h \in Geraet, id \in Bestellung :
          /\ cache'[h][id] # "keine" => user'[id] # "keine"
          /\ cache'[h][id] \in Bearbeitet => user'[id] \in Bearbeitet
    <3>1. TAKE h \in Geraet, id \in Bestellung
    <3>2. cache'[h][id] = cache[h][id] \/ (w.pfad = "user" /\ w.id = id)
      <4>1. CASE UNCHANGED cache
        BY <4>1
      <4>2. CASE w.pfad = "user" /\ cache' = [cache EXCEPT ![g][w.id] = w.status]
        <5>1. cache'[h] = IF h = g THEN [cache[g] EXCEPT ![w.id] = w.status]
                                   ELSE cache[h]
          BY <4>2 DEF TypeOK
        <5>2. cache[g] \in [Bestellung -> Status]
          BY DEF TypeOK
        <5>3. QED
          BY <4>2, <5>1, <5>2
      <4>3. QED
        BY <1>4, <4>1, <4>2
    <3>3. QED
      BY <1>8, <3>2 DEF Bekannt, Bearbeitet
  <2>3. \A h \in Geraet, id \in Bestellung :
          id \in neu'[h] \cup inArbeit'[h] => user'[id] # "keine"
    BY <1>4, <1>8 DEF Bekannt
  <2>4. \A h \in Geraet : \A k \in 1..Len(ausstehend'[h]) :
          user'[ausstehend'[h][k].id] # "keine"
    <3>1. TAKE h \in Geraet
    <3>2. \A k \in 1..Len(ausstehend[h]) : user'[ausstehend[h][k].id] # "keine"
      BY <1>7, <1>8 DEF Bekannt
    <3>3. CASE h = g
      <4>1. ASSUME NEW k \in 1..Len(Tail(q))
            PROVE  user'[Tail(q)[k].id] # "keine"
        <5>1. k + 1 \in 1..Len(q) /\ Tail(q)[k] = q[k + 1]
          BY <1>2
        <5>2. \A j \in 1..Len(q) : user'[q[j].id] # "keine"
          BY <3>2, <3>3
        <5>3. QED
          BY <5>1, <5>2
      <4>2. QED
        BY <1>5, <3>3, <4>1
    <3>4. CASE h # g
      BY <1>5, <3>2, <3>4
    <3>5. QED
      BY <3>3, <3>4
  <2>5. QED
    BY <2>1, <2>2, <2>3, <2>4 DEF Bekannt
\* What covered an order on device h before the step still does: on g at
\* one place less.
<1>11. ASSUME NEW id \in Bestellung, NEW n \in Nat
       PROVE  /\ Gedeckt(information, q, "Information", id, n) =>
                   Gedeckt(information', Tail(q), "Information", id, n - 1)
              /\ Gedeckt(user, q, "user", id, n) =>
                   Gedeckt(user', Tail(q), "user", id, n - 1)
  <2>1. ASSUME Gedeckt(information, q, "Information", id, n)
        PROVE  Gedeckt(information', Tail(q), "Information", id, n - 1)
    <3>1. /\ information[id] \in Bearbeitet => information'[id] \in Bearbeitet
          /\ q[1].pfad = "Information" /\ q[1].id = id => information'[id] \in Bearbeitet
      BY <1>8 DEF w
    <3> DEFINE st1 == information'
    <3>2. /\ information[id] \in Bearbeitet => st1[id] \in Bearbeitet
          /\ q[1].pfad = "Information" /\ q[1].id = id => st1[id] \in Bearbeitet
      BY <3>1
    <3> HIDE DEF st1
    <3>3. Gedeckt(st1, Tail(q), "Information", id, n - 1)
      BY <1>1, <2>1, <3>2, GedecktTail
    <3>4. QED
      BY <3>3 DEF st1
  <2>2. ASSUME Gedeckt(user, q, "user", id, n)
        PROVE  Gedeckt(user', Tail(q), "user", id, n - 1)
    <3>1. /\ user[id] \in Bearbeitet => user'[id] \in Bearbeitet
          /\ q[1].pfad = "user" /\ q[1].id = id => user'[id] \in Bearbeitet
      BY <1>8 DEF w
    <3> DEFINE st1 == user'
    <3>2. /\ user[id] \in Bearbeitet => st1[id] \in Bearbeitet
          /\ q[1].pfad = "user" /\ q[1].id = id => st1[id] \in Bearbeitet
      BY <3>1
    <3> HIDE DEF st1
    <3>3. Gedeckt(st1, Tail(q), "user", id, n - 1)
      BY <1>1, <2>2, <3>2, GedecktTail
    <3>4. QED
      BY <3>3 DEF st1
  <2>3. QED
    BY <2>1, <2>2
<1>12. ASSUME NEW h \in Geraet, NEW id \in Bestellung, NEW n
       PROVE  /\ Gedeckt(information, ausstehend[h], "Information", id, n) =>
                   Gedeckt(information', ausstehend[h], "Information", id, n)
              /\ Gedeckt(user, ausstehend[h], "user", id, n) =>
                   Gedeckt(user', ausstehend[h], "user", id, n)
  BY <1>8 DEF Gedeckt
<1>13. Reihenfolge'
  <2> SUFFICES ASSUME NEW h \in Geraet, NEW k \in 1..Len(ausstehend'[h])
               PROVE  Geordnet(information', user', ausstehend'[h], k)
    BY DEF Reihenfolge
  <2>1. CASE h # g
    <3>1. k \in 1..Len(ausstehend[h]) /\ ausstehend'[h] = ausstehend[h]
      BY <1>5, <2>1
    <3>2. Geordnet(information, user, ausstehend[h], k)
      BY <3>1 DEF Reihenfolge
    <3>3. ausstehend[h][k].id \in Bestellung
      BY <1>7, <3>1
    <3>4. QED
      BY <1>12, <3>1, <3>2, <3>3 DEF Geordnet
  <2>2. CASE h = g
    <3>1. k \in 1..Len(Tail(q)) /\ ausstehend'[h] = Tail(q)
      BY <1>5, <2>2
    <3>2. k + 1 \in 1..Len(q) /\ Tail(q)[k] = q[k + 1] /\ k \in Nat
      BY <1>2, <3>1
    <3>3. Geordnet(information, user, q, k + 1)
      BY <3>2 DEF Reihenfolge
    <3>4. q[k + 1].id \in Bestellung /\ k + 1 - 1 = k
      BY <1>7, <3>2
    <3>5. Geordnet(information', user', Tail(q), k)
      BY <1>11, <3>2, <3>3, <3>4 DEF Geordnet
    <3>6. QED
      BY <3>1, <3>5
  <2>3. QED
    BY <2>1, <2>2
<1>14. InArbeitGeschrieben'
  <2> SUFFICES ASSUME NEW h \in Geraet, NEW id \in inArbeit[h]
               PROVE  /\ Gedeckt(information', ausstehend'[h], "Information", id,
                                 Len(ausstehend'[h]))
                      /\ Gedeckt(user', ausstehend'[h], "user", id,
                                 Len(ausstehend'[h]))
    BY <1>4 DEF InArbeitGeschrieben
  <2>0. id \in Bestellung
    BY DEF TypeOK
  <2>1. /\ Gedeckt(information, ausstehend[h], "Information", id, Len(ausstehend[h]))
        /\ Gedeckt(user, ausstehend[h], "user", id, Len(ausstehend[h]))
    BY DEF InArbeitGeschrieben
  <2>2. CASE h # g
    BY <1>5, <1>12, <2>0, <2>1, <2>2
  <2>3. CASE h = g
    <3>1. Len(Tail(q)) = Len(q) - 1 /\ Len(q) \in Nat /\ ausstehend'[h] = Tail(q)
      BY <1>2, <1>5, <2>3
    <3>2. QED
      BY <1>11, <2>0, <2>1, <2>3, <3>1
  <2>4. QED
    BY <2>2, <2>3
<1>15. QED
  BY <1>9, <1>10, <1>13, <1>14

\* A process that ends takes its unsent writes, its copy of the index and
\* its lists with it, so nothing is left that would need them.
LEMMA BeendenSchritt ==
  ASSUME IInv, TypeOK', NEW g \in Geraet, Beenden(g)
  PROVE  IInv'
<1> USE DEF IInv
<1>1. /\ ausstehend'[g] = <<>> /\ Len(ausstehend'[g]) = 0
      /\ neu'[g] = {} /\ inArbeit'[g] = {}
      /\ \A id \in Bestellung : cache'[g][id] = "keine"
      /\ UNCHANGED <<information, user>>
      /\ \A h \in Geraet \ {g} :
           /\ ausstehend'[h] = ausstehend[h] /\ cache'[h] = cache[h]
           /\ neu'[h] = neu[h] /\ inArbeit'[h] = inArbeit[h]
  BY DEF Beenden, TypeOK
<1>2. InformationVoraus'
  BY <1>1 DEF InformationVoraus
<1>3. Bekannt'
  BY <1>1 DEF Bekannt, Bearbeitet
<1>4. Reihenfolge'
  <2>1. ASSUME NEW h \in Geraet, NEW k \in 1..Len(ausstehend'[h])
        PROVE  Geordnet(information, user, ausstehend'[h], k)
    <3>1. h # g
      BY <1>1
    <3>2. QED
      BY <1>1, <3>1 DEF Reihenfolge
  <2>2. QED
    BY <1>1, <2>1 DEF Reihenfolge
<1>5. InArbeitGeschrieben'
  <2>1. ASSUME NEW h \in Geraet, NEW id \in inArbeit'[h]
        PROVE  /\ Gedeckt(information, ausstehend'[h], "Information", id,
                          Len(ausstehend'[h]))
               /\ Gedeckt(user, ausstehend'[h], "user", id, Len(ausstehend'[h]))
    <3>1. h # g
      BY <1>1
    <3>2. QED
      BY <1>1, <3>1 DEF InArbeitGeschrieben
  <2>2. QED
    BY <1>1, <2>1 DEF InArbeitGeschrieben
<1>6. QED
  BY <1>2, <1>3, <1>4, <1>5

-----------------------------------------------------------------------------

\* IInv is inductive.
LEMMA Induktiv == IInv /\ [Next]_vars => IInv'
<1> SUFFICES ASSUME IInv, [Next]_vars
             PROVE  IInv'
  OBVIOUS
<1>1. TypeOK'
  BY TypSchritt DEF IInv
<1>2. CASE UNCHANGED vars
  BY <1>1, <1>2, RuhigeSchritte DEF vars
<1>3. ASSUME NEW id \in Bestellung, Senden(id)
      PROVE  IInv'
  BY <1>1, <1>3, RuhigeSchritte DEF Senden
<1>4. ASSUME NEW g \in Geraet, NEW id \in Bestellung,
             \/ Empfangen(g, id)
             \/ NeueNotieren(g, id)
             \/ AngenommeneNotieren(g, id)
      PROVE  IInv'
  <2>1. UNCHANGED ausstehend
    BY <1>4 DEF Empfangen, NeueNotieren, AngenommeneNotieren
  <2>2. QED
    BY <1>1, <1>4, <2>1, RuhigeSchritte
<1>5. ASSUME NEW g \in Geraet, NEW id \in Bestellung,
             annehmen(g, id) \/ fertigstellen(g, id)
      PROVE  IInv'
  BY <1>1, <1>5, SchreibendeSchritte
<1>6. ASSUME NEW g \in Geraet, ServerSchreibt(g)
      PROVE  IInv'
  BY <1>1, <1>6, ServerSchritt
<1>7. ASSUME NEW g \in Geraet, Beenden(g)
      PROVE  IInv'
  BY <1>1, <1>7, BeendenSchritt
<1>8. QED
  BY <1>2, <1>3, <1>4, <1>5, <1>6, <1>7 DEF Next

\* IInv holds at the start: nothing is known, nothing is written.
LEMMA Anfang == Init => IInv
<1> SUFFICES ASSUME Init
             PROVE  IInv
  OBVIOUS
<1>1. TypeOK
  BY DEF Init, TypeOK, Status
<1>2. InformationVoraus /\ Bekannt
  BY DEF Init, InformationVoraus, Bekannt, Bearbeitet
<1>3. Reihenfolge /\ InArbeitGeschrieben
  BY DEF Init, Reihenfolge, InArbeitGeschrieben
<1>4. QED
  BY <1>1, <1>2, <1>3 DEF IInv

\* The invariant that carries the other theorems holds in every behaviour.
THEOREM IInvGilt == Spec => []IInv
  BY Anfang, Induktiv, PTL DEF Spec

\* The guest never sees an order as unseen that the waiter's index already
\* holds as accepted or finished, for any number of orders and devices and
\* wherever a process is stopped between its two updates.
THEOREM GastSiehtFortschritt == Spec => []InformationVoraus
<1>1. IInv => InformationVoraus
  BY DEF IInv
<1>2. QED
  BY <1>1, IInvGilt, PTL

-----------------------------------------------------------------------------

\* A step of the server changes one Status of one path, to "angenommen" for
\* a known order or to "fertig" for one that was worked on.
LEMMA ServerFolgt ==
  ASSUME IInv, NEW g \in Geraet, ServerSchreibt(g)
  PROVE  \E id \in Bestellung, s \in Bearbeitet :
           \/ /\ UNCHANGED user
              /\ information' = [information EXCEPT ![id] = s]
              /\ information[id] # "keine"
              /\ s = "fertig" => information[id] \in Bearbeitet
           \/ /\ UNCHANGED information
              /\ user' = [user EXCEPT ![id] = s]
              /\ user[id] # "keine"
              /\ s = "fertig" => user[id] \in Bearbeitet
<1> DEFINE q == ausstehend[g]
           w == q[1]
<1>1. q \in Seq(Schreiben) /\ q # <<>> /\ Head(q) = w
  BY DEF ServerSchreibt, IInv, TypeOK
<1>2. 1 \in 1..Len(q)
  BY <1>1
<1>3. w.pfad \in {"Information", "user"} /\ w.id \in Bestellung /\ w.status \in Bearbeitet
  BY <1>1, <1>2, SchreibenTyp
<1>4. Geordnet(information, user, q, 1) /\ user[w.id] # "keine"
  BY <1>2 DEF IInv, Reihenfolge, Bekannt
<1>5. information[w.id] # "keine"
  BY <1>3, <1>4 DEF IInv, Bekannt
<1>6. /\ w.status = "fertig" =>
           Gedeckt(information, q, "Information", w.id, 0)
      /\ w.pfad = "user" /\ w.status = "fertig" =>
           Gedeckt(user, q, "user", w.id, 0)
  BY <1>4 DEF Geordnet
<1>7. /\ w.status = "fertig" => information[w.id] \in Bearbeitet
      /\ w.pfad = "user" /\ w.status = "fertig" => user[w.id] \in Bearbeitet
  BY <1>6, GedecktVorn
<1>8. \/ /\ w.pfad = "Information"
         /\ information' = [information EXCEPT ![w.id] = w.status]
         /\ UNCHANGED user
      \/ /\ w.pfad = "user"
         /\ user' = [user EXCEPT ![w.id] = w.status]
         /\ UNCHANGED information
  BY <1>1 DEF ServerSchreibt
<1> HIDE DEF w
<1>9. QED
  BY <1>3, <1>4, <1>5, <1>7, <1>8

\* Every step changes the record's Status as the life cycle allows.
LEMMA InformationSchritt ==
  IInv /\ [Next]_vars => [InformationLZ!Next]_information
<1> SUFFICES ASSUME IInv, [Next]_vars
             PROVE  [InformationLZ!Next]_information
  OBVIOUS
<1> USE DEF InformationLZ!Next, InformationLZ!Senden, InformationLZ!Annehmen,
            InformationLZ!Fertigstellen
<1>1. ASSUME NEW id \in Bestellung, Senden(id)
      PROVE  InformationLZ!Next
  BY <1>1 DEF Senden, IInv, Bekannt
<1>2. ASSUME NEW g \in Geraet, ServerSchreibt(g)
      PROVE  InformationLZ!Next \/ UNCHANGED information
  <2>1. PICK id \in Bestellung, s \in Bearbeitet :
          \/ UNCHANGED information
          \/ /\ information' = [information EXCEPT ![id] = s]
             /\ information[id] # "keine"
             /\ s = "fertig" => information[id] \in Bearbeitet
    BY <1>2, ServerFolgt
  <2>2. CASE s = "fertig" /\ information[id] = "fertig"
    BY <2>1, <2>2 DEF IInv, TypeOK
  <2>3. CASE ~(s = "fertig" /\ information[id] = "fertig")
    BY <2>1, <2>3 DEF Bearbeitet
  <2>4. QED
    BY <2>2, <2>3
<1>3. CASE \E id \in Bestellung : Senden(id)
  BY <1>1, <1>3
<1>4. CASE \E g \in Geraet : ServerSchreibt(g)
  BY <1>2, <1>4
<1>5. CASE \/ UNCHANGED vars
           \/ \E g \in Geraet, id \in Bestellung :
                \/ Empfangen(g, id)
                \/ NeueNotieren(g, id)
                \/ AngenommeneNotieren(g, id)
                \/ annehmen(g, id)
                \/ fertigstellen(g, id)
           \/ \E g \in Geraet : Beenden(g)
  BY <1>5 DEF vars, Empfangen, NeueNotieren, AngenommeneNotieren, annehmen,
              fertigstellen, Beenden
<1>6. QED
  BY <1>3, <1>4, <1>5 DEF Next

\* Every step changes the index's Status as the life cycle allows.
LEMMA UserSchritt == IInv /\ [Next]_vars => [UserLZ!Next]_user
<1> SUFFICES ASSUME IInv, [Next]_vars
             PROVE  [UserLZ!Next]_user
  OBVIOUS
<1> USE DEF UserLZ!Next, UserLZ!Senden, UserLZ!Annehmen, UserLZ!Fertigstellen
<1>1. ASSUME NEW id \in Bestellung, Senden(id)
      PROVE  UserLZ!Next
  BY <1>1 DEF Senden
<1>2. ASSUME NEW g \in Geraet, ServerSchreibt(g)
      PROVE  UserLZ!Next \/ UNCHANGED user
  <2>1. PICK id \in Bestellung, s \in Bearbeitet :
          \/ UNCHANGED user
          \/ /\ user' = [user EXCEPT ![id] = s]
             /\ user[id] # "keine"
             /\ s = "fertig" => user[id] \in Bearbeitet
    BY <1>2, ServerFolgt
  <2>2. CASE s = "fertig" /\ user[id] = "fertig"
    BY <2>1, <2>2 DEF IInv, TypeOK
  <2>3. CASE ~(s = "fertig" /\ user[id] = "fertig")
    BY <2>1, <2>3 DEF Bearbeitet
  <2>4. QED
    BY <2>2, <2>3
<1>3. CASE \E id \in Bestellung : Senden(id)
  BY <1>1, <1>3
<1>4. CASE \E g \in Geraet : ServerSchreibt(g)
  BY <1>2, <1>4
<1>5. CASE \/ UNCHANGED vars
           \/ \E g \in Geraet, id \in Bestellung :
                \/ Empfangen(g, id)
                \/ NeueNotieren(g, id)
                \/ AngenommeneNotieren(g, id)
                \/ annehmen(g, id)
                \/ fertigstellen(g, id)
           \/ \E g \in Geraet : Beenden(g)
  BY <1>5 DEF vars, Empfangen, NeueNotieren, AngenommeneNotieren, annehmen,
              fertigstellen, Beenden
<1>6. QED
  BY <1>3, <1>4, <1>5 DEF Next

\* The Status the guest sees implements the life cycle: whatever lists the
\* devices act on, it is never taken back to unseen and never finished
\* before it was accepted.
THEOREM InformationImplementiert == Spec => InformationFolgtLebenszyklus
<1>1. Init => InformationLZ!Init
  BY DEF Init, InformationLZ!Init
<1>2. QED
  BY <1>1, IInvGilt, InformationSchritt, PTL
     DEF Spec, InformationFolgtLebenszyklus, InformationLZ!Spec

\* The Status in the waiter's index implements it as well.
THEOREM UserImplementiert == Spec => UserFolgtLebenszyklus
<1>1. Init => UserLZ!Init
  BY DEF Init, UserLZ!Init
<1>2. QED
  BY <1>1, IInvGilt, UserSchritt, PTL DEF Spec, UserFolgtLebenszyklus, UserLZ!Spec

(***************************************************************************)
(*                          THE FOLD OF A RECORD                           *)
(*                                                                         *)
(* The properties speak of a moment between two records, the branches of   *)
(* one append.  The invariant therefore says at every place of the walk    *)
(* which arrays are shorter by one than the others (Form, FormX), what of  *)
(* the record they hold (Genau, GruppenWie), how often an item stands in   *)
(* them (ZahlInv), and that at every place there are as many items as      *)
(* groups of extras but for those of the subcategory the walk is in        *)
(* (Stand).  What a step does is said once, without the four branches:     *)
(* Schritte reduces it to the visit of a category, a subcategory, an item  *)
(* or an extra, and ExtraWirkung shows where the group of an item goes.    *)
(*                                                                         *)
(* First, induction: a set that holds 0 and i whenever it holds i - 1      *)
(* holds 0..n.                                                             *)
(***************************************************************************)
\* A set of natural numbers has a smallest one: of the intervals from zero
\* to its members, one contains no smaller one.
LEMMA Kleinstes ==
  ASSUME NEW T, T \subseteq Nat, T # {}
  PROVE  \E m \in T : \A k \in T : m <= k
<1> DEFINE Q == {0..j : j \in T}
<1>1. IsWellFoundedOn(StrictSubsetOrdering(Nat), FiniteSubsetsOf(Nat))
  BY FS_StrictSubsetOrderingWellFounded
<1>2. \A j \in T : j \in Nat /\ 0..j \subseteq Nat /\ IsFiniteSet(0..j)
  BY FS_Interval
<1>3. Q \subseteq FiniteSubsetsOf(Nat) /\ Q # {}
  BY <1>2 DEF FiniteSubsetsOf
<1>4. \E x \in Q : \A y \in Q : ~(<<y, x>> \in StrictSubsetOrdering(Nat))
  <2> HIDE DEF Q
  <2> QED BY <1>1, <1>3, WFMin
<1>5. PICK m \in T : \A y \in Q : ~(<<y, 0..m>> \in StrictSubsetOrdering(Nat))
  BY <1>4
<1>6. ASSUME NEW k \in T, k < m
      PROVE  FALSE
  <2>1. 0..k \in SUBSET Nat /\ 0..m \in SUBSET Nat /\ 0..k \in Q
    BY <1>2
  <2>2. 0..k \subseteq 0..m /\ 0..k # 0..m
    BY <1>2, <1>6
  <2>3. <<0..k, 0..m>> \in StrictSubsetOrdering(Nat)
    BY <2>1, <2>2 DEF StrictSubsetOrdering
  <2> QED BY <1>5, <2>1, <2>3
<1> QED BY <1>2, <1>6

\* Induction over the numbers up to n, for a property given as a set.
LEMMA Induktion ==
  ASSUME NEW n \in Nat, NEW P, 0 \in P,
         \A i \in 1..n : i - 1 \in P => i \in P
  PROVE  0..n \subseteq P
<1> DEFINE T == {i \in 0..n : i \notin P}
<1> SUFFICES ASSUME T # {} PROVE FALSE
  OBVIOUS
<1>1. PICK m \in T : \A k \in T : m <= k
  <2>1. T \subseteq Nat
    OBVIOUS
  <2> HIDE DEF T
  <2> QED BY <2>1, Kleinstes
<1>2. m \in 1..n /\ m - 1 \in 0..n /\ ~(m <= m - 1)
  BY <1>1
<1>3. m - 1 \in P
  BY <1>1, <1>2
<1> QED BY <1>1, <1>2, <1>3

(***************************************************************************)
(* What FlattenSeq computes.  It is a recursive function, so first there   *)
(* is one that satisfies its equation.                                     *)
(***************************************************************************)
Verkettung(S, n, f) ==
  f = [i \in 1..n |-> IF i = 1 THEN S[i] ELSE f[i - 1] \o S[i]]

LEMMA VerkettungGibtEs ==
  ASSUME NEW S, NEW n \in Nat
  PROVE  \E f : Verkettung(S, n, f)
<1> DEFINE P == {m \in 0..n : \E f : Verkettung(S, m, f)}
<1>1. 0 \in P
  <2> DEFINE f == [i \in 1..0 |-> i]
  <2>1. Verkettung(S, 0, f)
    BY DEF Verkettung
  <2> QED BY <2>1
<1>2. ASSUME NEW m \in 1..n, m - 1 \in P PROVE m \in P
  <2>1. PICK f : Verkettung(S, m - 1, f)
    BY <1>2
  <2> DEFINE h == IF m = 1 THEN S[m] ELSE f[m - 1] \o S[m]
             g == [i \in 1..m |-> IF i = m THEN h ELSE f[i]]
  <2>2. \A i \in 1..(m - 1) : f[i] = IF i = 1 THEN S[i] ELSE f[i - 1] \o S[i]
    BY <2>1 DEF Verkettung
  <2>3. ASSUME NEW i \in 1..m PROVE g[i] = IF i = 1 THEN S[i] ELSE g[i - 1] \o S[i]
    <3> HIDE DEF h
    <3>1. CASE i = m
      <4>1. g[i] = h
        BY <3>1
      <4>2. i # 1 => i - 1 \in 1..m /\ i - 1 # m
        BY <3>1
      <4>3. i # 1 => g[i - 1] = f[m - 1]
        BY <3>1, <4>2
      <4> HIDE DEF g
      <4> QED BY <3>1, <4>1, <4>3 DEF h
    <3>2. CASE i # m
      <4>1. i \in 1..(m - 1) /\ (i # 1 => i - 1 \in 1..m /\ i - 1 # m)
        BY <3>2
      <4>2. g[i] = f[i] /\ (i # 1 => g[i - 1] = f[i - 1])
        BY <3>2, <4>1
      <4> HIDE DEF g
      <4> QED BY <2>2, <4>1, <4>2
    <3> QED BY <3>1, <3>2
  <2>4. Verkettung(S, m, g)
    <3>1. g = [i \in 1..m |-> g[i]]
      OBVIOUS
    <3> HIDE DEF g
    <3> QED BY <2>3, <3>1 DEF Verkettung
  <2>5. m \in 0..n
    OBVIOUS
  <2> HIDE DEF g
  <2> QED BY <2>4, <2>5
<1>3. n \in P
  <2> HIDE DEF P
  <2>1. 0..n \subseteq P
    BY <1>1, <1>2, Induktion
  <2> QED BY <2>1
<1> QED BY <1>3

\* The sequences so far, one after the other.
LEMMA FlattenIst ==
  ASSUME NEW S, Len(S) \in Nat, Len(S) > 0
  PROVE  \E f : /\ f[1] = S[1] /\ FlattenSeq(S) = f[Len(S)]
                /\ \A i \in 2..Len(S) : f[i] = f[i - 1] \o S[i]
<1> DEFINE f == CHOOSE f : f = [i \in 1..Len(S) |-> IF i = 1 THEN S[i] ELSE f[i - 1] \o S[i]]
<1>1. Verkettung(S, Len(S), f)
  BY VerkettungGibtEs DEF Verkettung
<1>2. FlattenSeq(S) = f[Len(S)]
  BY DEF FlattenSeq
<1> HIDE DEF f
<1>3. \A i \in 1..Len(S) : f[i] = IF i = 1 THEN S[i] ELSE f[i - 1] \o S[i]
  BY <1>1 DEF Verkettung
<1>4. 1 \in 1..Len(S) /\ \A i \in 2..Len(S) : i \in 1..Len(S) /\ i # 1
  OBVIOUS
<1> QED BY <1>2, <1>3, <1>4

\* Two sequences of the same length whose entries are related.
Gepaart(s, t, R) == Len(s) = Len(t) /\ \A j \in 1..Len(s) : <<s[j], t[j]>> \in R

LEMMA GepaartVerkettet ==
  ASSUME NEW X, NEW Y, NEW s \in Seq(X), NEW v \in Seq(X), NEW t \in Seq(Y), NEW w \in Seq(Y),
         NEW R, Gepaart(s, t, R), Gepaart(v, w, R)
  PROVE  Gepaart(s \o v, t \o w, R)
<1>1. /\ Len(s) \in Nat /\ Len(v) \in Nat /\ Len(t) = Len(s) /\ Len(w) = Len(v)
      /\ Len(s \o v) = Len(s) + Len(v) /\ Len(t \o w) = Len(s) + Len(v)
  BY SMTT(30) DEF Gepaart
<1>2. ASSUME NEW j \in 1..Len(s \o v) PROVE <<(s \o v)[j], (t \o w)[j]>> \in R
  <2>1. CASE j <= Len(s)
    <3>1. (s \o v)[j] = s[j] /\ (t \o w)[j] = t[j] /\ j \in 1..Len(s)
      BY <1>1, <2>1
    <3> QED BY <3>1 DEF Gepaart
  <2>2. CASE j > Len(s)
    <3>1. /\ (s \o v)[j] = v[j - Len(s)] /\ (t \o w)[j] = w[j - Len(s)]
          /\ j - Len(s) \in 1..Len(v)
      BY <1>1, <2>2
    <3> QED BY <3>1 DEF Gepaart
  <2>3. \A l \in Nat : j <= l \/ j > l
    BY <1>1
  <2>4. j <= Len(s) \/ j > Len(s)
    BY <1>1, <2>3
  <2> QED BY <2>1, <2>2, <2>4
<1> QED BY <1>1, <1>2 DEF Gepaart

\* Flattening keeps what holds between two arrays entry by entry.
LEMMA FlattenGepaart ==
  ASSUME NEW X, NEW Y, NEW S \in Seq(Seq(X)), NEW T \in Seq(Seq(Y)), NEW R,
         Len(S) = Len(T), \A i \in 1..Len(S) : Gepaart(S[i], T[i], R)
  PROVE  /\ FlattenSeq(S) \in Seq(X) /\ FlattenSeq(T) \in Seq(Y)
         /\ Gepaart(FlattenSeq(S), FlattenSeq(T), R)
<1>1. /\ Len(S) \in Nat /\ \A i \in 1..Len(S) : S[i] \in Seq(X) /\ T[i] \in Seq(Y)
  OBVIOUS
<1>2. CASE Len(S) = 0
  <2>1. S = <<>> /\ T = <<>>
    <3>1. S \in Seq(Seq(X)) /\ Len(S) = 0
      BY <1>2
    <3>2. T \in Seq(Seq(Y)) /\ Len(T) = 0
      BY <1>2
    <3>3. S = <<>>
      BY <3>1
    <3>4. T = <<>>
      BY <3>2
    <3> QED BY <3>3, <3>4
  <2>2. FlattenSeq(S) = <<>> /\ FlattenSeq(T) = <<>>
    BY <1>2, <2>1 DEF FlattenSeq
  <2>3. Gepaart(<<>>, <<>>, R)
    BY DEF Gepaart
  <2> QED BY <2>2, <2>3
<1>3. CASE Len(S) > 0
  <2>1. PICK f : /\ f[1] = S[1] /\ FlattenSeq(S) = f[Len(S)]
                 /\ \A i \in 2..Len(S) : f[i] = f[i - 1] \o S[i]
    BY <1>1, <1>3, FlattenIst
  <2>2. PICK g : /\ g[1] = T[1] /\ FlattenSeq(T) = g[Len(S)]
                 /\ \A i \in 2..Len(S) : g[i] = g[i - 1] \o T[i]
    <3>1. \E g : /\ g[1] = T[1] /\ FlattenSeq(T) = g[Len(T)]
                 /\ \A i \in 2..Len(T) : g[i] = g[i - 1] \o T[i]
      BY <1>1, <1>3, FlattenIst
    <3> QED BY <3>1
  <2> DEFINE P == {m \in 0..Len(S) : m = 0 \/
                    (f[m] \in Seq(X) /\ g[m] \in Seq(Y) /\ Gepaart(f[m], g[m], R))}
  <2>3. 0 \in P
    BY <1>1
  <2>4. ASSUME NEW m \in 1..Len(S), m - 1 \in P PROVE m \in P
    <3>1. CASE m = 1
      BY <1>1, <2>1, <2>2, <3>1
    <3>2. CASE m # 1
      <4>1. m \in 2..Len(S) /\ m - 1 # 0 /\ m \in 0..Len(S)
        BY <1>1, <3>2
      <4>2. f[m] = f[m - 1] \o S[m] /\ g[m] = g[m - 1] \o T[m]
        BY <2>1, <2>2, <4>1
      <4>3. f[m - 1] \in Seq(X) /\ g[m - 1] \in Seq(Y) /\ Gepaart(f[m - 1], g[m - 1], R)
        BY <2>4, <4>1
      <4>4. S[m] \in Seq(X) /\ T[m] \in Seq(Y) /\ Gepaart(S[m], T[m], R)
        BY <1>1
      <4>5. f[m] \in Seq(X) /\ g[m] \in Seq(Y)
        BY <4>2, <4>3, <4>4
      <4>6. Gepaart(f[m], g[m], R)
        BY <4>2, <4>3, <4>4, GepaartVerkettet
      <4> QED BY <4>1, <4>5, <4>6
    <3> QED BY <3>1, <3>2
  <2>5. Len(S) \in P
    <3> HIDE DEF P
    <3>1. 0..Len(S) \subseteq P
      BY <1>1, <2>3, <2>4, Induktion
    <3> QED BY <1>1, <3>1
  <2> QED BY <1>3, <2>1, <2>2, <2>5
<1> QED BY <1>1, <1>2, <1>3

\* Groups that are not empty are at least as many entries; groups of one are
\* their entries.
LEMMA FlattenLaenge ==
  ASSUME NEW X, NEW S \in Seq(Seq(X)), \A i \in 1..Len(S) : S[i] # <<>>
  PROVE  /\ Len(S) <= Len(FlattenSeq(S))
         /\ (\A i \in 1..Len(S) : Len(S[i]) = 1) =>
              /\ Len(FlattenSeq(S)) = Len(S)
              /\ \A i \in 1..Len(S) : FlattenSeq(S)[i] = S[i][1]
<1> DEFINE einzeln == \A i \in 1..Len(S) : Len(S[i]) = 1
           Davon(m, t) == /\ t \in Seq(X) /\ m <= Len(t)
                          /\ einzeln => Len(t) = m /\ \A i \in 1..m : t[i] = S[i][1]
<1>1. Len(S) \in Nat /\ \A i \in 1..Len(S) : S[i] \in Seq(X) /\ Len(S[i]) \in Nat /\ Len(S[i]) > 0
  OBVIOUS
<1>2. CASE Len(S) = 0
  <2>1. FlattenSeq(S) = S
    BY <1>2 DEF FlattenSeq
  <2>2. 1..Len(S) = {}
    BY <1>2
  <2>3. Len(S) <= Len(S)
    BY <1>1
  <2> QED BY <2>1, <2>2, <2>3
<1>3. CASE Len(S) > 0
  <2>1. PICK f : /\ f[1] = S[1] /\ FlattenSeq(S) = f[Len(S)]
                 /\ \A i \in 2..Len(S) : f[i] = f[i - 1] \o S[i]
    BY <1>1, <1>3, FlattenIst
  <2> DEFINE P == {m \in 0..Len(S) : m = 0 \/ Davon(m, f[m])}
  <2>2. 0 \in P
    BY <1>1
  <2>3. ASSUME NEW m \in 1..Len(S), m - 1 \in P PROVE m \in P
    <3>1. CASE m = 1
      <4>1. Davon(1, S[1])
        BY <1>1, <1>3
      <4> QED BY <1>3, <2>1, <3>1, <4>1
    <3>2. CASE m # 1
      <4> DEFINE t == f[m - 1]
      <4>1. m \in 2..Len(S) /\ m - 1 # 0 /\ m \in 0..Len(S)
        BY <1>1, <3>2
      <4>2. f[m] = t \o S[m]
        BY <2>1, <4>1
      <4>3. Davon(m - 1, t)
        BY <2>3, <4>1
      <4> HIDE DEF t
      <4>4. S[m] \in Seq(X) /\ Len(S[m]) \in Nat /\ Len(S[m]) > 0 /\ t \in Seq(X) /\ Len(t) \in Nat
            /\ m - 1 <= Len(t)
        BY <1>1, <4>3
      <4>5. Len(t \o S[m]) = Len(t) + Len(S[m]) /\ t \o S[m] \in Seq(X)
        BY <4>4
      <4>6. m <= Len(t \o S[m])
        BY <4>4, <4>5
      <4>7. ASSUME einzeln
            PROVE  Len(t \o S[m]) = m /\ \A i \in 1..m : (t \o S[m])[i] = S[i][1]
        <5>1. Len(t) = m - 1 /\ Len(S[m]) = 1 /\ \A i \in 1..(m - 1) : t[i] = S[i][1]
          BY <4>3, <4>7
        <5>2. (t \o S[m])[m] = S[m][1]
          BY <4>4, <5>1
        <5>3. \A i \in 1..(m - 1) : (t \o S[m])[i] = t[i]
          BY <4>4, <5>1
        <5>4. \A i \in 1..m : i = m \/ i \in 1..(m - 1)
          OBVIOUS
        <5> QED BY <4>5, <5>1, <5>2, <5>3, <5>4
      <4>8. Davon(m, t \o S[m])
        BY <4>5, <4>6, <4>7
      <4> HIDE DEF Davon
      <4> QED BY <4>1, <4>2, <4>8
    <3> QED BY <3>1, <3>2
  <2>4. Len(S) \in P
    <3> HIDE DEF P
    <3>1. 0..Len(S) \subseteq P
      BY <1>1, <2>2, <2>3, Induktion
    <3> QED BY <1>1, <3>1
  <2>5. Davon(Len(S), f[Len(S)])
    BY <1>3, <2>4
  <2> QED BY <2>1, <2>5
<1> QED BY <1>1, <1>2, <1>3

\* Two nested arrays of the same shape, flattened twice.
LEMMA FlachGepaart ==
  ASSUME NEW X, NEW Y, NEW T \in Seq(Seq(Seq(X))), NEW W \in Seq(Seq(Seq(Y))), NEW R,
         Len(T) = Len(W),
         \A p \in 1..Len(T) : /\ Len(T[p]) = Len(W[p])
                              /\ \A q \in 1..Len(T[p]) : Gepaart(T[p][q], W[p][q], R)
  PROVE  /\ FlattenSeq(FlattenSeq(T)) \in Seq(X) /\ FlattenSeq(FlattenSeq(W)) \in Seq(Y)
         /\ Gepaart(FlattenSeq(FlattenSeq(T)), FlattenSeq(FlattenSeq(W)), R)
<1> DEFINE Q == {z \in Seq(X) \X Seq(Y) : Gepaart(z[1], z[2], R)}
           A == FlattenSeq(T)
           B == FlattenSeq(W)
<1>1. ASSUME NEW p \in 1..Len(T) PROVE Gepaart(T[p], W[p], Q)
  <2>1. T[p] \in Seq(Seq(X)) /\ W[p] \in Seq(Seq(Y)) /\ Len(T[p]) = Len(W[p])
    OBVIOUS
  <2>2. ASSUME NEW q \in 1..Len(T[p]) PROVE <<T[p][q], W[p][q]>> \in Q
    <3> DEFINE a == T[p][q]
               b == W[p][q]
    <3>1. a \in Seq(X) /\ b \in Seq(Y)
      <4>1. \A S : \A s \in Seq(S) : \A i \in 1..Len(s) : s[i] \in S
        OBVIOUS
      <4>2. q \in 1..Len(W[p])
        BY <2>1
      <4> QED BY <2>1, <4>1, <4>2
    <3>2. Gepaart(a, b, R)
      <4> HIDE DEF Q
      <4> QED OBVIOUS
    <3> HIDE DEF a, b
    <3>3. <<a, b>> \in Seq(X) \X Seq(Y) /\ <<a, b>>[1] = a /\ <<a, b>>[2] = b
      BY <3>1
    <3>4. <<a, b>> \in Q
      BY <3>2, <3>3
    <3> QED BY <3>4 DEF a, b
  <2> HIDE DEF Q
  <2> QED BY <2>1, <2>2 DEF Gepaart
<1>2. A \in Seq(Seq(X)) /\ B \in Seq(Seq(Y)) /\ Gepaart(A, B, Q)
  <2> HIDE DEF Q
  <2> QED BY <1>1, FlattenGepaart
<1> HIDE DEF A, B
<1>3. Len(A) = Len(B) /\ \A j \in 1..Len(A) : Gepaart(A[j], B[j], R)
  <2>1. Len(A) = Len(B) /\ \A j \in 1..Len(A) : <<A[j], B[j]>> \in Q
    <3> HIDE DEF Q
    <3> QED BY <1>2 DEF Gepaart
  <2> QED BY <2>1
<1>4. /\ FlattenSeq(A) \in Seq(X) /\ FlattenSeq(B) \in Seq(Y)
      /\ Gepaart(FlattenSeq(A), FlattenSeq(B), R)
  BY <1>2, <1>3, FlattenGepaart
<1> QED BY <1>4 DEF A, B

(***************************************************************************)
(* The inductive invariant of the fold.  Stelle(id) is the place of the    *)
(* walk as far as order id is concerned.                                   *)
(***************************************************************************)
Stelle(id) == IF gefaltet > 0 /\ id = BestellungID THEN ort ELSE Ende

GueltigerOrt(b, o) ==
  \/ o = Ende
  \/ \E k \in DOMAIN b : o = Ort("kategorie", k, 0, 0, 0)
  \/ \E k \in DOMAIN b : \E u \in DOMAIN b[k] :
       \/ o = Ort("unterkategorie", k, u, 0, 0)
       \/ \E i \in DOMAIN b[k][u] :
            \/ o = Ort("item", k, u, i, 0)
            \/ \E e \in 1..b[k][u][i] : o = Ort("extra", k, u, i, e)

LadeTyp ==
  /\ eingabe \in Eingaben
  /\ gefaltet \in 0..Len(eingabe)
  /\ gefaltet = 0 => ort = Ende
  /\ gefaltet > 0 => GueltigerOrt(Datensatz, ort)
  /\ Kategorien \in [IDs -> Seq(Nat)]
  /\ Unterkategorien \in [IDs -> Seq(Seq(Nat))]
  /\ Items \in [IDs -> Seq(Seq(Seq(Nat)))]

\* The category was noted and has no subcategory yet, or no item yet; the
\* further subcategory was noted and has no item yet.
OhneUnter(o) == o.art = "unterkategorie" /\ o.u = 1
OhneItem(o)  == OhneUnter(o) \/ (o.art = "item" /\ o.u = 1 /\ o.i = 1)
WeitereOhneItem(o) == o.art = "item" /\ o.u > 1 /\ o.i = 1
Eins(x) == IF x THEN 1 ELSE 0

Form(o, K, U, I) ==
  /\ Len(U) = Len(K) - Eins(OhneUnter(o))
  /\ Len(I) = Len(K) - Eins(OhneItem(o))
  /\ \A p \in DOMAIN I :
       Len(I[p]) = Len(U[p]) - Eins(WeitereOhneItem(o) /\ p = IndexOf(K, o.k))
  /\ \A p \in DOMAIN U : U[p] # <<>> /\ U[p][1] = 1
  /\ IF K # <<>> THEN K[1] = 1 ELSE o.art = "kategorie" => o.k = 1
  /\ o.art \in {"unterkategorie", "item", "extra"} =>
       \E p \in DOMAIN K : K[p] = o.k
  /\ OhneItem(o) => K[Len(K)] = o.k
  /\ o.art \in {"item", "extra"} =>
       \E q \in DOMAIN U[IndexOf(K, o.k)] : U[IndexOf(K, o.k)][q] = o.u
  /\ WeitereOhneItem(o) =>
       U[IndexOf(K, o.k)][Len(U[IndexOf(K, o.k)])] = o.u
  /\ OhneItem(o) /\ ~OhneUnter(o) => U[Len(U)] = <<1>>
  /\ Len(K) = 1 /\ U # <<>> => 
       /\ \A q \in DOMAIN U[1] : U[1][q] = q
       /\ o.art \in {"item", "extra"} => Len(U[1]) = o.u
       /\ o.art = "unterkategorie" => Len(U[1]) = o.u - 1

Zweige ==
  ort.art \in {"unterkategorie", "item", "extra"} =>
    IF Len(Kategorien[BestellungID]) = 1
    THEN IF ort.u = 1 THEN zweig = "ersteErste"
         ELSE IF ort.art = "unterkategorie"
         THEN zweig \in {"ersteErste", "ersteWeitere"}
         ELSE zweig = "ersteWeitere"
    ELSE IF ort.art = "unterkategorie"
         THEN IF ort.u = 1 THEN zweig = "spaeter"
              ELSE zweig \in {"spaeterErste", "spaeterWeitere"}
         ELSE zweig = IF ort.u = 1 THEN "spaeterErste" ELSE "spaeterWeitere"

FormInv == Zweige /\ \A id \in IDs :
  Form(Stelle(id), Kategorien[id], Unterkategorien[id], Items[id])

\* An order folded for the first time stands in the arrays as it does in
\* the record, up to the place of the walk.
Genau(o, b, K, U, I) ==
  /\ Len(K) = CASE o.art = "ende" -> Len(b)
                [] o.art = "kategorie" -> o.k - 1
                [] OTHER -> o.k
  /\ \A p \in DOMAIN K : K[p] = p
  /\ \A p \in DOMAIN U :
       /\ Len(U[p]) = IF p # o.k THEN Len(b[p])
                      ELSE IF o.art = "unterkategorie" THEN o.u - 1 ELSE o.u
       /\ \A q \in DOMAIN U[p] : U[p][q] = q
  /\ \A p \in DOMAIN I : \A q \in DOMAIN I[p] :
       /\ Len(I[p][q]) = IF o.art = "item" /\ p = o.k /\ q = o.u THEN o.i - 1
                         ELSE Len(b[p][q])
       /\ \A r \in DOMAIN I[p][q] : I[p][q][r] = r

GenauInv == \A id \in IDs : \A n \in DOMAIN eingabe : eingabe[n].id = id =>
  /\ Faltungen(id) = {} =>
       Kategorien[id] = <<>> /\ Unterkategorien[id] = <<>> /\ Items[id] = <<>>
  /\ Faltungen(id) # {} /\ Einmal(id) =>
       Genau(Stelle(id), eingabe[n].baum, Kategorien[id], Unterkategorien[id],
             Items[id])

\* Item i of subcategory u of category k has been visited.
Vorbei(o, k, u, i) ==
  \/ o.art = "ende" \/ k < o.k
  \/ /\ k = o.k /\ o.art # "kategorie"
     /\ \/ u < o.u
        \/ u = o.u /\ (o.art = "extra" \/ (o.art = "item" /\ i < o.i))

ZahlInv == \A id \in IDs : \A n \in DOMAIN eingabe : eingabe[n].id = id =>
  LET b == eingabe[n].baum
  IN \A k \in DOMAIN b : \A u \in DOMAIN b[k] : \A i \in DOMAIN b[k][u] :
       /\ IsFiniteSet(Vorkommen(id, k, u, i))
       /\ Cardinality(Vorkommen(id, k, u, i)) =
            Cardinality(Faltungen(id)) - Eins(~Vorbei(Stelle(id), k, u, i))

\* The same for the extras, of records the branches are made for.  The
\* first group of a category or subcategory is not there before the first
\* extras.
OhneGruppe(o) == OhneUnter(o) \/ (o.u = 1 /\ (o.art = "item" \/ (o.art = "extra" /\ o.i = 1)))
WeitereOhneGruppe(o) == o.u > 1 /\ (o.art = "item" \/ (o.art = "extra" /\ o.i = 1))

FormX(o, K, U, N) ==
  /\ Len(N) = Len(K) - Eins(OhneGruppe(o))
  /\ \A p \in DOMAIN N :
       Len(N[p]) = Len(U[p]) - Eins(WeitereOhneGruppe(o) /\ p = IndexOf(K, o.k))
  /\ OhneGruppe(o) /\ ~OhneUnter(o) => Len(U[Len(U)]) = 1

Gruppe(k, u, i, n) == [x \in 1..n |-> <<k, u, i, x>>]

ExtraTyp == Seq(Nat \X Nat \X Nat \X Nat)

\* How many entries subcategory c of category a has, zero if there is none.
Fach(N, a, c) == a \in DOMAIN N /\ c \in DOMAIN N[a]
Anzahl(N, a, c) == IF Fach(N, a, c) THEN Len(N[a][c]) ELSE 0

\* Where the first item of a subcategory goes, and the others.
ErstesFach(k, u, K, U) ==
  IF u = 1 THEN <<Len(K), 1>> ELSE <<IndexOf(K, k), Len(U[IndexOf(K, k)])>>
WeiteresFach(k, u, K, U) == <<IndexOf(K, k), IndexOf(U[IndexOf(K, k)], u)>>
ImFach(f, k, u, K, U, x) ==
  Eins(x > 0 /\ f = ErstesFach(k, u, K, U))
    + IF x > 0 /\ f = WeiteresFach(k, u, K, U) THEN x - 1 ELSE 0

\* The items and the groups visited of the current subcategory.
ItemsDavon(o, b)   == IF o.art = "item" THEN o.i - 1
                      ELSE IF o.art = "extra" THEN Len(b[o.k][o.u]) ELSE 0
GruppenDavon(o) == IF o.art = "extra" THEN o.i - 1 ELSE 0

StandBei(k, u, g, t, K, U, I, N) == \A a, c \in Nat :
  Anzahl(I, a, c) + ImFach(<<a, c>>, k, u, K, U, g) =
    Anzahl(N, a, c) + ImFach(<<a, c>>, k, u, K, U, t)
Stand(o, b, K, U, I, N) ==
  StandBei(o.k, o.u, GruppenDavon(o), ItemsDavon(o, b), K, U, I, N)

Nichtleer(N) == \A p \in DOMAIN N : \A q \in DOMAIN N[p] :
  \A r \in DOMAIN N[p][q] : N[p][q][r] # <<>>

ExtraInv == AlleSauber =>
  /\ ~absturz
  /\ extrasString = Gruppe(ort.k, ort.u, ort.i, ort.e - 1)
  /\ ExtrasNamen \in [IDs -> Seq(Seq(Seq(ExtraTyp)))]
  /\ ExtrasPreise \in [IDs -> Seq(Seq(Seq(ExtraTyp)))]
  /\ \A id \in IDs :
       /\ FormX(Stelle(id), Kategorien[id], Unterkategorien[id], ExtrasNamen[id])
       /\ FormX(Stelle(id), Kategorien[id], Unterkategorien[id], ExtrasPreise[id])

StandInv == AlleSauber =>
  \A id \in IDs : \A n \in DOMAIN eingabe : eingabe[n].id = id =>
    /\ Nichtleer(ExtrasPreise[id])
    /\ Stand(Stelle(id), eingabe[n].baum, Kategorien[id], Unterkategorien[id],
             Items[id], ExtrasPreise[id])

\* Names stand in the order of the items; prices too, but in reverse in the
\* first subcategory of the first category.
GruppenIm(s, n, b, p, q, vorn) ==
  /\ Len(s) = n
  /\ \A r \in 1..n :
       LET i == IF vorn /\ p = 1 /\ q = 1 THEN (n + 1) - r ELSE r
       IN s[r] = Gruppe(p, q, i, b[p][q][i])
Soll(o, b, p, q) == IF o.art = "extra" /\ p = o.k /\ q = o.u THEN o.i - 1
                    ELSE Len(b[p][q])
GruppenWie(o, b, N, vorn) == \A p \in DOMAIN N : \A q \in DOMAIN N[p] :
  GruppenIm(N[p][q], Soll(o, b, p, q), b, p, q, vorn)

GenauXInv == AlleSauber =>
  \A id \in IDs : \A n \in DOMAIN eingabe : eingabe[n].id = id =>
    /\ Faltungen(id) = {} => ExtrasNamen[id] = <<>> /\ ExtrasPreise[id] = <<>>
    /\ Faltungen(id) # {} /\ Einmal(id) =>
         /\ GruppenWie(Stelle(id), eingabe[n].baum, ExtrasNamen[id], FALSE)
         /\ GruppenWie(Stelle(id), eingabe[n].baum, ExtrasPreise[id], TRUE)

\* index(of:) is the first place of what it looks for.
LEMMA IndexOfIst ==
  ASSUME NEW S, NEW s \in Seq(S), NEW x, NEW i \in DOMAIN s, s[i] = x
  PROVE  /\ IndexOf(s, x) \in DOMAIN s
         /\ s[IndexOf(s, x)] = x
         /\ IndexOf(s, x) <= i
<1> DEFINE T == {j \in 1..Len(s) : s[j] = x}
<1>1. T \subseteq Nat /\ i \in T
  OBVIOUS
<1>2. \E m \in T : \A k \in T : m <= k
  <2> HIDE DEF T
  <2> QED BY <1>1, Kleinstes
<1>3. Min(T) \in T /\ \A k \in T : Min(T) <= k
  <2> HIDE DEF T
  <2> QED BY <1>2 DEF Min
<1>4. IndexOf(s, x) = Min(T)
  <2>1. IndexOf(s, x) = IF T # {} THEN Min(T) ELSE 0
    BY DEF IndexOf, SelectInSeq
  <2> HIDE DEF T
  <2> QED BY <1>1, <2>1
<1> HIDE DEF T
<1>5. IndexOf(s, x) \in T /\ IndexOf(s, x) <= i
  BY <1>1, <1>3, <1>4
<1> QED BY <1>5 DEF T

(***************************************************************************)
(* The walk.                                                               *)
(***************************************************************************)
Baumform(b) == b \in Seq(Seq(Seq(Nat))) /\ Gefuellt(b)

LEMMA BaumTeile ==
  ASSUME NEW b, Baumform(b)
  PROVE  /\ Len(b) \in Nat /\ Len(b) > 0 /\ DOMAIN b = 1..Len(b)
         /\ \A k \in 1..Len(b) :
              /\ Len(b[k]) \in Nat /\ Len(b[k]) > 0 /\ DOMAIN b[k] = 1..Len(b[k])
              /\ \A u \in 1..Len(b[k]) :
                   /\ Len(b[k][u]) \in Nat /\ Len(b[k][u]) > 0
                   /\ DOMAIN b[k][u] = 1..Len(b[k][u])
                   /\ \A i \in 1..Len(b[k][u]) : b[k][u][i] \in Nat
<1>1. b \in Seq(Seq(Seq(Nat))) /\ b # <<>>
  BY DEF Baumform, Gefuellt
<1>2. Len(b) \in Nat /\ Len(b) > 0 /\ DOMAIN b = 1..Len(b)
  BY <1>1
<1>3. ASSUME NEW k \in 1..Len(b)
      PROVE  /\ b[k] \in Seq(Seq(Nat))
             /\ Len(b[k]) \in Nat /\ Len(b[k]) > 0 /\ DOMAIN b[k] = 1..Len(b[k])
  <2>0. k \in DOMAIN b
    BY <1>2
  <2>1. b[k] # <<>>
    BY <2>0 DEF Baumform, Gefuellt
  <2>2. b[k] \in Seq(Seq(Nat))
    <3> DEFINE S == Seq(Seq(Nat))
    <3>1. b \in Seq(S)
      BY <1>1
    <3> HIDE DEF S
    <3>2. b[k] \in S
      BY <3>1
    <3> QED BY <3>2 DEF S
  <2> QED BY <2>1, <2>2
<1>4. ASSUME NEW k \in 1..Len(b), NEW u \in 1..Len(b[k])
      PROVE  /\ Len(b[k][u]) \in Nat /\ Len(b[k][u]) > 0
             /\ DOMAIN b[k][u] = 1..Len(b[k][u])
             /\ \A i \in 1..Len(b[k][u]) : b[k][u][i] \in Nat
  <2>0. b[k] \in Seq(Seq(Nat)) /\ k \in DOMAIN b /\ u \in DOMAIN b[k]
    BY <1>2, <1>3
  <2>1. b[k][u] # <<>>
    BY <2>0 DEF Baumform, Gefuellt
  <2>2. b[k][u] \in Seq(Nat)
    BY <2>0
  <2> QED BY <2>1, <2>2
<1> QED BY <1>2, <1>3, <1>4

LEMMA OrtFelder ==
  ASSUME NEW art, NEW k, NEW u, NEW i, NEW e
  PROVE  LET o == Ort(art, k, u, i, e)
         IN o.art = art /\ o.k = k /\ o.u = u /\ o.i = i /\ o.e = e
BY DEF Ort

LEMMA NachUnterkategorieIst ==
  ASSUME NEW b, Baumform(b), NEW k \in 1..Len(b), NEW u \in 1..Len(b[k])
  PROVE  \/ /\ u < Len(b[k])
            /\ NachUnterkategorie(b, k, u) = Ort("unterkategorie", k, u + 1, 0, 0)
         \/ /\ u = Len(b[k]) /\ k < Len(b)
            /\ NachUnterkategorie(b, k, u) = Ort("kategorie", k + 1, 0, 0, 0)
         \/ /\ u = Len(b[k]) /\ k = Len(b)
            /\ NachUnterkategorie(b, k, u) = Ende
BY BaumTeile DEF NachUnterkategorie

LEMMA ExtrasAbIst ==
  ASSUME NEW b, Baumform(b), NEW k \in 1..Len(b), NEW u \in 1..Len(b[k]),
         NEW i \in Nat, i > 0
  PROVE  \/ /\ ExtrasAb(b, k, u, i) = NachUnterkategorie(b, k, u)
            /\ \A j \in i..Len(b[k][u]) : b[k][u][j] = 0
         \/ \E j \in i..Len(b[k][u]) :
              /\ ExtrasAb(b, k, u, i) = Ort("extra", k, u, j, 1)
              /\ b[k][u][j] > 0
              /\ \A x \in i..Len(b[k][u]) : b[k][u][x] > 0 => j <= x
<1> DEFINE mit == {j \in i..Len(b[k][u]) : b[k][u][j] > 0}
<1>0. Len(b[k][u]) \in Nat /\ \A j \in i..Len(b[k][u]) : b[k][u][j] \in Nat
  <2>1. /\ Len(b[k][u]) \in Nat
        /\ \A j \in 1..Len(b[k][u]) : b[k][u][j] \in Nat
    BY BaumTeile
  <2> QED BY <2>1
<1>1. mit \subseteq Nat
  BY <1>0
<1>2. ExtrasAb(b, k, u, i) = IF mit = {} THEN NachUnterkategorie(b, k, u)
                             ELSE Ort("extra", k, u, Min(mit), 1)
  BY DEF ExtrasAb
<1>3. CASE mit = {}
  BY <1>0, <1>2, <1>3
<1>4. CASE mit # {}
  <2>1. Min(mit) \in mit /\ \A x \in mit : Min(mit) <= x
    <3>1. \E m \in mit : \A x \in mit : m <= x
      <4> HIDE DEF mit
      <4> QED BY <1>1, <1>4, Kleinstes
    <3> HIDE DEF mit
    <3> QED BY <3>1 DEF Min
  <2>2. ExtrasAb(b, k, u, i) = Ort("extra", k, u, Min(mit), 1)
    BY <1>2, <1>4
  <2> DEFINE j == Min(mit)
  <2>3. j \in i..Len(b[k][u]) /\ b[k][u][j] > 0
        /\ \A x \in i..Len(b[k][u]) : b[k][u][x] > 0 => j <= x
    <3> HIDE DEF j
    <3> QED BY <2>1 DEF j
  <2> QED BY <2>2, <2>3
<1> QED BY <1>3, <1>4

LEMMA FolgenderIst ==
  ASSUME NEW b, NEW k, NEW u, NEW i, NEW e
  PROVE  /\ Folgender(b, Ort("kategorie", k, u, i, e)) =
              Ort("unterkategorie", k, 1, 0, 0)
         /\ Folgender(b, Ort("unterkategorie", k, u, i, e)) =
              Ort("item", k, u, 1, 0)
         /\ Folgender(b, Ort("item", k, u, i, e)) =
              IF i < Len(b[k][u]) THEN Ort("item", k, u, i + 1, 0)
              ELSE ExtrasAb(b, k, u, 1)
         /\ Folgender(b, Ort("extra", k, u, i, e)) =
              IF e < b[k][u][i] THEN Ort("extra", k, u, i, e + 1)
              ELSE ExtrasAb(b, k, u, i + 1)
<1>1. ASSUME NEW art PROVE /\ Ort(art, k, u, i, e).art = art
                           /\ Ort(art, k, u, i, e).k = k
                           /\ Ort(art, k, u, i, e).u = u
                           /\ Ort(art, k, u, i, e).i = i
                           /\ Ort(art, k, u, i, e).e = e
  BY OrtFelder
<1> QED BY <1>1 DEF Folgender

(***************************************************************************)
(* Sequences with an element replaced or appended.                         *)
(***************************************************************************)
LEMMA Ersetzt ==
  ASSUME NEW S, NEW s \in Seq(S), NEW p \in DOMAIN s, NEW y \in S
  PROVE  LET t == [s EXCEPT ![p] = y]
         IN /\ t \in Seq(S) /\ Len(t) = Len(s) /\ DOMAIN t = DOMAIN s
            /\ t[p] = y /\ \A x \in DOMAIN s : x # p => t[x] = s[x]
OBVIOUS

LEMMA Angehaengt ==
  ASSUME NEW S, NEW s \in Seq(S), NEW y \in S
  PROVE  /\ Append(s, y) \in Seq(S) /\ Len(Append(s, y)) = Len(s) + 1
         /\ DOMAIN Append(s, y) = 1..(Len(s) + 1)
         /\ Append(s, y)[Len(s) + 1] = y
         /\ \A x \in DOMAIN s : x \in DOMAIN Append(s, y) /\ Append(s, y)[x] = s[x]
OBVIOUS

\* Between two subcategories the three arrays have the same shape.
Ruhe(k, u, K, U, I) ==
  /\ Len(U) = Len(K) /\ Len(I) = Len(K)
  /\ \A p \in DOMAIN I : Len(I[p]) = Len(U[p])
  /\ \A p \in DOMAIN U : U[p] # <<>> /\ U[p][1] = 1
  /\ K # <<>> /\ K[1] = 1
  /\ \E p \in DOMAIN K : K[p] = k
  /\ \E q \in DOMAIN U[IndexOf(K, k)] : U[IndexOf(K, k)][q] = u
  /\ Len(K) = 1 => Len(U[1]) = u /\ \A q \in DOMAIN U[1] : U[1][q] = q

Reihen(K, U, I) ==
  K \in Seq(Nat) /\ U \in Seq(Seq(Nat)) /\ I \in Seq(Seq(Seq(Nat)))

\* The place after the items of subcategory u, or between two of them.
Dahinter(o, k, u) ==
  \/ \E i \in Nat : i > 1 /\ o = Ort("item", k, u, i, 0)
  \/ \E i, e \in Nat : o = Ort("extra", k, u, i, e)
  \/ o = Ort("unterkategorie", k, u + 1, 0, 0)
  \/ o = Ort("kategorie", k + 1, 0, 0, 0)
  \/ o = Ende

LEMMA RuheForm ==
  ASSUME NEW k \in Nat, NEW u \in Nat, u > 0, NEW K, NEW U, NEW I,
         Reihen(K, U, I), Ruhe(k, u, K, U, I), NEW o, Dahinter(o, k, u)
  PROVE  Form(o, K, U, I)
<1>0. /\ Len(K) \in Nat /\ \A p \in DOMAIN U : Len(U[p]) \in Nat
      /\ \A p \in DOMAIN I : p \in DOMAIN U
      /\ K # <<>> /\ U # <<>>
  BY DEF Reihen, Ruhe
<1>1. CASE \E i \in Nat : i > 1 /\ o = Ort("item", k, u, i, 0)
  <2>1. PICK i \in Nat : i > 1 /\ o = Ort("item", k, u, i, 0)
    BY <1>1
  <2>2. o.art = "item" /\ o.k = k /\ o.u = u /\ o.i = i
    BY <2>1, OrtFelder
  <2>3. ~OhneUnter(o) /\ ~OhneItem(o) /\ ~WeitereOhneItem(o)
    BY <2>1, <2>2 DEF OhneUnter, OhneItem, WeitereOhneItem
  <2> QED BY <1>0, <2>2, <2>3 DEF Form, Ruhe, Eins
<1>2. CASE \E i, e \in Nat : o = Ort("extra", k, u, i, e)
  <2>1. PICK i, e \in Nat : o = Ort("extra", k, u, i, e)
    BY <1>2
  <2>2. o.art = "extra" /\ o.k = k /\ o.u = u /\ o.i = i
    BY <2>1, OrtFelder
  <2>3. ~OhneUnter(o) /\ ~OhneItem(o) /\ ~WeitereOhneItem(o)
    BY <2>1, <2>2 DEF OhneUnter, OhneItem, WeitereOhneItem
  <2> QED BY <1>0, <2>2, <2>3 DEF Form, Ruhe, Eins
<1>3. CASE o = Ort("unterkategorie", k, u + 1, 0, 0)
  <2>2. o.art = "unterkategorie" /\ o.k = k /\ o.u = u + 1
    BY <1>3, OrtFelder
  <2>3. ~OhneUnter(o) /\ ~OhneItem(o) /\ ~WeitereOhneItem(o)
    BY <2>2 DEF OhneUnter, OhneItem, WeitereOhneItem
  <2>4. u + 1 - 1 = u
    OBVIOUS
  <2> QED BY <1>0, <2>2, <2>3, <2>4 DEF Form, Ruhe, Eins
<1>4. CASE o = Ort("kategorie", k + 1, 0, 0, 0)
  <2>2. o.art = "kategorie" /\ o.k = k + 1
    BY <1>4, OrtFelder
  <2>3. ~OhneUnter(o) /\ ~OhneItem(o) /\ ~WeitereOhneItem(o)
    BY <2>2 DEF OhneUnter, OhneItem, WeitereOhneItem
  <2> QED BY <1>0, <2>2, <2>3 DEF Form, Ruhe, Eins
<1>5. CASE o = Ende
  <2>2. o.art = "ende"
    BY <1>5, OrtFelder DEF Ende
  <2>3. ~OhneUnter(o) /\ ~OhneItem(o) /\ ~WeitereOhneItem(o)
    BY <2>2 DEF OhneUnter, OhneItem, WeitereOhneItem
  <2> QED BY <1>0, <2>2, <2>3 DEF Form, Ruhe, Eins
<1> QED BY <1>1, <1>2, <1>3, <1>4, <1>5 DEF Dahinter

LEMMA FormRuhe ==
  ASSUME NEW K, NEW U, NEW I, Reihen(K, U, I), NEW o, Form(o, K, U, I),
         o.u \in Nat, o.u > 0, o.i \in Nat, o.i > 0,
         o.art = "extra" \/ (o.art = "item" /\ o.i > 1)
  PROVE  Ruhe(o.k, o.u, K, U, I)
<1>1. \E p \in DOMAIN K : K[p] = o.k
  BY DEF Form
<1>2. K # <<>>
  BY <1>1 DEF Reihen
<1>3. Len(U) = Len(K) /\ Len(I) = Len(K)
  BY DEF Form, Reihen, OhneUnter, OhneItem, Eins
<1>4. \A p \in DOMAIN I : Len(I[p]) = Len(U[p])
  <2> TAKE p \in DOMAIN I
  <2>1. ~WeitereOhneItem(o) /\ p \in DOMAIN U
    BY <1>3 DEF WeitereOhneItem, Reihen
  <2>2. U[p] \in Seq(Nat)
    BY <2>1 DEF Reihen
  <2> QED BY <2>1, <2>2 DEF Form, Eins
<1>5. U # <<>>
  BY <1>2, <1>3 DEF Reihen
<1> QED BY <1>1, <1>2, <1>3, <1>4, <1>5 DEF Form, Ruhe

(***************************************************************************)
(* Items.  An item opens a category, opens a subcategory, or is appended   *)
(* to its subcategory.                                                     *)
(***************************************************************************)
NeueKategorie(k, u, i, K, U, I, J) ==
  /\ J = Append(I, << <<i>> >>) /\ u = 1 /\ i = 1
  /\ Len(K) = Len(I) + 1 /\ Len(U) = Len(I) + 1
  /\ K[Len(I) + 1] = k /\ U[Len(I) + 1] = <<1>>
NeueUnterkategorie(k, u, i, K, U, I, J, p) ==
  /\ p = IndexOf(K, k) /\ p \in DOMAIN I /\ p \in DOMAIN K /\ K[p] = k
  /\ J = [I EXCEPT ![p] = Append(I[p], <<i>>)] /\ u > 1 /\ i = 1
  /\ Len(U[p]) = Len(I[p]) + 1 /\ U[p][Len(I[p]) + 1] = u
NeuesItem(k, u, i, K, U, I, J, p, q) ==
  /\ p = IndexOf(K, k) /\ p \in DOMAIN I /\ p \in DOMAIN K /\ K[p] = k
  /\ q \in DOMAIN I[p] /\ q \in DOMAIN U[p] /\ U[p][q] = u
  /\ q = IndexOf(U[p], u)
  /\ J = [I EXCEPT ![p] = [I[p] EXCEPT ![q] = Append(I[p][q], i)]] /\ i > 1
ItemHinzu(k, u, i, K, U, I, J) ==
  \/ NeueKategorie(k, u, i, K, U, I, J)
  \/ \E p \in DOMAIN I : NeueUnterkategorie(k, u, i, K, U, I, J, p)
  \/ \E p \in DOMAIN I : \E q \in DOMAIN I[p] : NeuesItem(k, u, i, K, U, I, J, p, q)

LEMMA DatensatzForm ==
  ASSUME LadeTyp, gefaltet > 0
  PROVE  /\ gefaltet \in DOMAIN eingabe /\ BestellungID \in IDs
         /\ Baumform(Datensatz) /\ BestellungID \in Nat
<1>1. eingabe \in Seq([id : Nat, baum : Seq(Seq(Seq(Nat)))])
      /\ \A n \in DOMAIN eingabe : Gefuellt(eingabe[n].baum)
  BY EingabenAnnahme DEF LadeTyp
<1>2. gefaltet \in DOMAIN eingabe
  BY <1>1 DEF LadeTyp
<1>3. eingabe[gefaltet] \in [id : Nat, baum : Seq(Seq(Seq(Nat)))]
  <2> DEFINE S == [id : Nat, baum : Seq(Seq(Seq(Nat)))]
  <2>1. eingabe \in Seq(S)
    BY <1>1
  <2> HIDE DEF S
  <2>2. eingabe[gefaltet] \in S
    BY <1>2, <2>1
  <2> QED BY <2>2 DEF S
<1>4. eingabe[gefaltet].id \in Nat /\ eingabe[gefaltet].baum \in Seq(Seq(Seq(Nat)))
  BY <1>3
<1> QED BY <1>1, <1>2, <1>4 DEF BestellungID, Datensatz, Baumform, IDs

\* Where a visit takes place.
LEMMA AnKategorie ==
  ASSUME LadeTyp, ort.art = "kategorie"
  PROVE  gefaltet > 0 /\ \E k \in 1..Len(Datensatz) : ort = Ort("kategorie", k, 0, 0, 0)
<1>1. gefaltet > 0
  BY OrtFelder DEF LadeTyp, Ende
<1>2. GueltigerOrt(Datensatz, ort) /\ DOMAIN Datensatz = 1..Len(Datensatz)
  BY <1>1, DatensatzForm, BaumTeile DEF LadeTyp
<1> QED BY <1>1, <1>2, OrtFelder DEF GueltigerOrt, Ende

LEMMA AnUnterkategorie ==
  ASSUME LadeTyp, ort.art = "unterkategorie"
  PROVE  /\ gefaltet > 0
         /\ \E k \in 1..Len(Datensatz) : \E u \in 1..Len(Datensatz[k]) :
              ort = Ort("unterkategorie", k, u, 0, 0)
<1>1. gefaltet > 0
  BY OrtFelder DEF LadeTyp, Ende
<1>2. /\ GueltigerOrt(Datensatz, ort) /\ DOMAIN Datensatz = 1..Len(Datensatz)
      /\ \A k \in DOMAIN Datensatz : DOMAIN Datensatz[k] = 1..Len(Datensatz[k])
  BY <1>1, DatensatzForm, BaumTeile DEF LadeTyp
<1> QED BY <1>1, <1>2, OrtFelder DEF GueltigerOrt, Ende

LEMMA AnItem ==
  ASSUME LadeTyp, ort.art = "item"
  PROVE  /\ gefaltet > 0
         /\ \E k \in 1..Len(Datensatz) : \E u \in 1..Len(Datensatz[k]) :
              \E i \in 1..Len(Datensatz[k][u]) : ort = Ort("item", k, u, i, 0)
<1>1. gefaltet > 0
  BY OrtFelder DEF LadeTyp, Ende
<1>2. /\ GueltigerOrt(Datensatz, ort) /\ DOMAIN Datensatz = 1..Len(Datensatz)
      /\ \A k \in DOMAIN Datensatz :
           /\ DOMAIN Datensatz[k] = 1..Len(Datensatz[k])
           /\ \A u \in DOMAIN Datensatz[k] :
                DOMAIN Datensatz[k][u] = 1..Len(Datensatz[k][u])
  BY <1>1, DatensatzForm, BaumTeile DEF LadeTyp
<1>3. \A k, u, i : /\ ort # Ende /\ ort # Ort("kategorie", k, 0, 0, 0)
                    /\ ort # Ort("unterkategorie", k, u, 0, 0)
                    /\ \A e : ort # Ort("extra", k, u, i, e)
  BY OrtFelder DEF Ende
<1>4. \E k \in DOMAIN Datensatz : \E u \in DOMAIN Datensatz[k] :
        \E i \in DOMAIN Datensatz[k][u] :
          ort = Ort("item", k, u, i, 0)
  BY <1>2, <1>3, Zenon DEF GueltigerOrt
<1> QED BY <1>1, <1>2, <1>4

LEMMA AnExtra ==
  ASSUME LadeTyp, ort.art = "extra"
  PROVE  /\ gefaltet > 0
         /\ \E k \in 1..Len(Datensatz) : \E u \in 1..Len(Datensatz[k]) :
              \E i \in 1..Len(Datensatz[k][u]) : \E e \in 1..Datensatz[k][u][i] :
                ort = Ort("extra", k, u, i, e)
<1>1. gefaltet > 0
  BY OrtFelder DEF LadeTyp, Ende
<1>2. /\ GueltigerOrt(Datensatz, ort) /\ DOMAIN Datensatz = 1..Len(Datensatz)
      /\ \A k \in DOMAIN Datensatz :
           /\ DOMAIN Datensatz[k] = 1..Len(Datensatz[k])
           /\ \A u \in DOMAIN Datensatz[k] :
                DOMAIN Datensatz[k][u] = 1..Len(Datensatz[k][u])
  BY <1>1, DatensatzForm, BaumTeile DEF LadeTyp
<1>3. \A k, u, i : /\ ort # Ende /\ ort # Ort("kategorie", k, 0, 0, 0)
                    /\ ort # Ort("unterkategorie", k, u, 0, 0)
                    /\ ort # Ort("item", k, u, i, 0)
  BY OrtFelder DEF Ende
<1>4. \E k \in DOMAIN Datensatz : \E u \in DOMAIN Datensatz[k] :
        \E i \in DOMAIN Datensatz[k][u] :
          \E e \in 1..Datensatz[k][u][i] : ort = Ort("extra", k, u, i, e)
  BY <1>2, <1>3, Zenon DEF GueltigerOrt
<1> QED BY <1>1, <1>2, <1>4

LEMMA ReihenTyp ==
  ASSUME LadeTyp, NEW id \in IDs
  PROVE  Reihen(Kategorien[id], Unterkategorien[id], Items[id])
BY DEF LadeTyp, Reihen

ItemSchritt == ItemErsteErste \/ ItemWeitere \/ ItemSpaeterErste

LEMMA Eigene ==
  ASSUME FormInv, LadeTyp, gefaltet > 0
  PROVE  Form(ort, Kategorien[BestellungID], Unterkategorien[BestellungID],
              Items[BestellungID])
<1>1. BestellungID \in IDs /\ Stelle(BestellungID) = ort
  BY DatensatzForm DEF Stelle
<1> QED BY <1>1 DEF FormInv

\* The place of the current category exists, and that of the current
\* subcategory in it.
LEMMA PlatzIst ==
  ASSUME NEW K, NEW U, NEW I, Reihen(K, U, I), NEW k,
         \E p \in DOMAIN K : K[p] = k
  PROVE  IndexOf(K, k) \in DOMAIN K /\ K[IndexOf(K, k)] = k
<1>1. PICK p \in DOMAIN K : K[p] = k
  OBVIOUS
<1> QED BY <1>1, IndexOfIst DEF Reihen

LEMMA UnterplatzIst ==
  ASSUME NEW K, NEW U, NEW I, Reihen(K, U, I), NEW p \in DOMAIN U, NEW u,
         \E q \in DOMAIN U[p] : U[p][q] = u
  PROVE  IndexOf(U[p], u) \in DOMAIN U[p] /\ U[p][IndexOf(U[p], u)] = u
<1>1. PICK q \in DOMAIN U[p] : U[p][q] = u
  OBVIOUS
<1>2. U[p] \in Seq(Nat)
  BY DEF Reihen
<1> QED BY <1>1, <1>2, IndexOfIst

\* With one category the places are the first ones.
LEMMA ErsteKategorie ==
  ASSUME NEW K, NEW U, NEW I, Reihen(K, U, I), NEW k, NEW u, Ruhe(k, u, K, U, I),
         Len(K) = 1, u = 1
  PROVE  IndexOf(K, k) = 1 /\ IndexOf(U, <<u>>) = 1 /\ IndexOf(U[1], u) = 1
         /\ 1 \in DOMAIN I /\ 1 \in DOMAIN I[1] /\ 1 \in DOMAIN U /\ 1 \in DOMAIN U[1]
         /\ K[1] = k /\ U[1][1] = 1
<1>1. IndexOf(K, k) \in DOMAIN K /\ K[IndexOf(K, k)] = k /\ DOMAIN K = 1..1
  <2>1. \E p \in DOMAIN K : K[p] = k
    BY DEF Ruhe
  <2>2. DOMAIN K = 1..1
    BY DEF Reihen
  <2> QED BY <2>1, <2>2, PlatzIst
<1>2. DOMAIN U = 1..1 /\ DOMAIN I = 1..1 /\ Len(U[1]) = 1 /\ Len(I[1]) = 1
      /\ U[1] \in Seq(Nat) /\ I[1] \in Seq(Seq(Nat)) /\ U[1][1] = 1
  BY DEF Ruhe, Reihen
<1>3. U[1] = <<1>> /\ 1 \in DOMAIN U /\ 1 \in DOMAIN U[1]
  BY <1>2
<1>4. IndexOf(U, <<u>>) \in DOMAIN U
  <2>1. U \in Seq(Seq(Nat)) /\ U[1] = <<u>>
    BY <1>3 DEF Reihen
  <2> DEFINE S == Seq(Nat)
             x == <<u>>
  <2>2. U \in Seq(S) /\ U[1] = x /\ 1 \in DOMAIN U
    BY <1>3, <2>1
  <2> HIDE DEF S, x
  <2>3. IndexOf(U, x) \in DOMAIN U
    BY <2>2, IndexOfIst
  <2> QED BY <2>3 DEF x
<1>5. IndexOf(U[1], u) \in DOMAIN U[1]
  BY <1>2, <1>3, IndexOfIst
<1> QED BY <1>1, <1>2, <1>3, <1>4, <1>5

LEMMA ItemWirkung ==
  ASSUME LadeTyp, FormInv, ItemSchritt, gefaltet > 0,
         NEW k \in Nat, NEW u \in Nat, NEW i \in Nat, u > 0, i > 0,
         ort = Ort("item", k, u, i, 0)
  PROVE  \E J : /\ Items' = [Items EXCEPT ![BestellungID] = J]
                /\ ItemHinzu(k, u, i, Kategorien[BestellungID],
                             Unterkategorien[BestellungID], Items[BestellungID], J)
<1> DEFINE id == BestellungID
           K == Kategorien[id]
           U == Unterkategorien[id]
           I == Items[id]
<1>1. /\ ort.art = "item" /\ ort.k = k /\ ort.u = u /\ ort.i = i
  BY OrtFelder
<1>2. id \in IDs /\ Reihen(K, U, I) /\ Form(ort, K, U, I)
  BY DatensatzForm, ReihenTyp, Eigene
<1>3. /\ Len(K) \in Nat /\ Len(U) \in Nat /\ Len(I) \in Nat
      /\ DOMAIN K = 1..Len(K) /\ DOMAIN U = 1..Len(U) /\ DOMAIN I = 1..Len(I)
      /\ \A p \in DOMAIN U : Len(U[p]) \in Nat /\ DOMAIN U[p] = 1..Len(U[p])
      /\ \A p \in DOMAIN I : Len(I[p]) \in Nat /\ DOMAIN I[p] = 1..Len(I[p])
  BY <1>2, SMTT(30) DEF Reihen
<1>4. /\ Len(K) = 1 => zweig = IF u = 1 THEN "ersteErste" ELSE "ersteWeitere"
      /\ Len(K) # 1 => zweig = IF u = 1 THEN "spaeterErste" ELSE "spaeterWeitere"
  BY <1>1 DEF FormInv, Zweige
<1>5. \E p \in DOMAIN K : K[p] = k
  BY <1>1, <1>2 DEF Form
<1>6. IndexOf(K, k) \in DOMAIN K /\ K[IndexOf(K, k)] = k /\ Platz = IndexOf(K, k)
  BY <1>1, <1>2, <1>5, PlatzIst DEF Platz
<1>7. CASE u = 1 /\ i = 1
  <2>1. OhneItem(ort) /\ ~OhneUnter(ort)
    BY <1>1, <1>7 DEF OhneItem, OhneUnter
  <2>2. /\ Len(K) = Len(I) + 1 /\ Len(U) = Len(I) + 1
        /\ K[Len(I) + 1] = k /\ U[Len(I) + 1] = <<1>>
    BY <1>1, <1>2, <1>3, <2>1 DEF Form, Eins
  <2>3. Items' = [Items EXCEPT ![id] = Append(I, << <<i>> >>)]
    <3>1. CASE Len(K) = 1
      <4>1. ItemErsteErste
        BY <1>4, <1>7, <3>1 DEF ItemSchritt, ItemWeitere, ItemSpaeterErste
      <4>2. I = <<>>
        BY <1>2, <1>3, <2>2, <3>1 DEF Reihen
      <4>3. Append(I, << <<i>> >>) = << << <<i>> >> >>
        BY <4>2
      <4> QED BY <1>1, <4>1, <4>2, <4>3 DEF ItemErsteErste
    <3>2. CASE Len(K) # 1
      <4>1. ItemSpaeterErste
        BY <1>4, <1>7, <3>2 DEF ItemSchritt, ItemWeitere, ItemErsteErste
      <4>2. Len(I) < Len(K)
        BY <1>3, <2>2
      <4> QED BY <1>1, <4>1, <4>2 DEF ItemSpaeterErste
    <3> QED BY <3>1, <3>2
  <2> QED BY <1>7, <2>2, <2>3 DEF ItemHinzu, NeueKategorie
<1>8. CASE u > 1 /\ i = 1
  <2> DEFINE p == IndexOf(K, k)
  <2>1. WeitereOhneItem(ort) /\ ~OhneItem(ort) /\ ~OhneUnter(ort)
    BY <1>1, <1>8 DEF OhneItem, OhneUnter, WeitereOhneItem
  <2>2. Len(U) = Len(K) /\ Len(I) = Len(K) /\ p \in DOMAIN I /\ p \in DOMAIN U
    BY <1>2, <1>3, <1>6, <2>1 DEF Form, Eins
  <2>3. Len(I[p]) = Len(U[p]) - 1 /\ U[p][Len(U[p])] = u
    BY <1>1, <1>2, <2>1, <2>2 DEF Form, Eins
  <2>4. Len(U[p]) = Len(I[p]) + 1 /\ U[p][Len(I[p]) + 1] = u /\ Len(I[p]) < Len(U[p])
    BY <1>3, <2>2, <2>3
  <2>5. ItemWeitere
    BY <1>4, <1>8 DEF ItemSchritt, ItemErsteErste, ItemSpaeterErste
  <2>6. Items' = [Items EXCEPT ![id][p] = Append(@, <<i>>)]
    BY <1>1, <1>6, <2>4, <2>5 DEF ItemWeitere
  <2>7. Items' = [Items EXCEPT ![id] = [I EXCEPT ![p] = Append(I[p], <<i>>)]]
    BY <2>6
  <2> QED BY <1>6, <1>8, <2>2, <2>4, <2>7 DEF ItemHinzu, NeueUnterkategorie
<1>9. CASE i > 1
  <2> DEFINE p == IndexOf(K, k)
             q == IndexOf(U[p], u)
  <2>1. Ruhe(k, u, K, U, I)
    BY <1>1, <1>2, <1>9, FormRuhe
  <2>2. p \in DOMAIN I /\ p \in DOMAIN U /\ Len(I[p]) = Len(U[p])
    BY <1>3, <1>6, <2>1 DEF Ruhe
  <2>3. q \in DOMAIN U[p] /\ U[p][q] = u /\ Unterplatz = q
    BY <1>1, <1>2, <1>6, <2>1, <2>2, UnterplatzIst DEF Unterplatz, Ruhe
  <2>4. q \in DOMAIN I[p]
    BY <1>3, <2>2, <2>3
  <2>5. Items' = [Items EXCEPT ![id][p][q] = Append(@, i)]
    <3>1. CASE zweig = "ersteErste"
      <4>1. ItemErsteErste /\ Len(K) = 1 /\ u = 1
        BY <1>4, <3>1 DEF ItemSchritt, ItemWeitere, ItemSpaeterErste
      <4>2. p = 1 /\ q = 1 /\ ErsterPlatz = 1
        BY <1>1, <1>2, <2>1, <4>1, ErsteKategorie DEF ErsterPlatz
      <4>3. I # <<>>
        BY <2>2
      <4> QED BY <1>1, <1>6, <4>1, <4>2, <4>3 DEF ItemErsteErste
    <3>2. CASE zweig \in {"ersteWeitere", "spaeterWeitere"}
      <4>1. ItemWeitere
        BY <3>2 DEF ItemSchritt, ItemErsteErste, ItemSpaeterErste
      <4>2. ~(Len(I[p]) < Len(U[p]))
        BY <1>3, <2>2
      <4> QED BY <1>1, <1>6, <2>3, <4>1, <4>2 DEF ItemWeitere
    <3>3. CASE zweig = "spaeterErste"
      <4>1. ItemSpaeterErste
        BY <3>3 DEF ItemSchritt, ItemErsteErste, ItemWeitere
      <4>2. ~(Len(I) < Len(K))
        BY <1>3, <2>1 DEF Ruhe
      <4> QED BY <1>1, <1>6, <2>3, <4>1, <4>2 DEF ItemSpaeterErste
    <3> QED BY <1>4, <3>1, <3>2, <3>3
  <2>6. Items' = [Items EXCEPT ![id] =
                    [I EXCEPT ![p] = [I[p] EXCEPT ![q] = Append(I[p][q], i)]]]
    BY <2>5
  <2> QED BY <1>6, <1>9, <2>2, <2>3, <2>4, <2>6 DEF ItemHinzu, NeuesItem
<1> QED BY <1>7, <1>8, <1>9

\* An item brings the arrays to rest.
LEMMA HinzuRuhe ==
  ASSUME NEW k \in Nat, NEW u \in Nat, NEW i \in Nat, u > 0, i > 0,
         NEW K, NEW U, NEW I, NEW J, Reihen(K, U, I),
         Form(Ort("item", k, u, i, 0), K, U, I), ItemHinzu(k, u, i, K, U, I, J)
  PROVE  Reihen(K, U, J) /\ Ruhe(k, u, K, U, J)
<1> DEFINE o == Ort("item", k, u, i, 0)
<1>1. o.art = "item" /\ o.k = k /\ o.u = u /\ o.i = i
  BY OrtFelder
<1> HIDE DEF o
<1>2. Form(o, K, U, I)
  BY DEF o
<1>3. /\ Len(K) \in Nat /\ Len(U) \in Nat /\ Len(I) \in Nat
      /\ DOMAIN K = 1..Len(K) /\ DOMAIN U = 1..Len(U) /\ DOMAIN I = 1..Len(I)
      /\ \A p \in DOMAIN U : U[p] \in Seq(Nat) /\ Len(U[p]) \in Nat
      /\ \A p \in DOMAIN I : Len(I[p]) \in Nat
  BY DEF Reihen
<1>4. /\ \E p \in DOMAIN K : K[p] = k
      /\ \E q \in DOMAIN U[IndexOf(K, k)] : U[IndexOf(K, k)][q] = u
      /\ \A p \in DOMAIN U : U[p] # <<>> /\ U[p][1] = 1
      /\ Len(U) = Len(K) /\ K # <<>> /\ K[1] = 1 /\ U # <<>>
      /\ Len(K) = 1 => Len(U[1]) = u /\ \A q \in DOMAIN U[1] : U[1][q] = q
  <2>1. ~OhneUnter(o)
    BY <1>1 DEF OhneUnter
  <2>2. \E p \in DOMAIN K : K[p] = k
    BY <1>1, <1>2 DEF Form
  <2>3. K # <<>> /\ Len(K) > 0
    BY <1>3, <2>2
  <2>4. Len(U) = Len(K)
    <3>1. Len(U) = Len(K) - Eins(OhneUnter(o))
      BY <1>2 DEF Form
    <3> QED BY <1>3, <2>1, <3>1 DEF Eins
  <2>5. U # <<>>
    BY <1>3, <2>3, <2>4
  <2> QED BY <1>1, <1>2, <2>2, <2>3, <2>4, <2>5 DEF Form
<1>5. ASSUME Reihen(K, U, J), Len(J) = Len(K),
             \A p \in DOMAIN J : Len(J[p]) = Len(U[p])
      PROVE  Reihen(K, U, J) /\ Ruhe(k, u, K, U, J)
  BY <1>4, <1>5 DEF Ruhe
<1>6. CASE NeueKategorie(k, u, i, K, U, I, J)
  <2> DEFINE y == << <<i>> >>
             S == Seq(Seq(Nat))
  <2>1. y \in S /\ I \in Seq(S) /\ Len(y) = 1
    BY DEF Reihen
  <2>2. J = Append(I, y) /\ Len(K) = Len(I) + 1 /\ U[Len(I) + 1] = <<1>> /\ u = 1 /\ i = 1
    BY <1>6 DEF NeueKategorie
  <2>3. /\ J \in Seq(S) /\ Len(J) = Len(K) /\ J[Len(I) + 1] = y
        /\ DOMAIN J = 1..(Len(I) + 1)
        /\ \A x \in DOMAIN I : J[x] = I[x]
    <3> HIDE DEF y, S
    <3> QED BY <2>1, <2>2, Angehaengt
  <2>4. OhneItem(o) /\ ~WeitereOhneItem(o)
    BY <1>1, <2>2 DEF OhneItem, WeitereOhneItem
  <2>5. \A p \in DOMAIN I : Len(I[p]) = Len(U[p])
    <3> TAKE p \in DOMAIN I
    <3>1. p \in DOMAIN U
      BY <1>3, <1>4, <2>2
    <3> QED BY <1>2, <1>3, <2>4, <3>1 DEF Form, Eins
  <2>6. \A p \in DOMAIN J : Len(J[p]) = Len(U[p])
    <3> TAKE p \in DOMAIN J
    <3>1. CASE p = Len(I) + 1
      <4>1. Len(<<1>>) = 1
        OBVIOUS
      <4> HIDE DEF y
      <4> QED BY <2>1, <2>2, <2>3, <3>1, <4>1
    <3>2. CASE p # Len(I) + 1
      <4>1. p \in DOMAIN I
        BY <1>3, <2>3, <3>2
      <4> QED BY <2>3, <2>5, <4>1
    <3> QED BY <3>1, <3>2
  <2> QED BY <1>5, <2>3, <2>6 DEF Reihen
<1>7. ASSUME NEW p \in DOMAIN I, NeueUnterkategorie(k, u, i, K, U, I, J, p)
      PROVE  Reihen(K, U, J) /\ Ruhe(k, u, K, U, J)
  <2> DEFINE y == Append(I[p], <<i>>)
             S == Seq(Seq(Nat))
  <2>1. I \in Seq(S) /\ I[p] \in S
    BY DEF Reihen
  <2>2. y \in S /\ Len(y) = Len(I[p]) + 1
    BY <2>1
  <2>3. J = [I EXCEPT ![p] = y] /\ Len(U[p]) = Len(I[p]) + 1 /\ u > 1 /\ i = 1
        /\ p = IndexOf(K, k)
    BY <1>7 DEF NeueUnterkategorie
  <2>4. /\ J \in Seq(S) /\ Len(J) = Len(I) /\ DOMAIN J = DOMAIN I
        /\ J[p] = y /\ \A x \in DOMAIN I : x # p => J[x] = I[x]
    <3> HIDE DEF y, S
    <3> QED BY <2>1, <2>2, <2>3, Ersetzt
  <2>5. WeitereOhneItem(o) /\ ~OhneItem(o)
    BY <1>1, <2>3 DEF OhneItem, WeitereOhneItem, OhneUnter
  <2>6. Len(J) = Len(K)
    <3>1. Len(I) = Len(K) - Eins(OhneItem(o))
      BY <1>2 DEF Form
    <3> QED BY <1>3, <2>4, <2>5, <3>1 DEF Eins
  <2>7. \A x \in DOMAIN J : Len(J[x]) = Len(U[x])
    <3> TAKE x \in DOMAIN J
    <3>1. CASE x = p
      BY <2>2, <2>3, <2>4, <3>1
    <3>2. CASE x # p
      <4>1. J[x] = I[x] /\ x \in DOMAIN I /\ x \in DOMAIN U
        BY <1>3, <1>4, <2>4, <2>6, <3>2
      <4>2. Len(I[x]) = Len(U[x]) - Eins(WeitereOhneItem(o) /\ x = IndexOf(K, o.k))
        BY <1>2, <4>1 DEF Form
      <4>3. Eins(WeitereOhneItem(o) /\ x = IndexOf(K, o.k)) = 0
        BY <1>1, <2>3, <3>2 DEF Eins
      <4> QED BY <1>3, <4>1, <4>2, <4>3
    <3> QED BY <3>1, <3>2
  <2> QED BY <1>5, <2>4, <2>6, <2>7 DEF Reihen
<1>8. ASSUME NEW p \in DOMAIN I, NEW q \in DOMAIN I[p],
             NeuesItem(k, u, i, K, U, I, J, p, q)
      PROVE  Reihen(K, U, J) /\ Ruhe(k, u, K, U, J)
  <2> DEFINE z == Append(I[p][q], i)
             y == [I[p] EXCEPT ![q] = z]
             S == Seq(Seq(Nat))
             T == Seq(Nat)
  <2>1. I \in Seq(S) /\ I[p] \in Seq(T) /\ I[p][q] \in T
    BY DEF Reihen
  <2>2. z \in T
    BY <2>1
  <2>3. y \in S /\ Len(y) = Len(I[p])
    <3>1. y \in Seq(T) /\ Len(y) = Len(I[p])
      <4> HIDE DEF z, T
      <4> QED BY <2>1, <2>2, Ersetzt
    <3> QED BY <3>1
  <2>4. J = [I EXCEPT ![p] = y] /\ i > 1
    BY <1>8 DEF NeuesItem
  <2>5. /\ J \in Seq(S) /\ Len(J) = Len(I) /\ DOMAIN J = DOMAIN I
        /\ J[p] = y /\ \A x \in DOMAIN I : x # p => J[x] = I[x]
    <3> HIDE DEF y, S
    <3> QED BY <2>1, <2>3, <2>4, Ersetzt
  <2>6. Ruhe(k, u, K, U, I)
    BY <1>1, <1>2, <2>4, FormRuhe
  <2>7. \A x \in DOMAIN J : Len(J[x]) = Len(U[x])
    <3> HIDE DEF y
    <3> QED BY <2>3, <2>5, <2>6 DEF Ruhe
  <2>8. Len(J) = Len(K)
    BY <2>5, <2>6 DEF Ruhe
  <2> QED BY <1>5, <2>5, <2>7, <2>8 DEF Reihen
<1> QED BY <1>6, <1>7, <1>8 DEF ItemHinzu

(***************************************************************************)
(* Every visit leads to a place of the record.                             *)
(***************************************************************************)
LEMMA NachUnterkategorieGueltig ==
  ASSUME NEW b, Baumform(b), NEW k \in 1..Len(b), NEW u \in 1..Len(b[k])
  PROVE  /\ GueltigerOrt(b, NachUnterkategorie(b, k, u))
         /\ Dahinter(NachUnterkategorie(b, k, u), k, u)
<1>1. /\ DOMAIN b = 1..Len(b) /\ Len(b) \in Nat
      /\ DOMAIN b[k] = 1..Len(b[k]) /\ Len(b[k]) \in Nat
  BY BaumTeile
<1> DEFINE o == NachUnterkategorie(b, k, u)
<1> SUFFICES GueltigerOrt(b, o) /\ Dahinter(o, k, u)
  OBVIOUS
<1>2. CASE u < Len(b[k]) /\ o = Ort("unterkategorie", k, u + 1, 0, 0)
  <2>1. k \in DOMAIN b /\ u + 1 \in DOMAIN b[k]
    BY <1>1, <1>2
  <2> HIDE DEF o
  <2> QED BY <1>2, <2>1 DEF GueltigerOrt, Dahinter
<1>3. CASE u = Len(b[k]) /\ k < Len(b) /\ o = Ort("kategorie", k + 1, 0, 0, 0)
  <2>1. k + 1 \in DOMAIN b
    BY <1>1, <1>3
  <2> HIDE DEF o
  <2> QED BY <1>3, <2>1 DEF GueltigerOrt, Dahinter
<1>4. CASE o = Ende
  <2> HIDE DEF o
  <2> QED BY <1>4 DEF GueltigerOrt, Dahinter
<1> QED BY <1>2, <1>3, <1>4, NachUnterkategorieIst

LEMMA ExtrasAbGueltig ==
  ASSUME NEW b, Baumform(b), NEW k \in 1..Len(b), NEW u \in 1..Len(b[k]),
         NEW i \in Nat, i > 0
  PROVE  /\ GueltigerOrt(b, ExtrasAb(b, k, u, i))
         /\ Dahinter(ExtrasAb(b, k, u, i), k, u)
<1> DEFINE o == ExtrasAb(b, k, u, i)
<1>1. CASE o = NachUnterkategorie(b, k, u)
  BY <1>1, NachUnterkategorieGueltig
<1>2. ASSUME NEW j \in i..Len(b[k][u]), o = Ort("extra", k, u, j, 1), b[k][u][j] > 0
      PROVE  GueltigerOrt(b, o) /\ Dahinter(o, k, u)
  <2>1. /\ k \in DOMAIN b /\ u \in DOMAIN b[k] /\ DOMAIN b[k][u] = 1..Len(b[k][u])
        /\ Len(b[k][u]) \in Nat /\ \A x \in 1..Len(b[k][u]) : b[k][u][x] \in Nat
    <3>1. k \in DOMAIN b /\ DOMAIN b[k] = 1..Len(b[k])
      BY BaumTeile
    <3> QED BY <3>1, BaumTeile
  <2>2. j \in DOMAIN b[k][u] /\ j \in Nat /\ 1 \in 1..b[k][u][j]
    BY <1>2, <2>1
  <2> HIDE DEF o
  <2> QED BY <1>2, <2>1, <2>2 DEF GueltigerOrt, Dahinter
<1> QED BY <1>1, <1>2, ExtrasAbIst

LEMMA FolgenderGueltig ==
  ASSUME NEW b, Baumform(b), NEW k \in 1..Len(b)
  PROVE  /\ GueltigerOrt(b, Folgender(b, Ort("kategorie", k, 0, 0, 0)))
         /\ \A u \in 1..Len(b[k]) :
              /\ GueltigerOrt(b, Folgender(b, Ort("unterkategorie", k, u, 0, 0)))
              /\ \A i \in 1..Len(b[k][u]) :
                   LET o == Folgender(b, Ort("item", k, u, i, 0))
                   IN GueltigerOrt(b, o) /\ Dahinter(o, k, u)
              /\ \A i \in 1..Len(b[k][u]) : \A e \in 1..b[k][u][i] :
                   LET o == Folgender(b, Ort("extra", k, u, i, e))
                   IN GueltigerOrt(b, o) /\ Dahinter(o, k, u)
<1>1. /\ k \in DOMAIN b /\ Len(b[k]) > 0 /\ Len(b[k]) \in Nat
      /\ DOMAIN b[k] = 1..Len(b[k])
      /\ \A u \in 1..Len(b[k]) :
           /\ Len(b[k][u]) \in Nat /\ Len(b[k][u]) > 0
           /\ DOMAIN b[k][u] = 1..Len(b[k][u])
           /\ \A i \in 1..Len(b[k][u]) : b[k][u][i] \in Nat
  BY BaumTeile
<1>2. GueltigerOrt(b, Folgender(b, Ort("kategorie", k, 0, 0, 0)))
  <2>1. 1 \in DOMAIN b[k]
    BY <1>1
  <2>2. Folgender(b, Ort("kategorie", k, 0, 0, 0)) = Ort("unterkategorie", k, 1, 0, 0)
    BY FolgenderIst
  <2> QED BY <1>1, <2>1, <2>2 DEF GueltigerOrt
<1>3. ASSUME NEW u \in 1..Len(b[k])
      PROVE  GueltigerOrt(b, Folgender(b, Ort("unterkategorie", k, u, 0, 0)))
  <2>1. 1 \in DOMAIN b[k][u] /\ u \in DOMAIN b[k]
    BY <1>1
  <2>2. Folgender(b, Ort("unterkategorie", k, u, 0, 0)) = Ort("item", k, u, 1, 0)
    BY FolgenderIst
  <2> QED BY <1>1, <2>1, <2>2 DEF GueltigerOrt
<1>4. ASSUME NEW u \in 1..Len(b[k]), NEW i \in 1..Len(b[k][u])
      PROVE  LET o == Folgender(b, Ort("item", k, u, i, 0))
             IN GueltigerOrt(b, o) /\ Dahinter(o, k, u)
  <2> DEFINE o == Folgender(b, Ort("item", k, u, i, 0))
  <2> SUFFICES GueltigerOrt(b, o) /\ Dahinter(o, k, u)
    OBVIOUS
  <2>1. CASE i < Len(b[k][u])
    <3>1. o = Ort("item", k, u, i + 1, 0)
      BY <2>1, FolgenderIst
    <3>2. i + 1 \in DOMAIN b[k][u] /\ u \in DOMAIN b[k] /\ i + 1 \in Nat /\ i + 1 > 1
      BY <1>1, <2>1
    <3> HIDE DEF o
    <3> QED BY <1>1, <3>1, <3>2 DEF GueltigerOrt, Dahinter
  <2>2. CASE ~(i < Len(b[k][u]))
    <3>1. o = ExtrasAb(b, k, u, 1)
      BY <2>2, FolgenderIst
    <3> QED BY <3>1, ExtrasAbGueltig
  <2> QED BY <2>1, <2>2
<1>5. ASSUME NEW u \in 1..Len(b[k]), NEW i \in 1..Len(b[k][u]), NEW e \in 1..b[k][u][i]
      PROVE  LET o == Folgender(b, Ort("extra", k, u, i, e))
             IN GueltigerOrt(b, o) /\ Dahinter(o, k, u)
  <2> DEFINE o == Folgender(b, Ort("extra", k, u, i, e))
  <2> SUFFICES GueltigerOrt(b, o) /\ Dahinter(o, k, u)
    OBVIOUS
  <2>0. u \in DOMAIN b[k] /\ i \in DOMAIN b[k][u] /\ b[k][u][i] \in Nat
    BY <1>1
  <2>1. CASE e < b[k][u][i]
    <3>1. o = Ort("extra", k, u, i, e + 1)
      BY <2>1, FolgenderIst
    <3>2. e + 1 \in 1..b[k][u][i] /\ i \in Nat /\ e + 1 \in Nat
      BY <2>0, <2>1
    <3> HIDE DEF o
    <3> QED BY <1>1, <2>0, <3>1, <3>2 DEF GueltigerOrt, Dahinter
  <2>2. CASE ~(e < b[k][u][i])
    <3>1. o = ExtrasAb(b, k, u, i + 1)
      BY <2>2, FolgenderIst
    <3>2. i + 1 \in Nat /\ i + 1 > 0
      OBVIOUS
    <3> QED BY <3>1, <3>2, ExtrasAbGueltig
  <2> QED BY <2>1, <2>2
<1> QED BY <1>2, <1>3, <1>4, <1>5

(***************************************************************************)
(* Categories and subcategories.                                           *)
(***************************************************************************)
LEMMA KategorieForm ==
  ASSUME NEW k \in Nat, NEW K, NEW U, NEW I, Reihen(K, U, I),
         Form(Ort("kategorie", k, 0, 0, 0), K, U, I)
  PROVE  /\ Reihen(Append(K, k), U, I)
         /\ Form(Ort("unterkategorie", k, 1, 0, 0), Append(K, k), U, I)
         /\ Len(Append(K, k)) = 1 <=> K = <<>>
<1> DEFINE o == Ort("kategorie", k, 0, 0, 0)
           x == Ort("unterkategorie", k, 1, 0, 0)
           L == Append(K, k)
<1>1. o.art = "kategorie" /\ o.k = k /\ x.art = "unterkategorie" /\ x.k = k /\ x.u = 1
  BY OrtFelder
<1>2. Form(o, K, U, I)
  OBVIOUS
<1> HIDE DEF o, x
<1>3. K \in Seq(Nat) /\ Len(K) \in Nat /\ Len(U) \in Nat /\ Len(I) \in Nat
  BY DEF Reihen
<1>4. /\ L \in Seq(Nat) /\ Len(L) = Len(K) + 1 /\ DOMAIN L = 1..(Len(K) + 1)
      /\ L[Len(K) + 1] = k /\ \A p \in DOMAIN K : L[p] = K[p]
  BY <1>3
<1>5. /\ ~OhneUnter(o) /\ ~OhneItem(o) /\ ~WeitereOhneItem(o)
      /\ OhneUnter(x) /\ OhneItem(x) /\ ~WeitereOhneItem(x)
  BY <1>1 DEF OhneUnter, OhneItem, WeitereOhneItem
<1>6. Len(U) = Len(K) /\ Len(I) = Len(K)
  <2>1. Len(U) = Len(K) - Eins(OhneUnter(o)) /\ Len(I) = Len(K) - Eins(OhneItem(o))
    BY <1>2 DEF Form
  <2> QED BY <1>3, <1>5, <2>1 DEF Eins
<1>7. /\ Len(U) = Len(L) - Eins(OhneUnter(x)) /\ Len(I) = Len(L) - Eins(OhneItem(x))
  BY <1>3, <1>4, <1>5, <1>6 DEF Eins
<1>8. \A p \in DOMAIN I :
        Len(I[p]) = Len(U[p]) - Eins(WeitereOhneItem(x) /\ p = IndexOf(L, x.k))
  BY <1>2, <1>5 DEF Form, Eins
<1>9. L # <<>> /\ L[1] = 1 /\ L[Len(L)] = k /\ Len(K) + 1 \in DOMAIN L
  <2>1. CASE K = <<>>
    BY <1>1, <1>2, <1>4, <2>1 DEF Form
  <2>2. CASE K # <<>>
    <3>1. K[1] = 1 /\ 1 \in DOMAIN K
      BY <1>2, <1>3, <2>2 DEF Form
    <3> QED BY <1>3, <1>4, <3>1
  <2> QED BY <2>1, <2>2
<1>10. Len(L) = 1 => U = <<>>
  <2> SUFFICES ASSUME Len(L) = 1 PROVE U = <<>>
    OBVIOUS
  <2>1. Len(U) = 0
    BY <1>3, <1>4, <1>6
  <2> QED BY <2>1 DEF Reihen
<1>11. Len(L) = 1 <=> K = <<>>
  BY <1>3, <1>4
<1>12. \A p \in DOMAIN U : U[p] # <<>> /\ U[p][1] = 1
  BY <1>2 DEF Form
<1>13. Form(x, L, U, I)
  <2> HIDE DEF L
  <2> QED BY <1>1, <1>4, <1>5, <1>7, <1>8, <1>9, <1>10, <1>12 DEF Form
<1>14. Reihen(L, U, I)
  BY <1>4 DEF Reihen
<1> QED BY <1>11, <1>13, <1>14 DEF x

NeueErste(U, V)       == V = Append(U, <<1>>)
NeueWeitere(u, U, V, p) == p \in DOMAIN U /\ V = [U EXCEPT ![p] = Append(U[p], u)]

LEMMA UnterkategorieForm ==
  ASSUME NEW k \in Nat, NEW u \in Nat, u > 0, NEW K, NEW U, NEW I, NEW V,
         Reihen(K, U, I), Form(Ort("unterkategorie", k, u, 0, 0), K, U, I),
         u = 1 => NeueErste(U, V), u > 1 => NeueWeitere(u, U, V, IndexOf(K, k))
  PROVE  /\ Reihen(K, V, I)
         /\ Form(Ort("item", k, u, 1, 0), K, V, I)
<1> DEFINE o == Ort("unterkategorie", k, u, 0, 0)
           x == Ort("item", k, u, 1, 0)
           P == IndexOf(K, k)
<1>1. /\ o.art = "unterkategorie" /\ o.k = k /\ o.u = u
      /\ x.art = "item" /\ x.k = k /\ x.u = u /\ x.i = 1
  BY OrtFelder
<1>2. Form(o, K, U, I)
  OBVIOUS
<1> HIDE DEF o, x
<1>3. /\ K \in Seq(Nat) /\ Len(K) \in Nat /\ Len(U) \in Nat /\ Len(I) \in Nat
      /\ U \in Seq(Seq(Nat)) /\ DOMAIN U = 1..Len(U) /\ DOMAIN I = 1..Len(I)
      /\ \A p \in DOMAIN U : U[p] \in Seq(Nat) /\ Len(U[p]) \in Nat
      /\ DOMAIN K = 1..Len(K)
  BY DEF Reihen
<1>4. /\ \E p \in DOMAIN K : K[p] = k
      /\ \A p \in DOMAIN U : U[p] # <<>> /\ U[p][1] = 1
      /\ Len(U) = Len(K) - Eins(OhneUnter(o))
      /\ Len(I) = Len(K) - Eins(OhneItem(o))
      /\ \A p \in DOMAIN I :
           Len(I[p]) = Len(U[p]) - Eins(WeitereOhneItem(o) /\ p = IndexOf(K, o.k))
      /\ OhneItem(o) => K[Len(K)] = k
  BY <1>1, <1>2 DEF Form
<1>5. K # <<>> /\ K[1] = 1 /\ Len(K) > 0
  BY <1>2, <1>3, <1>4 DEF Form
<1>6. P \in DOMAIN K /\ K[P] = k
  BY <1>4, PlatzIst
<1>7. ~WeitereOhneItem(o) /\ ~OhneUnter(x)
  BY <1>1 DEF WeitereOhneItem, OhneUnter
<1>8. \A p \in DOMAIN I : Len(I[p]) = Len(U[p]) /\ p \in DOMAIN U
  <2> TAKE p \in DOMAIN I
  <2>0. OhneUnter(o) => OhneItem(o)
    BY DEF OhneItem
  <2>1. Len(I) <= Len(U)
    <3>1. /\ Eins(OhneUnter(o)) \in 0..1 /\ Eins(OhneItem(o)) \in 0..1
          /\ Eins(OhneUnter(o)) <= Eins(OhneItem(o))
      BY <2>0 DEF Eins
    <3> QED BY <1>3, <1>4, <3>1
  <2>2. p \in DOMAIN U
    BY <1>3, <2>1
  <2>3. Eins(WeitereOhneItem(o) /\ p = IndexOf(K, o.k)) = 0
    BY <1>7 DEF Eins
  <2> QED BY <1>3, <1>4, <2>2, <2>3
<1>9. CASE u = 1
  <2> DEFINE y == <<1>>
             S == Seq(Nat)
  <2>1. OhneUnter(o) /\ OhneItem(o) /\ OhneItem(x) /\ ~WeitereOhneItem(x)
    BY <1>1, <1>9 DEF OhneUnter, OhneItem, WeitereOhneItem
  <2>2. Len(U) = Len(K) - 1 /\ Len(I) = Len(K) - 1 /\ K[Len(K)] = k
    BY <1>4, <2>1 DEF Eins
  <2>3. /\ V \in Seq(S) /\ Len(V) = Len(K) /\ DOMAIN V = 1..Len(K) /\ V[Len(K)] = y
        /\ \A p \in DOMAIN U : V[p] = U[p]
    <3>1. y \in S /\ U \in Seq(S) /\ V = Append(U, y)
      BY <1>3, <1>9 DEF NeueErste
    <3>2. Len(U) + 1 = Len(K)
      BY <1>3, <2>2
    <3> HIDE DEF y, S
    <3> QED BY <3>1, <3>2, Angehaengt
  <2>4. \A p \in DOMAIN V : V[p] # <<>> /\ V[p][1] = 1
    <3> TAKE p \in DOMAIN V
    <3>1. CASE p = Len(K)
      BY <2>3, <3>1
    <3>2. CASE p # Len(K)
      <4>1. p \in DOMAIN U
        BY <1>3, <2>2, <2>3, <3>2, SMTT(30)
      <4> QED BY <1>4, <2>3, <4>1
    <3> QED BY <3>1, <3>2
  <2>5. V[P] # <<>> /\ V[P][1] = 1 /\ V[P] \in Seq(Nat)
    BY <1>3, <1>6, <2>3, <2>4
  <2>6. \E q \in DOMAIN V[P] : V[P][q] = u
    <3>1. 1 \in DOMAIN V[P]
      BY <2>5
    <3> QED BY <1>9, <2>5, <3>1
  <2>7. /\ Len(V) = Len(K) - Eins(OhneUnter(x)) /\ Len(I) = Len(K) - Eins(OhneItem(x))
        /\ \A p \in DOMAIN I :
             Len(I[p]) = Len(V[p]) - Eins(WeitereOhneItem(x) /\ p = IndexOf(K, x.k))
    <3>1. \A p \in DOMAIN I : Len(I[p]) = Len(V[p]) /\ Len(V[p]) \in Nat
      BY <1>3, <1>8, <2>3
    <3> QED BY <1>3, <1>7, <2>1, <2>2, <2>3, <3>1, SMTT(30) DEF Eins
  <2>8. Len(K) = 1 => Len(V[1]) = u /\ \A q \in DOMAIN V[1] : V[1][q] = q
    BY <1>9, <2>3
  <2>9. Form(x, K, V, I)
    BY <1>1, <1>4, <1>5, <1>7, <2>1, <2>2, <2>3, <2>4, <2>6, <2>7, <2>8 DEF Form
  <2> QED BY <2>3, <2>9 DEF Reihen, x
<1>10. CASE u > 1
  <2> DEFINE y == Append(U[P], u)
             S == Seq(Nat)
  <2>1. ~OhneUnter(o) /\ ~OhneItem(o) /\ ~OhneItem(x) /\ WeitereOhneItem(x)
    BY <1>1, <1>10 DEF OhneUnter, OhneItem, WeitereOhneItem
  <2>2. Len(U) = Len(K) /\ Len(I) = Len(K)
    BY <1>3, <1>4, <2>1 DEF Eins
  <2>3. P \in DOMAIN U /\ U[P] \in Seq(Nat) /\ V = [U EXCEPT ![P] = y]
    BY <1>3, <1>6, <1>10, <2>2 DEF NeueWeitere
  <2>4. /\ y \in S /\ Len(y) = Len(U[P]) + 1 /\ y[Len(y)] = u
        /\ DOMAIN y = 1..(Len(U[P]) + 1)
        /\ \A q \in DOMAIN U[P] : y[q] = U[P][q]
    BY <2>3
  <2>5. /\ V \in Seq(S) /\ Len(V) = Len(U) /\ DOMAIN V = DOMAIN U /\ V[P] = y
        /\ \A p \in DOMAIN U : p # P => V[p] = U[p]
    <3>1. U \in Seq(S)
      BY <1>3
    <3> HIDE DEF y, S
    <3> QED BY <2>3, <2>4, <3>1, Ersetzt
  <2>6. \A p \in DOMAIN V : V[p] # <<>> /\ V[p][1] = 1
    <3> TAKE p \in DOMAIN V
    <3>1. CASE p = P
      <4>1. U[P][1] = 1 /\ 1 \in DOMAIN U[P]
        BY <1>4, <2>3
      <4>2. y # <<>> /\ y[1] = 1
        BY <2>4, <4>1
      <4> QED BY <2>5, <3>1, <4>2
    <3>2. CASE p # P
      BY <1>4, <2>5, <3>2
    <3> QED BY <3>1, <3>2
  <2>7. V[P][Len(V[P])] = u /\ \E q \in DOMAIN V[P] : V[P][q] = u
    <3>1. Len(y) \in DOMAIN y
      BY <2>3, <2>4
    <3> HIDE DEF y
    <3> QED BY <2>4, <2>5, <3>1
  <2>8. /\ Len(V) = Len(K) - Eins(OhneUnter(x)) /\ Len(I) = Len(K) - Eins(OhneItem(x))
        /\ \A p \in DOMAIN I :
             Len(I[p]) = Len(V[p]) - Eins(WeitereOhneItem(x) /\ p = IndexOf(K, x.k))
    <3>1. \A p \in DOMAIN I :
            Len(I[p]) = Len(V[p]) - Eins(WeitereOhneItem(x) /\ p = IndexOf(K, x.k))
      <4> TAKE p \in DOMAIN I
      <4>1. CASE p = P
        <5>1. Len(I[P]) = Len(U[P]) /\ Len(U[P]) \in Nat
          BY <1>3, <1>8, <2>3, <4>1
        <5>2. Len(V[P]) = Len(U[P]) + 1
          BY <2>4, <2>5
        <5> QED BY <1>1, <2>1, <4>1, <5>1, <5>2 DEF Eins
      <4>2. CASE p # P
        <5>1. Len(V[p]) = Len(U[p]) /\ Len(U[p]) \in Nat /\ Len(I[p]) = Len(U[p])
          BY <1>3, <1>8, <2>5, <4>2
        <5> QED BY <1>1, <4>2, <5>1 DEF Eins
      <4> QED BY <4>1, <4>2
    <3> QED BY <1>3, <1>7, <2>1, <2>2, <2>5, <3>1 DEF Eins
  <2>9. Len(K) = 1 => Len(V[1]) = u /\ \A q \in DOMAIN V[1] : V[1][q] = q
    <3> SUFFICES ASSUME Len(K) = 1
                 PROVE  Len(V[1]) = u /\ \A q \in DOMAIN V[1] : V[1][q] = q
      OBVIOUS
    <3>0. P = 1 /\ Len(U) = 1
      BY <1>3, <1>6, <2>2
    <3>1. P = 1 /\ U # <<>>
      <4>1. 1 \in DOMAIN U /\ DOMAIN << >> = {}
        BY <2>3, <3>0
      <4> QED BY <3>0, <4>1
    <3>2. Len(U[1]) = u - 1 /\ \A q \in DOMAIN U[1] : U[1][q] = q
      BY <1>1, <1>2, <3>1 DEF Form
    <3>3. DOMAIN U[1] = 1..(u - 1) /\ Len(y) = u /\ DOMAIN y = 1..u
      BY <2>3, <2>4, <3>1, <3>2
    <3>4. \A q \in DOMAIN y : y[q] = q
      <4> TAKE q \in DOMAIN y
      <4>1. CASE q = u
        <5> HIDE DEF y
        <5> QED BY <2>4, <3>3, <4>1
      <4>2. CASE q # u
        <5>1. q \in DOMAIN U[1]
          BY <3>3, <4>2
        <5> HIDE DEF y
        <5> QED BY <2>4, <3>1, <3>2, <5>1
      <4> QED BY <4>1, <4>2
    <3> HIDE DEF y
    <3> QED BY <2>5, <3>1, <3>3, <3>4
  <2>10. Form(x, K, V, I)
    BY <1>1, <1>4, <1>5, <1>7, <2>1, <2>2, <2>5, <2>6, <2>7, <2>8, <2>9 DEF Form
  <2> QED BY <2>5, <2>10 DEF Reihen, x
<1> QED BY <1>9, <1>10

(***************************************************************************)
(* What a step does to the order being folded.                             *)
(***************************************************************************)
Weiter == eingabe' = eingabe /\ gefaltet' = gefaltet /\ gefaltet > 0

Aufruf ==
  /\ eingabe' = eingabe /\ gefaltet < Len(eingabe) /\ gefaltet' = gefaltet + 1
  /\ ort = Ende /\ ort' = Ort("kategorie", 1, 0, 0, 0) /\ ~absturz
  /\ UNCHANGED <<zweig, Kategorien, Unterkategorien, Items, ExtrasNamen,
                 ExtrasPreise, extrasString, absturz>>

AmKategorie(k) ==
  /\ Weiter /\ ort = Ort("kategorie", k, 0, 0, 0)
  /\ ort' = Ort("unterkategorie", k, 1, 0, 0)
  /\ zweig' = IF Kategorien[BestellungID] = <<>> THEN "ersteErste" ELSE "spaeter"
  /\ Kategorien' = [Kategorien EXCEPT ![BestellungID] =
                      Append(Kategorien[BestellungID], k)]
  /\ UNCHANGED <<Unterkategorien, Items, ExtrasNamen, ExtrasPreise, extrasString,
                 absturz>>

AmUnterkategorie(k, u, V) ==
  /\ Weiter /\ ort = Ort("unterkategorie", k, u, 0, 0)
  /\ ort' = Ort("item", k, u, 1, 0)
  /\ zweig' = IF Len(Kategorien[BestellungID]) = 1
              THEN IF u = 1 THEN "ersteErste" ELSE "ersteWeitere"
              ELSE IF u = 1 THEN "spaeterErste" ELSE "spaeterWeitere"
  /\ Unterkategorien' = [Unterkategorien EXCEPT ![BestellungID] = V]
  /\ u = 1 => NeueErste(Unterkategorien[BestellungID], V)
  /\ u > 1 => NeueWeitere(u, Unterkategorien[BestellungID], V,
                          IndexOf(Kategorien[BestellungID], k))
  /\ UNCHANGED <<Kategorien, Items, ExtrasNamen, ExtrasPreise, extrasString,
                 absturz>>

AmItem(k, u, i, J) ==
  /\ Weiter /\ ort = Ort("item", k, u, i, 0) /\ ort' = Folgender(Datensatz, ort)
  /\ Items' = [Items EXCEPT ![BestellungID] = J]
  /\ ItemHinzu(k, u, i, Kategorien[BestellungID], Unterkategorien[BestellungID],
               Items[BestellungID], J)
  /\ UNCHANGED <<zweig, Kategorien, Unterkategorien, ExtrasNamen, ExtrasPreise,
                 extrasString, absturz>>

ExtraSchritt == \/ ExtraErsteErste \/ ExtraErsteWeitere \/ ExtraSpaeterErste
                \/ ExtraSpaeterWeitere

AmExtra(k, u, i, e) ==
  /\ Weiter /\ ort = Ort("extra", k, u, i, e) /\ ort' = Folgender(Datensatz, ort)
  /\ ExtraSchritt
  /\ UNCHANGED <<zweig, Kategorien, Unterkategorien, Items>>

LEMMA UnterWirkung ==
  ASSUME LadeTyp, FormInv, UnterkategorieDerErsten \/ UnterkategorieSpaeter
  PROVE  \E k \in 1..Len(Datensatz) : \E u \in 1..Len(Datensatz[k]) :
           \E V : AmUnterkategorie(k, u, V)
<1> DEFINE id == BestellungID
           K == Kategorien[id]
           U == Unterkategorien[id]
           I == Items[id]
<1>0. Besuche("unterkategorie")
  BY DEF UnterkategorieDerErsten, UnterkategorieSpaeter
<1>1. PICK k \in 1..Len(Datensatz) : \E u \in 1..Len(Datensatz[k]) :
        gefaltet > 0 /\ ort = Ort("unterkategorie", k, u, 0, 0)
  BY <1>0, AnUnterkategorie DEF Besuche
<1>2. PICK u \in 1..Len(Datensatz[k]) :
        gefaltet > 0 /\ ort = Ort("unterkategorie", k, u, 0, 0)
  BY <1>1
<1>3. /\ ort.art = "unterkategorie" /\ ort.k = k /\ ort.u = u
  BY <1>2, OrtFelder
<1>4. id \in IDs /\ Reihen(K, U, I) /\ Form(ort, K, U, I)
  BY <1>2, DatensatzForm, ReihenTyp, Eigene
<1>5. /\ Len(K) \in Nat /\ Len(U) \in Nat
      /\ DOMAIN K = 1..Len(K) /\ DOMAIN U = 1..Len(U)
  BY <1>4 DEF Reihen
<1>6. u \in Nat /\ u > 0
  OBVIOUS
<1>7. Len(U) = Len(K) - (IF u = 1 THEN 1 ELSE 0)
  BY <1>3, <1>4 DEF Form, OhneUnter, Eins
<1>8. \E p \in DOMAIN K : K[p] = k
  BY <1>3, <1>4 DEF Form
<1>9. IndexOf(K, k) \in DOMAIN K /\ Platz = IndexOf(K, k)
  BY <1>3, <1>4, <1>8, PlatzIst DEF Platz
<1>10. Weiter /\ ort' = Ort("item", k, u, 1, 0)
  BY <1>0, <1>2, FolgenderIst DEF Besuche, Weiter
<1>11. U = <<>> <=> Len(U) = 0
  BY <1>4 DEF Reihen
<1>12. UNCHANGED <<Kategorien, Items, ExtrasNamen, ExtrasPreise, extrasString, absturz>>
  BY DEF UnterkategorieDerErsten, UnterkategorieSpaeter
<1>13. ASSUME NEW V, Unterkategorien' = [Unterkategorien EXCEPT ![id] = V],
              u = 1 => NeueErste(U, V), u > 1 => NeueWeitere(u, U, V, IndexOf(K, k)),
              zweig' = IF Len(K) = 1
                       THEN IF u = 1 THEN "ersteErste" ELSE "ersteWeitere"
                       ELSE IF u = 1 THEN "spaeterErste" ELSE "spaeterWeitere"
       PROVE  AmUnterkategorie(k, u, V)
  BY <1>2, <1>10, <1>12, <1>13 DEF AmUnterkategorie
<1>14. u = 1 \/ u > 1
  BY <1>6
<1>15. u = 1 => Len(U) < Len(K) /\ (Len(K) = 1 => U = <<>>)
  BY <1>5, <1>7, <1>11
<1>16. u > 1 => /\ ~(u = 1) /\ ~(Len(U) < Len(K)) /\ Len(U) >= Len(K)
                /\ (Len(K) = 1 => U # <<>>)
                /\ IndexOf(K, k) \in DOMAIN U
  <2> SUFFICES ASSUME u > 1
               PROVE  /\ ~(u = 1) /\ ~(Len(U) < Len(K)) /\ Len(U) >= Len(K)
                      /\ (Len(K) = 1 => U # <<>>) /\ IndexOf(K, k) \in DOMAIN U
    OBVIOUS
  <2>1. ~(u = 1)
    BY <1>6
  <2>2. Len(U) = Len(K)
    BY <1>5, <1>7, <2>1
  <2> HIDE DEF K, U
  <2> QED BY <1>5, <1>9, <1>11, <2>1, <2>2
<1>20. CASE u = 1
  <2> DEFINE V == Append(U, <<1>>)
  <2>1. NeueErste(U, V) /\ ~(u > 1)
    BY <1>20 DEF NeueErste
  <2>2. CASE Len(K) = 1
    <3>1. UnterkategorieDerErsten
      BY <1>3, <2>2 DEF FormInv, Zweige, UnterkategorieSpaeter
    <3>2. zweig' = "ersteErste"
          /\ Unterkategorien' = [Unterkategorien EXCEPT ![id] = << <<u>> >>]
      BY <1>3, <1>15, <1>20, <2>2, <3>1 DEF UnterkategorieDerErsten
    <3>3. V = << <<u>> >>
      <4>1. U = <<>> /\ Append(<<>>, <<1>>) = << <<1>> >>
        BY <1>15, <1>20, <2>2
      <4> HIDE DEF U
      <4> QED BY <1>20, <4>1
    <3>4. Unterkategorien' = [Unterkategorien EXCEPT ![id] = V]
      BY <3>2, <3>3
    <3> QED BY <1>13, <1>20, <2>1, <2>2, <3>2, <3>4
  <2>3. CASE Len(K) # 1
    <3>1. UnterkategorieSpaeter
      BY <1>3, <2>3 DEF FormInv, Zweige, UnterkategorieDerErsten
    <3>2. zweig' = "spaeterErste"
          /\ Unterkategorien' = [Unterkategorien EXCEPT ![id] = Append(@, <<u>>)]
      BY <1>3, <1>5, <1>15, <1>20, <3>1 DEF UnterkategorieSpaeter
    <3>3. Unterkategorien' = [Unterkategorien EXCEPT ![id] = V]
      BY <1>20, <3>2
    <3> QED BY <1>13, <1>20, <2>1, <2>3, <3>2, <3>3
  <2> QED BY <2>2, <2>3
<1>21. CASE u > 1
  <2> DEFINE V == [U EXCEPT ![IndexOf(K, k)] = Append(U[IndexOf(K, k)], u)]
  <2>1. NeueWeitere(u, U, V, IndexOf(K, k)) /\ ~(u = 1)
    BY <1>16, <1>21 DEF NeueWeitere
  <2>2. CASE Len(K) = 1
    <3>1. UnterkategorieDerErsten
      BY <1>3, <2>2 DEF FormInv, Zweige, UnterkategorieSpaeter
    <3>2. zweig' = "ersteWeitere"
          /\ Unterkategorien' = [Unterkategorien EXCEPT ![id][Platz] = Append(@, u)]
      BY <1>3, <1>16, <1>21, <2>2, <3>1 DEF UnterkategorieDerErsten
    <3>3. Unterkategorien' = [Unterkategorien EXCEPT ![id] = V]
      BY <1>9, <3>2
    <3> QED BY <1>13, <2>1, <2>2, <3>2, <3>3
  <2>3. CASE Len(K) # 1
    <3>1. UnterkategorieSpaeter
      BY <1>3, <2>3 DEF FormInv, Zweige, UnterkategorieDerErsten
    <3>2. zweig' = "spaeterWeitere"
          /\ Unterkategorien' = [Unterkategorien EXCEPT ![id][Platz] = Append(@, u)]
      BY <1>3, <1>5, <1>16, <1>21, <3>1 DEF UnterkategorieSpaeter
    <3>3. Unterkategorien' = [Unterkategorien EXCEPT ![id] = V]
      BY <1>9, <3>2
    <3> QED BY <1>13, <2>1, <2>3, <3>2, <3>3
  <2> QED BY <2>2, <2>3
<1> QED BY <1>14, <1>20, <1>21

\* Every step is one of these.
LEMMA Schritte ==
  ASSUME LadeTyp, FormInv, LadeNext
  PROVE  \/ Aufruf
         \/ \E k \in 1..Len(Datensatz) : AmKategorie(k)
         \/ \E k \in 1..Len(Datensatz) : \E u \in 1..Len(Datensatz[k]) :
              \E V : AmUnterkategorie(k, u, V)
         \/ \E k \in 1..Len(Datensatz) : \E u \in 1..Len(Datensatz[k]) :
              \E i \in 1..Len(Datensatz[k][u]) : \E J : AmItem(k, u, i, J)
         \/ \E k \in 1..Len(Datensatz) : \E u \in 1..Len(Datensatz[k]) :
              \E i \in 1..Len(Datensatz[k][u]) : \E e \in 1..Datensatz[k][u][i] :
                AmExtra(k, u, i, e)
<1>1. CASE Schnappschuss
  BY <1>1 DEF Schnappschuss, Aufruf, woerterbuecher
<1>2. CASE Kategorie
  <2>1. PICK k \in 1..Len(Datensatz) : gefaltet > 0 /\ ort = Ort("kategorie", k, 0, 0, 0)
    BY <1>2, AnKategorie DEF Kategorie, Besuche
  <2>2. ort.k = k /\ ort' = Ort("unterkategorie", k, 1, 0, 0)
    BY <1>2, <2>1, OrtFelder, FolgenderIst DEF Kategorie, Besuche
  <2>3. AmKategorie(k)
    BY <1>2, <2>1, <2>2 DEF Kategorie, Besuche, AmKategorie, Weiter
  <2> QED BY <2>3
<1>3. CASE UnterkategorieDerErsten \/ UnterkategorieSpaeter
  BY <1>3, UnterWirkung
<1>4. CASE ItemSchritt
  <2>1. /\ Besuche("item")
        /\ UNCHANGED <<zweig, Kategorien, Unterkategorien, ExtrasNamen, ExtrasPreise,
                       extrasString, absturz>>
    BY <1>4 DEF ItemSchritt, ItemErsteErste, ItemWeitere, ItemSpaeterErste
  <2>2. PICK k \in 1..Len(Datensatz) : \E u \in 1..Len(Datensatz[k]) :
          \E i \in 1..Len(Datensatz[k][u]) : gefaltet > 0 /\ ort = Ort("item", k, u, i, 0)
    BY <2>1, AnItem DEF Besuche
  <2>3. PICK u \in 1..Len(Datensatz[k]) :
          \E i \in 1..Len(Datensatz[k][u]) : gefaltet > 0 /\ ort = Ort("item", k, u, i, 0)
    BY <2>2
  <2>4. PICK i \in 1..Len(Datensatz[k][u]) : gefaltet > 0 /\ ort = Ort("item", k, u, i, 0)
    BY <2>3
  <2>5. k \in Nat /\ u \in Nat /\ i \in Nat /\ u > 0 /\ i > 0
    OBVIOUS
  <2>6. PICK J : /\ Items' = [Items EXCEPT ![BestellungID] = J]
                 /\ ItemHinzu(k, u, i, Kategorien[BestellungID],
                             Unterkategorien[BestellungID], Items[BestellungID], J)
    BY <1>4, <2>4, <2>5, ItemWirkung
  <2>7. AmItem(k, u, i, J)
    BY <2>1, <2>4, <2>6 DEF Besuche, AmItem, Weiter
  <2> QED BY <2>7
<1>5. CASE ExtraSchritt
  <2>1. Besuche("extra") /\ UNCHANGED <<zweig, Kategorien, Unterkategorien, Items>>
    BY <1>5 DEF ExtraSchritt, ExtraErsteErste, ExtraErsteWeitere, ExtraSpaeterErste,
                ExtraSpaeterWeitere, BeiExtra
  <2>2. PICK k \in 1..Len(Datensatz) : \E u \in 1..Len(Datensatz[k]) :
          \E i \in 1..Len(Datensatz[k][u]) : \E e \in 1..Datensatz[k][u][i] :
            gefaltet > 0 /\ ort = Ort("extra", k, u, i, e)
    BY <2>1, AnExtra DEF Besuche
  <2>3. PICK u \in 1..Len(Datensatz[k]) :
          \E i \in 1..Len(Datensatz[k][u]) : \E e \in 1..Datensatz[k][u][i] :
            gefaltet > 0 /\ ort = Ort("extra", k, u, i, e)
    BY <2>2
  <2>4. PICK i \in 1..Len(Datensatz[k][u]) : \E e \in 1..Datensatz[k][u][i] :
            gefaltet > 0 /\ ort = Ort("extra", k, u, i, e)
    BY <2>3
  <2>5. PICK e \in 1..Datensatz[k][u][i] : gefaltet > 0 /\ ort = Ort("extra", k, u, i, e)
    BY <2>4
  <2>6. AmExtra(k, u, i, e)
    BY <1>5, <2>1, <2>5 DEF Besuche, AmExtra, Weiter
  <2> QED BY <2>6
<1> QED BY <1>1, <1>2, <1>3, <1>4, <1>5 DEF LadeNext, ItemSchritt, ExtraSchritt

(***************************************************************************)
(* Types and shape are invariant.                                          *)
(***************************************************************************)
LEMMA WeiterStelle ==
  ASSUME Weiter
  PROVE  /\ IDs' = IDs /\ BestellungID' = BestellungID /\ Datensatz' = Datensatz
         /\ \A id : Stelle(id)' = IF id = BestellungID THEN ort' ELSE Ende
         /\ \A id : Stelle(id) = IF id = BestellungID THEN ort ELSE Ende
<1>1. IDs' = IDs /\ BestellungID' = BestellungID /\ Datensatz' = Datensatz
  BY DEF Weiter, IDs, BestellungID, Datensatz
<1>2. gefaltet > 0 /\ gefaltet' > 0
  BY DEF Weiter
<1> QED BY <1>1, <1>2 DEF Stelle

\* A step within a record leaves the other orders as they are.
LEMMA Uebertragen ==
  ASSUME LadeTyp, FormInv, Weiter, NEW L, NEW V, NEW J,
         Kategorien' = [Kategorien EXCEPT ![BestellungID] = L],
         Unterkategorien' = [Unterkategorien EXCEPT ![BestellungID] = V],
         Items' = [Items EXCEPT ![BestellungID] = J],
         Reihen(L, V, J), Form(ort', L, V, J), GueltigerOrt(Datensatz, ort'),
         Zweige'
  PROVE  LadeTyp' /\ FormInv'
<1> DEFINE id == BestellungID
<1>1. id \in IDs /\ gefaltet > 0
  BY DatensatzForm DEF Weiter
<1>2. /\ IDs' = IDs /\ Datensatz' = Datensatz
      /\ \A x : Stelle(x)' = IF x = id THEN ort' ELSE Ende
      /\ \A x : Stelle(x) = IF x = id THEN ort ELSE Ende
  BY WeiterStelle
<1>3. /\ Kategorien \in [IDs -> Seq(Nat)]
      /\ Unterkategorien \in [IDs -> Seq(Seq(Nat))]
      /\ Items \in [IDs -> Seq(Seq(Seq(Nat)))]
  BY DEF LadeTyp
<1>4. /\ Kategorien' \in [IDs -> Seq(Nat)]
      /\ Unterkategorien' \in [IDs -> Seq(Seq(Nat))]
      /\ Items' \in [IDs -> Seq(Seq(Seq(Nat)))]
      /\ Kategorien'[id] = L /\ Unterkategorien'[id] = V /\ Items'[id] = J
      /\ \A x \in IDs : x # id => /\ Kategorien'[x] = Kategorien[x]
                                  /\ Unterkategorien'[x] = Unterkategorien[x]
                                  /\ Items'[x] = Items[x]
  <2> DEFINE A == Seq(Nat)
             B == Seq(Seq(Nat))
             C == Seq(Seq(Seq(Nat)))
  <2>1. L \in A /\ V \in B /\ J \in C
    BY DEF Reihen
  <2>2. /\ Kategorien \in [IDs -> A] /\ Unterkategorien \in [IDs -> B]
        /\ Items \in [IDs -> C]
    BY <1>3
  <2> HIDE DEF A, B, C, id
  <2>3. /\ Kategorien' = [Kategorien EXCEPT ![id] = L]
        /\ Unterkategorien' = [Unterkategorien EXCEPT ![id] = V]
        /\ Items' = [Items EXCEPT ![id] = J]
    BY DEF id
  <2>4. /\ Kategorien' \in [IDs -> A] /\ Unterkategorien' \in [IDs -> B]
        /\ Items' \in [IDs -> C]
        /\ Kategorien'[id] = L /\ Unterkategorien'[id] = V /\ Items'[id] = J
        /\ \A x \in IDs : x # id => /\ Kategorien'[x] = Kategorien[x]
                                    /\ Unterkategorien'[x] = Unterkategorien[x]
                                    /\ Items'[x] = Items[x]
    <3>1. /\ Kategorien' \in [IDs -> A] /\ Kategorien'[id] = L
          /\ \A x \in IDs : x # id => Kategorien'[x] = Kategorien[x]
      BY <1>1, <2>1, <2>2, <2>3, ZenonT(30)
    <3>2. /\ Unterkategorien' \in [IDs -> B] /\ Unterkategorien'[id] = V
          /\ \A x \in IDs : x # id => Unterkategorien'[x] = Unterkategorien[x]
      BY <1>1, <2>1, <2>2, <2>3, ZenonT(30)
    <3>3. /\ Items' \in [IDs -> C] /\ Items'[id] = J
          /\ \A x \in IDs : x # id => Items'[x] = Items[x]
      BY <1>1, <2>1, <2>2, <2>3, ZenonT(30)
    <3> QED BY <3>1, <3>2, <3>3
  <2> QED BY <2>4 DEF A, B, C
<1>5. LadeTyp'
  <2>1. /\ eingabe' \in Eingaben /\ gefaltet' \in 0..Len(eingabe')
        /\ ~(gefaltet' = 0)
    BY <1>1 DEF LadeTyp, Weiter
  <2>2. GueltigerOrt(Datensatz, ort)' 
    BY <1>2 DEF GueltigerOrt
  <2> QED BY <1>2, <1>4, <2>1, <2>2 DEF LadeTyp
<1>6. ASSUME NEW x \in IDs
      PROVE  Form(Stelle(x), Kategorien[x], Unterkategorien[x], Items[x])'
  <2>1. CASE x = id
    <3>1. Form(Stelle(x)', Kategorien'[x], Unterkategorien'[x], Items'[x])
      BY <1>2, <1>4, <2>1
    <3> QED BY <3>1 DEF Form, OhneUnter, OhneItem, WeitereOhneItem
  <2>2. CASE x # id
    <3>1. Form(Stelle(x), Kategorien[x], Unterkategorien[x], Items[x])
      BY DEF FormInv
    <3>2. Form(Stelle(x)', Kategorien'[x], Unterkategorien'[x], Items'[x])
      BY <1>2, <1>4, <2>2, <3>1
    <3> QED BY <3>2 DEF Form, OhneUnter, OhneItem, WeitereOhneItem
  <2> QED BY <2>1, <2>2
<1>7. FormInv'
  BY <1>2, <1>6 DEF FormInv
<1> QED BY <1>5, <1>7

LEMMA GeruestInit == LadeInit => LadeTyp /\ FormInv
<1> SUFFICES ASSUME LadeInit PROVE LadeTyp /\ FormInv
  OBVIOUS
<1>1. eingabe \in Seq([id : Nat, baum : Seq(Seq(Seq(Nat)))])
  BY EingabenAnnahme DEF LadeInit
<1>2. LadeTyp
  <2>1. gefaltet \in 0..Len(eingabe)
    BY <1>1 DEF LadeInit
  <2> QED BY <2>1 DEF LadeInit, LadeTyp
<1>3. Ende.art = "ende"
  BY OrtFelder DEF Ende
<1>4. Form(Ende, <<>>, <<>>, <<>>)
  BY <1>3 DEF Form, OhneUnter, OhneItem, WeitereOhneItem, Eins
<1>5. Zweige
  BY <1>3 DEF Zweige, LadeInit
<1>6. \A id \in IDs : Stelle(id) = Ende
  BY DEF Stelle, LadeInit
<1>7. \A id \in IDs : Form(Stelle(id), Kategorien[id], Unterkategorien[id], Items[id])
  BY <1>4, <1>6 DEF LadeInit
<1> QED BY <1>2, <1>5, <1>7 DEF FormInv

LEMMA AufrufGeruest ==
  ASSUME LadeTyp, FormInv, Aufruf
  PROVE  LadeTyp' /\ FormInv'
<1>1. /\ IDs' = IDs /\ gefaltet \in Nat /\ gefaltet' = gefaltet + 1 /\ gefaltet' > 0
      /\ eingabe' = eingabe /\ ort' = Ort("kategorie", 1, 0, 0, 0) /\ ort = Ende
      /\ Kategorien' = Kategorien /\ Unterkategorien' = Unterkategorien
      /\ Items' = Items
  BY DEF Aufruf, IDs, LadeTyp
<1>2. LadeTyp'
  <2>1. eingabe' \in Eingaben /\ gefaltet' \in 0..Len(eingabe')
    BY <1>1 DEF LadeTyp, Aufruf
  <2>2. Baumform(Datensatz')
    <3>1. eingabe \in Seq([id : Nat, baum : Seq(Seq(Seq(Nat)))])
          /\ \A n \in DOMAIN eingabe : Gefuellt(eingabe[n].baum)
      BY EingabenAnnahme DEF LadeTyp
    <3>2. gefaltet + 1 \in DOMAIN eingabe
      BY <1>1, <3>1 DEF LadeTyp, Aufruf
    <3>3. eingabe[gefaltet + 1].baum \in Seq(Seq(Seq(Nat)))
      <4> DEFINE S == [id : Nat, baum : Seq(Seq(Seq(Nat)))]
      <4>1. eingabe \in Seq(S)
        BY <3>1
      <4> HIDE DEF S
      <4>2. eingabe[gefaltet + 1] \in S
        BY <3>2, <4>1
      <4> QED BY <4>2 DEF S
    <3> QED BY <1>1, <3>1, <3>2, <3>3 DEF Datensatz, Baumform
  <2>3. 1 \in DOMAIN Datensatz'
    BY <2>2, BaumTeile
  <2>4. GueltigerOrt(Datensatz, ort)'
    BY <1>1, <2>3 DEF GueltigerOrt
  <2> QED BY <1>1, <2>1, <2>4 DEF LadeTyp
<1>3. ort'.art = "kategorie" /\ ort'.k = 1 /\ ort.art = "ende"
  BY <1>1, OrtFelder DEF Ende
<1>4. Zweige'
  BY <1>3 DEF Zweige
<1>5. ASSUME NEW x \in IDs
      PROVE  Form(Stelle(x), Kategorien[x], Unterkategorien[x], Items[x])'
  <2>1. Form(Ende, Kategorien[x], Unterkategorien[x], Items[x])
    BY <1>1 DEF FormInv, Stelle
  <2>2. Ende.art = "ende"
    BY <1>1, <1>3
  <2>3. Form(Ort("kategorie", 1, 0, 0, 0), Kategorien[x], Unterkategorien[x], Items[x])
    BY <1>1, <1>3, <2>1, <2>2 DEF Form, OhneUnter, OhneItem, WeitereOhneItem, Eins
  <2>4. Stelle(x)' = Ende \/ Stelle(x)' = Ort("kategorie", 1, 0, 0, 0)
    BY <1>1 DEF Stelle
  <2>5. Form(Stelle(x)', Kategorien'[x], Unterkategorien'[x], Items'[x])
    BY <1>1, <2>1, <2>3, <2>4
  <2> QED BY <2>5 DEF Form, OhneUnter, OhneItem, WeitereOhneItem
<1> QED BY <1>1, <1>2, <1>4, <1>5 DEF FormInv

LEMMA GeruestSchritt ==
  ASSUME LadeTyp, FormInv, LadeNext
  PROVE  LadeTyp' /\ FormInv'
<1> DEFINE id == BestellungID
           K == Kategorien[id]
           U == Unterkategorien[id]
           I == Items[id]
           b == Datensatz
<1>1. CASE Aufruf
  BY <1>1, AufrufGeruest
<1>2. ASSUME Weiter
      PROVE  /\ id \in IDs /\ gefaltet > 0 /\ Baumform(b) /\ Reihen(K, U, I)
             /\ Form(ort, K, U, I) /\ BestellungID' = id
             /\ Len(b) \in Nat
             /\ \A k \in 1..Len(b) : k \in Nat /\ k > 0 /\ Len(b[k]) \in Nat
             /\ \A k \in 1..Len(b) : \A u \in 1..Len(b[k]) :
                  u \in Nat /\ u > 0 /\ Len(b[k][u]) \in Nat
             /\ Kategorien = [Kategorien EXCEPT ![id] = K]
             /\ Unterkategorien = [Unterkategorien EXCEPT ![id] = U]
             /\ Items = [Items EXCEPT ![id] = I]
  <2>1. id \in IDs /\ gefaltet > 0 /\ Baumform(b)
    BY <1>2, DatensatzForm DEF Weiter
  <2>2. Reihen(K, U, I) /\ Form(ort, K, U, I) /\ BestellungID' = id
    BY <1>2, <2>1, ReihenTyp, Eigene, WeiterStelle
  <2>3. /\ Len(b) \in Nat
        /\ \A k \in 1..Len(b) : k \in Nat /\ k > 0 /\ Len(b[k]) \in Nat
        /\ \A k \in 1..Len(b) : \A u \in 1..Len(b[k]) :
             u \in Nat /\ u > 0 /\ Len(b[k][u]) \in Nat
    BY <2>1, BaumTeile
  <2>4. /\ Kategorien = [Kategorien EXCEPT ![id] = K]
        /\ Unterkategorien = [Unterkategorien EXCEPT ![id] = U]
        /\ Items = [Items EXCEPT ![id] = I]
    BY <2>1 DEF LadeTyp
  <2> QED BY <2>1, <2>2, <2>3, <2>4
<1>3. ASSUME NEW k \in 1..Len(b), AmKategorie(k)
      PROVE  LadeTyp' /\ FormInv'
  <2> DEFINE L == Append(K, k)
  <2>1. Weiter /\ ort = Ort("kategorie", k, 0, 0, 0)
        /\ ort' = Ort("unterkategorie", k, 1, 0, 0)
        /\ zweig' = (IF K = <<>> THEN "ersteErste" ELSE "spaeter")
        /\ Kategorien' = [Kategorien EXCEPT ![id] = L]
        /\ Unterkategorien' = Unterkategorien /\ Items' = Items
    BY <1>3 DEF AmKategorie
  <2>2. Reihen(L, U, I) /\ Form(ort', L, U, I) /\ (Len(L) = 1 <=> K = <<>>)
    BY <1>2, <2>1, KategorieForm
  <2>3. GueltigerOrt(b, ort')
    <3>1. Folgender(b, ort) = ort'
      BY <2>1, FolgenderIst
    <3> QED BY <1>2, <2>1, <3>1, FolgenderGueltig
  <2>4. Kategorien'[BestellungID'] = L
    BY <1>2, <2>1 DEF LadeTyp
  <2>5. ort'.art = "unterkategorie" /\ ort'.u = 1
    BY <2>1, OrtFelder
  <2>6. Zweige'
    <3> HIDE DEF K, L
    <3> QED BY <2>1, <2>2, <2>4, <2>5 DEF Zweige
  <2>7. Unterkategorien' = [Unterkategorien EXCEPT ![id] = U]
        /\ Items' = [Items EXCEPT ![id] = I]
    BY <1>2, <2>1
  <2> HIDE DEF K, U, I, L
  <2> QED BY <2>1, <2>2, <2>3, <2>6, <2>7, Uebertragen
<1>4. ASSUME NEW k \in 1..Len(b), NEW u \in 1..Len(b[k]), NEW V, AmUnterkategorie(k, u, V)
      PROVE  LadeTyp' /\ FormInv'
  <2>1. /\ Weiter /\ ort = Ort("unterkategorie", k, u, 0, 0)
        /\ ort' = Ort("item", k, u, 1, 0)
        /\ zweig' = (IF Len(K) = 1
                     THEN IF u = 1 THEN "ersteErste" ELSE "ersteWeitere"
                     ELSE IF u = 1 THEN "spaeterErste" ELSE "spaeterWeitere")
        /\ Unterkategorien' = [Unterkategorien EXCEPT ![id] = V]
        /\ u = 1 => NeueErste(U, V)
        /\ u > 1 => NeueWeitere(u, U, V, IndexOf(K, k))
        /\ Kategorien' = Kategorien /\ Items' = Items
    BY <1>4 DEF AmUnterkategorie
  <2>2. Reihen(K, V, I) /\ Form(ort', K, V, I)
    BY <1>2, <2>1, UnterkategorieForm
  <2>3. GueltigerOrt(b, ort')
    <3>1. Folgender(b, ort) = ort'
      BY <2>1, FolgenderIst
    <3> QED BY <1>2, <2>1, <3>1, FolgenderGueltig
  <2>4. Kategorien'[BestellungID'] = K
    BY <1>2, <2>1
  <2>5. ort'.art = "item" /\ ort'.u = u
    BY <2>1, OrtFelder
  <2>6. Zweige'
    <3> HIDE DEF K
    <3> QED BY <2>1, <2>4, <2>5 DEF Zweige
  <2>7. Kategorien' = [Kategorien EXCEPT ![id] = K] /\ Items' = [Items EXCEPT ![id] = I]
    BY <1>2, <2>1
  <2> HIDE DEF K, U, I
  <2> QED BY <2>1, <2>2, <2>3, <2>6, <2>7, Uebertragen
\* After an item or an extra the branch stays.
<1>5. ASSUME NEW k \in 1..Len(b), NEW u \in 1..Len(b[k]), Weiter,
             ort.art \in {"item", "extra"}, ort.k = k, ort.u = u, Dahinter(ort', k, u),
             zweig' = zweig, Kategorien' = Kategorien
      PROVE  Zweige'
  <2>1. Len(Kategorien[BestellungID])' = Len(K)
    BY <1>2, <1>5
  <2>2. /\ Len(K) = 1 => zweig = IF u = 1 THEN "ersteErste" ELSE "ersteWeitere"
        /\ Len(K) # 1 => zweig = IF u = 1 THEN "spaeterErste" ELSE "spaeterWeitere"
    BY <1>5 DEF FormInv, Zweige
  <2>3. u \in Nat /\ u > 0
    BY <1>2, <1>5
  <2>4. \/ ort'.art \in {"item", "extra"} /\ ort'.u = u
        \/ ort'.art = "unterkategorie" /\ ort'.u = u + 1
        \/ ort'.art \in {"kategorie", "ende"}
    BY <1>5, OrtFelder DEF Dahinter, Ende
  <2> HIDE DEF K
  <2> QED BY <1>5, <2>1, <2>2, <2>3, <2>4 DEF Zweige
<1>6. ASSUME NEW k \in 1..Len(b), NEW u \in 1..Len(b[k]), NEW i \in 1..Len(b[k][u]),
             NEW J, AmItem(k, u, i, J)
      PROVE  LadeTyp' /\ FormInv'
  <2>1. /\ Weiter /\ ort = Ort("item", k, u, i, 0) /\ ort' = Folgender(b, ort)
        /\ Items' = [Items EXCEPT ![id] = J] /\ ItemHinzu(k, u, i, K, U, I, J)
        /\ zweig' = zweig /\ Kategorien' = Kategorien
        /\ Unterkategorien' = Unterkategorien
    BY <1>6 DEF AmItem
  <2>2. ort.art = "item" /\ ort.k = k /\ ort.u = u /\ ort.i = i
    BY <2>1, OrtFelder
  <2>3. GueltigerOrt(b, ort') /\ Dahinter(ort', k, u)
    BY <1>2, <2>1, FolgenderGueltig
  <2>4. k \in Nat /\ u \in Nat /\ i \in Nat /\ u > 0 /\ i > 0
    BY <1>2, <2>1
  <2>5. Reihen(K, U, J) /\ Ruhe(k, u, K, U, J)
    BY <1>2, <2>1, <2>4, HinzuRuhe
  <2>6. Form(ort', K, U, J)
    BY <2>3, <2>4, <2>5, RuheForm
  <2>7. Zweige'
    BY <1>5, <2>1, <2>2, <2>3
  <2>8. Kategorien' = [Kategorien EXCEPT ![id] = K]
        /\ Unterkategorien' = [Unterkategorien EXCEPT ![id] = U]
    BY <1>2, <2>1
  <2> HIDE DEF K, U, I
  <2> QED BY <2>1, <2>3, <2>5, <2>6, <2>7, <2>8, Uebertragen
<1>7. ASSUME NEW k \in 1..Len(b), NEW u \in 1..Len(b[k]), NEW i \in 1..Len(b[k][u]),
             NEW e \in 1..b[k][u][i], AmExtra(k, u, i, e)
      PROVE  LadeTyp' /\ FormInv'
  <2>1. /\ Weiter /\ ort = Ort("extra", k, u, i, e) /\ ort' = Folgender(b, ort)
        /\ zweig' = zweig /\ Kategorien' = Kategorien
        /\ Unterkategorien' = Unterkategorien /\ Items' = Items
    BY <1>7 DEF AmExtra
  <2>2. ort.art = "extra" /\ ort.k = k /\ ort.u = u /\ ort.i = i
    BY <2>1, OrtFelder
  <2>3. GueltigerOrt(b, ort') /\ Dahinter(ort', k, u)
    BY <1>2, <2>1, FolgenderGueltig
  <2>4. k \in Nat /\ u \in Nat /\ i \in Nat /\ u > 0 /\ i > 0
    BY <1>2, <2>1
  <2>5. Reihen(K, U, I) /\ Ruhe(k, u, K, U, I)
    BY <1>2, <2>1, <2>2, <2>4, FormRuhe
  <2>6. Form(ort', K, U, I)
    BY <2>3, <2>4, <2>5, RuheForm
  <2>7. Zweige'
    BY <1>5, <2>1, <2>2, <2>3
  <2>8. Kategorien' = [Kategorien EXCEPT ![id] = K]
        /\ Unterkategorien' = [Unterkategorien EXCEPT ![id] = U]
        /\ Items' = [Items EXCEPT ![id] = I]
    BY <1>2, <2>1
  <2> HIDE DEF K, U, I
  <2> QED BY <2>1, <2>3, <2>5, <2>6, <2>7, <2>8, Uebertragen
<1> QED BY <1>1, <1>3, <1>4, <1>6, <1>7, Schritte

LEMMA GeruestUnveraendert ==
  ASSUME LadeTyp, FormInv, UNCHANGED ladeVars
  PROVE  LadeTyp' /\ FormInv'
<1>1. /\ eingabe' = eingabe /\ gefaltet' = gefaltet /\ ort' = ort /\ zweig' = zweig
      /\ Kategorien' = Kategorien /\ Unterkategorien' = Unterkategorien /\ Items' = Items
  BY DEF ladeVars, woerterbuecher
<1>2. IDs' = IDs /\ BestellungID' = BestellungID /\ Datensatz' = Datensatz
  BY <1>1 DEF IDs, BestellungID, Datensatz
<1>3. LadeTyp'
  BY <1>1, <1>2 DEF LadeTyp, GueltigerOrt
<1>4. Zweige' /\ \A id \in IDs' : Stelle(id)' = Stelle(id)
  BY <1>1, <1>2 DEF FormInv, Zweige, Stelle
<1>5. ASSUME NEW id \in IDs'
      PROVE  Form(Stelle(id), Kategorien[id], Unterkategorien[id], Items[id])'
  <2>1. Form(Stelle(id)', Kategorien'[id], Unterkategorien'[id], Items'[id])
    BY <1>1, <1>2, <1>4 DEF FormInv
  <2> QED BY <2>1 DEF Form, OhneUnter, OhneItem, WeitereOhneItem
<1> QED BY <1>3, <1>4, <1>5 DEF FormInv

(***************************************************************************)
(* An order folded for the first time.                                     *)
(***************************************************************************)

\* After the items of subcategory u of category k.
GenauBis(k, u, b, K, U, I) ==
  /\ Len(K) = k /\ \A p \in DOMAIN K : K[p] = p
  /\ \A p \in DOMAIN U : /\ Len(U[p]) = IF p = k THEN u ELSE Len(b[p])
                         /\ \A q \in DOMAIN U[p] : U[p][q] = q
  /\ \A p \in DOMAIN I : \A q \in DOMAIN I[p] :
       /\ Len(I[p][q]) = Len(b[p][q])
       /\ \A r \in DOMAIN I[p][q] : I[p][q][r] = r

\* The places that can follow.
Danach(b, k, u, o) ==
  \/ \E j, e \in Nat : o = Ort("extra", k, u, j, e)
  \/ u < Len(b[k]) /\ o = Ort("unterkategorie", k, u + 1, 0, 0)
  \/ u = Len(b[k]) /\ k < Len(b) /\ o = Ort("kategorie", k + 1, 0, 0, 0)
  \/ u = Len(b[k]) /\ k = Len(b) /\ o = Ende

LEMMA ExtrasAbDanach ==
  ASSUME NEW b, Baumform(b), NEW k \in 1..Len(b), NEW u \in 1..Len(b[k]),
         NEW i \in Nat, i > 0
  PROVE  Danach(b, k, u, ExtrasAb(b, k, u, i))
<1>1. CASE ExtrasAb(b, k, u, i) = NachUnterkategorie(b, k, u)
  BY <1>1, NachUnterkategorieIst DEF Danach
<1>2. CASE \E j \in i..Len(b[k][u]) : ExtrasAb(b, k, u, i) = Ort("extra", k, u, j, 1)
  <2>1. PICK j \in i..Len(b[k][u]) : ExtrasAb(b, k, u, i) = Ort("extra", k, u, j, 1)
    BY <1>2
  <2>2. Len(b[k][u]) \in Nat
    BY BaumTeile
  <2>3. j \in Nat /\ 1 \in Nat
    BY <2>2
  <2> QED BY <2>1, <2>3 DEF Danach
<1> QED BY <1>1, <1>2, ExtrasAbIst

LEMMA FolgenderDanach ==
  ASSUME NEW b, Baumform(b), NEW k \in 1..Len(b), NEW u \in 1..Len(b[k]),
         NEW i \in 1..Len(b[k][u])
  PROVE  /\ \/ /\ i < Len(b[k][u])
               /\ Folgender(b, Ort("item", k, u, i, 0)) = Ort("item", k, u, i + 1, 0)
            \/ /\ i = Len(b[k][u])
               /\ Danach(b, k, u, Folgender(b, Ort("item", k, u, i, 0)))
         /\ \A e \in 1..b[k][u][i] :
              Danach(b, k, u, Folgender(b, Ort("extra", k, u, i, e)))
<1>1. Len(b[k][u]) \in Nat /\ b[k][u][i] \in Nat /\ i \in Nat /\ i + 1 > 0
  <2>1. Len(b[k][u]) \in Nat /\ b[k][u][i] \in Nat
    BY BaumTeile
  <2> QED BY <2>1
<1>2. Danach(b, k, u, ExtrasAb(b, k, u, 1)) /\ Danach(b, k, u, ExtrasAb(b, k, u, i + 1))
  BY <1>1, ExtrasAbDanach
<1>3. i < Len(b[k][u]) \/ i = Len(b[k][u])
  BY <1>1
<1>4. ASSUME NEW e \in 1..b[k][u][i]
      PROVE  Danach(b, k, u, Folgender(b, Ort("extra", k, u, i, e)))
  <2>1. e + 1 \in Nat /\ i \in Nat
    BY <1>1
  <2>2. Danach(b, k, u, Ort("extra", k, u, i, e + 1))
    BY <2>1 DEF Danach
  <2> QED BY <1>2, <2>2, FolgenderIst
<1>5. CASE i < Len(b[k][u])
  BY <1>4, <1>5, FolgenderIst
<1>6. CASE i = Len(b[k][u])
  <2>1. Folgender(b, Ort("item", k, u, i, 0)) = ExtrasAb(b, k, u, 1)
    BY <1>1, <1>6, FolgenderIst
  <2> QED BY <1>2, <1>4, <1>6, <2>1
<1> QED BY <1>3, <1>5, <1>6

LEMMA GenauDanach ==
  ASSUME NEW b, Baumform(b), NEW k \in 1..Len(b), NEW u \in 1..Len(b[k]),
         NEW K, NEW U, NEW I, Reihen(K, U, I), Len(U) = Len(K),
         GenauBis(k, u, b, K, U, I), NEW o, Danach(b, k, u, o)
  PROVE  Genau(o, b, K, U, I)
<1>1. k \in Nat /\ k > 0 /\ u \in Nat /\ Len(b) \in Nat /\ Len(b[k]) \in Nat
  BY BaumTeile
<1>2. DOMAIN U = 1..k
  BY DEF Reihen, GenauBis
<1>3. CASE \E j, e \in Nat : o = Ort("extra", k, u, j, e)
  <2>1. o.art = "extra" /\ o.k = k /\ o.u = u
    BY <1>3, OrtFelder
  <2> QED BY <2>1 DEF Genau, GenauBis
<1>4. CASE u < Len(b[k]) /\ o = Ort("unterkategorie", k, u + 1, 0, 0)
  <2>1. o.art = "unterkategorie" /\ o.k = k /\ o.u = u + 1 /\ (u + 1) - 1 = u
    BY <1>1, <1>4, OrtFelder
  <2> QED BY <2>1 DEF Genau, GenauBis
<1>5. CASE u = Len(b[k]) /\ k < Len(b) /\ o = Ort("kategorie", k + 1, 0, 0, 0)
  <2>1. o.art = "kategorie" /\ o.k = k + 1 /\ (k + 1) - 1 = k
    BY <1>1, <1>5, OrtFelder
  <2>2. \A p \in DOMAIN U : p # o.k /\ Len(U[p]) = Len(b[p])
    BY <1>1, <1>2, <1>5, <2>1 DEF GenauBis
  <2> QED BY <2>1, <2>2 DEF Genau, GenauBis
<1>6. CASE u = Len(b[k]) /\ k = Len(b) /\ o = Ende
  <2>1. o.art = "ende" /\ o.k = 0
    BY <1>6, OrtFelder DEF Ende
  <2>2. \A p \in DOMAIN U : p # o.k /\ Len(U[p]) = Len(b[p])
    BY <1>1, <1>2, <1>6, <2>1 DEF GenauBis
  <2> QED BY <1>6, <2>1, <2>2 DEF Genau, GenauBis
<1> QED BY <1>3, <1>4, <1>5, <1>6 DEF Danach

LEMMA GenauKategorie ==
  ASSUME NEW b, Baumform(b), NEW k \in 1..Len(b), NEW K, NEW U, NEW I, Reihen(K, U, I),
         Len(U) = Len(K), Genau(Ort("kategorie", k, 0, 0, 0), b, K, U, I)
  PROVE  Genau(Ort("unterkategorie", k, 1, 0, 0), b, Append(K, k), U, I)
<1> DEFINE o == Ort("kategorie", k, 0, 0, 0)
           x == Ort("unterkategorie", k, 1, 0, 0)
           L == Append(K, k)
<1>1. o.art = "kategorie" /\ o.k = k /\ x.art = "unterkategorie" /\ x.k = k /\ x.u = 1
  BY OrtFelder
<1>2. Genau(o, b, K, U, I) /\ k \in Nat
  BY BaumTeile
<1> HIDE DEF o, x
<1>3. Len(K) = k - 1 /\ \A p \in DOMAIN K : K[p] = p
  BY <1>1, <1>2 DEF Genau
<1>4. Len(L) = k /\ \A p \in DOMAIN L : L[p] = p
  BY <1>2, <1>3 DEF Reihen
<1>5. \A p \in DOMAIN U : p # k
  BY <1>2, <1>3 DEF Reihen
<1>6. Genau(x, b, L, U, I)
  <2> HIDE DEF L
  <2> QED BY <1>1, <1>2, <1>4, <1>5 DEF Genau
<1> QED BY <1>6 DEF x

LEMMA GenauUnterkategorie ==
  ASSUME NEW b, Baumform(b), NEW k \in 1..Len(b), NEW u \in 1..Len(b[k]),
         NEW K, NEW U, NEW I, NEW V, Reihen(K, U, I), NEW o, NEW x,
         o = Ort("unterkategorie", k, u, 0, 0), x = Ort("item", k, u, 1, 0),
         Form(o, K, U, I), Genau(o, b, K, U, I),
         u = 1 => NeueErste(U, V), u > 1 => NeueWeitere(u, U, V, IndexOf(K, k))
  PROVE  Genau(x, b, K, V, I)
<1>1. o.art = "unterkategorie" /\ o.k = k /\ o.u = u /\ x.art = "item" /\ x.k = k
      /\ x.u = u /\ x.i = 1
  BY OrtFelder
<1>2. k \in Nat /\ k > 0 /\ u \in Nat /\ u > 0
  BY BaumTeile
<1>3. Len(K) = k /\ \A p \in DOMAIN K : K[p] = p
  BY <1>1 DEF Genau
<1>4. /\ \A p \in DOMAIN U : /\ Len(U[p]) = IF p # k THEN Len(b[p]) ELSE u - 1
                             /\ \A q \in DOMAIN U[p] : U[p][q] = q
      /\ \A p \in DOMAIN I : \A q \in DOMAIN I[p] :
           /\ Len(I[p][q]) = Len(b[p][q])
           /\ \A r \in DOMAIN I[p][q] : I[p][q][r] = r
  BY <1>1 DEF Genau
<1>5. /\ DOMAIN K = 1..k /\ DOMAIN U = 1..Len(U) /\ Len(U) \in Nat
      /\ DOMAIN I = 1..Len(I) /\ Len(I) \in Nat
      /\ \A p \in DOMAIN U : U[p] \in Seq(Nat)
      /\ \A p \in DOMAIN I : I[p] \in Seq(Seq(Nat))
  BY <1>3 DEF Reihen
<1>6. IndexOf(K, k) = k
  <2>1. k \in DOMAIN K /\ K[k] = k
    BY <1>2, <1>3, <1>5
  <2>2. IndexOf(K, k) \in DOMAIN K /\ K[IndexOf(K, k)] = k
    BY <2>1, IndexOfIst DEF Reihen
  <2> QED BY <1>3, <2>2
<1>7. ASSUME \A p \in DOMAIN V : /\ Len(V[p]) = IF p # k THEN Len(b[p]) ELSE u
                                 /\ \A q \in DOMAIN V[p] : V[p][q] = q,
             \A p \in DOMAIN I : \A q \in DOMAIN I[p] : ~(p = k /\ q = u)
      PROVE  Genau(x, b, K, V, I)
  <2>1. \A p \in DOMAIN I : \A q \in DOMAIN I[p] :
           /\ Len(I[p][q]) = IF x.art = "item" /\ p = x.k /\ q = x.u THEN x.i - 1
                             ELSE Len(b[p][q])
           /\ \A r \in DOMAIN I[p][q] : I[p][q][r] = r
    BY <1>1, <1>4, <1>7
  <2>2. Len(K) = CASE x.art = "ende" -> Len(b)
                [] x.art = "kategorie" -> x.k - 1
                [] OTHER -> x.k
    BY <1>1, <1>3
  <2>3. \A p \in DOMAIN V :
       /\ Len(V[p]) = IF p # x.k THEN Len(b[p])
                      ELSE IF x.art = "unterkategorie" THEN x.u - 1 ELSE x.u
       /\ \A q \in DOMAIN V[p] : V[p][q] = q
    BY <1>1, <1>7
  <2> QED BY <1>3, <2>1, <2>2, <2>3 DEF Genau
<1>8. CASE u = 1
  <2> DEFINE y == <<1>>
             S == Seq(Nat)
  <2>1. OhneUnter(o) /\ OhneItem(o)
    BY <1>1, <1>8 DEF OhneUnter, OhneItem
  <2>2. Len(U) = k - 1 /\ Len(I) = k - 1
    BY <1>2, <1>3, <2>1 DEF Form, Eins
  <2>3. V = Append(U, y) /\ y \in S /\ U \in Seq(S) /\ Len(y) = 1 /\ y[1] = 1
        /\ DOMAIN y = 1..1
    BY <1>8 DEF NeueErste, Reihen
  <2>4. /\ DOMAIN V = 1..k /\ V[k] = y /\ \A p \in DOMAIN U : V[p] = U[p]
    <3> HIDE DEF y, S
    <3>1. DOMAIN V = 1..(Len(U) + 1) /\ V[Len(U) + 1] = y
          /\ \A p \in DOMAIN U : V[p] = U[p]
      BY <2>3, Angehaengt
    <3> QED BY <1>2, <2>2, <3>1
  <2>5. ASSUME NEW p \in DOMAIN V
        PROVE  /\ Len(V[p]) = IF p # k THEN Len(b[p]) ELSE u
               /\ \A q \in DOMAIN V[p] : V[p][q] = q
    <3>1. CASE p = k
      <4> HIDE DEF y
      <4> QED BY <1>8, <2>3, <2>4, <3>1
    <3>2. CASE p # k
      <4>1. p \in DOMAIN U
        BY <1>2, <1>5, <2>2, <2>4, <3>2
      <4> QED BY <1>4, <2>4, <3>2, <4>1
    <3> QED BY <3>1, <3>2
  <2>6. \A p \in DOMAIN I : p # k
    BY <1>2, <1>5, <2>2
  <2> QED BY <1>7, <2>5, <2>6
<1>9. CASE u > 1
  <2> DEFINE y == Append(U[k], u)
             S == Seq(Nat)
  <2>1. ~OhneUnter(o) /\ ~OhneItem(o) /\ ~WeitereOhneItem(o)
    BY <1>1, <1>2, <1>9 DEF OhneUnter, OhneItem, WeitereOhneItem
  <2>2. Len(U) = k /\ Len(I) = k
    BY <1>2, <1>3, <2>1 DEF Form, Eins
  <2>3. k \in DOMAIN U /\ V = [U EXCEPT ![k] = y] /\ U \in Seq(S) /\ y \in S
    BY <1>2, <1>5, <1>6, <1>9, <2>2 DEF NeueWeitere, Reihen
  <2>4. Len(U[k]) = u - 1 /\ U[k] \in Seq(Nat) /\ \A q \in DOMAIN U[k] : U[k][q] = q
    BY <1>4, <1>5, <2>3
  <2>5. Len(y) = u /\ \A q \in DOMAIN y : y[q] = q
    BY <1>2, <2>4, SMTT(30)
  <2>6. DOMAIN V = DOMAIN U /\ V[k] = y /\ \A p \in DOMAIN U : p # k => V[p] = U[p]
    <3> HIDE DEF y, S
    <3> QED BY <2>3, Ersetzt
  <2>7. ASSUME NEW p \in DOMAIN V
        PROVE  /\ Len(V[p]) = IF p # k THEN Len(b[p]) ELSE u
               /\ \A q \in DOMAIN V[p] : V[p][q] = q
    <3>1. CASE p = k
      <4> HIDE DEF y
      <4> QED BY <2>5, <2>6, <3>1
    <3>2. CASE p # k
      BY <1>4, <2>6, <3>2
    <3> QED BY <3>1, <3>2
  <2>8. Len(I[k]) = u - 1
    <3>1. k \in DOMAIN I
      BY <1>2, <1>5, <2>2
    <3> QED BY <1>2, <2>1, <2>4, <3>1 DEF Form, Eins
  <2>9. \A q \in DOMAIN I[k] : q # u
    <3>1. I[k] \in Seq(Seq(Nat))
      BY <1>2, <1>5, <2>2
    <3> QED BY <1>2, <2>8, <3>1
  <2> QED BY <1>7, <2>7, <2>9
<1> QED BY <1>2, <1>8, <1>9

\* What an item step makes of the arrays of an order folded once: item i is
\* put at its own place.
LEMMA GenauItem ==
  ASSUME NEW b, Baumform(b), NEW k \in 1..Len(b), NEW u \in 1..Len(b[k]),
         NEW i \in 1..Len(b[k][u]), NEW K, NEW U, NEW I, NEW J, Reihen(K, U, I), NEW o,
         o = Ort("item", k, u, i, 0), Form(o, K, U, I), Genau(o, b, K, U, I),
         ItemHinzu(k, u, i, K, U, I, J)
  PROVE  /\ Len(K) = k /\ \A p \in DOMAIN K : K[p] = p
         /\ \A p \in DOMAIN U : /\ Len(U[p]) = IF p = k THEN u ELSE Len(b[p])
                                /\ \A q \in DOMAIN U[p] : U[p][q] = q
         /\ \A p \in DOMAIN J : \A q \in DOMAIN J[p] :
              /\ Len(J[p][q]) = IF p = k /\ q = u THEN i ELSE Len(b[p][q])
              /\ \A r \in DOMAIN J[p][q] : J[p][q][r] = r
<1>1. o.art = "item" /\ o.k = k /\ o.u = u /\ o.i = i
  BY OrtFelder
<1>2. k \in Nat /\ u \in Nat /\ u > 0 /\ i \in Nat /\ i > 0
  <2>1. Len(b) \in Nat /\ Len(b[k]) \in Nat /\ Len(b[k][u]) \in Nat
    BY BaumTeile
  <2> QED BY <2>1
<1>3. Len(K) = k /\ \A p \in DOMAIN K : K[p] = p
  BY <1>1 DEF Genau
<1>4. /\ \A p \in DOMAIN U : /\ Len(U[p]) = IF p = k THEN u ELSE Len(b[p])
                             /\ \A q \in DOMAIN U[p] : U[p][q] = q
      /\ \A p \in DOMAIN I : \A q \in DOMAIN I[p] :
           /\ Len(I[p][q]) = IF p = k /\ q = u THEN i - 1 ELSE Len(b[p][q])
           /\ \A r \in DOMAIN I[p][q] : I[p][q][r] = r
  BY <1>1 DEF Genau
<1>5. /\ DOMAIN K = 1..k /\ DOMAIN U = 1..Len(U) /\ Len(U) \in Nat
      /\ DOMAIN I = 1..Len(I) /\ Len(I) \in Nat
      /\ \A p \in DOMAIN U : U[p] \in Seq(Nat)
      /\ \A p \in DOMAIN I : I[p] \in Seq(Seq(Nat))
      /\ \A p \in DOMAIN I : \A q \in DOMAIN I[p] : I[p][q] \in Seq(Nat)
  BY <1>3 DEF Reihen
<1> DEFINE Gut(p, q, s) == /\ Len(s) = IF p = k /\ q = u THEN i ELSE Len(b[p][q])
                           /\ \A r \in DOMAIN s : s[r] = r
<1> SUFFICES \A p \in DOMAIN J : \A q \in DOMAIN J[p] : Gut(p, q, J[p][q])
  BY <1>3, <1>4
<1>6. CASE NeueKategorie(k, u, i, K, U, I, J)
  <2> DEFINE y == << <<i>> >>
             S == Seq(Seq(Nat))
  <2>1. /\ u = 1 /\ i = 1 /\ J = Append(I, y) /\ y \in S /\ I \in Seq(S)
        /\ Len(K) = Len(I) + 1 /\ K[Len(I) + 1] = k
        /\ DOMAIN y = 1..1 /\ y[1] = <<1>>
    BY <1>2, <1>6 DEF NeueKategorie, Reihen
  <2>2. Len(I) + 1 = k
    BY <1>3, <2>1
  <2>3. /\ DOMAIN J = 1..k /\ J[k] = y /\ \A p \in DOMAIN I : J[p] = I[p]
    <3> HIDE DEF y, S
    <3>1. DOMAIN J = 1..(Len(I) + 1) /\ J[Len(I) + 1] = y
          /\ \A p \in DOMAIN I : J[p] = I[p]
      BY <2>1, Angehaengt
    <3> QED BY <2>2, <3>1
  <2>4. ASSUME NEW p \in DOMAIN J, NEW q \in DOMAIN J[p] PROVE Gut(p, q, J[p][q])
    <3>1. CASE p = k
      <4>1. q = 1 /\ J[p][q] = <<1>>
        <5> HIDE DEF y
        <5> QED BY <2>1, <2>3, <3>1
      <4>2. Len(<<1>>) = 1 /\ \A r \in DOMAIN <<1>> : <<1>>[r] = r
        OBVIOUS
      <4> QED BY <2>1, <3>1, <4>1, <4>2
    <3>2. CASE p # k
      <4>1. p \in DOMAIN I /\ J[p] = I[p]
        BY <1>2, <1>5, <2>2, <2>3, <3>2
      <4> QED BY <1>4, <3>2, <4>1
    <3> QED BY <3>1, <3>2
  <2> QED BY <2>4
<1>7. ASSUME NEW p1 \in DOMAIN I, NeueUnterkategorie(k, u, i, K, U, I, J, p1)
      PROVE  \A p \in DOMAIN J : \A q \in DOMAIN J[p] : Gut(p, q, J[p][q])
  <2> DEFINE z == <<i>>
             y == Append(I[k], z)
             S == Seq(Seq(Nat))
             T == Seq(Nat)
  <2>1. p1 = k /\ i = 1
    BY <1>3, <1>7 DEF NeueUnterkategorie
  <2>2. /\ k \in DOMAIN I /\ J = [I EXCEPT ![k] = y] /\ I \in Seq(S) /\ I[k] \in Seq(T)
        /\ z \in T /\ z = <<1>>
        /\ Len(U[k]) = Len(I[k]) + 1 /\ U[k][Len(I[k]) + 1] = u
    BY <1>2, <1>7, <2>1 DEF NeueUnterkategorie, Reihen
  <2>3. Len(I[k]) + 1 = u
    <3>1. k \in DOMAIN U
      <4>1. Len(U) = Len(K)
        BY <1>1, <1>3, <1>2 DEF Form, OhneUnter, Eins
      <4> QED BY <1>2, <1>3, <1>5, <4>1
    <3>2. Len(I[k]) + 1 \in DOMAIN U[k]
      BY <1>5, <2>2, <3>1
    <3> QED BY <1>4, <2>2, <3>1, <3>2
  <2>4. /\ y \in Seq(T) /\ DOMAIN y = 1..u /\ y[u] = z
        /\ \A q \in DOMAIN I[k] : y[q] = I[k][q]
    <3> HIDE DEF z, T
    <3>1. /\ y \in Seq(T) /\ DOMAIN y = 1..(Len(I[k]) + 1) /\ y[Len(I[k]) + 1] = z
          /\ \A q \in DOMAIN I[k] : y[q] = I[k][q]
      <4>1. I[k] \in Seq(T) /\ z \in T
        BY <2>2
      <4> QED BY <4>1, Angehaengt
    <3> QED BY <2>3, <3>1
  <2>5. DOMAIN J = DOMAIN I /\ J[k] = y /\ \A p \in DOMAIN I : p # k => J[p] = I[p]
    <3>1. y \in S
      BY <2>4
    <3> HIDE DEF y, S
    <3> QED BY <2>2, <3>1, Ersetzt
  <2>6. ASSUME NEW p \in DOMAIN J, NEW q \in DOMAIN J[p] PROVE Gut(p, q, J[p][q])
    <3>1. CASE p = k /\ q = u
      <4>1. J[p][q] = <<1>>
        <5> HIDE DEF y, z
        <5> QED BY <2>2, <2>4, <2>5, <3>1
      <4>2. Len(<<1>>) = 1 /\ \A r \in DOMAIN <<1>> : <<1>>[r] = r
        OBVIOUS
      <4> QED BY <2>1, <3>1, <4>1, <4>2
    <3>2. CASE p = k /\ q # u
      <4>1. q \in DOMAIN I[k] /\ J[p][q] = I[k][q]
        <5>1. DOMAIN I[k] = 1..(u - 1)
          BY <1>2, <2>2, <2>3
        <5> HIDE DEF y
        <5> QED BY <1>2, <2>4, <2>5, <3>2, <5>1
      <4>2. /\ Len(I[k][q]) = Len(b[k][q])
            /\ \A r \in DOMAIN I[k][q] : I[k][q][r] = r
        BY <1>4, <2>2, <3>2, <4>1
      <4> QED BY <3>2, <4>1, <4>2
    <3>3. CASE p # k
      BY <1>4, <2>5, <3>3
    <3> QED BY <3>1, <3>2, <3>3
  <2> QED BY <2>6
<1>8. ASSUME NEW p1 \in DOMAIN I, NEW q1 \in DOMAIN I[p1],
             NeuesItem(k, u, i, K, U, I, J, p1, q1)
      PROVE  \A p \in DOMAIN J : \A q \in DOMAIN J[p] : Gut(p, q, J[p][q])
  <2> DEFINE z == Append(I[k][u], i)
             y == [I[k] EXCEPT ![u] = z]
             S == Seq(Seq(Nat))
             T == Seq(Nat)
  <2>1. p1 = k
    BY <1>3, <1>8 DEF NeuesItem
  <2>2. q1 = u
    <3>1. k \in DOMAIN U
      <4>1. Len(U) = Len(K)
        BY <1>1, <1>3, <1>2 DEF Form, OhneUnter, Eins
      <4>2. k \in DOMAIN K
        BY <1>8, <2>1 DEF NeuesItem
      <4> QED BY <1>2, <1>3, <1>5, <4>1, <4>2
    <3> QED BY <1>4, <1>8, <2>1, <3>1 DEF NeuesItem
  <2>3. /\ k \in DOMAIN I /\ u \in DOMAIN I[k] /\ J = [I EXCEPT ![k] = y]
        /\ I \in Seq(S) /\ I[k] \in Seq(T) /\ I[k][u] \in T
    <3>1. k \in DOMAIN I /\ u \in DOMAIN I[k] /\ J = [I EXCEPT ![k] = y]
      BY <1>8, <2>1, <2>2 DEF NeuesItem
    <3>2. I \in Seq(S)
      BY DEF Reihen
    <3> QED BY <1>5, <3>1, <3>2
  <2>4. Len(I[k][u]) = i - 1 /\ \A r \in DOMAIN I[k][u] : I[k][u][r] = r
    BY <1>4, <2>3
  <2>5. z \in T /\ Len(z) = i /\ \A r \in DOMAIN z : z[r] = r
    <3> DEFINE a == I[k][u]
    <3>1. a \in Seq(Nat) /\ Len(a) = i - 1 /\ \A r \in DOMAIN a : a[r] = r
      BY <2>3, <2>4
    <3> HIDE DEF a
    <3>2. Append(a, i) \in Seq(Nat) /\ Len(Append(a, i)) = i
          /\ \A r \in DOMAIN Append(a, i) : Append(a, i)[r] = r
      BY <1>2, <3>1
    <3> QED BY <3>2 DEF a
  <2>6. /\ y \in Seq(T) /\ DOMAIN y = DOMAIN I[k] /\ y[u] = z
        /\ \A q \in DOMAIN I[k] : q # u => y[q] = I[k][q]
    <3> HIDE DEF z, T
    <3> QED BY <2>3, <2>5, Ersetzt
  <2>7. DOMAIN J = DOMAIN I /\ J[k] = y /\ \A p \in DOMAIN I : p # k => J[p] = I[p]
    <3>1. y \in S
      BY <2>6
    <3> HIDE DEF y, S
    <3> QED BY <2>3, <3>1, Ersetzt
  <2>8. ASSUME NEW p \in DOMAIN J, NEW q \in DOMAIN J[p] PROVE Gut(p, q, J[p][q])
    <3> HIDE DEF y, z
    <3>1. CASE p = k /\ q = u
      BY <2>5, <2>6, <2>7, <3>1
    <3>2. CASE p = k /\ q # u
      <4>1. q \in DOMAIN I[k] /\ J[p][q] = I[k][q]
        BY <2>6, <2>7, <3>2
      <4> QED BY <1>4, <2>3, <3>2, <4>1, ZenonT(30)
    <3>3. CASE p # k
      BY <1>4, <2>7, <3>3
    <3> QED BY <3>1, <3>2, <3>3
  <2> QED BY <2>8
<1> QED BY <1>6, <1>7, <1>8 DEF ItemHinzu

LEMMA GleicherBaum ==
  ASSUME LadeTyp, gefaltet > 0
  PROVE  /\ Faltungen(BestellungID) # {}
         /\ \A n \in DOMAIN eingabe :
              eingabe[n].id = BestellungID => eingabe[n].baum = Datensatz
<1>1. gefaltet \in DOMAIN eingabe /\ gefaltet \in 1..gefaltet
  BY DatensatzForm DEF LadeTyp
<1>2. gefaltet \in Faltungen(BestellungID)
  BY <1>1 DEF Faltungen, BestellungID
<1>3. \A n, m \in DOMAIN eingabe :
        eingabe[m].id = eingabe[n].id => eingabe[m].baum = eingabe[n].baum
  BY EingabenAnnahme DEF LadeTyp
<1> QED BY <1>1, <1>2, <1>3 DEF BestellungID, Datensatz

LEMMA FaltungenWeiter ==
  ASSUME eingabe' = eingabe, gefaltet' = gefaltet
  PROVE  \A id : Faltungen(id)' = Faltungen(id) /\ (Einmal(id)' <=> Einmal(id))
BY DEF Faltungen, Einmal

LEMMA FaltungenAufruf ==
  ASSUME LadeTyp, Aufruf, NEW d, d = BestellungID'
  PROVE  /\ \A id : Faltungen(id)' = Faltungen(id) \cup
              (IF id = d THEN {gefaltet + 1} ELSE {})
         /\ \A id : gefaltet + 1 \notin Faltungen(id)
         /\ Einmal(d)' => Faltungen(d) = {}
         /\ \A id : id # d => (Einmal(id)' <=> Einmal(id))
<1>1. /\ gefaltet \in Nat /\ gefaltet' = gefaltet + 1 /\ eingabe' = eingabe
  BY DEF LadeTyp, Aufruf
<1>2. 1..(gefaltet + 1) = 1..gefaltet \cup {gefaltet + 1} /\ gefaltet + 1 \notin 1..gefaltet
  BY <1>1
<1>3. d = eingabe[gefaltet + 1].id
  BY <1>1 DEF BestellungID
<1>4. \A id : Faltungen(id)' = Faltungen(id) \cup
              (IF id = d THEN {gefaltet + 1} ELSE {})
  BY <1>1, <1>2, <1>3 DEF Faltungen
<1>5. \A id : gefaltet + 1 \notin Faltungen(id)
  BY <1>2 DEF Faltungen
<1>6. ASSUME \A n, m \in Faltungen(d) \cup {gefaltet + 1} : n = m
      PROVE  Faltungen(d) = {}
  BY <1>5, <1>6
<1>7. \A id : id # d => (Einmal(id)' <=> Einmal(id))
  BY <1>4 DEF Einmal
<1>8. Einmal(d)' => Faltungen(d) = {}
  BY <1>4, <1>6 DEF Einmal
<1> QED BY <1>4, <1>5, <1>7, <1>8

LEMMA GenauInit == LadeInit => GenauInv
<1> SUFFICES ASSUME LadeInit, NEW id \in IDs
             PROVE  /\ Kategorien[id] = <<>> /\ Unterkategorien[id] = <<>>
                    /\ Items[id] = <<>> /\ Faltungen(id) = {}
  BY DEF GenauInv
<1> QED BY DEF Faltungen, LadeInit

LEMMA GenauAufruf ==
  ASSUME LadeTyp, GenauInv, Aufruf
  PROVE  GenauInv'
<1>1. /\ eingabe' = eingabe /\ ort' = Ort("kategorie", 1, 0, 0, 0) /\ ort = Ende
      /\ Kategorien' = Kategorien /\ Unterkategorien' = Unterkategorien
      /\ Items' = Items /\ gefaltet' > 0 /\ IDs' = IDs
  BY DEF Aufruf, LadeTyp, IDs
<1>2. ASSUME NEW id \in IDs, NEW n \in DOMAIN eingabe, eingabe[n].id = id
      PROVE  /\ Faltungen(id)' = {} =>
                  Kategorien[id] = <<>> /\ Unterkategorien[id] = <<>> /\ Items[id] = <<>>
             /\ Faltungen(id)' # {} /\ Einmal(id)' =>
                  Genau(Stelle(id)', eingabe[n].baum, Kategorien[id],
                        Unterkategorien[id], Items[id])
  <2>1. /\ Faltungen(id) = {} =>
             Kategorien[id] = <<>> /\ Unterkategorien[id] = <<>> /\ Items[id] = <<>>
        /\ Faltungen(id) # {} /\ Einmal(id) =>
             Genau(Stelle(id), eingabe[n].baum, Kategorien[id], Unterkategorien[id],
                   Items[id])
    BY <1>2 DEF GenauInv
  <2>2. CASE id = BestellungID'
    <3>1. Faltungen(id)' # {} /\ (Einmal(id)' => Faltungen(id) = {})
      BY <2>2, FaltungenAufruf
    <3>2. Stelle(id)' = Ort("kategorie", 1, 0, 0, 0)
      BY <1>1, <2>2 DEF Stelle
    <3>3. ASSUME NEW o, o = Ort("kategorie", 1, 0, 0, 0)
          PROVE  Genau(o, eingabe[n].baum, <<>>, <<>>, <<>>)
      <4>1. o.art = "kategorie" /\ o.k = 1
        BY <3>3, OrtFelder
      <4> QED BY <4>1 DEF Genau
    <3> QED BY <2>1, <3>1, <3>2, <3>3
  <2>3. CASE id # BestellungID'
    <3>1. Faltungen(id)' = Faltungen(id) /\ (Einmal(id)' <=> Einmal(id))
      <4>1. PICK d : d = BestellungID'
        OBVIOUS
      <4> QED BY <2>3, <4>1, FaltungenAufruf
    <3>2. Stelle(id)' = Ende /\ Stelle(id) = Ende
      BY <1>1, <2>3 DEF Stelle
    <3> QED BY <2>1, <3>1, <3>2
  <2> QED BY <2>2, <2>3
<1>3. ASSUME NEW id \in IDs', NEW n \in DOMAIN eingabe', eingabe'[n].id = id
      PROVE  /\ Faltungen(id)' = {} =>
                  Kategorien'[id] = <<>> /\ Unterkategorien'[id] = <<>> /\ Items'[id] = <<>>
             /\ Faltungen(id)' # {} /\ Einmal(id)' =>
                  Genau(Stelle(id)', eingabe'[n].baum, Kategorien'[id],
                        Unterkategorien'[id], Items'[id])
  BY <1>1, <1>2, <1>3
<1> QED BY <1>3 DEF GenauInv, Genau

LEMMA GenauUebertragen ==
  ASSUME LadeTyp, GenauInv, Weiter, NEW L, NEW V, NEW J,
         Kategorien' = [Kategorien EXCEPT ![BestellungID] = L],
         Unterkategorien' = [Unterkategorien EXCEPT ![BestellungID] = V],
         Items' = [Items EXCEPT ![BestellungID] = J],
         Genau(ort, Datensatz, Kategorien[BestellungID], Unterkategorien[BestellungID],
               Items[BestellungID])
           => Genau(ort', Datensatz, L, V, J)
  PROVE  GenauInv'
<1>1. BestellungID \in IDs /\ gefaltet > 0 /\ eingabe' = eingabe
  BY DatensatzForm DEF Weiter
<1>2. /\ IDs' = IDs /\ \A x : Stelle(x)' = IF x = BestellungID THEN ort' ELSE Ende
      /\ \A x : Stelle(x) = IF x = BestellungID THEN ort ELSE Ende
  BY WeiterStelle
<1>3. \A x : Faltungen(x)' = Faltungen(x) /\ (Einmal(x)' <=> Einmal(x))
  BY FaltungenWeiter DEF Weiter
<1>4. /\ Kategorien'[BestellungID] = L /\ Unterkategorien'[BestellungID] = V
      /\ Items'[BestellungID] = J
      /\ \A x \in IDs : x # BestellungID => /\ Kategorien'[x] = Kategorien[x]
                                            /\ Unterkategorien'[x] = Unterkategorien[x]
                                            /\ Items'[x] = Items[x]
  BY <1>1 DEF LadeTyp
<1>5. ASSUME NEW id \in IDs', NEW n \in DOMAIN eingabe', eingabe'[n].id = id
      PROVE  /\ Faltungen(id)' = {} =>
                  Kategorien'[id] = <<>> /\ Unterkategorien'[id] = <<>> /\ Items'[id] = <<>>
             /\ Faltungen(id)' # {} /\ Einmal(id)' =>
                  Genau(Stelle(id)', eingabe'[n].baum, Kategorien'[id],
                        Unterkategorien'[id], Items'[id])
  <2>1. /\ Faltungen(id) = {} =>
             Kategorien[id] = <<>> /\ Unterkategorien[id] = <<>> /\ Items[id] = <<>>
        /\ Faltungen(id) # {} /\ Einmal(id) =>
             Genau(Stelle(id), eingabe[n].baum, Kategorien[id], Unterkategorien[id],
                   Items[id])
    BY <1>1, <1>2, <1>5 DEF GenauInv
  <2>2. CASE id = BestellungID
    <3>1. Faltungen(id) # {} /\ eingabe[n].baum = Datensatz
      BY <1>1, <1>5, <2>2, GleicherBaum
    <3>2. Einmal(id) => Genau(ort', Datensatz, L, V, J)
      BY <1>2, <2>1, <2>2, <3>1
    <3> QED BY <1>1, <1>2, <1>3, <1>4, <2>2, <3>1, <3>2
  <2>3. CASE id # BestellungID
    BY <1>1, <1>2, <1>3, <1>4, <2>1, <2>3
  <2> QED BY <2>2, <2>3
<1> QED BY <1>5 DEF GenauInv, Genau

LEMMA GleichViele ==
  ASSUME NEW o, NEW K, NEW U, NEW I, Reihen(K, U, I), Form(o, K, U, I),
         o.art # "unterkategorie"
  PROVE  Len(U) = Len(K)
<1>1. Len(K) \in Nat /\ ~OhneUnter(o)
  BY DEF Reihen, OhneUnter
<1>2. Len(U) = Len(K) - Eins(OhneUnter(o))
  BY DEF Form
<1> QED BY <1>1, <1>2 DEF Eins

LEMMA GenauSchritt ==
  ASSUME LadeTyp, FormInv, GenauInv, LadeNext
  PROVE  GenauInv'
<1> DEFINE id == BestellungID
           K == Kategorien[id]
           U == Unterkategorien[id]
           I == Items[id]
           b == Datensatz
<1>1. CASE Aufruf
  BY <1>1, GenauAufruf
<1>2. ASSUME Weiter
      PROVE  /\ id \in IDs /\ Baumform(b) /\ Reihen(K, U, I) /\ Form(ort, K, U, I)
             /\ Kategorien = [Kategorien EXCEPT ![id] = K]
             /\ Unterkategorien = [Unterkategorien EXCEPT ![id] = U]
             /\ Items = [Items EXCEPT ![id] = I]
  <2>1. id \in IDs /\ gefaltet > 0 /\ Baumform(b)
    BY <1>2, DatensatzForm DEF Weiter
  <2>2. Reihen(K, U, I) /\ Form(ort, K, U, I)
    BY <2>1, ReihenTyp, Eigene
  <2>3. /\ Kategorien = [Kategorien EXCEPT ![id] = K]
        /\ Unterkategorien = [Unterkategorien EXCEPT ![id] = U]
        /\ Items = [Items EXCEPT ![id] = I]
    BY <2>1 DEF LadeTyp
  <2> QED BY <2>1, <2>2, <2>3
<1>3. ASSUME NEW k \in 1..Len(b), AmKategorie(k)
      PROVE  GenauInv'
  <2>1. Weiter /\ ort = Ort("kategorie", k, 0, 0, 0)
        /\ ort' = Ort("unterkategorie", k, 1, 0, 0)
        /\ Kategorien' = [Kategorien EXCEPT ![id] = Append(K, k)]
        /\ Unterkategorien' = Unterkategorien /\ Items' = Items
    BY <1>3 DEF AmKategorie
  <2>2. Len(U) = Len(K)
    <3>1. ort.art = "kategorie"
      BY <2>1, OrtFelder
    <3> QED BY <1>2, <2>1, <3>1, GleichViele
  <2>3. Genau(ort, b, K, U, I) => Genau(ort', b, Append(K, k), U, I)
    BY <1>2, <2>1, <2>2, GenauKategorie
  <2>4. /\ Unterkategorien' = [Unterkategorien EXCEPT ![id] = U]
        /\ Items' = [Items EXCEPT ![id] = I]
    BY <1>2, <2>1
  <2> QED BY <2>1, <2>3, <2>4, GenauUebertragen
<1>4. ASSUME NEW k \in 1..Len(b), NEW u \in 1..Len(b[k]), NEW V, AmUnterkategorie(k, u, V)
      PROVE  GenauInv'
  <2>1. /\ Weiter /\ ort = Ort("unterkategorie", k, u, 0, 0)
        /\ ort' = Ort("item", k, u, 1, 0)
        /\ Unterkategorien' = [Unterkategorien EXCEPT ![id] = V]
        /\ u = 1 => NeueErste(U, V)
        /\ u > 1 => NeueWeitere(u, U, V, IndexOf(K, k))
        /\ Kategorien' = Kategorien /\ Items' = Items
    BY <1>4 DEF AmUnterkategorie
  <2>2. Genau(ort, b, K, U, I) => Genau(ort', b, K, V, I)
    BY <1>2, <2>1, GenauUnterkategorie
  <2>3. Kategorien' = [Kategorien EXCEPT ![id] = K] /\ Items' = [Items EXCEPT ![id] = I]
    BY <1>2, <2>1
  <2> QED BY <2>1, <2>2, <2>3, GenauUebertragen
<1>5. ASSUME NEW k \in 1..Len(b), NEW u \in 1..Len(b[k]), NEW i \in 1..Len(b[k][u]),
             NEW J, AmItem(k, u, i, J)
      PROVE  GenauInv'
  <2>1. /\ Weiter /\ ort = Ort("item", k, u, i, 0) /\ ort' = Folgender(b, ort)
        /\ Items' = [Items EXCEPT ![id] = J] /\ ItemHinzu(k, u, i, K, U, I, J)
        /\ Kategorien' = Kategorien /\ Unterkategorien' = Unterkategorien
    BY <1>5 DEF AmItem
  <2>2. k \in Nat /\ u \in Nat /\ i \in Nat /\ u > 0 /\ i > 0
    <3>1. Len(b) \in Nat /\ Len(b[k]) \in Nat /\ Len(b[k][u]) \in Nat
      BY <1>2, <2>1, BaumTeile
    <3> QED BY <3>1
  <2>3. Reihen(K, U, J) /\ Len(U) = Len(K)
    <3>1. Reihen(K, U, J) /\ Ruhe(k, u, K, U, J)
      BY <1>2, <2>1, <2>2, HinzuRuhe
    <3> QED BY <3>1 DEF Ruhe
  <2>4. ASSUME Genau(ort, b, K, U, I)
        PROVE  Genau(ort', b, K, U, J)
    <3>1. /\ Len(K) = k /\ \A p \in DOMAIN K : K[p] = p
          /\ \A p \in DOMAIN U : /\ Len(U[p]) = IF p = k THEN u ELSE Len(b[p])
                                 /\ \A q \in DOMAIN U[p] : U[p][q] = q
          /\ \A p \in DOMAIN J : \A q \in DOMAIN J[p] :
               /\ Len(J[p][q]) = IF p = k /\ q = u THEN i ELSE Len(b[p][q])
               /\ \A r \in DOMAIN J[p][q] : J[p][q][r] = r
      <4> HIDE DEF K, U, I, b
      <4> QED BY <1>2, <2>1, <2>4, GenauItem
    <3>2. CASE ort' = Ort("item", k, u, i + 1, 0)
      <4>1. ort'.art = "item" /\ ort'.k = k /\ ort'.u = u /\ ort'.i - 1 = i
        BY <2>2, <3>2, OrtFelder
      <4> HIDE DEF K, U, I, b
      <4>2. Len(K) = CASE ort'.art = "ende" -> Len(b)
                [] ort'.art = "kategorie" -> ort'.k - 1
                [] OTHER -> ort'.k
        BY <3>1, <4>1
      <4>3. \A p \in DOMAIN U :
              /\ Len(U[p]) = IF p # ort'.k THEN Len(b[p])
                             ELSE IF ort'.art = "unterkategorie" THEN ort'.u - 1 ELSE ort'.u
              /\ \A q \in DOMAIN U[p] : U[p][q] = q
        BY <3>1, <4>1
      <4>4. \A p \in DOMAIN J : \A q \in DOMAIN J[p] :
              /\ Len(J[p][q]) = IF ort'.art = "item" /\ p = ort'.k /\ q = ort'.u
                                THEN ort'.i - 1 ELSE Len(b[p][q])
              /\ \A r \in DOMAIN J[p][q] : J[p][q][r] = r
        BY <3>1, <4>1
      <4> QED BY <3>1, <4>2, <4>3, <4>4 DEF Genau
    <3>3. CASE i = Len(b[k][u]) /\ Danach(b, k, u, ort')
      <4>1. GenauBis(k, u, b, K, U, J)
        <5> HIDE DEF K, U, I, b
        <5> QED BY <3>1, <3>3 DEF GenauBis
      <4> HIDE DEF K, U, I, b
      <4> QED BY <1>2, <2>1, <2>3, <3>3, <4>1, GenauDanach
    <3> QED BY <1>2, <2>1, <3>2, <3>3, FolgenderDanach
  <2>5. /\ Kategorien' = [Kategorien EXCEPT ![id] = K]
        /\ Unterkategorien' = [Unterkategorien EXCEPT ![id] = U]
    BY <1>2, <2>1
  <2> QED BY <2>1, <2>4, <2>5, GenauUebertragen
<1>6. ASSUME NEW k \in 1..Len(b), NEW u \in 1..Len(b[k]), NEW i \in 1..Len(b[k][u]),
             NEW e \in 1..b[k][u][i], AmExtra(k, u, i, e)
      PROVE  GenauInv'
  <2>1. /\ Weiter /\ ort = Ort("extra", k, u, i, e) /\ ort' = Folgender(b, ort)
        /\ Kategorien' = Kategorien
        /\ Unterkategorien' = Unterkategorien /\ Items' = Items
    BY <1>6 DEF AmExtra
  <2>2. ort.art = "extra" /\ ort.k = k /\ ort.u = u /\ ort.i = i
    BY <2>1, OrtFelder
  <2>3. Len(U) = Len(K)
    BY <1>2, <2>1, <2>2, GleichViele
  <2>4. Danach(b, k, u, ort')
    BY <1>2, <2>1, FolgenderDanach
  <2>5. ASSUME Genau(ort, b, K, U, I)
        PROVE  Genau(ort', b, K, U, I)
    <3> HIDE DEF K, U, I, b
    <3>1. GenauBis(k, u, b, K, U, I)
      BY <2>2, <2>5 DEF Genau, GenauBis
    <3> QED BY <1>2, <2>1, <2>3, <2>4, <3>1, GenauDanach
  <2>6. /\ Kategorien' = [Kategorien EXCEPT ![id] = K]
        /\ Unterkategorien' = [Unterkategorien EXCEPT ![id] = U]
        /\ Items' = [Items EXCEPT ![id] = I]
    BY <1>2, <2>1
  <2> QED BY <2>1, <2>5, <2>6, GenauUebertragen
<1> QED BY <1>1, <1>3, <1>4, <1>5, <1>6, Schritte

(***************************************************************************)
(* How often an item stands in the arrays.                                 *)
(***************************************************************************)
Drin(I, p, q, r) == p \in DOMAIN I /\ q \in DOMAIN I[p] /\ r \in DOMAIN I[p][q]

Stellen(K, U, I, k, u, i) ==
  UNION {UNION {{<<p, q, r>> : r \in {r \in DOMAIN I[p][q] : I[p][q][r] = i}} : q \in
    {q \in DOMAIN I[p] : U[p][q] = u}} : p \in {p \in DOMAIN I : K[p] = k}}

LEMMA StellenElement ==
  ASSUME NEW K, NEW U, NEW I, NEW k, NEW u, NEW i, NEW x
  PROVE  x \in Stellen(K, U, I, k, u, i) <=>
           \E p, q, r : /\ Drin(I, p, q, r) /\ x = <<p, q, r>>
                        /\ K[p] = k /\ U[p][q] = u /\ I[p][q][r] = i
<1> DEFINE C(p, q) == {<<p, q, r>> : r \in {r \in DOMAIN I[p][q] : I[p][q][r] = i}}
           B(p) == UNION {C(p, q) : q \in {q \in DOMAIN I[p] : U[p][q] = u}}
<1>1. Stellen(K, U, I, k, u, i) = UNION {B(p) : p \in {p \in DOMAIN I : K[p] = k}}
  BY DEF Stellen
<1>2. \A p, q : x \in C(p, q) <=>
        \E r : r \in DOMAIN I[p][q] /\ I[p][q][r] = i /\ x = <<p, q, r>>
  BY Zenon
<1> HIDE DEF C
<1>3. \A p : x \in B(p) <=> \E q : q \in DOMAIN I[p] /\ U[p][q] = u /\ x \in C(p, q)
  BY Zenon
<1> HIDE DEF B
<1>4. x \in Stellen(K, U, I, k, u, i) <=>
        \E p : p \in DOMAIN I /\ K[p] = k /\ x \in B(p)
  BY <1>1, Zenon
<1> QED BY <1>2, <1>3, <1>4 DEF Drin

\* An item step adds one place, which holds the item.
Dazu(I, J, p, q, r, i) ==
  /\ ~Drin(I, p, q, r) /\ Drin(J, p, q, r) /\ J[p][q][r] = i
  /\ \A a, c, d : Drin(I, a, c, d) => Drin(J, a, c, d) /\ J[a][c][d] = I[a][c][d]
  /\ \A a, c, d : Drin(J, a, c, d) => Drin(I, a, c, d) \/ (a = p /\ c = q /\ d = r)

LEMMA HinzuStelle ==
  ASSUME NEW k \in Nat, NEW u \in Nat, NEW i \in Nat, NEW K, NEW U, NEW I, NEW J,
         Reihen(K, U, I), ItemHinzu(k, u, i, K, U, I, J)
  PROVE  \E p, q, r : Dazu(I, J, p, q, r, i) /\ K[p] = k /\ U[p][q] = u
<1>1. /\ DOMAIN I = 1..Len(I) /\ Len(I) \in Nat
      /\ \A p \in DOMAIN I : I[p] \in Seq(Seq(Nat))
      /\ \A p \in DOMAIN I : \A q \in DOMAIN I[p] : I[p][q] \in Seq(Nat)
  BY DEF Reihen
<1>6. CASE NeueKategorie(k, u, i, K, U, I, J)
  <2> DEFINE y == << <<i>> >>
             S == Seq(Seq(Nat))
             n == Len(I) + 1
  <2>1. /\ u = 1 /\ i = 1 /\ J = Append(I, y) /\ y \in S /\ I \in Seq(S)
        /\ K[n] = k /\ U[n] = <<1>>
        /\ DOMAIN y = 1..1 /\ y[1] = <<1>> /\ DOMAIN y[1] = 1..1 /\ y[1][1] = 1
    BY <1>6 DEF NeueKategorie, Reihen
  <2>2. /\ DOMAIN J = 1..n /\ J[n] = y
        /\ \A p \in DOMAIN I : p \in DOMAIN J /\ J[p] = I[p]
    <3> HIDE DEF y, S
    <3> QED BY <2>1, Angehaengt
  <2>3. n \notin DOMAIN I /\ n \in DOMAIN J /\ \A p \in DOMAIN J : p \in DOMAIN I \/ p = n
    BY <1>1, <2>2
  <2>4. U[n][1] = u
    BY <2>1
  <2> HIDE DEF y, n
  <2>5. Dazu(I, J, n, 1, 1, i)
    BY <2>1, <2>2, <2>3 DEF Dazu, Drin
  <2> QED BY <2>1, <2>4, <2>5
<1>7. ASSUME NEW p \in DOMAIN I, NeueUnterkategorie(k, u, i, K, U, I, J, p)
      PROVE  \E p1, q, r : Dazu(I, J, p1, q, r, i) /\ K[p1] = k /\ U[p1][q] = u
  <2> DEFINE z == <<i>>
             y == Append(I[p], z)
             S == Seq(Seq(Nat))
             T == Seq(Nat)
             n == Len(I[p]) + 1
  <2>1. /\ J = [I EXCEPT ![p] = y] /\ I \in Seq(S) /\ i = 1 /\ K[p] = k /\ U[p][n] = u
    BY <1>7 DEF NeueUnterkategorie, Reihen
  <2>2. z \in T /\ I[p] \in Seq(T) /\ DOMAIN z = 1..1 /\ z[1] = 1
    BY <1>1, <2>1
  <2>3. /\ y \in Seq(T) /\ DOMAIN y = 1..n /\ y[n] = z
        /\ \A q \in DOMAIN I[p] : q \in DOMAIN y /\ y[q] = I[p][q]
    <3> HIDE DEF z, T
    <3> QED BY <2>2, Angehaengt
  <2>4. DOMAIN J = DOMAIN I /\ J[p] = y /\ \A a \in DOMAIN I : a # p => J[a] = I[a]
    <3>1. y \in S
      BY <2>3
    <3> HIDE DEF y, S
    <3> QED BY <2>1, <3>1, Ersetzt
  <2>5. n \notin DOMAIN I[p] /\ n \in DOMAIN y
        /\ \A q \in DOMAIN y : q \in DOMAIN I[p] \/ q = n
    <3>1. DOMAIN I[p] = 1..Len(I[p]) /\ Len(I[p]) \in Nat
      BY <2>2
    <3> HIDE DEF y
    <3> QED BY <2>3, <3>1
  <2> HIDE DEF y, n, z
  <2>6. Dazu(I, J, p, n, 1, i)
    BY <2>1, <2>2, <2>3, <2>4, <2>5, SMTT(30) DEF Dazu, Drin
  <2> QED BY <2>1, <2>6
<1>8. ASSUME NEW p \in DOMAIN I, NEW q \in DOMAIN I[p],
             NeuesItem(k, u, i, K, U, I, J, p, q)
      PROVE  \E p1, q1, r : Dazu(I, J, p1, q1, r, i) /\ K[p1] = k /\ U[p1][q1] = u
  <2> DEFINE z == Append(I[p][q], i)
             y == [I[p] EXCEPT ![q] = z]
             S == Seq(Seq(Nat))
             T == Seq(Nat)
             n == Len(I[p][q]) + 1
  <2>1. /\ J = [I EXCEPT ![p] = y] /\ I \in Seq(S) /\ K[p] = k /\ U[p][q] = u
    BY <1>8 DEF NeuesItem, Reihen
  <2>2. I[p][q] \in T /\ I[p] \in Seq(T)
    BY <1>1
  <2>3. /\ z \in T /\ DOMAIN z = 1..n /\ z[n] = i
        /\ \A r \in DOMAIN I[p][q] : r \in DOMAIN z /\ z[r] = I[p][q][r]
    <3>1. I[p][q] \in Seq(Nat)
      BY <2>2
    <3> QED BY <3>1, Angehaengt
  <2>4. /\ y \in Seq(T) /\ DOMAIN y = DOMAIN I[p] /\ y[q] = z
        /\ \A c \in DOMAIN I[p] : c # q => y[c] = I[p][c]
    <3> HIDE DEF z, T
    <3> QED BY <2>2, <2>3, Ersetzt
  <2>5. DOMAIN J = DOMAIN I /\ J[p] = y /\ \A a \in DOMAIN I : a # p => J[a] = I[a]
    <3>1. y \in S
      BY <2>4
    <3> HIDE DEF y, S
    <3> QED BY <2>1, <3>1, Ersetzt
  <2>6. n \notin DOMAIN I[p][q] /\ n \in DOMAIN z
        /\ \A r \in DOMAIN z : r \in DOMAIN I[p][q] \/ r = n
    <3>1. DOMAIN I[p][q] = 1..Len(I[p][q]) /\ Len(I[p][q]) \in Nat
      BY <2>2
    <3> HIDE DEF z
    <3> QED BY <2>3, <3>1
  <2> HIDE DEF y, n, z
  <2>7. Dazu(I, J, p, q, n, i)
    <3>1. \A a, c, d : Drin(I, a, c, d) => Drin(J, a, c, d) /\ J[a][c][d] = I[a][c][d]
      BY <2>3, <2>4, <2>5 DEF Drin
    <3>2. \A a, c, d : Drin(J, a, c, d) => Drin(I, a, c, d) \/ (a = p /\ c = q /\ d = n)
      BY <2>4, <2>5, <2>6 DEF Drin
    <3> QED BY <2>3, <2>4, <2>5, <2>6, <3>1, <3>2 DEF Dazu, Drin
  <2> QED BY <2>1, <2>7
<1> QED BY <1>6, <1>7, <1>8 DEF ItemHinzu

\* One more place for item i of subcategory u of category k, none for others.
UmEineStelle(K, U, I, J, k, u, i, s) ==
  /\ Stellen(K, U, J, k, u, i) = Stellen(K, U, I, k, u, i) \cup {s}
  /\ s \notin Stellen(K, U, I, k, u, i)
  /\ \A a, c, d : <<a, c, d>> # <<k, u, i>> =>
       Stellen(K, U, J, a, c, d) = Stellen(K, U, I, a, c, d)

LEMMA StellenDazu ==
  ASSUME NEW K, NEW U, NEW I, NEW J, NEW k, NEW u, NEW i, NEW p, NEW q, NEW r,
         Dazu(I, J, p, q, r, i), K[p] = k, U[p][q] = u
  PROVE  UmEineStelle(K, U, I, J, k, u, i, <<p, q, r>>)
<1>1. ASSUME NEW a, NEW c, NEW d, NEW x
      PROVE  x \in Stellen(K, U, J, a, c, d) <=>
               \/ x \in Stellen(K, U, I, a, c, d)
               \/ x = <<p, q, r>> /\ a = k /\ c = u /\ d = i
  <2>1. CASE x \in Stellen(K, U, J, a, c, d)
    <3>1. PICK p1, q1, r1 : /\ Drin(J, p1, q1, r1) /\ x = <<p1, q1, r1>>
                            /\ K[p1] = a /\ U[p1][q1] = c /\ J[p1][q1][r1] = d
      BY <2>1, StellenElement
    <3>2. CASE Drin(I, p1, q1, r1)
      <4>1. I[p1][q1][r1] = d
        BY <3>1, <3>2 DEF Dazu
      <4> QED BY <2>1, <3>1, <3>2, <4>1, StellenElement
    <3>3. CASE p1 = p /\ q1 = q /\ r1 = r
      BY <2>1, <3>1, <3>3 DEF Dazu
    <3> QED BY <3>1, <3>2, <3>3 DEF Dazu
  <2>2. CASE x \in Stellen(K, U, I, a, c, d)
    <3>1. PICK p1, q1, r1 : /\ Drin(I, p1, q1, r1) /\ x = <<p1, q1, r1>>
                            /\ K[p1] = a /\ U[p1][q1] = c /\ I[p1][q1][r1] = d
      BY <2>2, StellenElement
    <3>2. Drin(J, p1, q1, r1) /\ J[p1][q1][r1] = d
      BY <3>1 DEF Dazu
    <3> QED BY <2>2, <3>1, <3>2, StellenElement
  <2>3. CASE x = <<p, q, r>> /\ a = k /\ c = u /\ d = i
    <3>1. Drin(J, p, q, r) /\ J[p][q][r] = i
      BY DEF Dazu
    <3> QED BY <2>3, <3>1, StellenElement
  <2> QED BY <2>1, <2>2, <2>3
<1>2. <<p, q, r>> \notin Stellen(K, U, I, k, u, i)
  <2> SUFFICES ASSUME <<p, q, r>> \in Stellen(K, U, I, k, u, i) PROVE FALSE
    OBVIOUS
  <2>1. PICK p1, q1, r1 : Drin(I, p1, q1, r1) /\ <<p, q, r>> = <<p1, q1, r1>>
    BY StellenElement
  <2>2. p1 = p /\ q1 = q /\ r1 = r
    BY <2>1
  <2> QED BY <2>1, <2>2 DEF Dazu
<1>3. ASSUME NEW a, NEW c, NEW d, <<a, c, d>> # <<k, u, i>>
      PROVE  Stellen(K, U, J, a, c, d) = Stellen(K, U, I, a, c, d)
  <2>1. ~(a = k /\ c = u /\ d = i)
    BY <1>3
  <2>2. \A x : x \in Stellen(K, U, J, a, c, d) <=> x \in Stellen(K, U, I, a, c, d)
    BY <1>1, <2>1
  <2> QED BY <2>2
<1> QED BY <1>1, <1>2, <1>3 DEF UmEineStelle

\* Categories and subcategories are appended behind all items.
Fortgesetzt(K, U, L, V, I) ==
  \A p \in DOMAIN I : L[p] = K[p] /\ \A q \in DOMAIN I[p] : V[p][q] = U[p][q]

LEMMA StellenBleiben ==
  ASSUME NEW K, NEW U, NEW I, NEW L, NEW V, Fortgesetzt(K, U, L, V, I),
         NEW k, NEW u, NEW i
  PROVE  Stellen(L, V, I, k, u, i) = Stellen(K, U, I, k, u, i)
<1>1. ASSUME NEW x
      PROVE  x \in Stellen(L, V, I, k, u, i) <=> x \in Stellen(K, U, I, k, u, i)
  <2>1. CASE x \in Stellen(L, V, I, k, u, i)
    <3>1. PICK p, q, r : /\ Drin(I, p, q, r) /\ x = <<p, q, r>>
                         /\ L[p] = k /\ V[p][q] = u /\ I[p][q][r] = i
      BY <2>1, StellenElement
    <3>2. K[p] = k /\ U[p][q] = u
      BY <3>1 DEF Drin, Fortgesetzt
    <3> QED BY <2>1, <3>1, <3>2, StellenElement
  <2>2. CASE x \in Stellen(K, U, I, k, u, i)
    <3>1. PICK p, q, r : /\ Drin(I, p, q, r) /\ x = <<p, q, r>>
                         /\ K[p] = k /\ U[p][q] = u /\ I[p][q][r] = i
      BY <2>2, StellenElement
    <3>2. L[p] = k /\ V[p][q] = u
      BY <3>1 DEF Drin, Fortgesetzt
    <3> QED BY <2>2, <3>1, <3>2, StellenElement
  <2> QED BY <2>1, <2>2
<1> QED BY <1>1

LEMMA VorkommenIst ==
  ASSUME NEW id, NEW k, NEW u, NEW i
  PROVE  /\ Vorkommen(id, k, u, i) =
              Stellen(Kategorien[id], Unterkategorien[id], Items[id], k, u, i)
         /\ Vorkommen(id, k, u, i)' =
              Stellen(Kategorien'[id], Unterkategorien'[id], Items'[id], k, u, i)
BY DEF Vorkommen, Stellen

LEMMA VorbeiDanach ==
  ASSUME NEW b, Baumform(b), NEW k \in 1..Len(b), NEW u \in 1..Len(b[k]), NEW o,
         Danach(b, k, u, o), NEW k1 \in 1..Len(b), NEW u1 \in 1..Len(b[k1]), NEW i1
  PROVE  Vorbei(o, k1, u1, i1) <=> (k1 < k \/ (k1 = k /\ u1 <= u))
<1>1. /\ Len(b) \in Nat /\ Len(b[k]) \in Nat /\ Len(b[k1]) \in Nat
  BY BaumTeile
<1>2. k \in Nat /\ u \in Nat /\ k1 \in Nat /\ u1 \in Nat
  BY <1>1
<1>3. CASE \E j, e \in Nat : o = Ort("extra", k, u, j, e)
  <2>1. o.art = "extra" /\ o.k = k /\ o.u = u
    BY <1>3, OrtFelder
  <2> QED BY <1>2, <2>1 DEF Vorbei
<1>4. CASE u < Len(b[k]) /\ o = Ort("unterkategorie", k, u + 1, 0, 0)
  <2>1. o.art = "unterkategorie" /\ o.k = k /\ o.u = u + 1
    BY <1>4, OrtFelder
  <2> QED BY <1>2, <2>1 DEF Vorbei
<1>5. CASE u = Len(b[k]) /\ k < Len(b) /\ o = Ort("kategorie", k + 1, 0, 0, 0)
  <2>1. o.art = "kategorie" /\ o.k = k + 1
    BY <1>5, OrtFelder
  <2> QED BY <1>1, <1>2, <1>5, <2>1 DEF Vorbei
<1>6. CASE u = Len(b[k]) /\ k = Len(b) /\ o = Ende
  <2>1. o.art = "ende"
    BY <1>6, OrtFelder DEF Ende
  <2> QED BY <1>1, <1>2, <1>6, <2>1 DEF Vorbei
<1> QED BY <1>3, <1>4, <1>5, <1>6 DEF Danach

\* What is behind the walk changes only when an item is visited.
LEMMA VorbeiSchritt ==
  ASSUME NEW b, Baumform(b), NEW k \in 1..Len(b), NEW u \in 1..Len(b[k]),
         NEW k1 \in 1..Len(b), NEW u1 \in 1..Len(b[k1]), NEW i1 \in 1..Len(b[k1][u1])
  PROVE  /\ Vorbei(Ort("kategorie", k, 0, 0, 0), k1, u1, i1) <=>
              Vorbei(Ort("unterkategorie", k, 1, 0, 0), k1, u1, i1)
         /\ Vorbei(Ort("unterkategorie", k, u, 0, 0), k1, u1, i1) <=>
              Vorbei(Ort("item", k, u, 1, 0), k1, u1, i1)
         /\ ~Vorbei(Ort("kategorie", 1, 0, 0, 0), k1, u1, i1)
         /\ Vorbei(Ende, k1, u1, i1)
         /\ \A i \in 1..Len(b[k][u]) :
              LET o == Ort("item", k, u, i, 0)
                  x == Folgender(b, o)
              IN IF k1 = k /\ u1 = u /\ i1 = i
                 THEN ~Vorbei(o, k1, u1, i1) /\ Vorbei(x, k1, u1, i1)
                 ELSE Vorbei(x, k1, u1, i1) <=> Vorbei(o, k1, u1, i1)
         /\ \A i \in 1..Len(b[k][u]) : \A e \in 1..b[k][u][i] :
              Vorbei(Folgender(b, Ort("extra", k, u, i, e)), k1, u1, i1) <=>
                Vorbei(Ort("extra", k, u, i, e), k1, u1, i1)
<1>1. /\ Len(b) \in Nat /\ Len(b[k]) \in Nat /\ Len(b[k1]) \in Nat
      /\ Len(b[k][u]) \in Nat /\ Len(b[k1][u1]) \in Nat
  BY BaumTeile
<1>2. /\ k \in Nat /\ u \in Nat /\ k1 \in Nat /\ u1 \in Nat /\ i1 \in Nat
      /\ k1 > 0 /\ u1 > 0 /\ i1 > 0
  BY <1>1
<1>3. Vorbei(Ort("kategorie", k, 0, 0, 0), k1, u1, i1) <=>
              Vorbei(Ort("unterkategorie", k, 1, 0, 0), k1, u1, i1)
  <2>1. Vorbei(Ort("kategorie", k, 0, 0, 0), k1, u1, i1) <=> k1 < k
    BY OrtFelder DEF Vorbei
  <2>2. Vorbei(Ort("unterkategorie", k, 1, 0, 0), k1, u1, i1) <=> k1 < k
    BY <1>2, OrtFelder DEF Vorbei
  <2> QED BY <2>1, <2>2
<1>4. Vorbei(Ort("unterkategorie", k, u, 0, 0), k1, u1, i1) <=>
              Vorbei(Ort("item", k, u, 1, 0), k1, u1, i1)
  <2>1. Vorbei(Ort("unterkategorie", k, u, 0, 0), k1, u1, i1) <=>
          (k1 < k \/ (k1 = k /\ u1 < u))
    BY OrtFelder DEF Vorbei
  <2>2. Vorbei(Ort("item", k, u, 1, 0), k1, u1, i1) <=> (k1 < k \/ (k1 = k /\ u1 < u))
    BY <1>2, OrtFelder DEF Vorbei
  <2> QED BY <2>1, <2>2
<1>5. ~Vorbei(Ort("kategorie", 1, 0, 0, 0), k1, u1, i1) /\ Vorbei(Ende, k1, u1, i1)
  BY <1>2, OrtFelder DEF Vorbei, Ende
<1>6. \A i : Vorbei(Ort("item", k, u, i, 0), k1, u1, i1) <=>
               (k1 < k \/ (k1 = k /\ (u1 < u \/ (u1 = u /\ i1 < i))))
  BY OrtFelder DEF Vorbei
<1>7. ASSUME NEW i \in 1..Len(b[k][u])
      PROVE  LET o == Ort("item", k, u, i, 0)
                 x == Folgender(b, o)
              IN IF k1 = k /\ u1 = u /\ i1 = i
                 THEN ~Vorbei(o, k1, u1, i1) /\ Vorbei(x, k1, u1, i1)
                 ELSE Vorbei(x, k1, u1, i1) <=> Vorbei(o, k1, u1, i1)
  <2> DEFINE o == Ort("item", k, u, i, 0)
             x == Folgender(b, o)
  <2>0. i \in Nat
    BY <1>1
  <2>1. CASE x = Ort("item", k, u, i + 1, 0)
    <3>1. Vorbei(x, k1, u1, i1) <=>
               (k1 < k \/ (k1 = k /\ (u1 < u \/ (u1 = u /\ i1 < i + 1))))
      BY <1>6, <2>1
    <3> HIDE DEF o, x
    <3>2. Vorbei(o, k1, u1, i1) <=>
               (k1 < k \/ (k1 = k /\ (u1 < u \/ (u1 = u /\ i1 < i))))
      BY <1>6 DEF o
    <3>3. IF k1 = k /\ u1 = u /\ i1 = i
                 THEN ~Vorbei(o, k1, u1, i1) /\ Vorbei(x, k1, u1, i1)
                 ELSE Vorbei(x, k1, u1, i1) <=> Vorbei(o, k1, u1, i1)
      BY <1>2, <2>0, <3>1, <3>2
    <3> QED BY <3>3 DEF o, x
  <2>2. CASE i = Len(b[k][u]) /\ Danach(b, k, u, x)
    <3>1. Vorbei(x, k1, u1, i1) <=> (k1 < k \/ (k1 = k /\ u1 <= u))
      <4> HIDE DEF x
      <4> QED BY <2>2, VorbeiDanach
    <3> HIDE DEF o, x
    <3>2. Vorbei(o, k1, u1, i1) <=>
               (k1 < k \/ (k1 = k /\ (u1 < u \/ (u1 = u /\ i1 < i))))
      BY <1>6 DEF o
    <3>3. k1 = k /\ u1 = u => i1 <= i
      BY <1>1, <2>2
    <3>4. IF k1 = k /\ u1 = u /\ i1 = i
                 THEN ~Vorbei(o, k1, u1, i1) /\ Vorbei(x, k1, u1, i1)
                 ELSE Vorbei(x, k1, u1, i1) <=> Vorbei(o, k1, u1, i1)
      BY <1>2, <2>0, <3>1, <3>2, <3>3
    <3> QED BY <3>4 DEF o, x
  <2> QED BY <2>1, <2>2, FolgenderDanach
<1>8. ASSUME NEW i \in 1..Len(b[k][u]), NEW e \in 1..b[k][u][i]
      PROVE  Vorbei(Folgender(b, Ort("extra", k, u, i, e)), k1, u1, i1) <=>
                Vorbei(Ort("extra", k, u, i, e), k1, u1, i1)
  <2> DEFINE o == Ort("extra", k, u, i, e)
             x == Folgender(b, o)
  <2>1. Danach(b, k, u, x)
    BY FolgenderDanach
  <2>2. Vorbei(x, k1, u1, i1) <=> (k1 < k \/ (k1 = k /\ u1 <= u))
    <3> HIDE DEF x
    <3> QED BY <2>1, VorbeiDanach
  <2>3. o.art = "extra" /\ o.k = k /\ o.u = u
    BY OrtFelder
  <2>4. Vorbei(o, k1, u1, i1) <=> (k1 < k \/ (k1 = k /\ u1 <= u))
    <3> HIDE DEF o
    <3> QED BY <1>2, <2>3 DEF Vorbei
  <2> QED BY <2>2, <2>4
<1> QED BY <1>3, <1>4, <1>5, <1>7, <1>8

LEMMA FaltungenEndlich ==
  ASSUME LadeTyp, NEW id
  PROVE  IsFiniteSet(Faltungen(id)) /\ Cardinality(Faltungen(id)) \in Nat
<1>1. gefaltet \in Nat
  BY DEF LadeTyp
<1>2. IsFiniteSet(1..gefaltet)
  BY <1>1, FS_Interval
<1>3. Faltungen(id) \subseteq 1..gefaltet
  BY DEF Faltungen
<1>4. IsFiniteSet(Faltungen(id))
  BY <1>2, <1>3, FS_Subset
<1> QED BY <1>4, FS_CardinalityType

\* The number of places of an item, for one order at one place of the walk.
Gezaehlt(S, f, vorbei) == IsFiniteSet(S) /\ Cardinality(S) = f - Eins(~vorbei)

LEMMA ZahlIst ==
  ZahlInv <=> \A id \in IDs : \A n \in DOMAIN eingabe : eingabe[n].id = id =>
    \A k \in DOMAIN eingabe[n].baum : \A u \in DOMAIN eingabe[n].baum[k] :
      \A i \in DOMAIN eingabe[n].baum[k][u] :
        Gezaehlt(Vorkommen(id, k, u, i), Cardinality(Faltungen(id)),
                 Vorbei(Stelle(id), k, u, i))
BY DEF ZahlInv, Gezaehlt

LEMMA BaumVon ==
  ASSUME LadeTyp, NEW n \in DOMAIN eingabe
  PROVE  Baumform(eingabe[n].baum)
<1>1. eingabe \in Seq([id : Nat, baum : Seq(Seq(Seq(Nat)))])
      /\ \A m \in DOMAIN eingabe : Gefuellt(eingabe[m].baum)
  BY EingabenAnnahme DEF LadeTyp
<1>2. eingabe[n].baum \in Seq(Seq(Seq(Nat)))
  <2> DEFINE S == [id : Nat, baum : Seq(Seq(Seq(Nat)))]
  <2>1. eingabe \in Seq(S)
    BY <1>1
  <2> HIDE DEF S
  <2>2. eingabe[n] \in S
    BY <2>1
  <2> QED BY <2>2 DEF S
<1> QED BY <1>1, <1>2 DEF Baumform

LEMMA ZahlInit == LadeInit => ZahlInv
<1> SUFFICES ASSUME LadeInit, NEW id \in IDs, NEW n \in DOMAIN eingabe,
                    eingabe[n].id = id, NEW k, NEW u, NEW i
             PROVE  Gezaehlt(Vorkommen(id, k, u, i), Cardinality(Faltungen(id)),
                             Vorbei(Stelle(id), k, u, i))
  BY ZahlIst
<1>1. Vorkommen(id, k, u, i) = {} /\ Faltungen(id) = {}
  BY DEF LadeInit, Vorkommen, Faltungen
<1>2. Stelle(id) = Ende
  BY DEF LadeInit, Stelle
<1>3. Vorbei(Stelle(id), k, u, i)
  BY <1>2, OrtFelder DEF Vorbei, Ende
<1>4. IsFiniteSet({}) /\ Cardinality({}) = 0
  BY FS_EmptySet
<1> QED BY <1>1, <1>3, <1>4 DEF Gezaehlt, Eins

LEMMA ZahlAufruf ==
  ASSUME LadeTyp, ZahlInv, Aufruf
  PROVE  ZahlInv'
<1>1. /\ eingabe' = eingabe /\ ort' = Ort("kategorie", 1, 0, 0, 0) /\ ort = Ende
      /\ Kategorien' = Kategorien /\ Unterkategorien' = Unterkategorien
      /\ Items' = Items /\ gefaltet' > 0 /\ IDs' = IDs
  BY DEF Aufruf, LadeTyp, IDs
<1>2. PICK d : d = BestellungID'
  OBVIOUS
<1>3. ASSUME NEW id \in IDs', NEW n \in DOMAIN eingabe', eingabe'[n].id = id,
             NEW k \in DOMAIN eingabe'[n].baum, NEW u \in DOMAIN eingabe'[n].baum[k],
             NEW i \in DOMAIN eingabe'[n].baum[k][u]
      PROVE  Gezaehlt(Vorkommen(id, k, u, i)', Cardinality(Faltungen(id)'),
                      Vorbei(Stelle(id)', k, u, i))
  <2>0. Vorkommen(id, k, u, i)' = Vorkommen(id, k, u, i)
    BY <1>1, VorkommenIst
  <2>1. Baumform(eingabe[n].baum)
    BY <1>1, BaumVon
  <2>3. ~Vorbei(Ort("kategorie", 1, 0, 0, 0), k, u, i) /\ Vorbei(Ende, k, u, i)
    <3> DEFINE b == eingabe[n].baum
    <3>1. Baumform(b) /\ k \in DOMAIN b /\ u \in DOMAIN b[k] /\ i \in DOMAIN b[k][u]
      BY <1>1, <2>1
    <3> HIDE DEF b
    <3>2. k \in 1..Len(b) /\ u \in 1..Len(b[k]) /\ i \in 1..Len(b[k][u])
      BY <3>1, BaumTeile
    <3> QED BY <3>1, <3>2, VorbeiSchritt
  <2>4. Stelle(id) = Ende
    BY <1>1 DEF Stelle
  <2>5. Gezaehlt(Vorkommen(id, k, u, i), Cardinality(Faltungen(id)), TRUE)
    BY <1>1, <1>3, <2>3, <2>4, ZahlIst DEF Gezaehlt
  <2>6. IsFiniteSet(Faltungen(id)) /\ Cardinality(Faltungen(id)) \in Nat
    BY FaltungenEndlich
  <2>7. CASE id = d
    <3>1. Faltungen(id)' = Faltungen(id) \cup {gefaltet + 1}
          /\ gefaltet + 1 \notin Faltungen(id)
      BY <1>2, <2>7, FaltungenAufruf
    <3>2. Cardinality(Faltungen(id)') = Cardinality(Faltungen(id)) + 1
      BY <2>6, <3>1, FS_AddElement
    <3>3. ~Vorbei(Stelle(id)', k, u, i)
      BY <1>1, <1>2, <2>3, <2>7 DEF Stelle
    <3> QED BY <2>0, <2>5, <2>6, <3>2, <3>3 DEF Gezaehlt, Eins
  <2>8. CASE id # d
    <3>1. Faltungen(id)' = Faltungen(id)
      BY <1>2, <2>8, FaltungenAufruf
    <3>2. Stelle(id)' = Ende
      BY <1>1, <1>2, <2>8 DEF Stelle
    <3> QED BY <2>0, <2>3, <2>5, <3>1, <3>2 DEF Gezaehlt, Eins
  <2> QED BY <2>7, <2>8
<1> QED BY <1>3 DEF ZahlInv, Gezaehlt, Vorbei

\* The visit of a node changes the places of the items as it changes what is
\* behind the walk.
Zugezaehlt(o, x, S, T, k, u, i) ==
  \/ T = S /\ (Vorbei(x, k, u, i) <=> Vorbei(o, k, u, i))
  \/ /\ ~Vorbei(o, k, u, i) /\ Vorbei(x, k, u, i)
     /\ \E s : s \notin S /\ T = S \cup {s}

Mitgezaehlt(b, o, x, K, U, I, L, V, J) ==
  \A k \in 1..Len(b) : \A u \in 1..Len(b[k]) : \A i \in 1..Len(b[k][u]) :
    Zugezaehlt(o, x, Stellen(K, U, I, k, u, i), Stellen(L, V, J, k, u, i), k, u, i)

LEMMA ZahlUebertragen ==
  ASSUME LadeTyp, ZahlInv, Weiter, NEW L, NEW V, NEW J,
         Kategorien' = [Kategorien EXCEPT ![BestellungID] = L],
         Unterkategorien' = [Unterkategorien EXCEPT ![BestellungID] = V],
         Items' = [Items EXCEPT ![BestellungID] = J],
         Mitgezaehlt(Datensatz, ort, ort', Kategorien[BestellungID],
                     Unterkategorien[BestellungID], Items[BestellungID], L, V, J)
  PROVE  ZahlInv'
<1>1. BestellungID \in IDs /\ gefaltet > 0 /\ eingabe' = eingabe
  BY DatensatzForm DEF Weiter
<1>2. /\ IDs' = IDs /\ \A x : Stelle(x)' = IF x = BestellungID THEN ort' ELSE Ende
      /\ \A x : Stelle(x) = IF x = BestellungID THEN ort ELSE Ende
  BY WeiterStelle
<1>3. \A x : Faltungen(x)' = Faltungen(x)
  BY FaltungenWeiter DEF Weiter
<1>4. /\ Kategorien'[BestellungID] = L /\ Unterkategorien'[BestellungID] = V
      /\ Items'[BestellungID] = J
      /\ \A x \in IDs : x # BestellungID => /\ Kategorien'[x] = Kategorien[x]
                                            /\ Unterkategorien'[x] = Unterkategorien[x]
                                            /\ Items'[x] = Items[x]
  BY <1>1 DEF LadeTyp
<1>5. ASSUME NEW id \in IDs', NEW n \in DOMAIN eingabe', eingabe'[n].id = id,
             NEW k \in DOMAIN eingabe'[n].baum, NEW u \in DOMAIN eingabe'[n].baum[k],
             NEW i \in DOMAIN eingabe'[n].baum[k][u]
      PROVE  Gezaehlt(Vorkommen(id, k, u, i)', Cardinality(Faltungen(id)'),
                      Vorbei(Stelle(id)', k, u, i))
  <2>1. Gezaehlt(Vorkommen(id, k, u, i), Cardinality(Faltungen(id)),
                 Vorbei(Stelle(id), k, u, i))
    BY <1>1, <1>2, <1>5, ZahlIst
  <2>2. CASE id # BestellungID
    <3>1. Vorkommen(id, k, u, i)' = Vorkommen(id, k, u, i)
      BY <1>2, <1>4, <2>2, VorkommenIst
    <3> QED BY <1>2, <1>3, <2>1, <2>2, <3>1
  <2>3. CASE id = BestellungID
    <3> DEFINE S == Stellen(Kategorien[id], Unterkategorien[id], Items[id], k, u, i)
               T == Stellen(L, V, J, k, u, i)
    <3>1. Vorkommen(id, k, u, i)' = T /\ Vorkommen(id, k, u, i) = S
      BY <1>4, <2>3, VorkommenIst
    <3>2. eingabe[n].baum = Datensatz
      BY <1>1, <1>5, <2>3, GleicherBaum
    <3>3. /\ k \in 1..Len(Datensatz) /\ u \in 1..Len(Datensatz[k])
          /\ i \in 1..Len(Datensatz[k][u])
      BY <1>1, <3>2, BaumTeile, DatensatzForm
    <3>0. Zugezaehlt(ort, ort', S, T, k, u, i)
      BY <2>3, <3>3 DEF Mitgezaehlt
    <3>4. \/ T = S /\ (Vorbei(ort', k, u, i) <=> Vorbei(ort, k, u, i))
          \/ /\ ~Vorbei(ort, k, u, i) /\ Vorbei(ort', k, u, i)
             /\ \E s : s \notin S /\ T = S \cup {s}
      <4> HIDE DEF S, T
      <4> QED BY <3>0 DEF Zugezaehlt
    <3> HIDE DEF S, T
    <3>5. CASE T = S /\ (Vorbei(ort', k, u, i) <=> Vorbei(ort, k, u, i))
      BY <1>2, <1>3, <2>1, <2>3, <3>1, <3>5 DEF Gezaehlt, Eins
    <3>6. CASE /\ ~Vorbei(ort, k, u, i) /\ Vorbei(ort', k, u, i)
               /\ \E s : s \notin S /\ T = S \cup {s}
      <4>1. PICK s : s \notin S /\ T = S \cup {s}
        BY <3>6
      <4>2. IsFiniteSet(S) /\ Cardinality(S) = Cardinality(Faltungen(id)) - 1
        BY <1>2, <2>1, <2>3, <3>1, <3>6 DEF Gezaehlt, Eins
      <4>3. IsFiniteSet(T) /\ Cardinality(T) = Cardinality(S) + 1
        BY <4>1, <4>2, FS_AddElement
      <4>4. Cardinality(Faltungen(id)) \in Nat
        BY FaltungenEndlich
      <4>5. Cardinality(T) = Cardinality(Faltungen(id)) - 0
        BY <4>2, <4>3, <4>4
      <4> QED BY <1>2, <1>3, <2>3, <3>1, <3>6, <4>3, <4>5 DEF Gezaehlt, Eins
    <3> QED BY <3>4, <3>5, <3>6
  <2> QED BY <2>2, <2>3
<1> QED BY <1>5 DEF ZahlInv, Gezaehlt, Vorbei

LEMMA UnterBleibt ==
  ASSUME NEW k \in Nat, NEW u \in Nat, u > 0, NEW K, NEW U, NEW I, NEW V, NEW o,
         o = Ort("unterkategorie", k, u, 0, 0), Reihen(K, U, I), Form(o, K, U, I),
         u = 1 => NeueErste(U, V), u > 1 => NeueWeitere(u, U, V, IndexOf(K, k))
  PROVE  Fortgesetzt(K, U, K, V, I)
<1>1. o.art = "unterkategorie" /\ o.k = k /\ o.u = u
  BY OrtFelder
<1>2. /\ Len(K) \in Nat /\ DOMAIN U = 1..Len(U) /\ DOMAIN I = 1..Len(I)
      /\ \A p \in DOMAIN U : U[p] \in Seq(Nat)
      /\ \A p \in DOMAIN I : I[p] \in Seq(Seq(Nat))
  BY DEF Reihen
<1>3. Len(I) = Len(U) /\ \A p \in DOMAIN I : Len(I[p]) = Len(U[p])
  <2>1. ~WeitereOhneItem(o) /\ (OhneItem(o) <=> OhneUnter(o))
    BY <1>1 DEF WeitereOhneItem, OhneItem
  <2>2. Len(I) = Len(U)
    BY <2>1 DEF Form, Eins
  <2>3. ASSUME NEW p \in DOMAIN I PROVE Len(I[p]) = Len(U[p])
    <3>1. Len(I[p]) = Len(U[p]) - 0
      BY <2>1 DEF Form, Eins
    <3>2. U[p] \in Seq(Nat)
      BY <1>2, <2>2
    <3>3. Len(U[p]) \in Nat
      BY <3>2
    <3> QED BY <3>1, <3>3
  <2> QED BY <2>2, <2>3
<1>4. ASSUME NEW p \in DOMAIN I, NEW q \in DOMAIN I[p]
      PROVE  V[p][q] = U[p][q]
  <2>1. p \in DOMAIN U /\ q \in DOMAIN U[p] /\ U[p] \in Seq(Nat) /\ U \in Seq(Seq(Nat))
    <3>1. p \in DOMAIN U /\ U[p] \in Seq(Nat) /\ I[p] \in Seq(Seq(Nat))
      BY <1>2, <1>3
    <3>2. DOMAIN I[p] = 1..Len(I[p]) /\ DOMAIN U[p] = 1..Len(U[p])
      BY <3>1
    <3> QED BY <1>3, <3>1, <3>2 DEF Reihen
  <2>2. CASE u = 1
    <3>1. V = Append(U, <<1>>)
      BY <2>2 DEF NeueErste
    <3>2. V[p] = U[p]
      BY <2>1, <3>1, Angehaengt
    <3> QED BY <3>2
  <2>3. CASE u > 1
    <3>1. PICK P \in DOMAIN U : V = [U EXCEPT ![P] = Append(U[P], u)]
      BY <2>3 DEF NeueWeitere
    <3>2. CASE p = P
      <4>1. V[p] = Append(U[p], u)
        BY <2>1, <3>1, <3>2
      <4>2. Append(U[p], u)[q] = U[p][q]
        BY <2>1, Angehaengt, SMTT(30)
      <4> QED BY <4>1, <4>2
    <3>3. CASE p # P
      BY <2>1, <3>1, <3>3
    <3> QED BY <3>2, <3>3
  <2> QED BY <2>2, <2>3
<1> QED BY <1>4 DEF Fortgesetzt

LEMMA ZahlSchritt ==
  ASSUME LadeTyp, FormInv, ZahlInv, LadeNext
  PROVE  ZahlInv'
<1> DEFINE id == BestellungID
           K == Kategorien[id]
           U == Unterkategorien[id]
           I == Items[id]
           b == Datensatz
<1>1. CASE Aufruf
  BY <1>1, ZahlAufruf
<1>2. ASSUME Weiter
      PROVE  /\ id \in IDs /\ Baumform(b) /\ Reihen(K, U, I) /\ Form(ort, K, U, I)
             /\ Kategorien = [Kategorien EXCEPT ![id] = K]
             /\ Unterkategorien = [Unterkategorien EXCEPT ![id] = U]
             /\ Items = [Items EXCEPT ![id] = I]
  <2>1. id \in IDs /\ gefaltet > 0 /\ Baumform(b)
    BY <1>2, DatensatzForm DEF Weiter
  <2>2. Reihen(K, U, I) /\ Form(ort, K, U, I)
    BY <2>1, ReihenTyp, Eigene
  <2>3. /\ Kategorien = [Kategorien EXCEPT ![id] = K]
        /\ Unterkategorien = [Unterkategorien EXCEPT ![id] = U]
        /\ Items = [Items EXCEPT ![id] = I]
    BY <2>1 DEF LadeTyp
  <2> QED BY <2>1, <2>2, <2>3
<1>3. ASSUME NEW k \in 1..Len(b), AmKategorie(k)
      PROVE  ZahlInv'
  <2>1. Weiter /\ ort = Ort("kategorie", k, 0, 0, 0)
        /\ ort' = Ort("unterkategorie", k, 1, 0, 0)
        /\ Kategorien' = [Kategorien EXCEPT ![id] = Append(K, k)]
        /\ Unterkategorien' = Unterkategorien /\ Items' = Items
    BY <1>3 DEF AmKategorie
  <2>2. \A p \in DOMAIN I : Append(K, k)[p] = K[p]
    <3>1. ort.art = "kategorie"
      BY <2>1, OrtFelder
    <3>2. Len(I) = Len(K)
      <4>1. ~OhneItem(ort) /\ Reihen(K, U, I) /\ Form(ort, K, U, I)
        BY <1>2, <2>1, <3>1 DEF OhneItem, OhneUnter
      <4> HIDE DEF K, U, I
      <4>2. Len(I) = Len(K) - 0 /\ Len(K) \in Nat
        BY <4>1 DEF Form, Eins, Reihen
      <4> QED BY <4>2
    <3>3. k \in Nat
      <4>1. Len(b) \in Nat
        BY <1>2, <2>1, BaumTeile
      <4> QED BY <4>1
    <3> HIDE DEF K, I, b
    <3> QED BY <1>2, <2>1, <3>2, <3>3 DEF Reihen
  <2>3. Mitgezaehlt(b, ort, ort', K, U, I, Append(K, k), U, I)
    <3> SUFFICES ASSUME NEW k1 \in 1..Len(b), NEW u1 \in 1..Len(b[k1]),
                        NEW i1 \in 1..Len(b[k1][u1])
                 PROVE  Zugezaehlt(ort, ort', Stellen(K, U, I, k1, u1, i1),
                                   Stellen(Append(K, k), U, I, k1, u1, i1), k1, u1, i1)
      BY DEF Mitgezaehlt
    <3> HIDE DEF K, U, I, b
    <3>1. Stellen(Append(K, k), U, I, k1, u1, i1) = Stellen(K, U, I, k1, u1, i1)
      <4>1. Fortgesetzt(K, U, Append(K, k), U, I)
        BY <2>2 DEF Fortgesetzt
      <4> QED BY <4>1, StellenBleiben
    <3>2. Vorbei(ort', k1, u1, i1) <=> Vorbei(ort, k1, u1, i1)
      <4>1. 1 \in 1..Len(b[k])
        BY <1>2, <2>1, BaumTeile
      <4> QED BY <1>2, <2>1, <4>1, VorbeiSchritt
    <3> QED BY <3>1, <3>2 DEF Zugezaehlt
  <2>4. /\ Unterkategorien' = [Unterkategorien EXCEPT ![id] = U]
        /\ Items' = [Items EXCEPT ![id] = I]
    BY <1>2, <2>1
  <2> QED BY <2>1, <2>3, <2>4, ZahlUebertragen
<1>4. ASSUME NEW k \in 1..Len(b), NEW u \in 1..Len(b[k]), NEW V, AmUnterkategorie(k, u, V)
      PROVE  ZahlInv'
  <2>1. /\ Weiter /\ ort = Ort("unterkategorie", k, u, 0, 0)
        /\ ort' = Ort("item", k, u, 1, 0)
        /\ Unterkategorien' = [Unterkategorien EXCEPT ![id] = V]
        /\ u = 1 => NeueErste(U, V)
        /\ u > 1 => NeueWeitere(u, U, V, IndexOf(K, k))
        /\ Kategorien' = Kategorien /\ Items' = Items
    BY <1>4 DEF AmUnterkategorie
  <2>2. Fortgesetzt(K, U, K, V, I)
    <3>1. Len(b) \in Nat /\ Len(b[k]) \in Nat
      BY <1>2, <2>1, BaumTeile
    <3>2. k \in Nat /\ u \in Nat /\ u > 0
      BY <3>1
    <3> HIDE DEF K, U, I, b
    <3>3. Reihen(K, U, I) /\ Form(ort, K, U, I)
      BY <1>2, <2>1
    <3> QED BY <2>1, <3>2, <3>3, UnterBleibt
  <2>3. Mitgezaehlt(b, ort, ort', K, U, I, K, V, I)
    <3> SUFFICES ASSUME NEW k1 \in 1..Len(b), NEW u1 \in 1..Len(b[k1]),
                        NEW i1 \in 1..Len(b[k1][u1])
                 PROVE  Zugezaehlt(ort, ort', Stellen(K, U, I, k1, u1, i1),
                                   Stellen(K, V, I, k1, u1, i1), k1, u1, i1)
      BY DEF Mitgezaehlt
    <3> HIDE DEF K, U, I, b
    <3>1. Stellen(K, V, I, k1, u1, i1) = Stellen(K, U, I, k1, u1, i1)
      BY <2>2, StellenBleiben
    <3>2. Vorbei(ort', k1, u1, i1) <=> Vorbei(ort, k1, u1, i1)
      BY <1>2, <2>1, VorbeiSchritt
    <3> QED BY <3>1, <3>2 DEF Zugezaehlt
  <2>4. Kategorien' = [Kategorien EXCEPT ![id] = K] /\ Items' = [Items EXCEPT ![id] = I]
    BY <1>2, <2>1
  <2> QED BY <2>1, <2>3, <2>4, ZahlUebertragen
<1>5. ASSUME NEW k \in 1..Len(b), NEW u \in 1..Len(b[k]), NEW i \in 1..Len(b[k][u]),
             NEW J, AmItem(k, u, i, J)
      PROVE  ZahlInv'
  <2>1. /\ Weiter /\ ort = Ort("item", k, u, i, 0) /\ ort' = Folgender(b, ort)
        /\ Items' = [Items EXCEPT ![id] = J] /\ ItemHinzu(k, u, i, K, U, I, J)
        /\ Kategorien' = Kategorien /\ Unterkategorien' = Unterkategorien
    BY <1>5 DEF AmItem
  <2>2. k \in Nat /\ u \in Nat /\ i \in Nat
    <3>1. Len(b) \in Nat /\ Len(b[k]) \in Nat /\ Len(b[k][u]) \in Nat
      BY <1>2, <2>1, BaumTeile
    <3> QED BY <3>1
  <2>3. PICK p, q, r : Dazu(I, J, p, q, r, i) /\ K[p] = k /\ U[p][q] = u
    <3> HIDE DEF K, U, I, b
    <3> QED BY <1>2, <2>1, <2>2, HinzuStelle
  <2>4. Mitgezaehlt(b, ort, ort', K, U, I, K, U, J)
    <3> SUFFICES ASSUME NEW k1 \in 1..Len(b), NEW u1 \in 1..Len(b[k1]),
                        NEW i1 \in 1..Len(b[k1][u1])
                 PROVE  Zugezaehlt(ort, ort', Stellen(K, U, I, k1, u1, i1),
                                   Stellen(K, U, J, k1, u1, i1), k1, u1, i1)
      BY DEF Mitgezaehlt
    <3> HIDE DEF K, U, I, b
    <3>1. IF k1 = k /\ u1 = u /\ i1 = i
          THEN ~Vorbei(ort, k1, u1, i1) /\ Vorbei(ort', k1, u1, i1)
          ELSE Vorbei(ort', k1, u1, i1) <=> Vorbei(ort, k1, u1, i1)
      <4> DEFINE o == Ort("item", k, u, i, 0)
                 x == Folgender(b, o)
      <4>1. IF k1 = k /\ u1 = u /\ i1 = i
            THEN ~Vorbei(o, k1, u1, i1) /\ Vorbei(x, k1, u1, i1)
            ELSE Vorbei(x, k1, u1, i1) <=> Vorbei(o, k1, u1, i1)
        BY <1>2, <2>1, VorbeiSchritt
      <4>2. ort = o /\ ort' = x
        BY <2>1
      <4> HIDE DEF o, x
      <4> QED BY <4>1, <4>2
    <3>2. UmEineStelle(K, U, I, J, k, u, i, <<p, q, r>>)
      BY <2>3, StellenDazu
    <3>3. CASE k1 = k /\ u1 = u /\ i1 = i
      BY <3>1, <3>2, <3>3 DEF Zugezaehlt, UmEineStelle
    <3>4. CASE ~(k1 = k /\ u1 = u /\ i1 = i)
      <4>1. <<k1, u1, i1>> # <<k, u, i>>
        BY <3>4
      <4> QED BY <3>1, <3>2, <3>4, <4>1 DEF Zugezaehlt, UmEineStelle
    <3> QED BY <3>3, <3>4
  <2>5. /\ Kategorien' = [Kategorien EXCEPT ![id] = K]
        /\ Unterkategorien' = [Unterkategorien EXCEPT ![id] = U]
    BY <1>2, <2>1
  <2> QED BY <2>1, <2>4, <2>5, ZahlUebertragen
<1>6. ASSUME NEW k \in 1..Len(b), NEW u \in 1..Len(b[k]), NEW i \in 1..Len(b[k][u]),
             NEW e \in 1..b[k][u][i], AmExtra(k, u, i, e)
      PROVE  ZahlInv'
  <2>1. /\ Weiter /\ ort = Ort("extra", k, u, i, e) /\ ort' = Folgender(b, ort)
        /\ Kategorien' = Kategorien
        /\ Unterkategorien' = Unterkategorien /\ Items' = Items
    BY <1>6 DEF AmExtra
  <2>2. Mitgezaehlt(b, ort, ort', K, U, I, K, U, I)
    <3> HIDE DEF K, U, I, b
    <3>1. ASSUME NEW k1 \in 1..Len(b), NEW u1 \in 1..Len(b[k1]),
                 NEW i1 \in 1..Len(b[k1][u1])
          PROVE  Vorbei(ort', k1, u1, i1) <=> Vorbei(ort, k1, u1, i1)
      BY <1>2, <2>1, VorbeiSchritt
    <3> QED BY <3>1 DEF Mitgezaehlt, Zugezaehlt
  <2>3. /\ Kategorien' = [Kategorien EXCEPT ![id] = K]
        /\ Unterkategorien' = [Unterkategorien EXCEPT ![id] = U]
        /\ Items' = [Items EXCEPT ![id] = I]
    BY <1>2, <2>1
  <2> QED BY <2>1, <2>2, <2>3, ZahlUebertragen
<1> QED BY <1>1, <1>3, <1>4, <1>5, <1>6, Schritte

LEMMA GenauUnveraendert ==
  ASSUME GenauInv, ZahlInv, UNCHANGED ladeVars
  PROVE  GenauInv' /\ ZahlInv'
<1>1. /\ eingabe' = eingabe /\ gefaltet' = gefaltet /\ ort' = ort
      /\ Kategorien' = Kategorien /\ Unterkategorien' = Unterkategorien /\ Items' = Items
  BY DEF ladeVars, woerterbuecher
<1>2. /\ IDs' = IDs /\ \A id : Stelle(id)' = Stelle(id)
      /\ \A id : Faltungen(id)' = Faltungen(id) /\ (Einmal(id)' <=> Einmal(id))
      /\ \A id, k, u, i : Vorkommen(id, k, u, i)' = Vorkommen(id, k, u, i)
  BY <1>1, FaltungenWeiter DEF IDs, Stelle, BestellungID, Vorkommen
<1>3. ASSUME NEW id \in IDs', NEW n \in DOMAIN eingabe', eingabe'[n].id = id
      PROVE  /\ Faltungen(id)' = {} =>
                  Kategorien'[id] = <<>> /\ Unterkategorien'[id] = <<>> /\ Items'[id] = <<>>
             /\ Faltungen(id)' # {} /\ Einmal(id)' =>
                  Genau(Stelle(id)', eingabe'[n].baum, Kategorien'[id],
                        Unterkategorien'[id], Items'[id])
  BY <1>1, <1>2, <1>3 DEF GenauInv
<1>4. GenauInv'
  BY <1>3 DEF GenauInv, Genau
<1>5. ASSUME NEW id \in IDs', NEW n \in DOMAIN eingabe', eingabe'[n].id = id,
             NEW k \in DOMAIN eingabe'[n].baum, NEW u \in DOMAIN eingabe'[n].baum[k],
             NEW i \in DOMAIN eingabe'[n].baum[k][u]
      PROVE  Gezaehlt(Vorkommen(id, k, u, i)', Cardinality(Faltungen(id)'),
                      Vorbei(Stelle(id)', k, u, i))
  BY <1>1, <1>2, <1>5, ZahlIst
<1>6. ZahlInv'
  BY <1>5 DEF ZahlInv, Gezaehlt, Vorbei
<1> QED BY <1>4, <1>6

\* At the end of the walk the arrays are the record.
LEMMA GenauEnde ==
  ASSUME NEW b, Baumform(b), NEW K, NEW U, NEW I, Reihen(K, U, I),
         Form(Ende, K, U, I), Genau(Ende, b, K, U, I)
  PROVE  /\ K = [k \in DOMAIN b |-> k]
         /\ U = [k \in DOMAIN b |-> [u \in DOMAIN b[k] |-> u]]
         /\ I = [k \in DOMAIN b |-> [u \in DOMAIN b[k] |-> [i \in DOMAIN b[k][u] |-> i]]]
<1>1. Ende.art = "ende" /\ Ende.k = 0
  BY OrtFelder DEF Ende
<1>2. /\ Len(K) = Len(b) /\ \A p \in DOMAIN K : K[p] = p
  BY <1>1 DEF Genau
<1>3. /\ DOMAIN K = 1..Len(K) /\ DOMAIN U = 1..Len(U) /\ DOMAIN I = 1..Len(I)
      /\ Len(K) \in Nat
      /\ \A p \in DOMAIN U : U[p] \in Seq(Nat)
      /\ \A p \in DOMAIN I : I[p] \in Seq(Seq(Nat))
      /\ \A p \in DOMAIN I : \A q \in DOMAIN I[p] : I[p][q] \in Seq(Nat)
  BY DEF Reihen
<1>4. Len(U) = Len(K) - 0 /\ Len(I) = Len(K) - 0
  BY <1>1 DEF Form, OhneUnter, OhneItem, Eins
<1>5. /\ DOMAIN b = 1..Len(b) /\ \A k \in DOMAIN b : DOMAIN b[k] = 1..Len(b[k])
      /\ \A k \in DOMAIN b : \A u \in DOMAIN b[k] : DOMAIN b[k][u] = 1..Len(b[k][u])
  BY BaumTeile
<1>6. DOMAIN K = DOMAIN b /\ DOMAIN U = DOMAIN b /\ DOMAIN I = DOMAIN b
  BY <1>2, <1>3, <1>4, <1>5
<1>7. K = [k \in DOMAIN b |-> k]
  <2>1. K = [p \in DOMAIN K |-> K[p]]
    BY DEF Reihen
  <2> QED BY <1>2, <1>6, <2>1
<1>8. ASSUME NEW p \in DOMAIN b
      PROVE  DOMAIN U[p] = DOMAIN b[p] /\ U[p] = [u \in DOMAIN b[p] |-> u]
  <2>1. p # 0
    BY <1>5
  <2>2. Len(U[p]) = Len(b[p]) /\ \A q \in DOMAIN U[p] : U[p][q] = q
    BY <1>1, <1>6, <2>1 DEF Genau
  <2>3. U[p] \in Seq(Nat)
    BY <1>3, <1>6
  <2>4. DOMAIN U[p] = 1..Len(U[p]) /\ U[p] = [q \in DOMAIN U[p] |-> U[p][q]]
    BY <2>3
  <2>5. DOMAIN U[p] = DOMAIN b[p]
    BY <1>5, <2>2, <2>4
  <2> QED BY <2>2, <2>4, <2>5
<1>9. U = [k \in DOMAIN b |-> [u \in DOMAIN b[k] |-> u]]
  <2>1. U = [p \in DOMAIN U |-> U[p]]
    BY DEF Reihen
  <2> QED BY <1>6, <1>8, <2>1
<1>10. ASSUME NEW p \in DOMAIN b
       PROVE  I[p] = [u \in DOMAIN b[p] |-> [i \in DOMAIN b[p][u] |-> i]]
  <2>1. p # 0
    BY <1>5
  <2>2. I[p] \in Seq(Seq(Nat)) /\ U[p] \in Seq(Nat)
    BY <1>3, <1>6
  <2>3. Len(I[p]) = Len(U[p]) - 0
    BY <1>1, <1>6 DEF Form, WeitereOhneItem, Eins
  <2>4. DOMAIN I[p] = DOMAIN b[p]
    <3>1. DOMAIN I[p] = 1..Len(I[p]) /\ DOMAIN U[p] = 1..Len(U[p]) /\ Len(U[p]) \in Nat
      BY <2>2
    <3>2. Len(I[p]) = Len(U[p])
      BY <2>3, <3>1
    <3>3. DOMAIN U[p] = DOMAIN b[p]
      BY <1>8
    <3> QED BY <3>1, <3>2, <3>3
  <2>5. ASSUME NEW q \in DOMAIN b[p]
        PROVE  I[p][q] = [i \in DOMAIN b[p][q] |-> i]
    <3>1. Len(I[p][q]) = Len(b[p][q]) /\ \A r \in DOMAIN I[p][q] : I[p][q][r] = r
      BY <1>1, <1>6, <2>4 DEF Genau
    <3>2. I[p][q] \in Seq(Nat)
      BY <1>3, <1>6, <2>4
    <3>3. DOMAIN I[p][q] = 1..Len(I[p][q]) /\ I[p][q] = [r \in DOMAIN I[p][q] |-> I[p][q][r]]
      BY <3>2
    <3>4. DOMAIN I[p][q] = DOMAIN b[p][q]
      BY <1>5, <3>1, <3>3
    <3> QED BY <3>1, <3>3, <3>4
  <2>6. I[p] = [q \in DOMAIN I[p] |-> I[p][q]]
    BY <2>2
  <2> QED BY <2>4, <2>5, <2>6
<1>11. I = [k \in DOMAIN b |-> [u \in DOMAIN b[k] |-> [i \in DOMAIN b[k][u] |-> i]]]
  <2>1. I = [p \in DOMAIN I |-> I[p]]
    BY DEF Reihen
  <2> QED BY <1>6, <1>10, <2>1
<1> QED BY <1>7, <1>9, <1>11

\* The record of an order is that of any of its folds.
LEMMA BaumIst ==
  ASSUME LadeTyp, NEW id, Faltungen(id) # {}
  PROVE  \E n \in DOMAIN eingabe : eingabe[n].id = id /\ Baum(id) = eingabe[n].baum
<1> DEFINE n == CHOOSE n \in Faltungen(id) : TRUE
<1>1. n \in Faltungen(id)
  OBVIOUS
<1>2. Baum(id) = eingabe[n].baum
  BY DEF Baum
<1> HIDE DEF n
<1>3. n \in 1..gefaltet /\ eingabe[n].id = id
  BY <1>1 DEF Faltungen
<1>4. gefaltet \in 0..Len(eingabe) /\ DOMAIN eingabe = 1..Len(eingabe) /\ Len(eingabe) \in Nat
  <2>1. eingabe \in Seq([id : Nat, baum : Seq(Seq(Seq(Nat)))])
    BY EingabenAnnahme DEF LadeTyp
  <2> QED BY <2>1 DEF LadeTyp
<1>5. n \in DOMAIN eingabe
  BY <1>3, <1>4
<1> QED BY <1>2, <1>3, <1>5

LadeInv == LadeTyp /\ FormInv /\ GenauInv /\ ZahlInv

LEMMA ItemsAusInv == LadeInv => ItemsWieImDatensatz
<1> SUFFICES ASSUME LadeInv, NEW id \in IDs, Fertig(id)
             PROVE  LET b == Baum(id)
                    IN /\ Einmal(id) =>
                            /\ Kategorien[id] = [k \in DOMAIN b |-> k]
                            /\ Unterkategorien[id] =
                                 [k \in DOMAIN b |-> [u \in DOMAIN b[k] |-> u]]
                            /\ Items[id] = [k \in DOMAIN b |-> [u \in DOMAIN b[k] |->
                                              [i \in DOMAIN b[k][u] |-> i]]]
                       /\ \A k \in DOMAIN b : \A u \in DOMAIN b[k] :
                            \A i \in DOMAIN b[k][u] :
                              Cardinality(Vorkommen(id, k, u, i)) =
                                Cardinality(Faltungen(id))
  BY DEF ItemsWieImDatensatz
<1> DEFINE b == Baum(id)
<1>1. LadeTyp /\ FormInv /\ GenauInv /\ ZahlInv
  BY DEF LadeInv
<1>2. Faltungen(id) # {} /\ ort = Ende
  BY DEF Fertig
<1>3. PICK n \in DOMAIN eingabe : eingabe[n].id = id /\ b = eingabe[n].baum
  BY <1>1, <1>2, BaumIst
<1> HIDE DEF b
<1>4. Stelle(id) = Ende /\ Baumform(b)
  BY <1>1, <1>2, <1>3, BaumVon DEF Stelle
<1>5. ASSUME Einmal(id)
      PROVE  /\ Kategorien[id] = [k \in DOMAIN b |-> k]
             /\ Unterkategorien[id] = [k \in DOMAIN b |-> [u \in DOMAIN b[k] |-> u]]
             /\ Items[id] = [k \in DOMAIN b |-> [u \in DOMAIN b[k] |->
                               [i \in DOMAIN b[k][u] |-> i]]]
  <2>1. Genau(Ende, b, Kategorien[id], Unterkategorien[id], Items[id])
    BY <1>1, <1>2, <1>3, <1>4, <1>5 DEF GenauInv
  <2>2. Form(Ende, Kategorien[id], Unterkategorien[id], Items[id])
    BY <1>1, <1>4 DEF FormInv
  <2>3. Reihen(Kategorien[id], Unterkategorien[id], Items[id])
    BY <1>1, ReihenTyp
  <2> QED BY <1>4, <2>1, <2>2, <2>3, GenauEnde
<1>6. ASSUME NEW k \in DOMAIN b, NEW u \in DOMAIN b[k], NEW i \in DOMAIN b[k][u]
      PROVE  Cardinality(Vorkommen(id, k, u, i)) = Cardinality(Faltungen(id))
  <2>1. Gezaehlt(Vorkommen(id, k, u, i), Cardinality(Faltungen(id)), Vorbei(Ende, k, u, i))
    BY <1>1, <1>3, <1>4, <1>6, ZahlIst
  <2>2. Vorbei(Ende, k, u, i)
    BY OrtFelder DEF Vorbei, Ende
  <2>3. Cardinality(Faltungen(id)) \in Nat
    BY <1>1, FaltungenEndlich
  <2> QED BY <2>1, <2>2, <2>3 DEF Gezaehlt, Eins
<1> QED BY <1>5, <1>6 DEF b

LEMMA LadeInvGilt == LadeSpec => []LadeInv
<1>1. LadeInit => LadeInv
  BY GeruestInit, GenauInit, ZahlInit DEF LadeInv
<1>2. LadeInv /\ [LadeNext]_ladeVars => LadeInv'
  <2>1. LadeInv /\ LadeNext => LadeInv'
    BY GeruestSchritt, GenauSchritt, ZahlSchritt DEF LadeInv
  <2>2. LadeInv /\ UNCHANGED ladeVars => LadeInv'
    BY GeruestUnveraendert, GenauUnveraendert DEF LadeInv
  <2> QED BY <2>1, <2>2
<1> QED BY <1>1, <1>2, PTL DEF LadeSpec

\* An order folded once stands in the dictionaries exactly as in its record,
\* one folded more often has every item as often, none lost and none under
\* another category: for records of any size and any sequence of folds.
THEOREM ItemsKorrekt == LadeSpec => []ItemsWieImDatensatz
BY LadeInvGilt, ItemsAusInv, PTL

(***************************************************************************)
(* Extras.  In the nested array M an entry was put at place c of row a.    *)
(***************************************************************************)
Gesetzt(N, M, a, c, h) ==
  /\ Fach(M, a, c) /\ M[a][c] = h
  /\ \A p, q : Fach(M, p, q) <=> Fach(N, p, q) \/ (p = a /\ q = c)
  /\ \A p, q : Fach(N, p, q) /\ ~(p = a /\ q = c) => M[p][q] = N[p][q]

MitReihe(N, g)         == Append(N, << <<g>> >>)
MitSpalte(N, p, g)     == [N EXCEPT ![p] = Append(N[p], <<g>>)]
MitEintrag(N, p, q, h) == [N EXCEPT ![p] = [N[p] EXCEPT ![q] = h]]

LEMMA NeueReihe ==
  ASSUME NEW S, NEW N \in Seq(Seq(Seq(S))), NEW g \in S, NEW M,
         M = MitReihe(N, g)
  PROVE  /\ M \in Seq(Seq(Seq(S))) /\ Len(M) = Len(N) + 1
         /\ ~Fach(N, Len(N) + 1, 1) /\ Gesetzt(N, M, Len(N) + 1, 1, <<g>>)
         /\ \A p \in DOMAIN N : p \in DOMAIN M /\ Len(M[p]) = Len(N[p])
         /\ Len(M[Len(N) + 1]) = 1
<1> DEFINE A == Seq(Seq(S))
           y == << <<g>> >>
           n == Len(N) + 1
<1>1. N \in Seq(A) /\ y \in A /\ M = Append(N, y) /\ Len(y) = 1 /\ DOMAIN y = 1..1
      /\ y[1] = <<g>>
  BY DEF MitReihe
<1>2. /\ M \in Seq(A) /\ Len(M) = n /\ DOMAIN M = 1..n /\ M[n] = y
      /\ \A x \in DOMAIN N : x \in DOMAIN M /\ M[x] = N[x]
  <2> HIDE DEF A, y
  <2> QED BY <1>1, Angehaengt
<1>3. DOMAIN N = 1..Len(N) /\ Len(N) \in Nat
  OBVIOUS
<1> HIDE DEF y
<1>4. n \notin DOMAIN N /\ \A x \in DOMAIN M : x \in DOMAIN N \/ x = n
  BY <1>2, <1>3
<1>5. \A q : q \in DOMAIN y <=> q = 1
  BY <1>1
<1> HIDE DEF n
<1>6. Gesetzt(N, M, n, 1, <<g>>) /\ ~Fach(N, n, 1)
  BY <1>1, <1>2, <1>4, <1>5 DEF Gesetzt, Fach
<1> QED BY <1>1, <1>2, <1>6 DEF n

LEMMA NeueSpalte ==
  ASSUME NEW S, NEW N \in Seq(Seq(Seq(S))), NEW g \in S, NEW M, NEW p \in DOMAIN N,
         M = MitSpalte(N, p, g)
  PROVE  /\ M \in Seq(Seq(Seq(S))) /\ Len(M) = Len(N) /\ DOMAIN M = DOMAIN N
         /\ ~Fach(N, p, Len(N[p]) + 1) /\ Gesetzt(N, M, p, Len(N[p]) + 1, <<g>>)
         /\ \A x \in DOMAIN N : x # p => Len(M[x]) = Len(N[x])
         /\ Len(M[p]) = Len(N[p]) + 1
<1> DEFINE A == Seq(Seq(S))
           B == Seq(S)
           z == <<g>>
           y == Append(N[p], z)
           n == Len(N[p]) + 1
<1>1. N \in Seq(A) /\ N[p] \in Seq(B) /\ z \in B
  OBVIOUS
<1>2. /\ y \in Seq(B) /\ Len(y) = n /\ DOMAIN y = 1..n /\ y[n] = z
      /\ \A x \in DOMAIN N[p] : x \in DOMAIN y /\ y[x] = N[p][x]
  <2> HIDE DEF B, z
  <2> QED BY <1>1, Angehaengt
<1>3. /\ M \in Seq(A) /\ Len(M) = Len(N) /\ DOMAIN M = DOMAIN N /\ M[p] = y
      /\ \A x \in DOMAIN N : x # p => M[x] = N[x]
  <2>1. y \in A
    BY <1>2
  <2> HIDE DEF A, y
  <2>2. M = [N EXCEPT ![p] = y]
    BY DEF y, MitSpalte
  <2> DEFINE t == [N EXCEPT ![p] = y]
  <2>3. /\ t \in Seq(A) /\ Len(t) = Len(N) /\ DOMAIN t = DOMAIN N /\ t[p] = y
        /\ \A x \in DOMAIN N : x # p => t[x] = N[x]
    BY <1>1, <2>1, Ersetzt
  <2> HIDE DEF t
  <2>4. M = t
    BY <2>2 DEF t
  <2> QED BY <2>3, <2>4
<1>4. DOMAIN N[p] = 1..Len(N[p]) /\ Len(N[p]) \in Nat
  BY <1>1
<1> HIDE DEF y
<1>5. n \notin DOMAIN N[p] /\ \A x \in DOMAIN y : x \in DOMAIN N[p] \/ x = n
  BY <1>2, <1>4
<1>6. n \in DOMAIN y
  BY <1>2, <1>4
<1> HIDE DEF n, z
<1>7. Gesetzt(N, M, p, n, z) /\ ~Fach(N, p, n)
  BY <1>2, <1>3, <1>5, <1>6 DEF Gesetzt, Fach
<1> QED BY <1>2, <1>3, <1>7 DEF n, z

Eingetragen(S, N, M, p, q, h) ==
  /\ M \in Seq(Seq(Seq(S))) /\ Len(M) = Len(N) /\ DOMAIN M = DOMAIN N
  /\ Gesetzt(N, M, p, q, h)
  /\ \A x \in DOMAIN N : Len(M[x]) = Len(N[x])

LEMMA NeuerEintrag ==
  ASSUME NEW S, NEW N \in Seq(Seq(Seq(S))), NEW M, NEW p \in DOMAIN N,
         NEW q \in DOMAIN N[p], NEW h \in Seq(S),
         M = MitEintrag(N, p, q, h)
  PROVE  Eingetragen(S, N, M, p, q, h)
<1> DEFINE A == Seq(Seq(S))
           B == Seq(S)
           y == [N[p] EXCEPT ![q] = h]
<1>1. N \in Seq(A) /\ N[p] \in Seq(B) /\ h \in B
  OBVIOUS
<1>2. /\ y \in Seq(B) /\ Len(y) = Len(N[p]) /\ DOMAIN y = DOMAIN N[p] /\ y[q] = h
      /\ \A x \in DOMAIN N[p] : x # q => y[x] = N[p][x]
  <2> HIDE DEF B
  <2> QED BY <1>1, Ersetzt
<1>3. /\ M \in Seq(A) /\ Len(M) = Len(N) /\ DOMAIN M = DOMAIN N /\ M[p] = y
      /\ \A x \in DOMAIN N : x # p => M[x] = N[x]
  <2>1. y \in A
    BY <1>2
  <2> HIDE DEF A, y
  <2>2. M = [N EXCEPT ![p] = y]
    BY DEF y, MitEintrag
  <2> DEFINE t == [N EXCEPT ![p] = y]
  <2>3. /\ t \in Seq(A) /\ Len(t) = Len(N) /\ DOMAIN t = DOMAIN N /\ t[p] = y
        /\ \A x \in DOMAIN N : x # p => t[x] = N[x]
    BY <1>1, <2>1, Ersetzt
  <2> HIDE DEF t
  <2>4. M = t
    BY <2>2 DEF t
  <2> QED BY <2>3, <2>4
<1> HIDE DEF y
<1>4. Gesetzt(N, M, p, q, h)
  BY <1>2, <1>3 DEF Gesetzt, Fach
<1> QED BY <1>2, <1>3, <1>4 DEF Eingetragen

\* The extras of an item are put where the item was put: the first group of
\* a category or subcategory opens a row of its own.  In prices a further
\* group of the first subcategory of the first category stands in front.
Zielfach(k, u, i, K, U) ==
  IF i = 1 THEN ErstesFach(k, u, K, U) ELSE WeiteresFach(k, u, K, U)

Neu(u, i, g, K, alt, vorn) ==
  IF i = 1 THEN <<g>>
  ELSE IF vorn /\ Len(K) = 1 /\ u = 1 THEN <<g>> \o alt ELSE Append(alt, g)

GruppeReihe(u, i, g, K, N, M) ==
  u = 1 /\ i = 1 /\ Len(K) = Len(N) + 1 /\ M = MitReihe(N, g)
GruppeSpalte(k, u, i, g, K, U, N, M, p) ==
  /\ u > 1 /\ i = 1 /\ p = IndexOf(K, k) /\ p \in DOMAIN N
  /\ Len(U[p]) = Len(N[p]) + 1 /\ M = MitSpalte(N, p, g)
GruppeEintrag(k, u, i, g, K, U, N, M, vorn, p, q) ==
  /\ i > 1 /\ p = IndexOf(K, k) /\ p \in DOMAIN N
  /\ q = IndexOf(U[p], u) /\ q \in DOMAIN N[p]
  /\ M = MitEintrag(N, p, q, Neu(u, i, g, K, N[p][q], vorn))
GruppeHinzu(k, u, i, g, K, U, N, M, vorn) ==
  \/ GruppeReihe(u, i, g, K, N, M)
  \/ \E p : GruppeSpalte(k, u, i, g, K, U, N, M, p)
  \/ \E p, q : GruppeEintrag(k, u, i, g, K, U, N, M, vorn, p, q)

\* At rest every category and subcategory has its groups.
RuheX(K, U, N) == Len(N) = Len(K) /\ \A p \in DOMAIN N : Len(N[p]) = Len(U[p])

GesetztIn(k, u, i, g, K, U, N, M, vorn) ==
  \E a, c \in Nat :
    /\ <<a, c>> = Zielfach(k, u, i, K, U) /\ (Fach(N, a, c) <=> i > 1)
    /\ Gesetzt(N, M, a, c, Neu(u, i, g, K, N[a][c], vorn))

LEMMA GruppeGesetzt ==
  ASSUME NEW k \in Nat, NEW u \in Nat, NEW i \in Nat, u > 0, i > 0,
         NEW K, NEW U, NEW I, Reihen(K, U, I), Len(U) = Len(K),
         NEW N \in Seq(Seq(Seq(ExtraTyp))), NEW g \in ExtraTyp, NEW M, NEW vorn,
         NEW e, NEW o, o = Ort("extra", k, u, i, e), FormX(o, K, U, N),
         GruppeHinzu(k, u, i, g, K, U, N, M, vorn)
  PROVE  /\ M \in Seq(Seq(Seq(ExtraTyp))) /\ RuheX(K, U, M)
         /\ GesetztIn(k, u, i, g, K, U, N, M, vorn)
<1>1. o.art = "extra" /\ o.k = k /\ o.u = u /\ o.i = i
  BY OrtFelder
<1>2. /\ OhneGruppe(o) <=> u = 1 /\ i = 1
      /\ WeitereOhneGruppe(o) <=> u > 1 /\ i = 1
      /\ ~OhneUnter(o)
  BY <1>1 DEF OhneGruppe, WeitereOhneGruppe, OhneUnter
<1>3. /\ Len(K) \in Nat /\ DOMAIN U = 1..Len(K) /\ DOMAIN N = 1..Len(N) /\ Len(N) \in Nat
      /\ \A p \in DOMAIN U : U[p] \in Seq(Nat) /\ Len(U[p]) \in Nat
      /\ \A p \in DOMAIN N : Len(N[p]) \in Nat /\ DOMAIN N[p] = 1..Len(N[p])
  BY DEF Reihen
<1>4. /\ u = 1 /\ i = 1 => Len(N) = Len(K) - 1
      /\ u > 1 \/ i > 1 => Len(N) = Len(K)
  <2>1. Len(N) = Len(K) - Eins(OhneGruppe(o))
    BY DEF FormX
  <2>2. CASE u = 1 /\ i = 1
    <3>1. Eins(OhneGruppe(o)) = 1
      BY <1>2, <2>2 DEF Eins
    <3> QED BY <2>1, <2>2, <3>1
  <2>3. CASE ~(u = 1 /\ i = 1)
    <3>1. Eins(OhneGruppe(o)) = 0
      BY <1>2, <2>3 DEF Eins
    <3> QED BY <1>3, <2>1, <2>3, <3>1
  <2> QED BY <2>2, <2>3
<1>5. \A p \in DOMAIN N :
        Len(N[p]) = Len(U[p]) - Eins(WeitereOhneGruppe(o) /\ p = IndexOf(K, k))
  BY <1>1 DEF FormX
<1>6. \A p \in DOMAIN N : p \in DOMAIN U
  <2>0. (u = 1 /\ i = 1) \/ u > 1 \/ i > 1
    OBVIOUS
  <2>1. Len(N) \in Nat /\ Len(K) \in Nat /\ Len(N) <= Len(K)
    <3>1. Len(N) \in Nat /\ Len(K) \in Nat
      BY <1>3
    <3>2. Len(N) = Len(K) - 1 \/ Len(N) = Len(K)
      BY <1>4, <2>0
    <3> QED BY <3>1, <3>2
  <2>2. DOMAIN N = 1..Len(N) /\ DOMAIN U = 1..Len(K)
    BY <1>3
  <2> DEFINE n == Len(N)
             m == Len(K)
  <2> HIDE DEF n, m
  <2>3. \A p \in 1..n : p \in 1..m
    BY <2>1 DEF n, m
  <2> QED BY <2>2, <2>3 DEF n, m
<1> DEFINE S == ExtraTyp
<1>7. CASE GruppeReihe(u, i, g, K, N, M)
  <2>1. u = 1 /\ i = 1 /\ Len(K) = Len(N) + 1 /\ M = MitReihe(N, g)
    BY <1>7 DEF GruppeReihe
  <2>2. /\ M \in Seq(Seq(Seq(S))) /\ Len(M) = Len(N) + 1
        /\ ~Fach(N, Len(N) + 1, 1) /\ Gesetzt(N, M, Len(N) + 1, 1, <<g>>)
        /\ \A p \in DOMAIN N : p \in DOMAIN M /\ Len(M[p]) = Len(N[p])
        /\ Len(M[Len(N) + 1]) = 1
    <3>1. N \in Seq(Seq(Seq(S))) /\ g \in S
      OBVIOUS
    <3> HIDE DEF S
    <3> QED BY <2>1, <3>1, NeueReihe
  <2>3. Len(U[Len(K)]) = 1
    BY <1>2, <2>1 DEF FormX
  <2>4. \A p \in DOMAIN N : Len(N[p]) = Len(U[p])
    BY <1>2, <1>3, <1>5, <1>6, <2>1 DEF Eins
  <2>5. RuheX(K, U, M)
    <3>1. DOMAIN M = 1..Len(M)
      BY <2>2
    <3>2. \A p \in DOMAIN M : p \in DOMAIN N \/ p = Len(K)
      BY <1>3, <2>1, <2>2, <3>1
    <3> QED BY <2>1, <2>2, <2>3, <2>4, <3>2 DEF RuheX
  <2>6. /\ <<Len(N) + 1, 1>> = Zielfach(k, u, i, K, U)
        /\ Neu(u, i, g, K, N[Len(N) + 1][1], vorn) = <<g>>
    BY <2>1 DEF Zielfach, ErstesFach, Neu
  <2>7. GesetztIn(k, u, i, g, K, U, N, M, vorn)
    <3> DEFINE a == Len(N) + 1
    <3>1. a \in Nat /\ 1 \in Nat /\ ~(i > 1)
      BY <1>3, <2>1
    <3>2. /\ <<a, 1>> = Zielfach(k, u, i, K, U) /\ ~Fach(N, a, 1)
          /\ Gesetzt(N, M, a, 1, Neu(u, i, g, K, N[a][1], vorn))
      BY <2>2, <2>6
    <3> HIDE DEF a
    <3> QED BY <3>1, <3>2, Zenon DEF GesetztIn
  <2> QED BY <2>2, <2>5, <2>7
<1>8. ASSUME NEW p, GruppeSpalte(k, u, i, g, K, U, N, M, p)
      PROVE  /\ M \in Seq(Seq(Seq(S))) /\ RuheX(K, U, M)
             /\ GesetztIn(k, u, i, g, K, U, N, M, vorn)
  <2>1. /\ u > 1 /\ i = 1 /\ p = IndexOf(K, k) /\ p \in DOMAIN N
        /\ Len(U[p]) = Len(N[p]) + 1 /\ M = MitSpalte(N, p, g)
    BY <1>8 DEF GruppeSpalte
  <2>2. /\ M \in Seq(Seq(Seq(S))) /\ Len(M) = Len(N) /\ DOMAIN M = DOMAIN N
        /\ ~Fach(N, p, Len(N[p]) + 1) /\ Gesetzt(N, M, p, Len(N[p]) + 1, <<g>>)
        /\ \A x \in DOMAIN N : x # p => Len(M[x]) = Len(N[x])
        /\ Len(M[p]) = Len(N[p]) + 1
    <3>1. N \in Seq(Seq(Seq(S))) /\ g \in S
      OBVIOUS
    <3> HIDE DEF S
    <3> QED BY <2>1, <3>1, NeueSpalte
  <2>3. RuheX(K, U, M)
    <3>1. Len(M) = Len(K)
      BY <1>3, <1>4, <2>1, <2>2
    <3>2. \A x \in DOMAIN N : x # p => Len(N[x]) = Len(U[x])
      BY <1>3, <1>5, <1>6, <2>1 DEF Eins
    <3> QED BY <2>1, <2>2, <3>1, <3>2 DEF RuheX
  <2>4. /\ <<p, Len(N[p]) + 1>> = Zielfach(k, u, i, K, U)
        /\ Neu(u, i, g, K, N[p][Len(N[p]) + 1], vorn) = <<g>>
    BY <2>1 DEF Zielfach, ErstesFach, Neu
  <2>5. GesetztIn(k, u, i, g, K, U, N, M, vorn)
    <3> DEFINE c == Len(N[p]) + 1
    <3>1. p \in Nat /\ c \in Nat /\ ~(i > 1)
      BY <1>3, <2>1
    <3>2. /\ <<p, c>> = Zielfach(k, u, i, K, U) /\ ~Fach(N, p, c)
          /\ Gesetzt(N, M, p, c, Neu(u, i, g, K, N[p][c], vorn))
      BY <2>2, <2>4
    <3> HIDE DEF c
    <3> QED BY <3>1, <3>2, Zenon DEF GesetztIn
  <2> QED BY <2>2, <2>3, <2>5
<1>9. ASSUME NEW p, NEW q, GruppeEintrag(k, u, i, g, K, U, N, M, vorn, p, q)
      PROVE  /\ M \in Seq(Seq(Seq(S))) /\ RuheX(K, U, M)
             /\ GesetztIn(k, u, i, g, K, U, N, M, vorn)
  <2> DEFINE h == Neu(u, i, g, K, N[p][q], vorn)
  <2>1. /\ i > 1 /\ p = IndexOf(K, k) /\ p \in DOMAIN N
        /\ q = IndexOf(U[p], u) /\ q \in DOMAIN N[p]
        /\ M = MitEintrag(N, p, q, h)
    BY <1>9 DEF GruppeEintrag
  <2>2. h \in Seq(S)
    <3> HIDE DEF S
    <3>1. N[p] \in Seq(Seq(S))
      BY <2>1 DEF S
    <3>2. N[p][q] \in Seq(S) /\ g \in S
      BY <2>1, <3>1 DEF S
    <3>3. Append(N[p][q], g) \in Seq(S) /\ <<g>> \o N[p][q] \in Seq(S) /\ <<g>> \in Seq(S)
      BY <3>2
    <3> QED BY <3>3 DEF Neu
  <2> HIDE DEF h
  <2>3. /\ M \in Seq(Seq(Seq(S))) /\ Len(M) = Len(N) /\ DOMAIN M = DOMAIN N
        /\ Gesetzt(N, M, p, q, h)
        /\ \A x \in DOMAIN N : Len(M[x]) = Len(N[x])
    <3>1. N \in Seq(Seq(Seq(S)))
      OBVIOUS
    <3> HIDE DEF S
    <3>2. p \in DOMAIN N /\ q \in DOMAIN N[p] /\ M = MitEintrag(N, p, q, h)
      BY <2>1
    <3>3. Eingetragen(S, N, M, p, q, h)
      BY <2>2, <3>1, <3>2, NeuerEintrag
    <3> QED BY <3>3 DEF Eingetragen
  <2>4. RuheX(K, U, M)
    <3>1. Len(M) = Len(K)
      BY <1>3, <1>4, <2>1, <2>3
    <3>2. \A x \in DOMAIN N : Len(N[x]) = Len(U[x])
      BY <1>2, <1>3, <1>5, <1>6, <2>1 DEF Eins
    <3> QED BY <2>3, <3>1, <3>2 DEF RuheX
  <2>5. GesetztIn(k, u, i, g, K, U, N, M, vorn)
    <3>1. p \in Nat /\ q \in Nat /\ i # 1 /\ Fach(N, p, q)
      BY <1>3, <2>1 DEF Fach
    <3>2. <<p, q>> = Zielfach(k, u, i, K, U)
      BY <2>1, <3>1 DEF Zielfach, WeiteresFach
    <3>3. Gesetzt(N, M, p, q, Neu(u, i, g, K, N[p][q], vorn))
      BY <2>3 DEF h
    <3> QED BY <2>1, <3>1, <3>2, <3>3, Zenon DEF GesetztIn
  <2> QED BY <2>3, <2>4, <2>5
<1> QED BY <1>7, <1>8, <1>9 DEF GruppeHinzu

LEMMA AnzahlNat ==
  ASSUME NEW S, NEW N \in Seq(Seq(Seq(S))), NEW a, NEW c
  PROVE  /\ Anzahl(N, a, c) \in Nat
         /\ Fach(N, a, c) => N[a][c] \in Seq(S) /\ a \in Nat /\ c \in Nat
<1>1. CASE Fach(N, a, c)
  <2>1. a \in DOMAIN N /\ c \in DOMAIN N[a]
    BY <1>1 DEF Fach
  <2>2. N[a] \in Seq(Seq(S)) /\ a \in Nat
    BY <2>1
  <2>3. N[a][c] \in Seq(S) /\ c \in Nat
    BY <2>1, <2>2
  <2>4. Len(N[a][c]) \in Nat
    BY <2>3
  <2> QED BY <1>1, <2>2, <2>3, <2>4 DEF Anzahl
<1>2. CASE ~Fach(N, a, c)
  BY <1>2 DEF Anzahl
<1> QED BY <1>1, <1>2

AmZiel(f, k, u, i, K, U) == IF f = Zielfach(k, u, i, K, U) THEN 1 ELSE 0

LEMMA AnzahlNeu ==
  ASSUME NEW S, NEW N \in Seq(Seq(Seq(S))), NEW M, NEW g \in S, NEW vorn,
         NEW k, NEW u, NEW i \in Nat, i > 0, NEW K, NEW U,
         GesetztIn(k, u, i, g, K, U, N, M, vorn), NEW a, NEW c
  PROVE  Anzahl(M, a, c) = Anzahl(N, a, c) + AmZiel(<<a, c>>, k, u, i, K, U)
<1>1. PICK a0, c0 \in Nat :
        /\ <<a0, c0>> = Zielfach(k, u, i, K, U) /\ (Fach(N, a0, c0) <=> i > 1)
        /\ Gesetzt(N, M, a0, c0, Neu(u, i, g, K, N[a0][c0], vorn))
  BY DEF GesetztIn
<1>2. Anzahl(N, a, c) \in Nat
  BY AnzahlNat
<1>3. CASE a = a0 /\ c = c0
  <2> DEFINE h == Neu(u, i, g, K, N[a0][c0], vorn)
             alt == N[a0][c0]
  <2>1. Anzahl(M, a, c) = Len(h)
    <3> HIDE DEF h
    <3>1. Gesetzt(N, M, a0, c0, h)
      BY <1>1 DEF h
    <3>2. Fach(M, a, c) /\ M[a][c] = h
      BY <1>3, <3>1 DEF Gesetzt
    <3> QED BY <3>2 DEF Anzahl
  <2>2. AmZiel(<<a, c>>, k, u, i, K, U) = 1
    BY <1>1, <1>3 DEF AmZiel
  <2>3. CASE i = 1
    <3>1. Len(h) = 1
      BY <2>3 DEF Neu
    <3>2. Anzahl(N, a, c) = 0
      BY <1>1, <1>3, <2>3 DEF Anzahl
    <3> HIDE DEF h
    <3> QED BY <2>1, <2>2, <3>1, <3>2
  <2>4. CASE i > 1
    <3>1. Fach(N, a, c) /\ alt \in Seq(S)
      BY <1>1, <1>3, <2>4, AnzahlNat
    <3>2. Anzahl(N, a, c) = Len(alt)
      BY <1>3, <3>1 DEF Anzahl
    <3>3. h = <<g>> \o alt \/ h = Append(alt, g)
      BY <2>4, SMTT(30) DEF Neu
    <3> HIDE DEF h, alt
    <3>4. Len(<<g>> \o alt) = Len(alt) + 1 /\ Len(Append(alt, g)) = Len(alt) + 1
      BY <3>1
    <3> QED BY <2>1, <2>2, <3>2, <3>3, <3>4
  <2> QED BY <2>3, <2>4
<1>4. CASE ~(a = a0 /\ c = c0)
  <2>1. <<a, c>> # <<a0, c0>>
    BY <1>4
  <2>2. AmZiel(<<a, c>>, k, u, i, K, U) = 0
    BY <1>1, <2>1 DEF AmZiel
  <2>3. Anzahl(M, a, c) = Anzahl(N, a, c)
    <3>1. (Fach(M, a, c) <=> Fach(N, a, c)) /\ (Fach(N, a, c) => M[a][c] = N[a][c])
      BY <1>1, <1>4 DEF Gesetzt
    <3> QED BY <3>1 DEF Anzahl
  <2> QED BY <1>2, <2>2, <2>3
<1> QED BY <1>3, <1>4

\* An item is put into the same places.
LEMMA ItemGesetzt ==
  ASSUME NEW k \in Nat, NEW u \in Nat, NEW i \in Nat, NEW K, NEW U, NEW I, NEW J,
         Reihen(K, U, I), ItemHinzu(k, u, i, K, U, I, J)
  PROVE  GesetztIn(k, u, i, i, K, U, I, J, FALSE)
<1>1. I \in Seq(Seq(Seq(Nat))) /\ DOMAIN I = 1..Len(I) /\ Len(I) \in Nat
      /\ \A p \in DOMAIN I : Len(I[p]) \in Nat /\ DOMAIN I[p] = 1..Len(I[p])
  BY DEF Reihen
<1>2. CASE NeueKategorie(k, u, i, K, U, I, J)
  <2> DEFINE a == Len(I) + 1
  <2>1. J = MitReihe(I, i) /\ u = 1 /\ i = 1 /\ Len(K) = a
    BY <1>2 DEF NeueKategorie, MitReihe
  <2>2. ~Fach(I, a, 1) /\ Gesetzt(I, J, a, 1, <<i>>)
    BY <1>1, <2>1, NeueReihe
  <2>3. a \in Nat /\ 1 \in Nat /\ ~(i > 1)
    BY <1>1, <2>1
  <2>4. /\ <<a, 1>> = Zielfach(k, u, i, K, U)
        /\ Neu(u, i, i, K, I[a][1], FALSE) = <<i>>
    BY <2>1 DEF Zielfach, ErstesFach, Neu
  <2> HIDE DEF a
  <2>5. Gesetzt(I, J, a, 1, Neu(u, i, i, K, I[a][1], FALSE))
    BY <2>2, <2>4
  <2> QED BY <2>2, <2>3, <2>4, <2>5, Zenon DEF GesetztIn
<1>3. ASSUME NEW p \in DOMAIN I, NeueUnterkategorie(k, u, i, K, U, I, J, p)
      PROVE  GesetztIn(k, u, i, i, K, U, I, J, FALSE)
  <2> DEFINE c == Len(I[p]) + 1
  <2>1. J = MitSpalte(I, p, i) /\ u > 1 /\ i = 1 /\ p = IndexOf(K, k) /\ Len(U[p]) = c
    BY <1>3 DEF NeueUnterkategorie, MitSpalte
  <2>2. ~Fach(I, p, c) /\ Gesetzt(I, J, p, c, <<i>>)
    BY <1>1, <2>1, NeueSpalte, SMTT(30)
  <2>3. p \in Nat /\ c \in Nat /\ ~(i > 1)
    BY <1>1, <2>1
  <2>4. /\ <<p, c>> = Zielfach(k, u, i, K, U)
        /\ Neu(u, i, i, K, I[p][c], FALSE) = <<i>>
    BY <2>1 DEF Zielfach, ErstesFach, Neu
  <2> HIDE DEF c
  <2>5. Gesetzt(I, J, p, c, Neu(u, i, i, K, I[p][c], FALSE))
    BY <2>2, <2>4
  <2> QED BY <2>2, <2>3, <2>4, <2>5, Zenon DEF GesetztIn
<1>4. ASSUME NEW p \in DOMAIN I, NEW q \in DOMAIN I[p],
             NeuesItem(k, u, i, K, U, I, J, p, q)
      PROVE  GesetztIn(k, u, i, i, K, U, I, J, FALSE)
  <2> DEFINE h == Append(I[p][q], i)
  <2>1. J = MitEintrag(I, p, q, h) /\ i > 1 /\ p = IndexOf(K, k) /\ q = IndexOf(U[p], u)
    BY <1>4 DEF NeuesItem, MitEintrag
  <2>2. h \in Seq(Nat)
    <3>1. I[p] \in Seq(Seq(Nat))
      BY <1>1
    <3>2. I[p][q] \in Seq(Nat)
      BY <3>1
    <3> QED BY <3>2
  <2>3. Neu(u, i, i, K, I[p][q], FALSE) = h
    BY <2>1 DEF Neu
  <2> HIDE DEF h
  <2>4. Eingetragen(Nat, I, J, p, q, h)
    BY <1>1, <2>1, <2>2, NeuerEintrag
  <2>5. Gesetzt(I, J, p, q, Neu(u, i, i, K, I[p][q], FALSE))
    BY <2>3, <2>4 DEF Eingetragen
  <2>6. p \in Nat /\ q \in Nat /\ i # 1 /\ Fach(I, p, q)
    BY <1>1, <2>1 DEF Fach
  <2>7. <<p, q>> = Zielfach(k, u, i, K, U)
    BY <2>1, <2>6 DEF Zielfach, WeiteresFach
  <2> QED BY <2>1, <2>5, <2>6, <2>7, Zenon DEF GesetztIn
<1> QED BY <1>2, <1>3, <1>4 DEF ItemHinzu

LEMMA ImFachNeu ==
  ASSUME NEW f, NEW k, NEW u, NEW K, NEW U, NEW i \in Nat
  PROVE  /\ ImFach(f, k, u, K, U, i) \in Nat
         /\ ImFach(f, k, u, K, U, 0) = 0
         /\ i > 0 => ImFach(f, k, u, K, U, i) =
              ImFach(f, k, u, K, U, i - 1) + AmZiel(f, k, u, i, K, U)
<1> DEFINE A == f = ErstesFach(k, u, K, U)
           B == f = WeiteresFach(k, u, K, U)
<1>1. \A x : ImFach(f, k, u, K, U, x) =
               (IF x > 0 /\ A THEN 1 ELSE 0) + (IF x > 0 /\ B THEN x - 1 ELSE 0)
  BY DEF ImFach, Eins
<1>2. AmZiel(f, k, u, i, K, U) =
        IF i = 1 THEN (IF A THEN 1 ELSE 0) ELSE (IF B THEN 1 ELSE 0)
  BY DEF Zielfach, AmZiel
<1> HIDE DEF A, B
<1> QED BY <1>1, <1>2

Angefuegt(k, u, i, e) ==
  LET g == Append(Gruppe(k, u, i, e - 1), <<k, u, i, e>>)
  IN g = Gruppe(k, u, i, e) /\ Len(g) = e

LEMMA GruppeIst ==
  ASSUME NEW k \in Nat, NEW u \in Nat, NEW i \in Nat, NEW e \in Nat
  PROVE  /\ Gruppe(k, u, i, e) \in ExtraTyp /\ Len(Gruppe(k, u, i, e)) = e
         /\ e > 0 => Angefuegt(k, u, i, e) /\ Gruppe(k, u, i, e) # <<>>
         /\ Gruppe(k, u, i, 0) = <<>>
<1> DEFINE T == Nat \X Nat \X Nat \X Nat
<1>1. \A x \in Nat : <<k, u, i, x>> \in T
  OBVIOUS
<1> HIDE DEF T
<1>2. ASSUME NEW n \in Nat
      PROVE  /\ Gruppe(k, u, i, n) \in Seq(T) /\ Len(Gruppe(k, u, i, n)) = n
             /\ DOMAIN Gruppe(k, u, i, n) = 1..n
  <2>1. \A x \in 1..n : x \in Nat
    OBVIOUS
  <2>2. [x \in 1..n |-> <<k, u, i, x>>] \in [1..n -> T]
    BY <1>1, <2>1
  <2> DEFINE f == [x \in 1..n |-> <<k, u, i, x>>]
  <2> HIDE DEF f
  <2>3. f \in [1..n -> T]
    BY <2>2 DEF f
  <2>4. f \in Seq(T) /\ DOMAIN f = 1..n
    BY <2>3
  <2>5. Len(f) = n
    BY <2>4
  <2> QED BY <2>4, <2>5 DEF f, Gruppe
<1>3. ASSUME e > 0
      PROVE  Append(Gruppe(k, u, i, e - 1), <<k, u, i, e>>) = Gruppe(k, u, i, e)
  <2> DEFINE s == Gruppe(k, u, i, e - 1)
             y == <<k, u, i, e>>
             t == Append(s, y)
             z == Gruppe(k, u, i, e)
  <2>1. e - 1 \in Nat /\ y \in T
    BY <1>1, <1>3
  <2>2. s \in Seq(T) /\ Len(s) = e - 1 /\ DOMAIN s = 1..(e - 1)
    BY <1>2, <2>1
  <2>3. /\ t \in Seq(T) /\ DOMAIN t = 1..(Len(s) + 1) /\ t[Len(s) + 1] = y
        /\ \A x \in DOMAIN s : t[x] = s[x]
    <3> HIDE DEF s, y
    <3> QED BY <2>1, <2>2, Angehaengt
  <2>4. DOMAIN t = 1..e /\ t[e] = y /\ \A x \in 1..(e - 1) : t[x] = s[x]
    <3> HIDE DEF s, y, t
    <3>1. Len(s) + 1 = e
      BY <2>2
    <3> QED BY <2>2, <2>3, <3>1
  <2>5. \A x \in 1..(e - 1) : s[x] = <<k, u, i, x>>
    BY DEF Gruppe
  <2>6. ASSUME NEW x \in 1..e PROVE t[x] = <<k, u, i, x>>
    <3> HIDE DEF s, t
    <3>1. CASE x = e
      BY <2>4, <3>1
    <3>2. CASE x # e
      <4>1. x \in 1..(e - 1)
        BY <3>2
      <4> QED BY <2>4, <2>5, <4>1
    <3> QED BY <3>1, <3>2
  <2>7. t = [x \in DOMAIN t |-> t[x]]
    <3> HIDE DEF t
    <3> QED BY <2>3
  <2> HIDE DEF t
  <2>8. t = [x \in 1..e |-> <<k, u, i, x>>]
    BY <2>4, <2>6, <2>7
  <2> QED BY <2>8 DEF t, Gruppe
<1>4. Gruppe(k, u, i, e) \in ExtraTyp
  BY <1>2 DEF ExtraTyp, T
<1>5. Gruppe(k, u, i, 0) = <<>>
  <2>1. Gruppe(k, u, i, 0) \in Seq(T) /\ Len(Gruppe(k, u, i, 0)) = 0
    BY <1>2
  <2> QED BY <2>1
<1>6. e > 0 => Gruppe(k, u, i, e) # <<>>
  <2>1. Len(Gruppe(k, u, i, e)) = e /\ Len(<<>>) = 0
    BY <1>2
  <2> QED BY <2>1
<1>7. e > 0 => Angefuegt(k, u, i, e)
  <2>1. Len(Gruppe(k, u, i, e)) = e
    BY <1>2
  <2> QED BY <1>3, <2>1 DEF Angefuegt
<1> QED BY <1>2, <1>4, <1>5, <1>6, <1>7

\* A record the branches are made for.
SauberesBlatt(b, K, k, u) ==
  /\ \A i \in 1..Len(b[k][u]) : b[k][u][i] > 0
  /\ Len(K) # 1 /\ u > 1 => b[k][u][1] = 1

LEMMA SauberIst ==
  ASSUME LadeTyp, FormInv, GenauInv, AlleSauber, gefaltet > 0,
         NEW k \in 1..Len(Datensatz), NEW u \in 1..Len(Datensatz[k]),
         ort.art \in {"item", "extra"} /\ ort.k = k
  PROVE  SauberesBlatt(Datensatz, Kategorien[BestellungID], k, u)
<1> DEFINE id == BestellungID
           b == Datensatz
           wieder == \E m \in 1..(gefaltet - 1) : eingabe[m].id = eingabe[gefaltet].id
<1>1. /\ gefaltet \in DOMAIN eingabe /\ id \in IDs /\ Baumform(b)
      /\ gefaltet \in Nat /\ gefaltet \in 1..gefaltet
  BY DatensatzForm DEF LadeTyp
<1>2. Sauber(gefaltet)
  BY <1>1 DEF AlleSauber
<1>3. k \in DOMAIN b /\ u \in DOMAIN b[k] /\ DOMAIN b[k][u] = 1..Len(b[k][u])
      /\ k \in Nat /\ k > 0
  <2>1. /\ DOMAIN b = 1..Len(b) /\ DOMAIN b[k] = 1..Len(b[k]) /\ Len(b) \in Nat
        /\ DOMAIN b[k][u] = 1..Len(b[k][u])
    BY <1>1, BaumTeile
  <2>2. k \in DOMAIN b /\ u \in DOMAIN b[k]
    BY <2>1
  <2>3. k \in Nat /\ k > 0
    BY <2>1
  <2> QED BY <2>1, <2>2, <2>3
<1>4. /\ \A i \in DOMAIN b[k][u] : b[k][u][i] > 0
      /\ u > 1 /\ (k > 1 \/ wieder) => b[k][u][1] = 1
  BY <1>2, <1>3 DEF Sauber, Datensatz
<1>5. ASSUME ~wieder
      PROVE  Len(Kategorien[id]) = k
  <2>1. Faltungen(id) = {gefaltet}
    <3>1. \A m \in 1..gefaltet : m = gefaltet \/ m \in 1..(gefaltet - 1)
      BY <1>1
    <3>2. \A m \in 1..gefaltet : eingabe[m].id = eingabe[gefaltet].id => m = gefaltet
      BY <1>5, <3>1
    <3> QED BY <1>1, <3>2 DEF Faltungen, BestellungID
  <2>2. Einmal(id) /\ Faltungen(id) # {}
    BY <2>1 DEF Einmal
  <2>3. eingabe[gefaltet].id = id /\ eingabe[gefaltet].baum = b
    BY DEF BestellungID, Datensatz
  <2>4. Genau(Stelle(id), b, Kategorien[id], Unterkategorien[id], Items[id])
    BY <1>1, <2>2, <2>3 DEF GenauInv
  <2>5. Stelle(id) = ort
    BY DEF Stelle
  <2> QED BY <2>4, <2>5 DEF Genau
<1>6. Len(Kategorien[id]) # 1 => k > 1 \/ wieder
  <2> SUFFICES ASSUME Len(Kategorien[id]) # 1, ~wieder PROVE k > 1
    OBVIOUS
  <2>1. k # 1
    BY <1>5
  <2> QED BY <1>3, <2>1
<1> QED BY <1>3, <1>4, <1>6 DEF SauberesBlatt

\* What the visit of the e-th of n extras does, with N and V the arrays of
\* names and of prices.
Gesammeltes(k, u, i, e) ==
  /\ extrasString' = Gruppe(k, u, i, e)
  /\ ExtrasNamen' = ExtrasNamen /\ ExtrasPreise' = ExtrasPreise
Abgeschlossen(k, u, i, e, M, W) ==
  /\ extrasString' = <<>>
  /\ ExtrasNamen' = [ExtrasNamen EXCEPT ![BestellungID] = M]
  /\ ExtrasPreise' = [ExtrasPreise EXCEPT ![BestellungID] = W]
  /\ GruppeHinzu(k, u, i, Gruppe(k, u, i, e), Kategorien[BestellungID],
                 Unterkategorien[BestellungID], ExtrasNamen[BestellungID], M, FALSE)
  /\ GruppeHinzu(k, u, i, Gruppe(k, u, i, e), Kategorien[BestellungID],
                 Unterkategorien[BestellungID], ExtrasPreise[BestellungID], W, TRUE)

\* The shape of the groups while extras are visited, P and Q the places of
\* the category and the subcategory.
GruppenForm(u, i, K, U, N, P, Q) ==
  /\ u = 1 /\ i = 1 => Len(N) = Len(K) - 1 /\ Len(K) \in Nat
  /\ u > 1 \/ i > 1 => Len(N) = Len(K) /\ P \in DOMAIN N
  /\ u > 1 /\ i = 1 => Len(N[P]) = Len(U[P]) - 1 /\ Len(U[P]) = Len(N[P]) + 1
  /\ i > 1 => Len(N[P]) = Len(U[P]) /\ Q \in DOMAIN N[P]

LEMMA FormXExtra ==
  ASSUME NEW k \in Nat, NEW u \in Nat, NEW i \in Nat, u > 0, i > 0, NEW e, NEW K, NEW U,
         NEW I, Reihen(K, U, I), Ruhe(k, u, K, U, I), NEW S, NEW N \in Seq(Seq(Seq(S))),
         FormX(Ort("extra", k, u, i, e), K, U, N)
  PROVE  LET P == IndexOf(K, k)
             Q == IndexOf(U[P], u)
         IN /\ P \in DOMAIN K /\ K[P] = k /\ Q \in DOMAIN U[P] /\ Len(U[P]) \in Nat
            /\ GruppenForm(u, i, K, U, N, P, Q)
<1> DEFINE o == Ort("extra", k, u, i, e)
           P == IndexOf(K, k)
           Q == IndexOf(U[P], u)
<1>1. o.art = "extra" /\ o.k = k /\ o.u = u /\ o.i = i
  BY OrtFelder
<1> HIDE DEF o
<1>2. FormX(o, K, U, N)
  BY DEF o
<1>3. /\ OhneGruppe(o) <=> u = 1 /\ i = 1
      /\ WeitereOhneGruppe(o) <=> u > 1 /\ i = 1
  BY <1>1 DEF OhneGruppe, WeitereOhneGruppe, OhneUnter
<1>4. P \in DOMAIN K /\ K[P] = k
  <2>1. \E p \in DOMAIN K : K[p] = k
    BY DEF Ruhe
  <2> QED BY <2>1, PlatzIst
<1>5. /\ Len(K) \in Nat /\ DOMAIN K = 1..Len(K) /\ DOMAIN U = 1..Len(K)
      /\ DOMAIN N = 1..Len(N)
      /\ \A p \in DOMAIN U : Len(U[p]) \in Nat /\ DOMAIN U[p] = 1..Len(U[p])
  BY DEF Reihen, Ruhe
<1>6. P \in DOMAIN U
  BY <1>4, <1>5
<1>7. Q \in DOMAIN U[P] /\ Len(U[P]) \in Nat
  <2>1. \E q \in DOMAIN U[P] : U[P][q] = u
    BY DEF Ruhe
  <2> QED BY <1>5, <1>6, <2>1, UnterplatzIst
<1>8. Len(N) = Len(K) - Eins(OhneGruppe(o))
  BY <1>2 DEF FormX
<1>9. ASSUME u = 1, i = 1
      PROVE  GruppenForm(u, i, K, U, N, P, Q)
  <2>1. Eins(OhneGruppe(o)) = 1
    BY <1>3, <1>9 DEF Eins
  <2> HIDE DEF P, Q
  <2> QED BY <1>5, <1>8, <1>9, <2>1 DEF GruppenForm
<1>10. ASSUME ~(u = 1 /\ i = 1)
       PROVE  GruppenForm(u, i, K, U, N, P, Q)
  <2>1. Eins(OhneGruppe(o)) = 0
    BY <1>3, <1>10 DEF Eins
  <2>2. Len(N) = Len(K)
    BY <1>5, <1>8, <2>1
  <2>3. P \in DOMAIN N
    BY <1>4, <1>5, <2>2
  <2>4. Len(N[P]) = Len(U[P]) - Eins(WeitereOhneGruppe(o) /\ P = IndexOf(K, k))
    BY <1>1, <1>2, <2>3 DEF FormX
  <2>5. N[P] \in Seq(Seq(S))
    BY <2>3
  <2>6. DOMAIN N[P] = 1..Len(N[P]) /\ Len(U[P]) \in Nat
    BY <1>5, <1>6, <2>5
  <2>7. CASE i > 1
    <3>1. Eins(WeitereOhneGruppe(o) /\ P = IndexOf(K, k)) = 0
      BY <1>3, <2>7 DEF Eins
    <3>2. Len(N[P]) = Len(U[P])
      BY <2>4, <2>6, <3>1
    <3>3. DOMAIN N[P] = DOMAIN U[P]
      BY <1>5, <1>6, <2>6, <3>2
    <3> HIDE DEF P, Q
    <3> QED BY <1>7, <2>2, <2>3, <2>7, <3>2, <3>3 DEF GruppenForm
  <2>8. CASE i = 1
    <3>1. Eins(WeitereOhneGruppe(o) /\ P = IndexOf(K, k)) = 1
      BY <1>3, <1>10, <2>8 DEF Eins
    <3>2. Len(N[P]) = Len(U[P]) - 1 /\ Len(U[P]) = Len(N[P]) + 1
      BY <2>4, <2>6, <3>1
    <3> HIDE DEF P, Q
    <3> QED BY <1>10, <2>2, <2>3, <2>8, <3>2 DEF GruppenForm
  <2> QED BY <2>7, <2>8
<1> QED BY <1>4, <1>7, <1>9, <1>10

LEMMA ExtraWirkung ==
  ASSUME LadeTyp, FormInv, GenauInv, ExtraInv, AlleSauber,
         NEW k \in 1..Len(Datensatz), NEW u \in 1..Len(Datensatz[k]),
         NEW i \in 1..Len(Datensatz[k][u]), NEW e \in 1..Datensatz[k][u][i],
         AmExtra(k, u, i, e)
  PROVE  /\ ~absturz'
         /\ \/ e < Datensatz[k][u][i] /\ Gesammeltes(k, u, i, e)
            \/ /\ e = Datensatz[k][u][i]
               /\ \E M, W : Abgeschlossen(k, u, i, e, M, W)
<1> DEFINE id == BestellungID
           K == Kategorien[id]
           U == Unterkategorien[id]
           I == Items[id]
           N == ExtrasNamen[id]
           V == ExtrasPreise[id]
           b == Datensatz
           n == Datensatz[k][u][i]
           G == Gruppe(k, u, i, e)
           P == IndexOf(K, k)
           Q == IndexOf(U[P], u)
<1>1. gefaltet > 0 /\ ort = Ort("extra", k, u, i, e) /\ ExtraSchritt
  BY DEF AmExtra, Weiter
<1>2. ort.art = "extra" /\ ort.k = k /\ ort.u = u /\ ort.i = i /\ ort.e = e
  BY <1>1, OrtFelder
<1>3. id \in IDs /\ Baumform(b) /\ Reihen(K, U, I) /\ Form(ort, K, U, I)
  BY <1>1, DatensatzForm, ReihenTyp, Eigene
<1>4. /\ k \in Nat /\ u \in Nat /\ i \in Nat /\ e \in Nat /\ n \in Nat
      /\ u > 0 /\ i > 0 /\ e > 0 /\ e <= n
  <2>1. Len(b) \in Nat /\ Len(b[k]) \in Nat /\ Len(b[k][u]) \in Nat /\ b[k][u][i] \in Nat
    BY <1>3, BaumTeile
  <2> QED BY <2>1
<1>5. Ruhe(k, u, K, U, I)
  BY <1>2, <1>3, <1>4, FormRuhe
<1>6. /\ ~absturz /\ extrasString = Gruppe(k, u, i, e - 1)
      /\ ExtrasNamen \in [IDs -> Seq(Seq(Seq(ExtraTyp)))]
      /\ ExtrasPreise \in [IDs -> Seq(Seq(Seq(ExtraTyp)))]
  BY <1>2 DEF ExtraInv
<1>7. /\ N \in Seq(Seq(Seq(ExtraTyp))) /\ V \in Seq(Seq(Seq(ExtraTyp)))
      /\ FormX(Ort("extra", k, u, i, e), K, U, N) /\ FormX(Ort("extra", k, u, i, e), K, U, V)
  <2>1. Stelle(id) = ort
    BY <1>1 DEF Stelle
  <2> QED BY <1>1, <1>3, <1>6, <2>1 DEF ExtraInv
<1>8. Gesammelt = G /\ (Vollzaehlig <=> e = n)
  <2>1. /\ Append(Gruppe(k, u, i, e - 1), <<k, u, i, e>>) = G
        /\ Len(Append(Gruppe(k, u, i, e - 1), <<k, u, i, e>>)) = e
    <3>1. k \in Nat /\ u \in Nat /\ i \in Nat /\ e \in Nat /\ e > 0
      BY <1>4
    <3>2. Angefuegt(k, u, i, e)
      BY <3>1, GruppeIst
    <3> QED BY <3>2 DEF Angefuegt
  <2>2. Gesammelt = Append(Gruppe(k, u, i, e - 1), <<k, u, i, e>>)
    BY <1>2, <1>6 DEF Gesammelt
  <2> QED BY <1>2, <2>1, <2>2 DEF Vollzaehlig
<1>9. /\ P \in DOMAIN K /\ K[P] = k /\ Q \in DOMAIN U[P] /\ Len(U[P]) \in Nat
       /\ GruppenForm(u, i, K, U, N, P, Q) /\ GruppenForm(u, i, K, U, V, P, Q)
  <2> HIDE DEF K, U, I, N, V
  <2> QED BY <1>3, <1>4, <1>5, <1>7, FormXExtra
<1>10. /\ P \in DOMAIN K /\ K[P] = k /\ Q \in DOMAIN U[P] /\ Len(U[P]) \in Nat
       /\ u = 1 /\ i = 1 => Len(N) = Len(K) - 1 /\ Len(K) \in Nat
       /\ u > 1 \/ i > 1 => Len(N) = Len(K) /\ P \in DOMAIN N
       /\ u > 1 /\ i = 1 => Len(N[P]) = Len(U[P]) - 1 /\ Len(U[P]) = Len(N[P]) + 1
       /\ i > 1 => Len(N[P]) = Len(U[P]) /\ Q \in DOMAIN N[P]
  <2> HIDE DEF K, U, I, N, P, Q
  <2> QED BY <1>9 DEF GruppenForm
<1>11. /\ u = 1 /\ i = 1 => Len(V) = Len(K) - 1
       /\ u > 1 \/ i > 1 => Len(V) = Len(K) /\ P \in DOMAIN V
       /\ u > 1 /\ i = 1 => Len(U[P]) = Len(V[P]) + 1
       /\ i > 1 => Q \in DOMAIN V[P]
  <2> HIDE DEF K, U, I, V, P, Q
  <2> QED BY <1>9 DEF GruppenForm
<1>12. Platz = P /\ Unterplatz = Q
  BY <1>2 DEF Platz, Unterplatz
<1>13. /\ Len(K) = 1 => zweig = IF u = 1 THEN "ersteErste" ELSE "ersteWeitere"
       /\ Len(K) # 1 => zweig = IF u = 1 THEN "spaeterErste" ELSE "spaeterWeitere"
  BY <1>2 DEF FormInv, Zweige
<1>14. \/ Len(K) = 1 /\ u = 1 /\ ExtraErsteErste
       \/ Len(K) = 1 /\ u > 1 /\ ExtraErsteWeitere
       \/ Len(K) # 1 /\ u = 1 /\ ExtraSpaeterErste
       \/ Len(K) # 1 /\ u > 1 /\ ExtraSpaeterWeitere
  <2>1. u = 1 \/ u > 1
    BY <1>4
  <2> HIDE DEF K
  <2> QED BY <1>1, <1>13, <2>1
        DEF ExtraSchritt, ExtraErsteErste, ExtraErsteWeitere, ExtraSpaeterErste,
            ExtraSpaeterWeitere, BeiExtra
<1>15. Len(K) \in Nat /\ Len(K) > 0 /\ DOMAIN K = 1..Len(K)
  <2>1. Len(K) \in Nat /\ DOMAIN K = 1..Len(K)
    BY <1>3 DEF Reihen
  <2>2. P \in DOMAIN K
    BY <1>10
  <2> HIDE DEF K, P
  <2> QED BY <2>1, <2>2
<1>16. N # <<>> \/ (Len(K) = 1 /\ u = 1 /\ i = 1)
  <2> SUFFICES ASSUME N = <<>> PROVE Len(K) = 1 /\ u = 1 /\ i = 1
    OBVIOUS
  <2>1. Len(N) = 0
    OBVIOUS
  <2> HIDE DEF K, N, P, Q, U
  <2> QED BY <1>4, <1>10, <1>15, <2>1
\* With one category the places are the numbers.
<1>17. ASSUME Len(K) = 1
       PROVE  P = 1 /\ Len(U[1]) = u /\ Q = u
  <2>1. P = 1
    <3> HIDE DEF K, P
    <3> QED BY <1>10, <1>15, <1>17
  <2>2. Len(U[1]) = u /\ \A q \in DOMAIN U[1] : U[1][q] = q
    BY <1>5, <1>17 DEF Ruhe
  <2>3. U[1][Q] = u
    <3>1. \E q \in DOMAIN U[P] : U[P][q] = u
      BY <1>5 DEF Ruhe
    <3>2. P \in DOMAIN U
      BY <1>3, <1>5, <1>10 DEF Ruhe, Reihen
    <3>3. U[P][Q] = u
      BY <1>3, <3>1, <3>2, UnterplatzIst
    <3> QED BY <2>1, <3>3
  <2>4. Q \in DOMAIN U[1]
    BY <1>10, <2>1
  <2> HIDE DEF P, Q
  <2> QED BY <2>1, <2>2, <2>3, <2>4
<1>18. SauberesBlatt(b, K, k, u)
  BY <1>1, <1>2, SauberIst
<1>19. /\ (i = 1 \/ i > 1) /\ (N = <<>> <=> Len(N) = 0)
       /\ P \in DOMAIN N => Len(N[P]) \in Nat
  <2>1. P \in DOMAIN N => N[P] \in Seq(Seq(ExtraTyp))
    BY <1>7
  <2> QED BY <1>4, <1>7, <2>1
<1> DEFINE Offen == Sammeln /\ UNCHANGED absturz
           Zu == /\ Vollzaehlig /\ UNCHANGED absturz
                 /\ \/ u = 1 /\ i = 1 /\ Len(K) = 1 /\ GruppeErste
                    \/ u = 1 /\ i = 1 /\ GruppeKategorie
                    \/ u > 1 /\ i = 1 /\ GruppeNeu
                    \/ i > 1 /\ Len(K) = 1 /\ u = 1 /\ GruppeVorn
                    \/ i > 1 /\ ~(Len(K) = 1 /\ u = 1) /\ GruppeDazu
<1>20. ASSUME Len(K) = 1 /\ u = 1 /\ ExtraErsteErste
       PROVE  Offen \/ Zu
  <2>1. \/ Offen
        \/ Vollzaehlig /\ UNCHANGED absturz /\ N = <<>> /\ GruppeErste
        \/ Vollzaehlig /\ UNCHANGED absturz /\ N # <<>> /\ GruppeVorn
    BY <1>20 DEF ExtraErsteErste
  <2>2. N = <<>> <=> i = 1
    <3> HIDE DEF K, N, P, Q, U
    <3> QED BY <1>10, <1>19, <1>20
  <2> HIDE DEF K, N
  <2> QED BY <1>19, <1>20, <2>1, <2>2
<1>21. ASSUME Len(K) = 1 /\ u > 1 /\ ExtraErsteWeitere
       PROVE  Offen \/ Zu
  <2>1. N # <<>>
    BY <1>16, <1>21
  <2>2. \/ Offen
        \/ Vollzaehlig /\ UNCHANGED absturz /\ Len(N[P]) < Q /\ GruppeNeu
        \/ Vollzaehlig /\ UNCHANGED absturz /\ Len(N[P]) >= Q /\ GruppeDazu
    BY <1>12, <1>21, <2>1 DEF ExtraErsteWeitere
  <2>3. Len(N[P]) < Q <=> i = 1
    <3>1. Len(U[P]) = u /\ Q = u
      BY <1>17, <1>21
    <3> HIDE DEF K, N, P, Q, U
    <3> QED BY <1>4, <1>10, <1>19, <1>21, <3>1
  <2>4. Len(N[P]) \in Nat /\ Q \in Nat
    BY <1>4, <1>10, <1>17, <1>19, <1>21
  <2> HIDE DEF K, N, P, Q
  <2> QED BY <1>19, <1>21, <2>2, <2>3, <2>4
<1>22. ASSUME Len(K) # 1 /\ u = 1 /\ ExtraSpaeterErste
       PROVE  Offen \/ Zu
  <2>1. N # <<>>
    BY <1>16, <1>22
  <2>2. \/ Offen
        \/ Vollzaehlig /\ UNCHANGED absturz /\ Len(N) < Len(K) /\ GruppeKategorie
        \/ Vollzaehlig /\ UNCHANGED absturz /\ Len(N) >= Len(K) /\ GruppeDazu
    BY <1>22, <2>1 DEF ExtraSpaeterErste
  <2>3. (Len(N) < Len(K) <=> i = 1) /\ (Len(N) >= Len(K) <=> i > 1)
    <3>1. (i = 1 => Len(N) = Len(K) - 1) /\ (i > 1 => Len(N) = Len(K))
      BY <1>10, <1>22
    <3> HIDE DEF K, N, P, Q, U
    <3>2. Len(K) \in Nat
      BY <1>15
    <3>3. CASE i = 1
      BY <3>1, <3>2, <3>3
    <3>4. CASE i > 1
      BY <3>1, <3>2, <3>4
    <3> QED BY <1>19, <3>3, <3>4
  <2> HIDE DEF K, N
  <2> QED BY <1>22, <2>2, <2>3
<1>23. ASSUME Len(K) # 1 /\ u > 1 /\ ExtraSpaeterWeitere
       PROVE  Offen \/ Zu
  <2>1. P \in DOMAIN N
    BY <1>10, <1>23
  <2>2. /\ UNCHANGED absturz
        /\ \/ Len(N[P]) < Len(U[P]) /\ GruppeNeu
           \/ Len(N[P]) >= Len(U[P]) /\ Sammeln
           \/ Len(N[P]) >= Len(U[P]) /\ Vollzaehlig /\ GruppeDazu
    BY <1>12, <1>23, <2>1 DEF ExtraSpaeterWeitere
  <2>3. (Len(N[P]) < Len(U[P]) <=> i = 1) /\ (Len(N[P]) >= Len(U[P]) <=> i > 1)
    <3> HIDE DEF K, N, P, Q, U
    <3> QED BY <1>10, <1>19, <1>23, <2>1
  <2>4. i = 1 => Vollzaehlig
    <3>1. i = 1 => n = 1
      BY <1>18, <1>23 DEF SauberesBlatt
    <3>2. i = 1 => e = n
      <4> HIDE DEF n
      <4> QED BY <1>4, <3>1
    <3> QED BY <1>8, <3>2
  <2> HIDE DEF K, N, P, U
  <2> QED BY <1>23, <2>2, <2>3, <2>4
<1>24. Offen \/ Zu
  <2> HIDE DEF Offen, Zu
  <2> QED BY <1>14, <1>20, <1>21, <1>22, <1>23
<1>25. CASE Offen
  <2>1. e # n /\ e < n
    <3> HIDE DEF n
    <3> QED BY <1>4, <1>8, <1>25 DEF Sammeln
  <2> QED BY <1>6, <1>8, <1>25, <2>1 DEF Sammeln, Gesammeltes
<1> DEFINE Ziel == ~absturz' /\ e = n /\ \E M, W : Abgeschlossen(k, u, i, e, M, W)
<1>26. ASSUME NEW M, NEW W, Zu,
              ExtrasNamen' = [ExtrasNamen EXCEPT ![id] = M],
              ExtrasPreise' = [ExtrasPreise EXCEPT ![id] = W],
              extrasString' = <<>>,
              GruppeHinzu(k, u, i, G, K, U, N, M, FALSE),
              GruppeHinzu(k, u, i, G, K, U, V, W, TRUE)
       PROVE  Ziel
  <2>1. Abgeschlossen(k, u, i, e, M, W)
    BY <1>26 DEF Abgeschlossen
  <2>2. ~absturz' /\ e = n
    BY <1>6, <1>8, <1>26
  <2> QED BY <2>1, <2>2
<1>27. ASSUME Zu PROVE Ziel
  <2>1. ASSUME u = 1, i = 1, (GruppeErste /\ Len(K) = 1) \/ GruppeKategorie
        PROVE  Ziel
    <3> DEFINE M == MitReihe(N, G)
               W == MitReihe(V, G)
    <3>1. Len(K) = Len(N) + 1 /\ Len(K) = Len(V) + 1
      <4>1. Len(N) \in Nat /\ Len(V) \in Nat
        BY <1>7
      <4> HIDE DEF K, N, V, P, Q, U
      <4> QED BY <1>10, <1>11, <1>15, <2>1, <4>1
    <3>2. GruppeHinzu(k, u, i, G, K, U, N, M, FALSE) /\ GruppeHinzu(k, u, i, G, K, U, V, W, TRUE)
      <4> HIDE DEF K, U, N, V, G, M, W
      <4>1. GruppeReihe(u, i, G, K, N, M) /\ GruppeReihe(u, i, G, K, V, W)
        BY <2>1, <3>1 DEF GruppeReihe, M, W
      <4> QED BY <4>1 DEF GruppeHinzu
    <3>3. /\ ExtrasNamen' = [ExtrasNamen EXCEPT ![id] = M]
          /\ ExtrasPreise' = [ExtrasPreise EXCEPT ![id] = W] /\ extrasString' = <<>>
      <4>1. CASE GruppeErste /\ Len(K) = 1
        <5>1. Len(N) = 0 /\ Len(V) = 0
          <6>1. Len(N) \in Nat /\ Len(V) \in Nat
            BY <1>7
          <6>2. Len(K) = 1 /\ Len(K) = Len(N) + 1 /\ Len(K) = Len(V) + 1
            BY <3>1, <4>1
          <6>3. \A x \in Nat : 1 = x + 1 => x = 0
            OBVIOUS
          <6> HIDE DEF K, N, V
          <6> QED BY <6>1, <6>2, <6>3, Zenon
        <5>2. N = <<>> /\ V = <<>>
          BY <1>7, <5>1
        <5>3. M = << << <<G>> >> >> /\ W = << << <<G>> >> >>
          <6> HIDE DEF N, V, G
          <6> QED BY <5>2 DEF MitReihe
        <5> HIDE DEF M, W, G
        <5> QED BY <1>8, <4>1, <5>3 DEF GruppeErste
      <4>2. CASE GruppeKategorie
        BY <1>8, <4>2 DEF GruppeKategorie, MitReihe
      <4> QED BY <2>1, <4>1, <4>2
    <3> HIDE DEF K, U, N, V, G, M, W, Zu, Ziel
    <3> QED BY <1>26, <1>27, <3>2, <3>3
  <2>2. ASSUME u > 1, i = 1, GruppeNeu
        PROVE  Ziel
    <3> DEFINE M == MitSpalte(N, P, G)
               W == MitSpalte(V, P, G)
    <3>1. GruppeHinzu(k, u, i, G, K, U, N, M, FALSE) /\ GruppeHinzu(k, u, i, G, K, U, V, W, TRUE)
      <4>1. /\ P \in DOMAIN N /\ Len(U[P]) = Len(N[P]) + 1
            /\ P \in DOMAIN V /\ Len(U[P]) = Len(V[P]) + 1
        BY <1>10, <1>11, <2>2
      <4> HIDE DEF K, U, N, V, G, M, W
      <4>2. /\ GruppeSpalte(k, u, i, G, K, U, N, M, P)
            /\ GruppeSpalte(k, u, i, G, K, U, V, W, P)
        BY <2>2, <4>1 DEF GruppeSpalte, M, W
      <4> QED BY <4>2 DEF GruppeHinzu
    <3>2. /\ ExtrasNamen' = [ExtrasNamen EXCEPT ![id] = M]
          /\ ExtrasPreise' = [ExtrasPreise EXCEPT ![id] = W] /\ extrasString' = <<>>
      BY <1>8, <1>12, <2>2 DEF GruppeNeu, MitSpalte
    <3> HIDE DEF K, U, N, V, G, M, W, Zu, Ziel
    <3> QED BY <1>26, <1>27, <3>1, <3>2
  <2>3. ASSUME i > 1, NEW R, NEW h, NEW j, R = Q,
               h = Neu(u, i, G, K, N[P][Q], FALSE), j = Neu(u, i, G, K, V[P][Q], TRUE),
               ExtrasNamen' = [ExtrasNamen EXCEPT ![id] = MitEintrag(N, P, R, h)],
               ExtrasPreise' = [ExtrasPreise EXCEPT ![id] = MitEintrag(V, P, R, j)],
               extrasString' = <<>>
        PROVE  Ziel
    <3> DEFINE M == MitEintrag(N, P, Q, h)
               W == MitEintrag(V, P, Q, j)
    <3>1. GruppeHinzu(k, u, i, G, K, U, N, M, FALSE) /\ GruppeHinzu(k, u, i, G, K, U, V, W, TRUE)
      <4>1. /\ P \in DOMAIN N /\ Q \in DOMAIN N[P]
            /\ P \in DOMAIN V /\ Q \in DOMAIN V[P]
        BY <1>10, <1>11, <2>3
      <4> HIDE DEF K, U, N, V, G, M, W
      <4>2. /\ GruppeEintrag(k, u, i, G, K, U, N, M, FALSE, P, Q)
            /\ GruppeEintrag(k, u, i, G, K, U, V, W, TRUE, P, Q)
        BY <2>3, <4>1 DEF GruppeEintrag, M, W
      <4> QED BY <4>2 DEF GruppeHinzu
    <3>2. /\ ExtrasNamen' = [ExtrasNamen EXCEPT ![id] = M]
          /\ ExtrasPreise' = [ExtrasPreise EXCEPT ![id] = W] /\ extrasString' = <<>>
      BY <2>3
    <3> HIDE DEF K, U, N, V, G, M, W, Zu, Ziel
    <3> QED BY <1>26, <1>27, <3>1, <3>2
  <2>4. ASSUME i > 1, Len(K) = 1, u = 1, GruppeVorn
        PROVE  Ziel
    <3>1. ErsterPlatz = 1 /\ Q = 1
      <4>1. P = 1 /\ IndexOf(U, <<u>>) = 1 /\ IndexOf(U[1], u) = 1
        <5> HIDE DEF K, U, I
        <5> QED BY <1>3, <1>5, <2>4, ErsteKategorie, SMTT(30)
      <4> QED BY <1>2, <4>1 DEF ErsterPlatz
    <3> DEFINE h == Append(N[P][Q], G)
               j == <<G>> \o V[P][Q]
    <3>2. /\ h = Neu(u, i, G, K, N[P][Q], FALSE)
          /\ j = Neu(u, i, G, K, V[P][Q], TRUE)
      <4>1. i # 1
        BY <2>4
      <4> HIDE DEF K, N, V, G, P, Q
      <4> QED BY <2>4, <4>1 DEF Neu
    <3>3. /\ ExtrasNamen' = [ExtrasNamen EXCEPT ![id] = MitEintrag(N, P, Q, h)]
          /\ ExtrasPreise' = [ExtrasPreise EXCEPT ![id] = MitEintrag(V, P, Q, j)]
          /\ extrasString' = <<>>
      <4>1. ErsterPlatz = Q
        BY <3>1
      <4> QED BY <1>8, <1>12, <2>4, <4>1 DEF GruppeVorn, MitEintrag
    <3> HIDE DEF K, U, N, V, G, P, Q, h, j, Ziel
    <3> QED BY <2>3, <2>4, <3>2, <3>3
  <2>5. ASSUME i > 1, ~(Len(K) = 1 /\ u = 1), GruppeDazu
        PROVE  Ziel
    <3> DEFINE h == Append(N[P][Q], G)
               j == Append(V[P][Q], G)
    <3>1. /\ h = Neu(u, i, G, K, N[P][Q], FALSE)
          /\ j = Neu(u, i, G, K, V[P][Q], TRUE)
      <4>1. i # 1
        BY <2>5
      <4> HIDE DEF K, N, V, G, P, Q
      <4> QED BY <2>5, <4>1 DEF Neu
    <3>2. /\ ExtrasNamen' = [ExtrasNamen EXCEPT ![id] = MitEintrag(N, P, Q, h)]
          /\ ExtrasPreise' = [ExtrasPreise EXCEPT ![id] = MitEintrag(V, P, Q, j)]
          /\ extrasString' = <<>>
      BY <1>8, <1>12, <2>5 DEF GruppeDazu, MitEintrag
    <3> HIDE DEF K, U, N, V, G, P, Q, h, j, Ziel
    <3> QED BY <2>3, <2>5, <3>1, <3>2
  <2>6. \/ u = 1 /\ i = 1 /\ Len(K) = 1 /\ GruppeErste
        \/ u = 1 /\ i = 1 /\ GruppeKategorie
        \/ u > 1 /\ i = 1 /\ GruppeNeu
        \/ i > 1 /\ Len(K) = 1 /\ u = 1 /\ GruppeVorn
        \/ i > 1 /\ ~(Len(K) = 1 /\ u = 1) /\ GruppeDazu
    BY <1>27
  <2> HIDE DEF K, Ziel
  <2>7. CASE u = 1 /\ i = 1 /\ Len(K) = 1 /\ GruppeErste
    BY <2>1, <2>7
  <2>8. CASE u = 1 /\ i = 1 /\ GruppeKategorie
    BY <2>1, <2>8
  <2> QED BY <2>2, <2>4, <2>5, <2>6, <2>7, <2>8
<1> QED BY <1>24, <1>25, <1>27

(***************************************************************************)
(* The walk over a record of that kind.                                    *)
(***************************************************************************)
LEMMA FolgenderSauber ==
  ASSUME NEW b, Baumform(b), NEW k \in 1..Len(b), NEW u \in 1..Len(b[k]),
         \A i \in 1..Len(b[k][u]) : b[k][u][i] > 0,
         NEW i \in 1..Len(b[k][u])
  PROVE  /\ Folgender(b, Ort("item", k, u, i, 0)) =
              IF i < Len(b[k][u]) THEN Ort("item", k, u, i + 1, 0)
              ELSE Ort("extra", k, u, 1, 1)
         /\ \A e \in 1..b[k][u][i] : Folgender(b, Ort("extra", k, u, i, e)) =
              IF e < b[k][u][i] THEN Ort("extra", k, u, i, e + 1)
              ELSE IF i < Len(b[k][u]) THEN Ort("extra", k, u, i + 1, 1)
              ELSE NachUnterkategorie(b, k, u)
<1> DEFINE m == Len(b[k][u])
<1>1. m \in Nat /\ m > 0 /\ i \in Nat /\ i > 0 /\ i <= m
  <2>1. Len(b[k][u]) \in Nat /\ Len(b[k][u]) > 0
    BY BaumTeile
  <2> QED BY <2>1
<1>2. ASSUME NEW j \in 1..m
      PROVE  ExtrasAb(b, k, u, j) = Ort("extra", k, u, j, 1)
  <2>1. j \in Nat /\ j > 0 /\ j \in j..m
    BY <1>1
  <2>2. \/ /\ ExtrasAb(b, k, u, j) = NachUnterkategorie(b, k, u)
           /\ \A x \in j..m : b[k][u][x] = 0
        \/ \E y \in j..m :
             /\ ExtrasAb(b, k, u, j) = Ort("extra", k, u, y, 1)
             /\ b[k][u][y] > 0
             /\ \A x \in j..m : b[k][u][x] > 0 => y <= x
    BY <2>1, ExtrasAbIst
  <2>3. b[k][u][j] > 0 /\ b[k][u][j] # 0
    OBVIOUS
  <2>4. \E y \in j..m :
             /\ ExtrasAb(b, k, u, j) = Ort("extra", k, u, y, 1)
             /\ \A x \in j..m : b[k][u][x] > 0 => y <= x
    BY <2>1, <2>2, <2>3
  <2>5. PICK y \in j..m : ExtrasAb(b, k, u, j) = Ort("extra", k, u, y, 1) /\ y <= j
    BY <2>1, <2>3, <2>4
  <2>6. y = j
    BY <1>1, <2>5
  <2> QED BY <2>5, <2>6
<1>3. ASSUME NEW j \in Nat, j > m
      PROVE  ExtrasAb(b, k, u, j) = NachUnterkategorie(b, k, u)
  <2>1. j..m = {} /\ j > 0
    BY <1>1, <1>3
  <2> QED BY <2>1 DEF ExtrasAb
<1>4. /\ Folgender(b, Ort("item", k, u, i, 0)) =
           IF i < m THEN Ort("item", k, u, i + 1, 0) ELSE ExtrasAb(b, k, u, 1)
      /\ \A e \in 1..b[k][u][i] : Folgender(b, Ort("extra", k, u, i, e)) =
           IF e < b[k][u][i] THEN Ort("extra", k, u, i, e + 1)
           ELSE ExtrasAb(b, k, u, i + 1)
  BY FolgenderIst
<1>5. ExtrasAb(b, k, u, 1) = Ort("extra", k, u, 1, 1)
  BY <1>1, <1>2
<1>6. ExtrasAb(b, k, u, i + 1) = IF i < m THEN Ort("extra", k, u, i + 1, 1)
                                 ELSE NachUnterkategorie(b, k, u)
  <2>1. CASE i < m
    <3>1. i + 1 \in 1..m
      BY <1>1, <2>1
    <3> QED BY <1>2, <2>1, <3>1
  <2>2. CASE ~(i < m)
    <3>1. i + 1 \in Nat /\ i + 1 > m
      BY <1>1, <2>2
    <3> QED BY <1>3, <2>2, <3>1
  <2> QED BY <2>1, <2>2
<1> QED BY <1>4, <1>5, <1>6

\* The shape depends on the place by three conditions.
GleicheStufe(o, x) ==
  /\ OhneUnter(o) <=> OhneUnter(x)
  /\ OhneGruppe(o) <=> OhneGruppe(x)
  /\ WeitereOhneGruppe(o) <=> WeitereOhneGruppe(x)
  /\ WeitereOhneGruppe(o) => o.k = x.k

LEMMA FormXGleich ==
  ASSUME NEW o, NEW x, GleicheStufe(o, x), NEW K, NEW U, NEW N, FormX(o, K, U, N)
  PROVE  FormX(x, K, U, N)
<1>1. Eins(OhneGruppe(x)) = Eins(OhneGruppe(o))
  BY DEF Eins, GleicheStufe
<1>2. ASSUME NEW p
      PROVE  Eins(WeitereOhneGruppe(x) /\ p = IndexOf(K, x.k)) =
               Eins(WeitereOhneGruppe(o) /\ p = IndexOf(K, o.k))
  <2>1. CASE WeitereOhneGruppe(o)
    <3>1. WeitereOhneGruppe(x) /\ o.k = x.k
      BY <2>1 DEF GleicheStufe
    <3> QED BY <2>1, <3>1 DEF Eins
  <2>2. CASE ~WeitereOhneGruppe(o)
    <3>1. ~WeitereOhneGruppe(x)
      BY <2>2 DEF GleicheStufe
    <3> QED BY <2>2, <3>1 DEF Eins
  <2> QED BY <2>1, <2>2
<1> QED BY <1>1, <1>2 DEF FormX, GleicheStufe

\* Places where every category and subcategory has its groups.
Ruhig(o) == ~OhneUnter(o) /\ ~OhneGruppe(o) /\ ~WeitereOhneGruppe(o)

LEMMA FormXRuhig ==
  ASSUME NEW o, Ruhig(o), NEW K, NEW U, NEW N, Len(K) \in Nat,
         \A p \in DOMAIN N : Len(U[p]) \in Nat
  PROVE  FormX(o, K, U, N) <=> RuheX(K, U, N)
<1>1. Eins(OhneGruppe(o)) = 0
  BY DEF Ruhig, Eins
<1>2. \A p : Eins(WeitereOhneGruppe(o) /\ p = IndexOf(K, o.k)) = 0
  BY DEF Ruhig, Eins
<1> QED BY <1>1, <1>2 DEF FormX, RuheX, Ruhig

LEMMA RuhigeOrte ==
  ASSUME NEW k, NEW u \in Nat, NEW i \in Nat, NEW e
  PROVE  /\ Ruhig(Ende) /\ Ruhig(Ort("kategorie", k, 0, 0, 0))
         /\ u > 1 => Ruhig(Ort("unterkategorie", k, u, 0, 0))
         /\ i > 1 => Ruhig(Ort("extra", k, u, i, e))
<1>1. Ruhig(Ende)
  BY OrtFelder DEF Ende, Ruhig, OhneUnter, OhneGruppe, WeitereOhneGruppe
<1>2. Ruhig(Ort("kategorie", k, 0, 0, 0))
  BY OrtFelder DEF Ruhig, OhneUnter, OhneGruppe, WeitereOhneGruppe
<1>3. u > 1 => Ruhig(Ort("unterkategorie", k, u, 0, 0))
  BY OrtFelder DEF Ruhig, OhneUnter, OhneGruppe, WeitereOhneGruppe
<1>4. i > 1 => Ruhig(Ort("extra", k, u, i, e))
  BY OrtFelder DEF Ruhig, OhneUnter, OhneGruppe, WeitereOhneGruppe
<1> QED BY <1>1, <1>2, <1>3, <1>4

LEMMA GleicheOrte ==
  ASSUME NEW k, NEW u \in Nat, u > 0, NEW i \in Nat, i > 0, NEW e, NEW f
  PROVE  /\ GleicheStufe(Ort("item", k, u, i, 0), Ort("item", k, u, i + 1, 0))
         /\ GleicheStufe(Ort("item", k, u, i, 0), Ort("extra", k, u, 1, 1))
         /\ GleicheStufe(Ort("extra", k, u, i, e), Ort("extra", k, u, i, f))
<1>1. GleicheStufe(Ort("item", k, u, i, 0), Ort("item", k, u, i + 1, 0))
  BY OrtFelder DEF GleicheStufe, OhneUnter, OhneGruppe, WeitereOhneGruppe
<1>2. GleicheStufe(Ort("item", k, u, i, 0), Ort("extra", k, u, 1, 1))
  BY OrtFelder DEF GleicheStufe, OhneUnter, OhneGruppe, WeitereOhneGruppe
<1>3. GleicheStufe(Ort("extra", k, u, i, e), Ort("extra", k, u, i, f))
  BY OrtFelder DEF GleicheStufe, OhneUnter, OhneGruppe, WeitereOhneGruppe
<1> QED BY <1>1, <1>2, <1>3

LEMMA GruppeLeer ==
  ASSUME NEW k, NEW u, NEW i
  PROVE  Gruppe(k, u, i, 0) = <<>> /\ Gruppe(k, u, i, -1) = <<>>
<1>1. 1..0 = {} /\ 1..(-1) = {}
  OBVIOUS
<1>2. Gruppe(k, u, i, 0) = Gruppe(k, u, i, -1)
  BY <1>1 DEF Gruppe
<1>3. Gruppe(k, u, i, 0) = <<>>
  <2> DEFINE T == {<<k, u, i, x>> : x \in Nat}
             f == [x \in 1..0 |-> <<k, u, i, x>>]
  <2>1. f \in [1..0 -> T]
    OBVIOUS
  <2> HIDE DEF f, T
  <2>2. f \in Seq(T) /\ DOMAIN f = 1..0
    BY <2>1
  <2>3. Len(f) = 0
    BY <2>2
  <2>4. f = <<>>
    BY <2>2, <2>3
  <2> QED BY <2>4 DEF f, Gruppe
<1> QED BY <1>2, <1>3

\* A category or a subcategory is noted.
LEMMA KategorieFormX ==
  ASSUME NEW k \in Nat, NEW K, NEW U, NEW I, Reihen(K, U, I), NEW S,
         NEW N \in Seq(Seq(Seq(S))), Len(U) = Len(K),
         FormX(Ort("kategorie", k, 0, 0, 0), K, U, N)
  PROVE  FormX(Ort("unterkategorie", k, 1, 0, 0), Append(K, k), U, N)
<1> DEFINE x == Ort("unterkategorie", k, 1, 0, 0)
           L == Append(K, k)
<1>1. x.art = "unterkategorie" /\ x.k = k /\ x.u = 1
  BY OrtFelder
<1>2. Len(K) \in Nat /\ Len(L) = Len(K) + 1 /\ DOMAIN U = 1..Len(K)
      /\ \A p \in DOMAIN U : Len(U[p]) \in Nat
  BY DEF Reihen
<1>3. OhneUnter(x) /\ OhneGruppe(x) /\ ~WeitereOhneGruppe(x)
  BY <1>1 DEF OhneUnter, OhneGruppe, WeitereOhneGruppe
<1>4. Len(N) = Len(K)
  <2> DEFINE o == Ort("kategorie", k, 0, 0, 0)
  <2>1. Ruhig(o) /\ FormX(o, K, U, N)
    BY RuhigeOrte
  <2> HIDE DEF o
  <2>2. Eins(OhneGruppe(o)) = 0
    BY <2>1 DEF Ruhig, Eins
  <2>3. Len(N) = Len(K) - Eins(OhneGruppe(o))
    BY <2>1 DEF FormX
  <2> QED BY <1>2, <2>2, <2>3
<1>5. \A p \in DOMAIN N : Len(U[p]) \in Nat
  BY <1>2, <1>4
<1>6. RuheX(K, U, N)
  BY <1>2, <1>5, FormXRuhig, RuhigeOrte
<1> HIDE DEF x, L
<1>7. Eins(OhneGruppe(x)) = 1
  BY <1>3 DEF Eins
<1>8. \A p : Eins(WeitereOhneGruppe(x) /\ p = IndexOf(L, x.k)) = 0
  BY <1>3 DEF Eins
<1>9. FormX(x, L, U, N)
  <2>1. Len(N) = Len(L) - Eins(OhneGruppe(x))
    BY <1>2, <1>4, <1>7
  <2>2. ASSUME NEW p \in DOMAIN N
        PROVE  Len(N[p]) = Len(U[p]) - Eins(WeitereOhneGruppe(x) /\ p = IndexOf(L, x.k))
    <3>1. Len(N[p]) = Len(U[p]) /\ Len(U[p]) \in Nat
      BY <1>5, <1>6 DEF RuheX
    <3>2. Eins(WeitereOhneGruppe(x) /\ p = IndexOf(L, x.k)) = 0
      BY <1>8
    <3> QED BY <3>1, <3>2
  <2> QED BY <1>3, <2>1, <2>2 DEF FormX
<1> QED BY <1>9 DEF x, L

LEMMA UnterkategorieFormX ==
  ASSUME NEW k \in Nat, NEW u \in Nat, u > 0, NEW K, NEW U, NEW I, NEW V,
         Reihen(K, U, I), Form(Ort("unterkategorie", k, u, 0, 0), K, U, I),
         u = 1 => NeueErste(U, V), u > 1 => NeueWeitere(u, U, V, IndexOf(K, k)),
         NEW S, NEW N \in Seq(Seq(Seq(S))),
         FormX(Ort("unterkategorie", k, u, 0, 0), K, U, N)
  PROVE  FormX(Ort("item", k, u, 1, 0), K, V, N)
<1> DEFINE o == Ort("unterkategorie", k, u, 0, 0)
           x == Ort("item", k, u, 1, 0)
           P == IndexOf(K, k)
<1>1. /\ o.art = "unterkategorie" /\ o.k = k /\ o.u = u
      /\ x.art = "item" /\ x.k = k /\ x.u = u /\ x.i = 1
  BY OrtFelder
<1>2. Form(o, K, U, I) /\ FormX(o, K, U, N)
  OBVIOUS
<1> HIDE DEF o, x
<1>3. /\ Len(K) \in Nat /\ Len(U) \in Nat /\ U \in Seq(Seq(Nat)) /\ DOMAIN U = 1..Len(U)
      /\ \A p \in DOMAIN U : U[p] \in Seq(Nat) /\ Len(U[p]) \in Nat
      /\ DOMAIN N = 1..Len(N) /\ Len(N) \in Nat
  BY DEF Reihen
<1>4. /\ OhneUnter(o) <=> u = 1
      /\ OhneGruppe(o) <=> u = 1
      /\ ~WeitereOhneGruppe(o) /\ ~OhneUnter(x)
      /\ OhneGruppe(x) <=> u = 1
      /\ WeitereOhneGruppe(x) <=> u > 1
  BY <1>1 DEF OhneUnter, OhneGruppe, WeitereOhneGruppe
<1>5. Eins(OhneGruppe(x)) = Eins(OhneGruppe(o)) /\ Eins(OhneUnter(o)) = Eins(OhneGruppe(o))
      /\ (u = 1 => Eins(OhneGruppe(o)) = 1) /\ (u > 1 => Eins(OhneGruppe(o)) = 0)
  BY <1>4 DEF Eins
<1>6. Len(N) = Len(K) - Eins(OhneGruppe(o)) /\ Len(U) = Len(K) - Eins(OhneUnter(o))
  BY <1>2 DEF Form, FormX
<1>7. Len(N) = Len(U) /\ DOMAIN N = DOMAIN U /\ Len(N) = Len(K) - Eins(OhneGruppe(x))
  BY <1>3, <1>5, <1>6
<1>8. ASSUME NEW p \in DOMAIN N
      PROVE  Len(N[p]) = Len(U[p]) /\ Len(U[p]) \in Nat
  <2>1. Eins(WeitereOhneGruppe(o) /\ p = IndexOf(K, o.k)) = 0
    BY <1>4 DEF Eins
  <2>2. Len(N[p]) = Len(U[p]) - Eins(WeitereOhneGruppe(o) /\ p = IndexOf(K, o.k))
    BY <1>2 DEF FormX
  <2>3. Len(U[p]) \in Nat
    BY <1>3, <1>7
  <2> QED BY <2>1, <2>2, <2>3
<1>9. CASE u = 1
  <2> DEFINE y == <<1>>
             S1 == Seq(Nat)
  <2>0. V = Append(U, y) /\ y \in S1 /\ Len(y) = 1 /\ U \in Seq(S1)
    BY <1>3, <1>9 DEF NeueErste
  <2> HIDE DEF y, S1
  <2>1. /\ Len(V) = Len(U) + 1 /\ V[Len(U) + 1] = y /\ \A p \in DOMAIN U : V[p] = U[p]
    BY <2>0, Angehaengt
  <2>2. \A p : Eins(WeitereOhneGruppe(x) /\ p = IndexOf(K, x.k)) = 0
    BY <1>4, <1>9 DEF Eins
  <2>3. Len(V[Len(V)]) = 1
    BY <2>0, <2>1
  <2>4. ASSUME NEW p \in DOMAIN N
        PROVE  Len(N[p]) = Len(V[p]) - Eins(WeitereOhneGruppe(x) /\ p = IndexOf(K, x.k))
    <3>1. Len(V[p]) = Len(U[p])
      BY <1>7, <2>1
    <3>2. Eins(WeitereOhneGruppe(x) /\ p = IndexOf(K, x.k)) = 0
      BY <2>2
    <3>3. Len(N[p]) = Len(U[p]) /\ Len(U[p]) \in Nat
      BY <1>8
    <3> QED BY <3>1, <3>2, <3>3
  <2>5. FormX(x, K, V, N)
    BY <1>7, <2>3, <2>4 DEF FormX
  <2> QED BY <2>5 DEF x
<1>10. CASE u > 1
  <2>1. P \in DOMAIN U /\ V = [U EXCEPT ![P] = Append(U[P], u)]
    BY <1>10 DEF NeueWeitere
  <2> DEFINE y == Append(U[P], u)
             S1 == Seq(Nat)
  <2>2. y \in S1 /\ Len(y) = Len(U[P]) + 1 /\ U \in Seq(S1)
    BY <1>3, <2>1
  <2> HIDE DEF y, S1, P
  <2>3. V[P] = y /\ \A p \in DOMAIN U : p # P => V[p] = U[p]
    BY <2>1, <2>2, Ersetzt DEF y
  <2>4. \A p : Eins(WeitereOhneGruppe(x) /\ p = IndexOf(K, x.k)) = IF p = P THEN 1 ELSE 0
    BY <1>1, <1>4, <1>10 DEF Eins, P
  <2>6. ASSUME NEW p \in DOMAIN N
        PROVE  Len(N[p]) = Len(V[p]) - Eins(WeitereOhneGruppe(x) /\ p = IndexOf(K, x.k))
    <3>0. Len(N[p]) = Len(U[p]) /\ Len(U[p]) \in Nat
      BY <1>8
    <3>1. CASE p = P
      <4>1. Len(V[p]) = Len(U[p]) + 1
        BY <2>2, <2>3, <3>1
      <4>2. Eins(WeitereOhneGruppe(x) /\ p = IndexOf(K, x.k)) = 1
        BY <2>4, <3>1
      <4> QED BY <3>0, <4>1, <4>2
    <3>2. CASE p # P
      <4>1. Len(V[p]) = Len(U[p])
        BY <1>7, <2>3, <3>2
      <4>2. Eins(WeitereOhneGruppe(x) /\ p = IndexOf(K, x.k)) = 0
        BY <2>4, <3>2
      <4> QED BY <3>0, <4>1, <4>2
    <3> QED BY <3>1, <3>2
  <2>7. ~OhneGruppe(x)
    BY <1>4, <1>10
  <2>8. FormX(x, K, V, N)
    BY <1>7, <2>6, <2>7 DEF FormX
  <2> QED BY <2>8 DEF x
<1> QED BY <1>9, <1>10

ExtraReihen == Seq(Seq(Seq(ExtraTyp)))

\* A step within a record leaves the extras of the other orders alone.
LEMMA UebertragenX ==
  ASSUME LadeTyp, ExtraInv, AlleSauber, Weiter, NEW L, NEW V, NEW M, NEW W,
         Kategorien' = [Kategorien EXCEPT ![BestellungID] = L],
         Unterkategorien' = [Unterkategorien EXCEPT ![BestellungID] = V],
         ExtrasNamen' = [ExtrasNamen EXCEPT ![BestellungID] = M],
         ExtrasPreise' = [ExtrasPreise EXCEPT ![BestellungID] = W],
         M \in ExtraReihen, W \in ExtraReihen,
         FormX(ort', L, V, M), FormX(ort', L, V, W), ~absturz',
         extrasString' = Gruppe(ort'.k, ort'.u, ort'.i, ort'.e - 1)
  PROVE  ExtraInv'
<1> DEFINE id == BestellungID
           A == ExtraReihen
<1>1. id \in IDs /\ gefaltet > 0
  BY DatensatzForm DEF Weiter
<1>2. /\ IDs' = IDs
      /\ \A x : Stelle(x)' = IF x = id THEN ort' ELSE Ende
      /\ \A x : Stelle(x) = IF x = id THEN ort ELSE Ende
  BY WeiterStelle
<1>3. ExtrasNamen \in [IDs -> A] /\ ExtrasPreise \in [IDs -> A]
      /\ DOMAIN Kategorien = IDs /\ DOMAIN Unterkategorien = IDs
  BY DEF ExtraInv, LadeTyp, ExtraReihen
<1>4. M \in A /\ W \in A
  OBVIOUS
<1> HIDE DEF A, id
<1>5. /\ Kategorien' = [Kategorien EXCEPT ![id] = L]
      /\ Unterkategorien' = [Unterkategorien EXCEPT ![id] = V]
      /\ ExtrasNamen' = [ExtrasNamen EXCEPT ![id] = M]
      /\ ExtrasPreise' = [ExtrasPreise EXCEPT ![id] = W]
  BY DEF id
<1>6. Kategorien'[id] = L /\ \A x \in IDs : x # id => Kategorien'[x] = Kategorien[x]
  BY <1>1, <1>3, <1>5
<1>7. Unterkategorien'[id] = V
      /\ \A x \in IDs : x # id => Unterkategorien'[x] = Unterkategorien[x]
  BY <1>1, <1>3, <1>5
<1>8. ExtrasNamen' \in [IDs -> A] /\ ExtrasNamen'[id] = M
      /\ \A x \in IDs : x # id => ExtrasNamen'[x] = ExtrasNamen[x]
  <2>1. ExtrasNamen \in [IDs -> A] /\ id \in IDs /\ M \in A
    BY <1>1, <1>3, <1>4
  <2>2. ExtrasNamen' = [ExtrasNamen EXCEPT ![id] = M]
    BY <1>5
  <2> DEFINE f == ExtrasNamen
             g == ExtrasNamen'
             D == IDs
  <2>3. f \in [D -> A] /\ id \in D /\ g = [f EXCEPT ![id] = M] /\ M \in A
    BY <2>1, <2>2
  <2> HIDE DEF f, g, D
  <2>4. g \in [D -> A] /\ g[id] = M /\ \A x \in D : x # id => g[x] = f[x]
    BY <2>3
  <2> QED BY <2>4 DEF f, g, D
<1>9. ExtrasPreise' \in [IDs -> A] /\ ExtrasPreise'[id] = W
      /\ \A x \in IDs : x # id => ExtrasPreise'[x] = ExtrasPreise[x]
  <2>1. ExtrasPreise \in [IDs -> A] /\ id \in IDs /\ W \in A
    BY <1>1, <1>3, <1>4
  <2>2. ExtrasPreise' = [ExtrasPreise EXCEPT ![id] = W]
    BY <1>5
  <2> DEFINE f == ExtrasPreise
             g == ExtrasPreise'
             D == IDs
  <2>3. f \in [D -> A] /\ id \in D /\ g = [f EXCEPT ![id] = W] /\ W \in A
    BY <2>1, <2>2
  <2> HIDE DEF f, g, D
  <2>4. g \in [D -> A] /\ g[id] = W /\ \A x \in D : x # id => g[x] = f[x]
    BY <2>3
  <2> QED BY <2>4 DEF f, g, D
<1>10. ASSUME NEW x \in IDs
       PROVE  /\ FormX(Stelle(x), Kategorien[x], Unterkategorien[x], ExtrasNamen[x])'
              /\ FormX(Stelle(x), Kategorien[x], Unterkategorien[x], ExtrasPreise[x])'
  <2>1. /\ FormX(Stelle(x)', Kategorien'[x], Unterkategorien'[x], ExtrasNamen'[x])
        /\ FormX(Stelle(x)', Kategorien'[x], Unterkategorien'[x], ExtrasPreise'[x])
    <3>1. CASE x = id
      BY <1>2, <1>6, <1>7, <1>8, <1>9, <3>1
    <3>2. CASE x # id
      <4>1. /\ FormX(Stelle(x), Kategorien[x], Unterkategorien[x], ExtrasNamen[x])
            /\ FormX(Stelle(x), Kategorien[x], Unterkategorien[x], ExtrasPreise[x])
        BY DEF ExtraInv
      <4>2. Stelle(x)' = Stelle(x)
        BY <1>2, <3>2
      <4> QED BY <1>6, <1>7, <1>8, <1>9, <3>2, <4>1, <4>2
    <3> QED BY <3>1, <3>2
  <2> QED BY <2>1 DEF FormX, OhneUnter, OhneGruppe, WeitereOhneGruppe
<1> QED BY <1>2, <1>8, <1>9, <1>10 DEF ExtraInv, A, ExtraReihen

LEMMA SauberBleibt ==
  ASSUME Weiter
  PROVE  AlleSauber' <=> AlleSauber
BY DEF Weiter, AlleSauber, Sauber

LEMMA SauberVorher ==
  ASSUME LadeTyp, Aufruf, AlleSauber'
  PROVE  AlleSauber
<1>1. gefaltet \in Nat /\ gefaltet' = gefaltet + 1 /\ eingabe' = eingabe
  BY DEF LadeTyp, Aufruf
<1>2. \A n \in 1..gefaltet : n \in 1..(gefaltet + 1)
  BY <1>1
<1>3. \A n : Sauber(n)' <=> Sauber(n)
  BY <1>1 DEF Sauber
<1> QED BY <1>1, <1>2, <1>3 DEF AlleSauber

LEMMA ExtraInit == LadeInit => ExtraInv
<1> SUFFICES ASSUME LadeInit PROVE ExtraInv
  OBVIOUS
<1>1. ort = Ende /\ extrasString = <<>> /\ ~absturz /\ gefaltet = 0
  BY DEF LadeInit
<1>2. extrasString = Gruppe(ort.k, ort.u, ort.i, ort.e - 1)
  <2>1. ort.e - 1 = -1
    BY <1>1, OrtFelder DEF Ende
  <2> QED BY <1>1, <2>1, GruppeLeer
<1>3. /\ ExtrasNamen \in [IDs -> Seq(Seq(Seq(ExtraTyp)))]
      /\ ExtrasPreise \in [IDs -> Seq(Seq(Seq(ExtraTyp)))]
  BY DEF LadeInit
<1>4. ASSUME NEW id \in IDs
      PROVE  /\ FormX(Stelle(id), Kategorien[id], Unterkategorien[id], ExtrasNamen[id])
             /\ FormX(Stelle(id), Kategorien[id], Unterkategorien[id], ExtrasPreise[id])
  <2>1. /\ Kategorien[id] = <<>> /\ Unterkategorien[id] = <<>> /\ ExtrasNamen[id] = <<>>
        /\ ExtrasPreise[id] = <<>> /\ Stelle(id) = Ende
    BY DEF LadeInit, Stelle
  <2>2. Ruhig(Ende)
    BY RuhigeOrte
  <2>3. FormX(Ende, <<>>, <<>>, <<>>)
    BY <2>2, FormXRuhig DEF RuheX
  <2> QED BY <2>1, <2>3
<1> QED BY <1>1, <1>2, <1>3, <1>4 DEF ExtraInv

LEMMA ExtraAufruf ==
  ASSUME LadeTyp, ExtraInv, Aufruf
  PROVE  ExtraInv'
<1> SUFFICES ASSUME AlleSauber' PROVE ExtraInv'
  BY DEF ExtraInv
<1>1. AlleSauber
  BY SauberVorher
<1> DEFINE o == Ort("kategorie", 1, 0, 0, 0)
<1>2. /\ IDs' = IDs /\ ort = Ende /\ ort' = o /\ ~absturz'
      /\ Kategorien' = Kategorien /\ Unterkategorien' = Unterkategorien
      /\ ExtrasNamen' = ExtrasNamen /\ ExtrasPreise' = ExtrasPreise
      /\ extrasString' = extrasString
  BY DEF Aufruf, IDs
<1>3. extrasString' = Gruppe(ort'.k, ort'.u, ort'.i, ort'.e - 1)
  <2>1. ort.e - 1 = -1 /\ ort'.e - 1 = -1
    BY <1>2, OrtFelder DEF Ende
  <2>2. extrasString = Gruppe(ort.k, ort.u, ort.i, ort.e - 1)
    BY <1>1 DEF ExtraInv
  <2> QED BY <1>2, <2>1, <2>2, GruppeLeer
<1>4. GleicheStufe(Ende, o) /\ GleicheStufe(Ende, Ende)
  BY RuhigeOrte DEF GleicheStufe, Ruhig
<1>5. ASSUME NEW x \in IDs
      PROVE  /\ FormX(Stelle(x), Kategorien[x], Unterkategorien[x], ExtrasNamen[x])'
             /\ FormX(Stelle(x), Kategorien[x], Unterkategorien[x], ExtrasPreise[x])'
  <2>1. Stelle(x) = Ende /\ GleicheStufe(Ende, Stelle(x)')
    BY <1>2, <1>4 DEF Stelle
  <2>2. /\ FormX(Ende, Kategorien[x], Unterkategorien[x], ExtrasNamen[x])
        /\ FormX(Ende, Kategorien[x], Unterkategorien[x], ExtrasPreise[x])
    BY <1>1, <2>1 DEF ExtraInv
  <2>3. /\ FormX(Stelle(x)', Kategorien'[x], Unterkategorien'[x], ExtrasNamen'[x])
        /\ FormX(Stelle(x)', Kategorien'[x], Unterkategorien'[x], ExtrasPreise'[x])
    BY <1>2, <2>1, <2>2, FormXGleich
  <2> QED BY <2>3 DEF FormX, OhneUnter, OhneGruppe, WeitereOhneGruppe
<1>6. /\ ExtrasNamen' \in [IDs' -> Seq(Seq(Seq(ExtraTyp)))]
      /\ ExtrasPreise' \in [IDs' -> Seq(Seq(Seq(ExtraTyp)))]
  BY <1>1, <1>2 DEF ExtraInv
<1> QED BY <1>2, <1>3, <1>5, <1>6 DEF ExtraInv

LEMMA ExtraUnveraendert ==
  ASSUME ExtraInv, UNCHANGED ladeVars
  PROVE  ExtraInv'
<1>1. /\ eingabe' = eingabe /\ gefaltet' = gefaltet /\ ort' = ort /\ absturz' = absturz
      /\ Kategorien' = Kategorien /\ Unterkategorien' = Unterkategorien
      /\ ExtrasNamen' = ExtrasNamen /\ ExtrasPreise' = ExtrasPreise
      /\ extrasString' = extrasString
  BY DEF ladeVars, woerterbuecher
<1>2. IDs' = IDs /\ (AlleSauber' <=> AlleSauber) /\ \A id : Stelle(id)' = Stelle(id)
  BY <1>1 DEF IDs, AlleSauber, Sauber, Stelle, BestellungID
<1> SUFFICES ASSUME AlleSauber PROVE ExtraInv'
  BY <1>2 DEF ExtraInv
<1>3. ASSUME NEW x \in IDs
      PROVE  /\ FormX(Stelle(x), Kategorien[x], Unterkategorien[x], ExtrasNamen[x])'
             /\ FormX(Stelle(x), Kategorien[x], Unterkategorien[x], ExtrasPreise[x])'
  <2>1. /\ FormX(Stelle(x)', Kategorien'[x], Unterkategorien'[x], ExtrasNamen'[x])
        /\ FormX(Stelle(x)', Kategorien'[x], Unterkategorien'[x], ExtrasPreise'[x])
    BY <1>1, <1>2 DEF ExtraInv
  <2> QED BY <2>1 DEF FormX, OhneUnter, OhneGruppe, WeitereOhneGruppe
<1> QED BY <1>1, <1>2, <1>3 DEF ExtraInv

\* What holds at a place of the current record.
LEMMA Zusammenhang ==
  ASSUME LadeTyp, FormInv, ExtraInv, AlleSauber, Weiter
  PROVE  /\ BestellungID \in IDs /\ gefaltet > 0 /\ Baumform(Datensatz)
         /\ Reihen(Kategorien[BestellungID], Unterkategorien[BestellungID],
                   Items[BestellungID])
         /\ Form(ort, Kategorien[BestellungID], Unterkategorien[BestellungID],
                 Items[BestellungID])
         /\ FormX(ort, Kategorien[BestellungID], Unterkategorien[BestellungID],
                  ExtrasNamen[BestellungID])
         /\ FormX(ort, Kategorien[BestellungID], Unterkategorien[BestellungID],
                  ExtrasPreise[BestellungID])
         /\ ExtrasNamen[BestellungID] \in ExtraReihen
         /\ ExtrasPreise[BestellungID] \in ExtraReihen
         /\ Kategorien = [Kategorien EXCEPT ![BestellungID] = Kategorien[BestellungID]]
         /\ Unterkategorien = [Unterkategorien EXCEPT ![BestellungID] =
                                 Unterkategorien[BestellungID]]
         /\ ExtrasNamen = [ExtrasNamen EXCEPT ![BestellungID] = ExtrasNamen[BestellungID]]
         /\ ExtrasPreise = [ExtrasPreise EXCEPT ![BestellungID] =
                              ExtrasPreise[BestellungID]]
         /\ Items = [Items EXCEPT ![BestellungID] = Items[BestellungID]]
<1> DEFINE id == BestellungID
<1>1. id \in IDs /\ gefaltet > 0 /\ Baumform(Datensatz)
  BY DatensatzForm DEF Weiter
<1>2. /\ Reihen(Kategorien[id], Unterkategorien[id], Items[id])
      /\ Form(ort, Kategorien[id], Unterkategorien[id], Items[id])
  BY <1>1, ReihenTyp, Eigene
<1>3. Stelle(id) = ort
  BY <1>1 DEF Stelle
<1>4. /\ FormX(ort, Kategorien[id], Unterkategorien[id], ExtrasNamen[id])
      /\ FormX(ort, Kategorien[id], Unterkategorien[id], ExtrasPreise[id])
      /\ ExtrasNamen[id] \in ExtraReihen /\ ExtrasPreise[id] \in ExtraReihen
  BY <1>1, <1>3 DEF ExtraInv, ExtraReihen
<1>5. Kategorien = [Kategorien EXCEPT ![id] = Kategorien[id]]
      /\ Unterkategorien = [Unterkategorien EXCEPT ![id] = Unterkategorien[id]]
      /\ Items = [Items EXCEPT ![id] = Items[id]]
  BY DEF LadeTyp
<1>6. ExtrasNamen = [ExtrasNamen EXCEPT ![id] = ExtrasNamen[id]]
      /\ ExtrasPreise = [ExtrasPreise EXCEPT ![id] = ExtrasPreise[id]]
  BY DEF ExtraInv
<1> QED BY <1>1, <1>2, <1>4, <1>5, <1>6

\* The place after the last extra of an item.
LEMMA NachGruppeRuhig ==
  ASSUME NEW b, Baumform(b), NEW k \in 1..Len(b), NEW u \in 1..Len(b[k]),
         NEW i \in 1..Len(b[k][u]), NEW o,
         o = IF i < Len(b[k][u]) THEN Ort("extra", k, u, i + 1, 1)
             ELSE NachUnterkategorie(b, k, u)
  PROVE  Ruhig(o) /\ Gruppe(o.k, o.u, o.i, o.e - 1) = <<>>
<1>1. i \in Nat /\ i > 0 /\ u \in Nat /\ u > 0 /\ k \in Nat
  <2>1. Len(b[k][u]) \in Nat /\ Len(b[k]) \in Nat /\ Len(b) \in Nat
    BY BaumTeile
  <2> QED BY <2>1
<1>2. ASSUME o.e = 0 \/ o.e = 1
      PROVE  Gruppe(o.k, o.u, o.i, o.e - 1) = <<>>
  <2>1. o.e - 1 = -1 \/ o.e - 1 = 0
    BY <1>2
  <2> QED BY <2>1, GruppeLeer
<1>3. CASE o = Ort("extra", k, u, i + 1, 1)
  <2>1. i + 1 \in Nat /\ i + 1 > 1
    BY <1>1
  <2>2. Ruhig(o)
    BY <1>1, <1>3, <2>1, RuhigeOrte
  <2>3. o.e = 1
    BY <1>3, OrtFelder
  <2> QED BY <1>2, <2>2, <2>3
<1>4. CASE o = Ort("unterkategorie", k, u + 1, 0, 0)
  <2>1. u + 1 \in Nat /\ u + 1 > 1
    BY <1>1
  <2>2. Ruhig(o)
    BY <1>1, <1>4, <2>1, RuhigeOrte
  <2>3. o.e = 0
    BY <1>4, OrtFelder
  <2> QED BY <1>2, <2>2, <2>3
<1>5. CASE o = Ort("kategorie", k + 1, 0, 0, 0)
  <2>1. Ruhig(o)
    BY <1>1, <1>5, RuhigeOrte
  <2>2. o.e = 0
    BY <1>5, OrtFelder
  <2> QED BY <1>2, <2>1, <2>2
<1>6. CASE o = Ende
  <2>1. Ruhig(o) /\ o.e = 0
    BY <1>1, <1>6, RuhigeOrte, OrtFelder DEF Ende
  <2> QED BY <1>2, <2>1
<1> QED BY <1>3, <1>4, <1>5, <1>6, NachUnterkategorieIst

LEMMA RuheXForm ==
  ASSUME NEW k, NEW u, NEW K, NEW U, NEW I, Reihen(K, U, I), Ruhe(k, u, K, U, I),
         NEW M \in ExtraReihen, RuheX(K, U, M), NEW o, Ruhig(o)
  PROVE  FormX(o, K, U, M)
<1>1. Len(K) \in Nat /\ Len(U) = Len(K) /\ DOMAIN U = 1..Len(U)
      /\ \A p \in DOMAIN U : Len(U[p]) \in Nat
  BY DEF Reihen, Ruhe
<1>2. DOMAIN M = 1..Len(M)
  BY DEF ExtraReihen
<1>3. DOMAIN M = DOMAIN U
  BY <1>1, <1>2 DEF RuheX
<1>4. \A p \in DOMAIN M : Len(U[p]) \in Nat
  BY <1>1, <1>3
<1> QED BY <1>1, <1>4, FormXRuhig

LEMMA ExtraInvSchritt ==
  ASSUME LadeTyp, FormInv, GenauInv, ExtraInv, LadeNext
  PROVE  ExtraInv'
<1> DEFINE id == BestellungID
           K == Kategorien[id]
           U == Unterkategorien[id]
           I == Items[id]
           N == ExtrasNamen[id]
           W == ExtrasPreise[id]
           b == Datensatz
<1>1. CASE Aufruf
  BY <1>1, ExtraAufruf
<1>2. ASSUME Weiter, AlleSauber => ExtraInv'
      PROVE  ExtraInv'
  BY <1>2, SauberBleibt DEF ExtraInv
<1>3. ASSUME Weiter, AlleSauber
      PROVE  /\ id \in IDs /\ Baumform(b) /\ Reihen(K, U, I) /\ Form(ort, K, U, I)
             /\ FormX(ort, K, U, N) /\ FormX(ort, K, U, W)
             /\ N \in ExtraReihen /\ W \in ExtraReihen
             /\ Kategorien = [Kategorien EXCEPT ![id] = K]
             /\ Unterkategorien = [Unterkategorien EXCEPT ![id] = U]
             /\ ExtrasNamen = [ExtrasNamen EXCEPT ![id] = N]
             /\ ExtrasPreise = [ExtrasPreise EXCEPT ![id] = W]
             /\ ~absturz /\ extrasString = Gruppe(ort.k, ort.u, ort.i, ort.e - 1)
  <2>1. ~absturz /\ extrasString = Gruppe(ort.k, ort.u, ort.i, ort.e - 1)
    BY <1>3 DEF ExtraInv
  <2> QED BY <1>3, <2>1, Zusammenhang
<1>4. ASSUME NEW k \in 1..Len(b), AmKategorie(k), AlleSauber
      PROVE  ExtraInv'
  <2> DEFINE L == Append(K, k)
  <2>1. /\ Weiter /\ ort = Ort("kategorie", k, 0, 0, 0)
        /\ ort' = Ort("unterkategorie", k, 1, 0, 0)
        /\ Kategorien' = [Kategorien EXCEPT ![id] = L]
        /\ Unterkategorien' = Unterkategorien /\ ExtrasNamen' = ExtrasNamen
        /\ ExtrasPreise' = ExtrasPreise /\ extrasString' = extrasString
        /\ absturz' = absturz
    BY <1>4 DEF AmKategorie
  <2>2. k \in Nat /\ Len(U) = Len(K)
    <3>1. Len(b) \in Nat
      BY <1>3, <1>4, <2>1, BaumTeile
    <3>2. Len(U) = Len(K) - Eins(OhneUnter(ort)) /\ Len(K) \in Nat
      BY <1>3, <1>4, <2>1 DEF Form, Reihen
    <3>3. ~OhneUnter(ort)
      BY <2>1, OrtFelder DEF OhneUnter
    <3>4. Eins(OhneUnter(ort)) = 0
      BY <3>3 DEF Eins
    <3> QED BY <3>1, <3>2, <3>4
  <2>3. FormX(ort', L, U, N) /\ FormX(ort', L, U, W)
    BY <1>3, <1>4, <2>1, <2>2, KategorieFormX DEF ExtraReihen
  <2>4. extrasString' = Gruppe(ort'.k, ort'.u, ort'.i, ort'.e - 1)
    <3>1. ort.e - 1 = -1 /\ ort'.e - 1 = -1
      BY <2>1, OrtFelder
    <3> QED BY <1>3, <1>4, <2>1, <3>1, GruppeLeer
  <2>5. /\ Unterkategorien' = [Unterkategorien EXCEPT ![id] = U]
        /\ ExtrasNamen' = [ExtrasNamen EXCEPT ![id] = N]
        /\ ExtrasPreise' = [ExtrasPreise EXCEPT ![id] = W]
        /\ N \in ExtraReihen /\ W \in ExtraReihen /\ ~absturz'
    BY <1>3, <1>4, <2>1
  <2> HIDE DEF K, U, N, W, L
  <2> QED BY <1>4, <2>1, <2>3, <2>4, <2>5, UebertragenX
<1>5. ASSUME NEW k \in 1..Len(b), NEW u \in 1..Len(b[k]), NEW V, AmUnterkategorie(k, u, V),
             AlleSauber
      PROVE  ExtraInv'
  <2>1. /\ Weiter /\ ort = Ort("unterkategorie", k, u, 0, 0)
        /\ ort' = Ort("item", k, u, 1, 0)
        /\ Unterkategorien' = [Unterkategorien EXCEPT ![id] = V]
        /\ u = 1 => NeueErste(U, V)
        /\ u > 1 => NeueWeitere(u, U, V, IndexOf(K, k))
        /\ Kategorien' = Kategorien /\ ExtrasNamen' = ExtrasNamen
        /\ ExtrasPreise' = ExtrasPreise /\ extrasString' = extrasString
        /\ absturz' = absturz
    BY <1>5 DEF AmUnterkategorie
  <2>2. k \in Nat /\ u \in Nat /\ u > 0
    <3>1. Len(b) \in Nat /\ Len(b[k]) \in Nat
      BY <1>3, <1>5, <2>1, BaumTeile
    <3> QED BY <3>1
  <2>3. FormX(ort', K, V, N) /\ FormX(ort', K, V, W)
    BY <1>3, <1>5, <2>1, <2>2, UnterkategorieFormX DEF ExtraReihen
  <2>4. extrasString' = Gruppe(ort'.k, ort'.u, ort'.i, ort'.e - 1)
    <3>1. ort.e - 1 = -1 /\ ort'.e - 1 = -1
      BY <2>1, OrtFelder
    <3> QED BY <1>3, <1>5, <2>1, <3>1, GruppeLeer
  <2>5. /\ Kategorien' = [Kategorien EXCEPT ![id] = K]
        /\ ExtrasNamen' = [ExtrasNamen EXCEPT ![id] = N]
        /\ ExtrasPreise' = [ExtrasPreise EXCEPT ![id] = W]
        /\ N \in ExtraReihen /\ W \in ExtraReihen /\ ~absturz'
    BY <1>3, <1>5, <2>1
  <2> HIDE DEF K, U, N, W
  <2> QED BY <1>5, <2>1, <2>3, <2>4, <2>5, UebertragenX
<1>6. ASSUME NEW k \in 1..Len(b), NEW u \in 1..Len(b[k]), NEW i \in 1..Len(b[k][u]), Weiter,
             ort.art \in {"item", "extra"}, ort.k = k, AlleSauber
      PROVE  /\ \A j \in 1..Len(b[k][u]) : b[k][u][j] > 0
             /\ k \in Nat /\ u \in Nat /\ u > 0 /\ i \in Nat /\ i > 0 /\ b[k][u][i] \in Nat
  <2>1. \A j \in 1..Len(b[k][u]) : b[k][u][j] > 0
    BY <1>3, <1>6, SauberIst DEF SauberesBlatt, Weiter
  <2>2. Len(b) \in Nat /\ Len(b[k]) \in Nat /\ Len(b[k][u]) \in Nat /\ b[k][u][i] \in Nat
    BY <1>3, <1>6, BaumTeile
  <2> QED BY <2>1, <2>2
<1>7. ASSUME NEW k \in 1..Len(b), NEW u \in 1..Len(b[k]), NEW i \in 1..Len(b[k][u]),
             NEW J, AmItem(k, u, i, J), AlleSauber
      PROVE  ExtraInv'
  <2>1. /\ Weiter /\ ort = Ort("item", k, u, i, 0) /\ ort' = Folgender(b, ort)
        /\ Kategorien' = Kategorien /\ Unterkategorien' = Unterkategorien
        /\ ExtrasNamen' = ExtrasNamen /\ ExtrasPreise' = ExtrasPreise
        /\ extrasString' = extrasString /\ absturz' = absturz
    BY <1>7 DEF AmItem
  <2>2. ort.art = "item" /\ ort.k = k /\ ort.e = 0
    BY <2>1, OrtFelder
  <2>3. /\ \A j \in 1..Len(b[k][u]) : b[k][u][j] > 0
        /\ k \in Nat /\ u \in Nat /\ u > 0 /\ i \in Nat /\ i > 0
    BY <1>6, <1>7, <2>1, <2>2
  <2>4. ort' = IF i < Len(b[k][u]) THEN Ort("item", k, u, i + 1, 0)
               ELSE Ort("extra", k, u, 1, 1)
    BY <1>3, <1>7, <2>1, <2>3, FolgenderSauber
  <2>5. GleicheStufe(ort, ort')
    BY <2>1, <2>3, <2>4, GleicheOrte
  <2>6. FormX(ort', K, U, N) /\ FormX(ort', K, U, W)
    BY <1>3, <1>7, <2>1, <2>5, FormXGleich
  <2>7. extrasString' = Gruppe(ort'.k, ort'.u, ort'.i, ort'.e - 1)
    <3>1. ort'.e = 0 \/ ort'.e = 1
      BY <2>4, OrtFelder
    <3>2. ort.e - 1 = -1 /\ (ort'.e - 1 = -1 \/ ort'.e - 1 = 0)
      BY <2>2, <3>1
    <3> QED BY <1>3, <1>7, <2>1, <3>2, GruppeLeer
  <2>8. /\ Kategorien' = [Kategorien EXCEPT ![id] = K]
        /\ Unterkategorien' = [Unterkategorien EXCEPT ![id] = U]
        /\ ExtrasNamen' = [ExtrasNamen EXCEPT ![id] = N]
        /\ ExtrasPreise' = [ExtrasPreise EXCEPT ![id] = W]
        /\ N \in ExtraReihen /\ W \in ExtraReihen /\ ~absturz'
    BY <1>3, <1>7, <2>1
  <2> HIDE DEF K, U, N, W
  <2> QED BY <1>7, <2>1, <2>6, <2>7, <2>8, UebertragenX
<1>8. ASSUME NEW k \in 1..Len(b), NEW u \in 1..Len(b[k]), NEW i \in 1..Len(b[k][u]),
             NEW e \in 1..b[k][u][i], AmExtra(k, u, i, e), AlleSauber
      PROVE  ExtraInv'
  <2>1. /\ Weiter /\ ort = Ort("extra", k, u, i, e) /\ ort' = Folgender(b, ort)
        /\ Kategorien' = Kategorien /\ Unterkategorien' = Unterkategorien
    BY <1>8 DEF AmExtra
  <2>2. ort.art = "extra" /\ ort.k = k /\ ort.u = u /\ ort.i = i /\ ort.e = e
    BY <2>1, OrtFelder
  <2>3. /\ \A j \in 1..Len(b[k][u]) : b[k][u][j] > 0
        /\ k \in Nat /\ u \in Nat /\ u > 0 /\ i \in Nat /\ i > 0 /\ b[k][u][i] \in Nat
    BY <1>6, <1>8, <2>1, <2>2
  <2>4. ort' = IF e < b[k][u][i] THEN Ort("extra", k, u, i, e + 1)
               ELSE IF i < Len(b[k][u]) THEN Ort("extra", k, u, i + 1, 1)
               ELSE NachUnterkategorie(b, k, u)
    BY <1>3, <1>8, <2>1, <2>3, FolgenderSauber
  <2>5. /\ ~absturz'
        /\ \/ e < b[k][u][i] /\ Gesammeltes(k, u, i, e)
           \/ e = b[k][u][i] /\ \E X, Y : Abgeschlossen(k, u, i, e, X, Y)
    BY <1>8, ExtraWirkung
  <2>6. CASE e < b[k][u][i] /\ Gesammeltes(k, u, i, e)
    <3>1. ort' = Ort("extra", k, u, i, e + 1)
      BY <2>4, <2>6
    <3>2. GleicheStufe(ort, ort')
      BY <2>1, <2>3, <3>1, GleicheOrte
    <3>3. FormX(ort', K, U, N) /\ FormX(ort', K, U, W)
      BY <1>3, <1>8, <2>1, <3>2, FormXGleich
    <3>4. extrasString' = Gruppe(ort'.k, ort'.u, ort'.i, ort'.e - 1)
      <4>1. ort'.k = k /\ ort'.u = u /\ ort'.i = i /\ ort'.e = e + 1
        BY <3>1, OrtFelder
      <4>2. e \in Nat /\ (e + 1) - 1 = e
        BY <2>3
      <4> QED BY <2>6, <4>1, <4>2 DEF Gesammeltes
    <3>5. /\ Kategorien' = [Kategorien EXCEPT ![id] = K]
          /\ Unterkategorien' = [Unterkategorien EXCEPT ![id] = U]
          /\ ExtrasNamen' = [ExtrasNamen EXCEPT ![id] = N]
          /\ ExtrasPreise' = [ExtrasPreise EXCEPT ![id] = W]
          /\ N \in ExtraReihen /\ W \in ExtraReihen
      BY <1>3, <1>8, <2>1, <2>6 DEF Gesammeltes
    <3> HIDE DEF K, U, N, W
    <3> QED BY <1>8, <2>1, <2>5, <3>3, <3>4, <3>5, UebertragenX
  <2>7. ASSUME NEW X, NEW Y, e = b[k][u][i], Abgeschlossen(k, u, i, e, X, Y)
        PROVE  ExtraInv'
    <3> DEFINE G == Gruppe(k, u, i, e)
    <3>1. /\ extrasString' = <<>>
          /\ ExtrasNamen' = [ExtrasNamen EXCEPT ![id] = X]
          /\ ExtrasPreise' = [ExtrasPreise EXCEPT ![id] = Y]
          /\ GruppeHinzu(k, u, i, G, K, U, N, X, FALSE)
          /\ GruppeHinzu(k, u, i, G, K, U, W, Y, TRUE)
      BY <2>7 DEF Abgeschlossen
    <3>2. Ruhig(ort') /\ Gruppe(ort'.k, ort'.u, ort'.i, ort'.e - 1) = <<>>
      <4>1. ort' = IF i < Len(b[k][u]) THEN Ort("extra", k, u, i + 1, 1)
                   ELSE NachUnterkategorie(b, k, u)
        BY <2>3, <2>4, <2>7
      <4> QED BY <1>3, <1>8, <2>1, <4>1, NachGruppeRuhig
    <3>3. Reihen(K, U, I) /\ Ruhe(k, u, K, U, I)
      BY <1>3, <1>8, <2>1, <2>2, <2>3, FormRuhe
    <3>4. G \in ExtraTyp
      <4>1. e \in Nat
        BY <2>3
      <4> QED BY <2>3, <4>1, GruppeIst
    <3>5. /\ X \in ExtraReihen /\ RuheX(K, U, X)
          /\ Y \in ExtraReihen /\ RuheX(K, U, Y)
      <4>1. Len(U) = Len(K) /\ N \in Seq(Seq(Seq(ExtraTyp))) /\ W \in Seq(Seq(Seq(ExtraTyp)))
        BY <1>3, <1>8, <2>1, <3>3 DEF Ruhe, ExtraReihen
      <4>2. FormX(ort, K, U, N) /\ FormX(ort, K, U, W)
        BY <1>3, <1>8, <2>1
      <4> HIDE DEF K, U, I, N, W, G
      <4>3. X \in Seq(Seq(Seq(ExtraTyp))) /\ RuheX(K, U, X)
        BY <2>1, <2>3, <3>1, <3>3, <3>4, <4>1, <4>2, GruppeGesetzt
      <4>4. Y \in Seq(Seq(Seq(ExtraTyp))) /\ RuheX(K, U, Y)
        BY <2>1, <2>3, <3>1, <3>3, <3>4, <4>1, <4>2, GruppeGesetzt
      <4> QED BY <4>3, <4>4 DEF ExtraReihen
    <3>6. FormX(ort', K, U, X) /\ FormX(ort', K, U, Y)
      BY <3>2, <3>3, <3>5, RuheXForm
    <3>7. /\ Kategorien' = [Kategorien EXCEPT ![id] = K]
          /\ Unterkategorien' = [Unterkategorien EXCEPT ![id] = U]
      BY <1>3, <1>8, <2>1
    <3> HIDE DEF K, U, I, N, W, G
    <3> QED BY <1>8, <2>1, <2>5, <3>1, <3>2, <3>5, <3>6, <3>7, UebertragenX
  <2> QED BY <2>5, <2>6, <2>7
<1>9. /\ \A k : AmKategorie(k) => Weiter
      /\ \A k, u, V : AmUnterkategorie(k, u, V) => Weiter
      /\ \A k, u, i, J : AmItem(k, u, i, J) => Weiter
      /\ \A k, u, i, e : AmExtra(k, u, i, e) => Weiter
  BY DEF AmKategorie, AmUnterkategorie, AmItem, AmExtra
<1> QED BY <1>1, <1>2, <1>4, <1>5, <1>7, <1>8, <1>9, Schritte

(***************************************************************************)
(* The extras of an order folded for the first time.                       *)
(***************************************************************************)
LEMMA GruppenImNeu ==
  ASSUME NEW k \in Nat, NEW u \in Nat, NEW i \in Nat, i > 0, NEW K, NEW b, NEW vorn \in BOOLEAN,
         NEW S, NEW s, i > 1 => s \in Seq(S) /\ GruppenIm(s, i - 1, b, k, u, vorn),
         NEW g \in S, g = Gruppe(k, u, i, b[k][u][i]), Len(K) = 1 <=> k = 1,
         NEW h, h = Neu(u, i, g, K, s, vorn)
  PROVE  GruppenIm(h, i, b, k, u, vorn)
<1> DEFINE V == vorn /\ k = 1 /\ u = 1
<1>1. ASSUME Len(h) = i,
             \A r \in 1..i : h[r] = LET j == IF V THEN (i + 1) - r ELSE r
                                    IN Gruppe(k, u, j, b[k][u][j])
      PROVE  GruppenIm(h, i, b, k, u, vorn)
  BY <1>1 DEF GruppenIm
<1>2. CASE i = 1
  <2>1. h = <<g>>
    BY <1>2 DEF Neu
  <2>2. Len(h) = i /\ h[1] = g
    BY <1>2, <2>1
  <2>3. ASSUME NEW r \in 1..i
        PROVE  h[r] = LET j == IF V THEN (i + 1) - r ELSE r
                      IN Gruppe(k, u, j, b[k][u][j])
    <3>1. r = 1 /\ (i + 1) - r = 1
      BY <1>2
    <3> QED BY <1>2, <2>2, <3>1
  <2> QED BY <1>1, <2>2, <2>3
<1>3. CASE i > 1
  <2>1. s \in Seq(S) /\ Len(s) = i - 1
    BY <1>3 DEF GruppenIm
  <2>2. ASSUME NEW r \in 1..(i - 1)
        PROVE  s[r] = LET j == IF V THEN i - r ELSE r IN Gruppe(k, u, j, b[k][u][j])
    <3>1. ((i - 1) + 1) - r = i - r
      OBVIOUS
    <3>2. s[r] = LET j == IF V THEN ((i - 1) + 1) - r ELSE r IN Gruppe(k, u, j, b[k][u][j])
      BY <1>3 DEF GruppenIm
    <3> QED BY <3>1, <3>2
  <2>3. CASE V
    <3>1. h = <<g>> \o s
      BY <1>3, <2>3 DEF Neu
    <3>2. Len(h) = i /\ h[1] = g /\ \A r \in 2..i : h[r] = s[r - 1]
      BY <2>1, <3>1
    <3>3. ASSUME NEW r \in 1..i
          PROVE  h[r] = Gruppe(k, u, (i + 1) - r, b[k][u][(i + 1) - r])
      <4>1. CASE r = 1
        <5>1. (i + 1) - r = i
          BY <4>1
        <5> QED BY <3>2, <4>1, <5>1
      <4>2. CASE r # 1
        <5>1. r - 1 \in 1..(i - 1) /\ i - (r - 1) = (i + 1) - r /\ r \in 2..i
          BY <4>2
        <5>2. s[r - 1] = Gruppe(k, u, i - (r - 1), b[k][u][i - (r - 1)])
          BY <2>2, <2>3, <5>1
        <5> QED BY <3>2, <5>1, <5>2
      <4> QED BY <4>1, <4>2
    <3> QED BY <1>1, <2>3, <3>2, <3>3
  <2>4. CASE ~V
    <3>1. h = Append(s, g)
      BY <1>3, <2>4 DEF Neu
    <3>2. Len(h) = i /\ h[i] = g /\ \A r \in 1..(i - 1) : h[r] = s[r]
      BY <2>1, <3>1
    <3>3. ASSUME NEW r \in 1..i
          PROVE  h[r] = Gruppe(k, u, r, b[k][u][r])
      <4>1. CASE r = i
        BY <3>2, <4>1
      <4>2. CASE r # i
        <5>1. r \in 1..(i - 1)
          BY <4>2
        <5> QED BY <2>2, <2>4, <3>2, <5>1
      <4> QED BY <4>1, <4>2
    <3> QED BY <1>1, <2>4, <3>2, <3>3
  <2> QED BY <2>3, <2>4
<1> QED BY <1>2, <1>3

\* Folded for the first time, the places are the numbers.
LEMMA GenauFach ==
  ASSUME NEW k \in Nat, NEW u \in Nat, NEW i \in Nat, u > 0, i > 0, NEW b, NEW o,
         o.art \in {"item", "extra"}, o.k = k, o.u = u, NEW K, NEW U, NEW I,
         Reihen(K, U, I), Form(o, K, U, I), Genau(o, b, K, U, I)
  PROVE  /\ IndexOf(K, k) = k /\ k \in DOMAIN U /\ Len(K) = k /\ Len(U[k]) = u
         /\ IndexOf(U[k], u) = u
         /\ Zielfach(k, u, i, K, U) = <<k, u>> /\ (Len(K) = 1 <=> k = 1)
<1>1. Len(K) = k /\ \A p \in DOMAIN K : K[p] = p
  BY DEF Genau
<1>2. \E p \in DOMAIN K : K[p] = k
  BY DEF Form
<1>3. IndexOf(K, k) \in DOMAIN K /\ K[IndexOf(K, k)] = k
  BY <1>2, PlatzIst
<1>4. IndexOf(K, k) = k /\ k \in DOMAIN K
  BY <1>1, <1>3
<1>5. Len(U) = Len(K)
  BY GleichViele
<1>6. DOMAIN K = 1..Len(K) /\ DOMAIN U = 1..Len(U)
  BY DEF Reihen
<1>7. k \in DOMAIN U
  BY <1>4, <1>5, <1>6
<1>8. Len(U[k]) = u /\ \A q \in DOMAIN U[k] : U[k][q] = q
  BY <1>7 DEF Genau
<1>9. \E q \in DOMAIN U[k] : U[k][q] = u
  BY <1>4 DEF Form
<1>10. IndexOf(U[k], u) \in DOMAIN U[k] /\ U[k][IndexOf(U[k], u)] = u
  BY <1>7, <1>9, UnterplatzIst
<1>11. IndexOf(U[k], u) = u
  BY <1>8, <1>10
<1>12. ErstesFach(k, u, K, U) = <<k, u>>
  <2>1. CASE u = 1
    BY <1>1, <2>1 DEF ErstesFach
  <2>2. CASE u # 1
    BY <1>4, <1>8, <2>2 DEF ErstesFach
  <2> QED BY <2>1, <2>2
<1>13. WeiteresFach(k, u, K, U) = <<k, u>>
  BY <1>4, <1>11 DEF WeiteresFach
<1>14. Zielfach(k, u, i, K, U) = <<k, u>>
  BY <1>12, <1>13 DEF Zielfach
<1> QED BY <1>1, <1>4, <1>7, <1>8, <1>11, <1>14

LEMMA WieGleich ==
  ASSUME NEW o, NEW x, NEW b, NEW N, NEW vorn, GruppenWie(o, b, N, vorn),
         \A p, q : Fach(N, p, q) => Soll(x, b, p, q) = Soll(o, b, p, q)
  PROVE  GruppenWie(x, b, N, vorn)
BY DEF GruppenWie, Fach

NeueGruppeWie(k, u, i, g, b, K, U, N, M, vorn, o, x) ==
  /\ k \in Nat /\ u \in Nat /\ i \in Nat /\ u > 0 /\ i > 0
  /\ N \in ExtraReihen /\ g \in ExtraTyp /\ vorn \in BOOLEAN
  /\ g = Gruppe(k, u, i, b[k][u][i]) /\ (Len(K) = 1 <=> k = 1)
  /\ Zielfach(k, u, i, K, U) = <<k, u>>
  /\ GesetztIn(k, u, i, g, K, U, N, M, vorn) /\ GruppenWie(o, b, N, vorn)
  /\ Soll(o, b, k, u) = i - 1 /\ Soll(x, b, k, u) = i
  /\ \A p, q : ~(p = k /\ q = u) => Soll(x, b, p, q) = Soll(o, b, p, q)

LEMMA WieGesetzt ==
  ASSUME NEW k, NEW u, NEW i, NEW g, NEW b, NEW K, NEW U, NEW N, NEW M, NEW vorn, NEW o, NEW x,
         NeueGruppeWie(k, u, i, g, b, K, U, N, M, vorn, o, x)
  PROVE  GruppenWie(x, b, M, vorn)
<1> USE DEF NeueGruppeWie
<1>1. PICK a, c \in Nat :
        /\ <<a, c>> = Zielfach(k, u, i, K, U) /\ (Fach(N, a, c) <=> i > 1)
        /\ Gesetzt(N, M, a, c, Neu(u, i, g, K, N[a][c], vorn))
  BY DEF GesetztIn
<1>2. a = k /\ c = u
  BY <1>1
<1> DEFINE h == Neu(u, i, g, K, N[k][u], vorn)
<1>3. (Fach(N, k, u) <=> i > 1) /\ Gesetzt(N, M, k, u, h)
  BY <1>1, <1>2
<1>4. GruppenIm(h, i, b, k, u, vorn)
  <2>1. i > 1 => N[k][u] \in Seq(ExtraTyp) /\ GruppenIm(N[k][u], i - 1, b, k, u, vorn)
    <3> SUFFICES ASSUME i > 1 PROVE N[k][u] \in Seq(ExtraTyp)
                                    /\ GruppenIm(N[k][u], i - 1, b, k, u, vorn)
      OBVIOUS
    <3>1. Fach(N, k, u)
      BY <1>3
    <3>2. N[k][u] \in Seq(ExtraTyp)
      BY <3>1, AnzahlNat DEF ExtraReihen
    <3> QED BY <3>1, <3>2 DEF GruppenWie, Fach
  <2> DEFINE s == N[k][u]
  <2> HIDE DEF s
  <2>2. i > 1 => s \in Seq(ExtraTyp) /\ GruppenIm(s, i - 1, b, k, u, vorn)
    BY <2>1 DEF s
  <2>3. h = Neu(u, i, g, K, s, vorn)
    BY DEF s
  <2> HIDE DEF h
  <2> QED BY <2>2, <2>3, GruppenImNeu, ZenonT(30)
<1> HIDE DEF h
<1>5. ASSUME NEW p, NEW q, Fach(M, p, q)
      PROVE  GruppenIm(M[p][q], Soll(x, b, p, q), b, p, q, vorn)
  <2>1. CASE p = k /\ q = u
    BY <1>3, <1>4, <2>1 DEF Gesetzt
  <2>2. CASE ~(p = k /\ q = u)
    <3>1. Fach(N, p, q) /\ M[p][q] = N[p][q]
      BY <1>3, <1>5, <2>2 DEF Gesetzt
    <3>2. GruppenIm(N[p][q], Soll(o, b, p, q), b, p, q, vorn)
      BY <3>1 DEF GruppenWie, Fach
    <3> QED BY <2>2, <3>1, <3>2
  <2> QED BY <2>1, <2>2
<1> QED BY <1>5 DEF GruppenWie, Fach

LEMMA GenauXInit == LadeInit => GenauXInv
<1> SUFFICES ASSUME LadeInit, NEW id \in IDs
             PROVE  ExtrasNamen[id] = <<>> /\ ExtrasPreise[id] = <<>> /\ Faltungen(id) = {}
  BY DEF GenauXInv
<1> QED BY DEF Faltungen, LadeInit

LEMMA GenauXAufruf ==
  ASSUME LadeTyp, GenauXInv, Aufruf
  PROVE  GenauXInv'
<1> SUFFICES ASSUME AlleSauber' PROVE GenauXInv'
  BY DEF GenauXInv
<1>0. AlleSauber
  BY SauberVorher
<1>1. /\ eingabe' = eingabe /\ ort = Ende /\ gefaltet' > 0 /\ IDs' = IDs
      /\ ExtrasNamen' = ExtrasNamen /\ ExtrasPreise' = ExtrasPreise
  BY DEF Aufruf, LadeTyp, IDs
<1>2. ASSUME NEW id \in IDs, NEW n \in DOMAIN eingabe, eingabe[n].id = id
      PROVE  /\ Faltungen(id)' = {} => ExtrasNamen[id] = <<>> /\ ExtrasPreise[id] = <<>>
             /\ Faltungen(id)' # {} /\ Einmal(id)' =>
                  /\ GruppenWie(Stelle(id)', eingabe[n].baum, ExtrasNamen[id], FALSE)
                  /\ GruppenWie(Stelle(id)', eingabe[n].baum, ExtrasPreise[id], TRUE)
  <2>1. /\ Faltungen(id) = {} => ExtrasNamen[id] = <<>> /\ ExtrasPreise[id] = <<>>
        /\ Faltungen(id) # {} /\ Einmal(id) =>
             /\ GruppenWie(Stelle(id), eingabe[n].baum, ExtrasNamen[id], FALSE)
             /\ GruppenWie(Stelle(id), eingabe[n].baum, ExtrasPreise[id], TRUE)
    BY <1>0, <1>2 DEF GenauXInv
  <2>2. CASE id = BestellungID'
    <3>1. Faltungen(id)' # {} /\ (Einmal(id)' => Faltungen(id) = {})
      BY <2>2, FaltungenAufruf
    <3>2. ASSUME NEW o, NEW b, NEW vorn PROVE GruppenWie(o, b, <<>>, vorn)
      BY DEF GruppenWie
    <3> QED BY <2>1, <3>1, <3>2
  <2>3. CASE id # BestellungID'
    <3>1. Faltungen(id)' = Faltungen(id) /\ (Einmal(id)' <=> Einmal(id))
      <4>1. PICK d : d = BestellungID'
        OBVIOUS
      <4> QED BY <2>3, <4>1, FaltungenAufruf
    <3>2. Stelle(id)' = Ende /\ Stelle(id) = Ende
      BY <1>1, <2>3 DEF Stelle
    <3> QED BY <2>1, <3>1, <3>2
  <2> QED BY <2>2, <2>3
<1>3. ASSUME NEW id \in IDs', NEW n \in DOMAIN eingabe', eingabe'[n].id = id
      PROVE  /\ Faltungen(id)' = {} => ExtrasNamen'[id] = <<>> /\ ExtrasPreise'[id] = <<>>
             /\ Faltungen(id)' # {} /\ Einmal(id)' =>
                  /\ GruppenWie(Stelle(id)', eingabe'[n].baum, ExtrasNamen'[id], FALSE)
                  /\ GruppenWie(Stelle(id)', eingabe'[n].baum, ExtrasPreise'[id], TRUE)
  BY <1>1, <1>2, <1>3
<1> QED BY <1>3 DEF GenauXInv, GruppenWie, Soll

LEMMA GenauXUnveraendert ==
  ASSUME GenauXInv, UNCHANGED ladeVars
  PROVE  GenauXInv'
<1>1. /\ eingabe' = eingabe /\ gefaltet' = gefaltet /\ ort' = ort
      /\ ExtrasNamen' = ExtrasNamen /\ ExtrasPreise' = ExtrasPreise
  BY DEF ladeVars, woerterbuecher
<1>2. /\ IDs' = IDs /\ (AlleSauber' <=> AlleSauber) /\ \A id : Stelle(id)' = Stelle(id)
      /\ \A id : Faltungen(id)' = Faltungen(id) /\ (Einmal(id)' <=> Einmal(id))
  BY <1>1, FaltungenWeiter DEF IDs, AlleSauber, Sauber, Stelle, BestellungID
<1> SUFFICES ASSUME AlleSauber PROVE GenauXInv'
  BY <1>2 DEF GenauXInv
<1>3. ASSUME NEW id \in IDs', NEW n \in DOMAIN eingabe', eingabe'[n].id = id
      PROVE  /\ Faltungen(id)' = {} => ExtrasNamen'[id] = <<>> /\ ExtrasPreise'[id] = <<>>
             /\ Faltungen(id)' # {} /\ Einmal(id)' =>
                  /\ GruppenWie(Stelle(id)', eingabe'[n].baum, ExtrasNamen'[id], FALSE)
                  /\ GruppenWie(Stelle(id)', eingabe'[n].baum, ExtrasPreise'[id], TRUE)
  BY <1>1, <1>2, <1>3 DEF GenauXInv
<1> QED BY <1>3 DEF GenauXInv, GruppenWie, Soll

LEMMA GenauXUebertragen ==
  ASSUME LadeTyp, ExtraInv, GenauXInv, AlleSauber, Weiter, NEW M, NEW W,
         ExtrasNamen' = [ExtrasNamen EXCEPT ![BestellungID] = M],
         ExtrasPreise' = [ExtrasPreise EXCEPT ![BestellungID] = W],
         (/\ Einmal(BestellungID)
          /\ GruppenWie(ort, Datensatz, ExtrasNamen[BestellungID], FALSE)
          /\ GruppenWie(ort, Datensatz, ExtrasPreise[BestellungID], TRUE))
           => GruppenWie(ort', Datensatz, M, FALSE) /\ GruppenWie(ort', Datensatz, W, TRUE)
  PROVE  GenauXInv'
<1>1. BestellungID \in IDs /\ gefaltet > 0 /\ eingabe' = eingabe
  BY DatensatzForm DEF Weiter
<1>2. /\ IDs' = IDs /\ \A x : Stelle(x)' = IF x = BestellungID THEN ort' ELSE Ende
      /\ \A x : Stelle(x) = IF x = BestellungID THEN ort ELSE Ende
  BY WeiterStelle
<1>3. \A x : Faltungen(x)' = Faltungen(x) /\ (Einmal(x)' <=> Einmal(x))
  BY FaltungenWeiter DEF Weiter
<1>4. /\ ExtrasNamen'[BestellungID] = M /\ ExtrasPreise'[BestellungID] = W
      /\ \A x \in IDs : x # BestellungID => /\ ExtrasNamen'[x] = ExtrasNamen[x]
                                            /\ ExtrasPreise'[x] = ExtrasPreise[x]
  BY <1>1 DEF ExtraInv
<1>5. ASSUME NEW id \in IDs', NEW n \in DOMAIN eingabe', eingabe'[n].id = id
      PROVE  /\ Faltungen(id)' = {} => ExtrasNamen'[id] = <<>> /\ ExtrasPreise'[id] = <<>>
             /\ Faltungen(id)' # {} /\ Einmal(id)' =>
                  /\ GruppenWie(Stelle(id)', eingabe'[n].baum, ExtrasNamen'[id], FALSE)
                  /\ GruppenWie(Stelle(id)', eingabe'[n].baum, ExtrasPreise'[id], TRUE)
  <2>1. /\ Faltungen(id) = {} => ExtrasNamen[id] = <<>> /\ ExtrasPreise[id] = <<>>
        /\ Faltungen(id) # {} /\ Einmal(id) =>
             /\ GruppenWie(Stelle(id), eingabe[n].baum, ExtrasNamen[id], FALSE)
             /\ GruppenWie(Stelle(id), eingabe[n].baum, ExtrasPreise[id], TRUE)
    BY <1>1, <1>2, <1>5 DEF GenauXInv
  <2>2. CASE id = BestellungID
    <3>1. Faltungen(id) # {} /\ eingabe[n].baum = Datensatz
      BY <1>1, <1>5, <2>2, GleicherBaum
    <3>2. Einmal(id) => /\ GruppenWie(ort', Datensatz, M, FALSE)
                        /\ GruppenWie(ort', Datensatz, W, TRUE)
      BY <1>2, <2>1, <2>2, <3>1
    <3> QED BY <1>1, <1>2, <1>3, <1>4, <2>2, <3>1, <3>2
  <2>3. CASE id # BestellungID
    BY <1>1, <1>2, <1>3, <1>4, <2>1, <2>3
  <2> QED BY <2>2, <2>3
<1> QED BY <1>5 DEF GenauXInv, GruppenWie, Soll

\* Before the first extras of a subcategory it has no groups.
LEMMA NochKeine ==
  ASSUME NEW k \in Nat, NEW u \in Nat, NEW i \in Nat, u > 0, i > 0, NEW b, NEW o,
         o = Ort("item", k, u, i, 0), NEW K, NEW U, NEW I, Reihen(K, U, I),
         Form(o, K, U, I), Genau(o, b, K, U, I), NEW N \in ExtraReihen, FormX(o, K, U, N)
  PROVE  ~Fach(N, k, u)
<1>1. o.art = "item" /\ o.k = k /\ o.u = u /\ o.i = i
  BY OrtFelder
<1>2. IndexOf(K, k) = k /\ Len(K) = k /\ Len(U[k]) = u
  BY <1>1, GenauFach
<1>3. DOMAIN N = 1..Len(N) /\ \A p \in DOMAIN N : DOMAIN N[p] = 1..Len(N[p])
  BY DEF ExtraReihen
<1>4. CASE u = 1
  <2>1. OhneGruppe(o)
    BY <1>1, <1>4 DEF OhneGruppe
  <2>2. Eins(OhneGruppe(o)) = 1
    BY <2>1 DEF Eins
  <2>3. Len(N) = k - 1
    BY <1>2, <2>2 DEF FormX
  <2>4. k \notin DOMAIN N
    BY <1>3, <2>3
  <2> QED BY <2>4 DEF Fach
<1>5. CASE u > 1
  <2> SUFFICES ASSUME k \in DOMAIN N PROVE u \notin DOMAIN N[k]
    BY DEF Fach
  <2>1. WeitereOhneGruppe(o)
    BY <1>1, <1>5 DEF WeitereOhneGruppe
  <2>2. Eins(WeitereOhneGruppe(o) /\ k = IndexOf(K, o.k)) = 1
    BY <1>1, <1>2, <2>1 DEF Eins
  <2>3. Len(N[k]) = Len(U[k]) - Eins(WeitereOhneGruppe(o) /\ k = IndexOf(K, o.k))
    BY DEF FormX
  <2>4. Len(N[k]) = u - 1
    BY <1>2, <2>2, <2>3
  <2>5. DOMAIN N[k] = 1..(u - 1)
    BY <1>3, <2>4
  <2> QED BY <2>5
<1> QED BY <1>4, <1>5

LEMMA GenauXInvSchritt ==
  ASSUME LadeTyp, FormInv, GenauInv, ExtraInv, GenauXInv, LadeNext
  PROVE  GenauXInv'
<1> DEFINE id == BestellungID
           K == Kategorien[id]
           U == Unterkategorien[id]
           I == Items[id]
           N == ExtrasNamen[id]
           W == ExtrasPreise[id]
           b == Datensatz
           Bisher == /\ Einmal(id) /\ GruppenWie(ort, b, N, FALSE)
                     /\ GruppenWie(ort, b, W, TRUE)
<1>1. CASE Aufruf
  BY <1>1, GenauXAufruf
<1>2. ASSUME Weiter, AlleSauber => GenauXInv'
      PROVE  GenauXInv'
  BY <1>2, SauberBleibt DEF GenauXInv
<1>3. ASSUME Weiter, AlleSauber
      PROVE  /\ id \in IDs /\ Baumform(b) /\ Reihen(K, U, I) /\ Form(ort, K, U, I)
             /\ FormX(ort, K, U, N) /\ FormX(ort, K, U, W)
             /\ N \in ExtraReihen /\ W \in ExtraReihen
             /\ ExtrasNamen = [ExtrasNamen EXCEPT ![id] = N]
             /\ ExtrasPreise = [ExtrasPreise EXCEPT ![id] = W]
             /\ Einmal(id) => Genau(ort, b, K, U, I)
  <2>1. Einmal(id) => Genau(ort, b, K, U, I)
    <3>1. Stelle(id) = ort /\ gefaltet > 0
      BY <1>3, WeiterStelle DEF Weiter
    <3>2. gefaltet \in DOMAIN eingabe /\ id \in IDs /\ Faltungen(id) # {}
      BY <3>1, DatensatzForm, GleicherBaum
    <3>3. eingabe[gefaltet].id = id /\ eingabe[gefaltet].baum = b
      BY DEF BestellungID, Datensatz
    <3> QED BY <3>1, <3>2, <3>3 DEF GenauInv
  <2> QED BY <1>3, <2>1, Zusammenhang
\* Steps that leave the extras alone and lead to a place with the same
\* number of groups wherever there are any.
<1>4. ASSUME Weiter, AlleSauber, ExtrasNamen' = ExtrasNamen, ExtrasPreise' = ExtrasPreise,
             Einmal(id) => \A p, q : Fach(N, p, q) \/ Fach(W, p, q) =>
               Soll(ort', b, p, q) = Soll(ort, b, p, q)
      PROVE  GenauXInv'
  <2>1. /\ ExtrasNamen' = [ExtrasNamen EXCEPT ![id] = N]
        /\ ExtrasPreise' = [ExtrasPreise EXCEPT ![id] = W]
    BY <1>3, <1>4
  <2> HIDE DEF N, W
  <2>2. Bisher => GruppenWie(ort', b, N, FALSE) /\ GruppenWie(ort', b, W, TRUE)
    BY <1>4, WieGleich
  <2>3. (/\ Einmal(id) /\ GruppenWie(ort, b, ExtrasNamen[id], FALSE)
         /\ GruppenWie(ort, b, ExtrasPreise[id], TRUE))
          => GruppenWie(ort', b, N, FALSE) /\ GruppenWie(ort', b, W, TRUE)
    BY <2>2 DEF N, W
  <2> QED BY <1>4, <2>1, <2>3, GenauXUebertragen
<1>5. ASSUME NEW k \in 1..Len(b), AmKategorie(k), AlleSauber
      PROVE  GenauXInv'
  <2>1. /\ Weiter /\ ort = Ort("kategorie", k, 0, 0, 0)
        /\ ort' = Ort("unterkategorie", k, 1, 0, 0)
        /\ ExtrasNamen' = ExtrasNamen /\ ExtrasPreise' = ExtrasPreise
    BY <1>5 DEF AmKategorie
  <2>2. ort.art # "extra" /\ ort'.art # "extra"
    BY <2>1, OrtFelder
  <2>3. \A p, q : Soll(ort', b, p, q) = Soll(ort, b, p, q)
    BY <2>2 DEF Soll
  <2> QED BY <1>4, <1>5, <2>1, <2>3
<1>6. ASSUME NEW k \in 1..Len(b), NEW u \in 1..Len(b[k]), NEW V, AmUnterkategorie(k, u, V),
             AlleSauber
      PROVE  GenauXInv'
  <2>1. /\ Weiter /\ ort = Ort("unterkategorie", k, u, 0, 0)
        /\ ort' = Ort("item", k, u, 1, 0)
        /\ ExtrasNamen' = ExtrasNamen /\ ExtrasPreise' = ExtrasPreise
    BY <1>6 DEF AmUnterkategorie
  <2>2. ort.art # "extra" /\ ort'.art # "extra"
    BY <2>1, OrtFelder
  <2>3. \A p, q : Soll(ort', b, p, q) = Soll(ort, b, p, q)
    BY <2>2 DEF Soll
  <2> QED BY <1>4, <1>6, <2>1, <2>3
<1>7. ASSUME NEW k \in 1..Len(b), NEW u \in 1..Len(b[k]), NEW i \in 1..Len(b[k][u]), Weiter,
             ort.art \in {"item", "extra"}, ort.k = k, AlleSauber
      PROVE  /\ \A j \in 1..Len(b[k][u]) : b[k][u][j] > 0
             /\ k \in Nat /\ u \in Nat /\ u > 0 /\ i \in Nat /\ i > 0 /\ b[k][u][i] \in Nat
             /\ Len(b[k][u]) \in Nat
  <2>1. \A j \in 1..Len(b[k][u]) : b[k][u][j] > 0
    BY <1>3, <1>7, SauberIst DEF SauberesBlatt, Weiter
  <2>2. Len(b) \in Nat /\ Len(b[k]) \in Nat /\ Len(b[k][u]) \in Nat /\ b[k][u][i] \in Nat
    BY <1>3, <1>7, BaumTeile
  <2> QED BY <2>1, <2>2
<1>8. ASSUME NEW k \in 1..Len(b), NEW u \in 1..Len(b[k]), NEW i \in 1..Len(b[k][u]),
             NEW J, AmItem(k, u, i, J), AlleSauber
      PROVE  GenauXInv'
  <2>1. /\ Weiter /\ ort = Ort("item", k, u, i, 0) /\ ort' = Folgender(b, ort)
        /\ ExtrasNamen' = ExtrasNamen /\ ExtrasPreise' = ExtrasPreise
    BY <1>8 DEF AmItem
  <2>2. ort.art = "item" /\ ort.k = k
    BY <2>1, OrtFelder
  <2>3. /\ \A j \in 1..Len(b[k][u]) : b[k][u][j] > 0
        /\ k \in Nat /\ u \in Nat /\ u > 0 /\ i \in Nat /\ i > 0
    BY <1>7, <1>8, <2>1, <2>2
  <2>4. ort' = IF i < Len(b[k][u]) THEN Ort("item", k, u, i + 1, 0)
               ELSE Ort("extra", k, u, 1, 1)
    BY <1>3, <1>8, <2>1, <2>3, FolgenderSauber
  <2>5. CASE ort' = Ort("item", k, u, i + 1, 0)
    <3>1. ort'.art # "extra"
      BY <2>5, OrtFelder
    <3>2. \A p, q : Soll(ort', b, p, q) = Soll(ort, b, p, q)
      BY <2>2, <3>1 DEF Soll
    <3> QED BY <1>4, <1>8, <2>1, <3>2
  <2>6. CASE ort' = Ort("extra", k, u, 1, 1)
    <3>1. ort'.k = k /\ ort'.u = u
      BY <2>6, OrtFelder
    <3>2. ASSUME Einmal(id) PROVE ~Fach(N, k, u) /\ ~Fach(W, k, u)
      <4>1. /\ Reihen(K, U, I) /\ Form(ort, K, U, I) /\ FormX(ort, K, U, N)
            /\ FormX(ort, K, U, W) /\ N \in ExtraReihen /\ W \in ExtraReihen
            /\ Genau(ort, b, K, U, I)
        BY <1>3, <1>8, <2>1, <3>2
      <4> HIDE DEF K, U, I, N, W
      <4> QED BY <2>1, <2>3, <4>1, NochKeine
    <3>3. \A p, q : ~(p = k /\ q = u) => Soll(ort', b, p, q) = Soll(ort, b, p, q)
      BY <2>2, <3>1 DEF Soll
    <3>4. Einmal(id) => \A p, q : Fach(N, p, q) \/ Fach(W, p, q) =>
               Soll(ort', b, p, q) = Soll(ort, b, p, q)
      <4> HIDE DEF N, W
      <4> QED BY <3>2, <3>3
    <3> QED BY <1>4, <1>8, <2>1, <3>4
  <2> QED BY <2>4, <2>5, <2>6
<1>9. ASSUME NEW k \in 1..Len(b), NEW u \in 1..Len(b[k]), NEW i \in 1..Len(b[k][u]),
             NEW e \in 1..b[k][u][i], AmExtra(k, u, i, e), AlleSauber
      PROVE  GenauXInv'
  <2>1. Weiter /\ ort = Ort("extra", k, u, i, e) /\ ort' = Folgender(b, ort)
    BY <1>9 DEF AmExtra
  <2>2. ort.art = "extra" /\ ort.k = k /\ ort.u = u /\ ort.i = i /\ ort.e = e
    BY <2>1, OrtFelder
  <2>3. /\ \A j \in 1..Len(b[k][u]) : b[k][u][j] > 0
        /\ k \in Nat /\ u \in Nat /\ u > 0 /\ i \in Nat /\ i > 0 /\ b[k][u][i] \in Nat
        /\ Len(b[k][u]) \in Nat
    BY <1>7, <1>9, <2>1, <2>2
  <2>4. ort' = IF e < b[k][u][i] THEN Ort("extra", k, u, i, e + 1)
               ELSE IF i < Len(b[k][u]) THEN Ort("extra", k, u, i + 1, 1)
               ELSE NachUnterkategorie(b, k, u)
    BY <1>3, <1>9, <2>1, <2>3, FolgenderSauber
  <2>5. \/ e < b[k][u][i] /\ Gesammeltes(k, u, i, e)
        \/ e = b[k][u][i] /\ \E X, Y : Abgeschlossen(k, u, i, e, X, Y)
    BY <1>9, ExtraWirkung
  <2>6. CASE e < b[k][u][i] /\ Gesammeltes(k, u, i, e)
    <3>1. ort'.art = "extra" /\ ort'.k = k /\ ort'.u = u /\ ort'.i = i
      BY <2>4, <2>6, OrtFelder
    <3>2. \A p, q : Soll(ort', b, p, q) = Soll(ort, b, p, q)
      BY <2>2, <3>1 DEF Soll
    <3>3. ExtrasNamen' = ExtrasNamen /\ ExtrasPreise' = ExtrasPreise
      BY <2>6 DEF Gesammeltes
    <3> QED BY <1>4, <1>9, <2>1, <3>2, <3>3
  <2>7. ASSUME NEW X, NEW Y, e = b[k][u][i], Abgeschlossen(k, u, i, e, X, Y)
        PROVE  GenauXInv'
    <3> DEFINE G == Gruppe(k, u, i, e)
    <3>1. /\ ExtrasNamen' = [ExtrasNamen EXCEPT ![id] = X]
          /\ ExtrasPreise' = [ExtrasPreise EXCEPT ![id] = Y]
          /\ GruppeHinzu(k, u, i, G, K, U, N, X, FALSE)
          /\ GruppeHinzu(k, u, i, G, K, U, W, Y, TRUE)
      BY <2>7 DEF Abgeschlossen
    <3>2. Reihen(K, U, I) /\ Ruhe(k, u, K, U, I)
      BY <1>3, <1>9, <2>1, <2>2, <2>3, FormRuhe
    <3>3. G \in ExtraTyp /\ G = Gruppe(k, u, i, b[k][u][i])
      <4>1. e \in Nat
        BY <2>3
      <4> QED BY <2>3, <2>7, <4>1, GruppeIst
    <3>4. /\ GesetztIn(k, u, i, G, K, U, N, X, FALSE)
          /\ GesetztIn(k, u, i, G, K, U, W, Y, TRUE)
          /\ N \in ExtraReihen /\ W \in ExtraReihen
      <4>1. Len(U) = Len(K) /\ N \in Seq(Seq(Seq(ExtraTyp))) /\ W \in Seq(Seq(Seq(ExtraTyp)))
            /\ N \in ExtraReihen /\ W \in ExtraReihen
        BY <1>3, <1>9, <2>1, <3>2 DEF Ruhe, ExtraReihen
      <4>2. FormX(ort, K, U, N) /\ FormX(ort, K, U, W)
        BY <1>3, <1>9, <2>1
      <4> HIDE DEF K, U, I, N, W, G
      <4>3. GesetztIn(k, u, i, G, K, U, N, X, FALSE)
        BY <2>1, <2>3, <3>1, <3>2, <3>3, <4>1, <4>2, GruppeGesetzt
      <4>4. GesetztIn(k, u, i, G, K, U, W, Y, TRUE)
        BY <2>1, <2>3, <3>1, <3>2, <3>3, <4>1, <4>2, GruppeGesetzt
      <4> QED BY <4>1, <4>3, <4>4
    <3>5. /\ Soll(ort, b, k, u) = i - 1 /\ Soll(ort', b, k, u) = i
          /\ \A p, q : ~(p = k /\ q = u) => Soll(ort', b, p, q) = Soll(ort, b, p, q)
      <4>1. ort' = IF i < Len(b[k][u]) THEN Ort("extra", k, u, i + 1, 1)
                   ELSE NachUnterkategorie(b, k, u)
        BY <2>3, <2>4, <2>7
      <4>2. Soll(ort, b, k, u) = i - 1
        BY <2>2 DEF Soll
      <4>3. \A p, q : ~(p = k /\ q = u) => Soll(ort, b, p, q) = Len(b[p][q])
        BY <2>2 DEF Soll
      <4>4. CASE i < Len(b[k][u])
        <5>1. ort'.art = "extra" /\ ort'.k = k /\ ort'.u = u /\ ort'.i = i + 1
          BY <4>1, <4>4, OrtFelder
        <5>2. (i + 1) - 1 = i
          BY <2>3
        <5>3. /\ Soll(ort', b, k, u) = i
              /\ \A p, q : ~(p = k /\ q = u) => Soll(ort', b, p, q) = Len(b[p][q])
          BY <5>1, <5>2 DEF Soll
        <5> QED BY <4>2, <4>3, <5>3
      <4>5. CASE ~(i < Len(b[k][u]))
        <5>1. i = Len(b[k][u])
          BY <2>3, <4>5
        <5>2. ort'.art # "extra"
          <6>1. ort' = NachUnterkategorie(b, k, u)
            BY <4>1, <4>5
          <6> QED BY <6>1, OrtFelder DEF NachUnterkategorie, Ende
        <5>3. \A p, q : Soll(ort', b, p, q) = Len(b[p][q])
          BY <5>2 DEF Soll
        <5> QED BY <4>2, <4>3, <5>1, <5>3
      <4> QED BY <4>4, <4>5
    <3>6. ASSUME Bisher PROVE GruppenWie(ort', b, X, FALSE) /\ GruppenWie(ort', b, Y, TRUE)
      <4>1. Zielfach(k, u, i, K, U) = <<k, u>> /\ (Len(K) = 1 <=> k = 1)
        <5>1. Reihen(K, U, I) /\ Form(ort, K, U, I) /\ Genau(ort, b, K, U, I)
          BY <1>3, <1>9, <2>1, <3>6
        <5> HIDE DEF K, U, I
        <5> QED BY <2>2, <2>3, <5>1, GenauFach
      <4>2. GruppenWie(ort, b, N, FALSE) /\ GruppenWie(ort, b, W, TRUE)
        BY <3>6
      <4> HIDE DEF K, U, I, N, W, G, b
      <4>3. NeueGruppeWie(k, u, i, G, b, K, U, N, X, FALSE, ort, ort')
        BY <2>3, <3>3, <3>4, <3>5, <4>1, <4>2 DEF NeueGruppeWie
      <4>4. NeueGruppeWie(k, u, i, G, b, K, U, W, Y, TRUE, ort, ort')
        BY <2>3, <3>3, <3>4, <3>5, <4>1, <4>2 DEF NeueGruppeWie
      <4>5. GruppenWie(ort', b, X, FALSE)
        BY <4>3, WieGesetzt
      <4>6. GruppenWie(ort', b, Y, TRUE)
        BY <4>4, WieGesetzt
      <4> QED BY <4>5, <4>6
    <3>7. (/\ Einmal(id) /\ GruppenWie(ort, b, ExtrasNamen[id], FALSE)
           /\ GruppenWie(ort, b, ExtrasPreise[id], TRUE))
            => GruppenWie(ort', b, X, FALSE) /\ GruppenWie(ort', b, Y, TRUE)
      BY <3>6
    <3> HIDE DEF K, U, I, N, W, G
    <3> QED BY <1>9, <2>1, <3>1, <3>7, GenauXUebertragen
  <2> QED BY <2>5, <2>6, <2>7
<1>10. /\ \A k : AmKategorie(k) => Weiter
       /\ \A k, u, V : AmUnterkategorie(k, u, V) => Weiter
       /\ \A k, u, i, J : AmItem(k, u, i, J) => Weiter
       /\ \A k, u, i, e : AmExtra(k, u, i, e) => Weiter
  BY DEF AmKategorie, AmUnterkategorie, AmItem, AmExtra
<1> QED BY <1>1, <1>2, <1>5, <1>6, <1>8, <1>9, <1>10, Schritte

\* The extras of a record, the first group of prices in reverse.
ExtrasDesDatensatzes(b, M, vorn) ==
  /\ M = [p \in DOMAIN b |-> M[p]]
  /\ \A p \in DOMAIN b :
       /\ M[p] = [q \in DOMAIN b[p] |-> M[p][q]]
       /\ \A q \in DOMAIN b[p] :
            M[p][q] = IF vorn /\ p = 1 /\ q = 1 THEN Reverse(Gruppen(b)[p][q])
                      ELSE Gruppen(b)[p][q]

\* At the end of the walk the extras are those of the record.
LEMMA GruppenEnde ==
  ASSUME NEW b, Baumform(b), NEW K, NEW U, NEW I, Reihen(K, U, I), Form(Ende, K, U, I),
         Genau(Ende, b, K, U, I), NEW M \in ExtraReihen, FormX(Ende, K, U, M),
         NEW vorn \in BOOLEAN, GruppenWie(Ende, b, M, vorn)
  PROVE  ExtrasDesDatensatzes(b, M, vorn)
<1>1. /\ K = [k \in DOMAIN b |-> k] /\ U = [k \in DOMAIN b |-> [u \in DOMAIN b[k] |-> u]]
  BY GenauEnde
<1>2. /\ DOMAIN b = 1..Len(b) /\ \A k \in DOMAIN b : DOMAIN b[k] = 1..Len(b[k])
      /\ Len(b) \in Nat /\ \A k \in DOMAIN b : Len(b[k]) \in Nat
      /\ \A k \in DOMAIN b : \A u \in DOMAIN b[k] :
           DOMAIN b[k][u] = 1..Len(b[k][u]) /\ Len(b[k][u]) \in Nat
  BY BaumTeile
<1>3. /\ DOMAIN M = 1..Len(M) /\ M = [p \in DOMAIN M |-> M[p]]
      /\ \A p \in DOMAIN M : M[p] \in Seq(Seq(ExtraTyp))
      /\ \A p \in DOMAIN M : DOMAIN M[p] = 1..Len(M[p]) /\ M[p] = [q \in DOMAIN M[p] |-> M[p][q]]
      /\ \A p \in DOMAIN M : \A q \in DOMAIN M[p] : M[p][q] \in Seq(ExtraTyp)
  BY DEF ExtraReihen
<1>4. Ende.art = "ende" /\ Ende.k = 0 /\ Ende.u = 0
  BY OrtFelder DEF Ende
<1>5. ~OhneGruppe(Ende) /\ ~WeitereOhneGruppe(Ende)
  BY <1>4 DEF OhneGruppe, WeitereOhneGruppe, OhneUnter
<1>6. DOMAIN M = DOMAIN b
  <2>1. Eins(OhneGruppe(Ende)) = 0
    BY <1>5 DEF Eins
  <2>2. Len(M) = Len(K) - 0 /\ Len(K) = Len(b)
    <3>1. Len(K) = Len(b)
      BY <1>4 DEF Genau
    <3> QED BY <2>1, <3>1 DEF FormX
  <2> QED BY <1>2, <1>3, <2>2
<1>7. ASSUME NEW p \in DOMAIN b PROVE DOMAIN M[p] = DOMAIN b[p]
  <2>1. Eins(WeitereOhneGruppe(Ende) /\ p = IndexOf(K, Ende.k)) = 0
    BY <1>5 DEF Eins
  <2>2. Len(M[p]) = Len(U[p]) - 0
    BY <1>6, <2>1 DEF FormX
  <2>3. p # 0 /\ p \in DOMAIN U
    BY <1>1, <1>2
  <2>4. Len(U[p]) = Len(b[p])
    BY <1>4, <2>3 DEF Genau
  <2>5. DOMAIN M[p] = 1..Len(M[p]) /\ Len(b[p]) \in Nat
    BY <1>2, <1>3, <1>6
  <2> QED BY <1>2, <2>2, <2>4, <2>5
<1>8. ASSUME NEW p \in DOMAIN b, NEW q \in DOMAIN b[p]
      PROVE  M[p][q] = IF vorn /\ p = 1 /\ q = 1 THEN Reverse(Gruppen(b)[p][q])
                       ELSE Gruppen(b)[p][q]
  <2> DEFINE n == Len(b[p][q])
             s == M[p][q]
             g == Gruppen(b)[p][q]
  <2>1. GruppenIm(s, n, b, p, q, vorn)
    <3>1. Soll(Ende, b, p, q) = n
      BY <1>4 DEF Soll
    <3> QED BY <1>6, <1>7, <3>1 DEF GruppenWie
  <2>2. s \in Seq(ExtraTyp) /\ n \in Nat /\ DOMAIN b[p][q] = 1..n
    BY <1>2, <1>3, <1>6, <1>7
  <2>3. Len(s) = n /\ s = [r \in 1..n |-> s[r]]
    <3>1. Len(s) = n
      BY <2>1 DEF GruppenIm
    <3> HIDE DEF s, n
    <3> QED BY <2>2, <3>1
  <2>4. g = [i \in 1..n |-> Gruppe(p, q, i, b[p][q][i])]
    BY <2>2 DEF Gruppen, Gruppe
  <2>5. CASE ~(vorn /\ p = 1 /\ q = 1)
    <3>1. \A r \in 1..n : s[r] = Gruppe(p, q, r, b[p][q][r])
      BY <2>1, <2>5 DEF GruppenIm
    <3>2. s = g
      BY <2>3, <2>4, <3>1
    <3> QED BY <2>5, <3>2
  <2>6. CASE vorn /\ p = 1 /\ q = 1
    <3>1. \A r \in 1..n : s[r] = Gruppe(p, q, (n + 1) - r, b[p][q][(n + 1) - r])
      BY <2>1, <2>6 DEF GruppenIm
    <3>2. \A r \in 1..n : (n + 1) - r \in 1..n /\ (n - r) + 1 = (n + 1) - r
      BY <2>2
    <3>3. \A r \in 1..n : s[r] = g[(n - r) + 1]
      BY <2>4, <3>1, <3>2
    <3>4. Len(g) = n
      <4> DEFINE h(i) == Gruppe(p, q, i, b[p][q][i])
                 T == {h(i) : i \in 1..n}
      <4>1. g \in [1..n -> T]
        BY <2>4
      <4> HIDE DEF g, n, T
      <4> QED BY <2>2, <4>1
    <3>5. Reverse(g) = [r \in 1..n |-> g[(n - r) + 1]]
      BY <3>4 DEF Reverse
    <3>6. s = Reverse(g)
      <4> HIDE DEF s, g, n
      <4> QED BY <2>3, <3>3, <3>5
    <3> QED BY <2>6, <3>6
  <2> QED BY <2>5, <2>6
<1> QED BY <1>3, <1>6, <1>7, <1>8 DEF ExtrasDesDatensatzes

ExtrasInv == LadeInv /\ ExtraInv /\ GenauXInv

LEMMA ExtrasAusInv == ExtrasInv => ExtrasWieImDatensatz
<1> SUFFICES ASSUME ExtrasInv, AlleSauber
             PROVE  /\ ~absturz
                    /\ ort = Ende => extrasString = <<>>
                    /\ \A id \in IDs :
                         Fertig(id) /\ Einmal(id) =>
                           LET g == Gruppen(Baum(id))
                           IN /\ ExtrasNamen[id] = g
                              /\ ExtrasPreise[id] = [g EXCEPT ![1][1] = Reverse(@)]
  BY DEF ExtrasWieImDatensatz
<1>1. LadeTyp /\ FormInv /\ GenauInv /\ ExtraInv /\ GenauXInv
  BY DEF ExtrasInv, LadeInv
<1>2. ~absturz
  BY <1>1 DEF ExtraInv
<1>3. ASSUME ort = Ende PROVE extrasString = <<>>
  <2>1. extrasString = Gruppe(ort.k, ort.u, ort.i, ort.e - 1)
    BY <1>1 DEF ExtraInv
  <2>2. ort.e - 1 = -1
    BY <1>3, OrtFelder DEF Ende
  <2> QED BY <2>1, <2>2, GruppeLeer
<1>4. ASSUME NEW id \in IDs, Fertig(id), Einmal(id)
      PROVE  LET g == Gruppen(Baum(id))
             IN /\ ExtrasNamen[id] = g
                /\ ExtrasPreise[id] = [g EXCEPT ![1][1] = Reverse(@)]
  <2> DEFINE b == Baum(id)
             N == ExtrasNamen[id]
             W == ExtrasPreise[id]
             K == Kategorien[id]
             U == Unterkategorien[id]
             I == Items[id]
             g == Gruppen(b)
  <2>1. Faltungen(id) # {} /\ ort = Ende
    BY <1>4 DEF Fertig
  <2>2. PICK n \in DOMAIN eingabe : eingabe[n].id = id /\ b = eingabe[n].baum
    BY <1>1, <2>1, BaumIst
  <2>3. Stelle(id) = Ende
    BY <2>1 DEF Stelle
  <2>4. Baumform(b)
    BY <1>1, <2>2, BaumVon
  <2>5. Genau(Ende, b, K, U, I)
    BY <1>1, <1>4, <2>1, <2>2, <2>3 DEF GenauInv
  <2>6. Form(Ende, K, U, I)
    BY <1>1, <2>3 DEF FormInv
  <2>7. Reihen(K, U, I)
    BY <1>1, ReihenTyp
  <2>8. N \in ExtraReihen /\ W \in ExtraReihen /\ FormX(Ende, K, U, N) /\ FormX(Ende, K, U, W)
    BY <1>1, <2>3 DEF ExtraInv, ExtraReihen
  <2>9. GruppenWie(Ende, b, N, FALSE) /\ GruppenWie(Ende, b, W, TRUE)
    BY <1>1, <1>4, <2>1, <2>2, <2>3 DEF GenauXInv
  <2> HIDE DEF b, N, W, K, U, I
  <2>10. ExtrasDesDatensatzes(b, N, FALSE) /\ ExtrasDesDatensatzes(b, W, TRUE)
    BY <2>4, <2>5, <2>6, <2>7, <2>8, <2>9, GruppenEnde
  <2>11. /\ g = [p \in DOMAIN b |-> g[p]]
         /\ \A p \in DOMAIN b : g[p] = [q \in DOMAIN b[p] |-> g[p][q]]
    BY DEF Gruppen
  <2>12. N = g
    <3>1. /\ N = [p \in DOMAIN b |-> N[p]]
          /\ \A p \in DOMAIN b :
               /\ N[p] = [q \in DOMAIN b[p] |-> N[p][q]]
               /\ \A q \in DOMAIN b[p] : N[p][q] = g[p][q]
      BY <2>10 DEF ExtrasDesDatensatzes
    <3> HIDE DEF g
    <3>2. ASSUME NEW p \in DOMAIN b PROVE N[p] = g[p]
      <4>1. /\ g[p] = [q \in DOMAIN b[p] |-> g[p][q]]
            /\ N[p] = [q \in DOMAIN b[p] |-> N[p][q]]
            /\ \A q \in DOMAIN b[p] : N[p][q] = g[p][q]
        BY <2>11, <3>1, <3>2
      <4> QED BY <4>1
    <3> QED BY <2>11, <3>1, <3>2
  <2>13. W = [g EXCEPT ![1][1] = Reverse(@)]
    <3>1. /\ W = [p \in DOMAIN b |-> W[p]]
          /\ \A p \in DOMAIN b :
               /\ W[p] = [q \in DOMAIN b[p] |-> W[p][q]]
               /\ \A q \in DOMAIN b[p] :
                    W[p][q] = IF p = 1 /\ q = 1 THEN Reverse(g[p][q]) ELSE g[p][q]
      BY <2>10 DEF ExtrasDesDatensatzes
    <3> DEFINE R == Reverse(g[1][1])
               h == [g[1] EXCEPT ![1] = R]
    <3>2. 1 \in DOMAIN b /\ 1 \in DOMAIN b[1]
      BY <2>4, BaumTeile
    <3>3. [g EXCEPT ![1][1] = Reverse(@)] = [g EXCEPT ![1] = h]
      OBVIOUS
    <3>4. /\ W[1][1] = R
          /\ \A q \in DOMAIN b[1] : q # 1 => W[1][q] = g[1][q]
          /\ \A p \in DOMAIN b : p # 1 => \A q \in DOMAIN b[p] : W[p][q] = g[p][q]
      BY <3>1, <3>2
    <3> HIDE DEF R, g
    <3>5. W[1] = h
      <4>1. DOMAIN g[1] = DOMAIN b[1]
        BY <2>11, <3>2
      <4>2. W[1] = [q \in DOMAIN b[1] |-> W[1][q]]
        BY <3>1, <3>2
      <4>3. h = [q \in DOMAIN b[1] |-> IF q = 1 THEN R ELSE g[1][q]]
        BY <4>1
      <4>4. \A q \in DOMAIN b[1] : W[1][q] = IF q = 1 THEN R ELSE g[1][q]
        BY <3>4
      <4> QED BY <4>2, <4>3, <4>4
    <3>6. ASSUME NEW p \in DOMAIN b, p # 1 PROVE W[p] = g[p]
      <4>1. /\ g[p] = [q \in DOMAIN b[p] |-> g[p][q]]
            /\ W[p] = [q \in DOMAIN b[p] |-> W[p][q]]
            /\ \A q \in DOMAIN b[p] : W[p][q] = g[p][q]
        BY <2>11, <3>1, <3>4, <3>6
      <4> QED BY <4>1
    <3> HIDE DEF h
    <3>7. [g EXCEPT ![1] = h] = [p \in DOMAIN b |-> IF p = 1 THEN h ELSE g[p]]
      <4>1. DOMAIN g = DOMAIN b
        BY <2>11
      <4> QED BY <4>1
    <3>8. W = [p \in DOMAIN b |-> IF p = 1 THEN h ELSE g[p]]
      BY <3>1, <3>5, <3>6
    <3> QED BY <3>3, <3>7, <3>8
  <2> QED BY <2>12, <2>13 DEF b, N, W
<1> QED BY <1>2, <1>3, <1>4

LEMMA ExtrasInvGilt == LadeSpec => []ExtrasInv
<1>1. LadeInit => ExtraInv /\ GenauXInv
  BY ExtraInit, GenauXInit
<1>2. LadeInv /\ ExtraInv /\ GenauXInv /\ [LadeNext]_ladeVars => (ExtraInv /\ GenauXInv)'
  <2>1. LadeInv /\ ExtraInv /\ GenauXInv /\ LadeNext => (ExtraInv /\ GenauXInv)'
    BY ExtraInvSchritt, GenauXInvSchritt DEF LadeInv
  <2>2. ExtraInv /\ GenauXInv /\ UNCHANGED ladeVars => (ExtraInv /\ GenauXInv)'
    BY ExtraUnveraendert, GenauXUnveraendert
  <2> QED BY <2>1, <2>2
<1>3. LadeInv /\ ExtraInv /\ GenauXInv <=> ExtrasInv
  BY DEF ExtrasInv
<1> QED BY <1>1, <1>2, <1>3, LadeInvGilt, PTL DEF LadeSpec

\* As long as every record is one the branches for extras are made for, the
\* fold ends no process, leaves no extras behind in extrasString, and puts
\* the extras of every item at the place of the item; only the prices of the
\* first subcategory stand in the opposite order.
THEOREM ExtrasKorrekt == LadeSpec => []ExtrasWieImDatensatz
BY ExtrasInvGilt, ExtrasAusInv, PTL

(***************************************************************************)
(* Items and groups of extras are balanced, place by place, but for the    *)
(* subcategory the walk is in.                                             *)
(***************************************************************************)
LEMMA StandRuhe ==
  ASSUME NEW k, NEW u, NEW m, NEW v, NEW K, NEW U, NEW L, NEW V, NEW I, NEW N,
         StandBei(k, u, 0, 0, K, U, I, N)
  PROVE  StandBei(m, v, 0, 0, L, V, I, N)
<1>1. \A f, p, q, P, Q : ImFach(f, p, q, P, Q, 0) = 0
  BY DEF ImFach, Eins
<1>2. ASSUME NEW a \in Nat, NEW c \in Nat
      PROVE  Anzahl(I, a, c) + ImFach(<<a, c>>, m, v, L, V, 0) =
               Anzahl(N, a, c) + ImFach(<<a, c>>, m, v, L, V, 0)
  <2>1. Anzahl(I, a, c) + ImFach(<<a, c>>, k, u, K, U, 0) =
          Anzahl(N, a, c) + ImFach(<<a, c>>, k, u, K, U, 0)
    BY DEF StandBei
  <2>2. ImFach(<<a, c>>, m, v, L, V, 0) = ImFach(<<a, c>>, k, u, K, U, 0)
    BY <1>1, Zenon
  <2> QED BY <2>1, <2>2, Zenon
<1> QED BY <1>2 DEF StandBei

\* With an entry the number at its place grows, there as here.
Zuwachs(k, u, i, K, U, N, M, a, c) == \E z \in Nat :
  /\ Anzahl(N, a, c) \in Nat /\ Anzahl(M, a, c) = Anzahl(N, a, c) + z
  /\ ImFach(<<a, c>>, k, u, K, U, i - 1) \in Nat
  /\ ImFach(<<a, c>>, k, u, K, U, i) = ImFach(<<a, c>>, k, u, K, U, i - 1) + z

LEMMA FachZuwachs ==
  ASSUME NEW S, NEW N \in Seq(Seq(Seq(S))), NEW M, NEW g \in S, NEW vorn,
         NEW k, NEW u, NEW i \in Nat, i > 0, NEW K, NEW U,
         GesetztIn(k, u, i, g, K, U, N, M, vorn), NEW a, NEW c
  PROVE  Zuwachs(k, u, i, K, U, N, M, a, c)
<1> DEFINE z == AmZiel(<<a, c>>, k, u, i, K, U)
<1>1. z \in Nat
  BY DEF AmZiel
<1>2. Anzahl(N, a, c) \in Nat
  BY AnzahlNat
<1>3. Anzahl(M, a, c) = Anzahl(N, a, c) + z
  BY AnzahlNeu
<1>4. ImFach(<<a, c>>, k, u, K, U, i - 1) \in Nat
  <2>1. i - 1 \in Nat
    OBVIOUS
  <2> QED BY <2>1, ImFachNeu
<1>5. ImFach(<<a, c>>, k, u, K, U, i) = ImFach(<<a, c>>, k, u, K, U, i - 1) + z
  BY ImFachNeu
<1> HIDE DEF z
<1> QED BY <1>1, <1>2, <1>3, <1>4, <1>5 DEF Zuwachs

LEMMA StandItem ==
  ASSUME NEW k, NEW u, NEW i \in Nat, i > 0, NEW K, NEW U, NEW I \in Seq(Seq(Seq(Nat))), NEW J,
         GesetztIn(k, u, i, i, K, U, I, J, FALSE), NEW N \in ExtraReihen,
         StandBei(k, u, 0, i - 1, K, U, I, N)
  PROVE  StandBei(k, u, 0, i, K, U, J, N)
<1> SUFFICES ASSUME NEW a \in Nat, NEW c \in Nat
             PROVE  Anzahl(J, a, c) + ImFach(<<a, c>>, k, u, K, U, 0) =
                      Anzahl(N, a, c) + ImFach(<<a, c>>, k, u, K, U, i)
  BY DEF StandBei
<1> DEFINE A == Anzahl(I, a, c)
           B == Anzahl(N, a, c)
           C == Anzahl(J, a, c)
           F == ImFach(<<a, c>>, k, u, K, U, i - 1)
           G == ImFach(<<a, c>>, k, u, K, U, i)
           H == ImFach(<<a, c>>, k, u, K, U, 0)
<1>1. A + H = B + F
  BY DEF StandBei
<1>2. PICK z \in Nat : A \in Nat /\ C = A + z /\ F \in Nat /\ G = F + z
  <2>1. Zuwachs(k, u, i, K, U, I, J, a, c)
    BY FachZuwachs
  <2> QED BY <2>1 DEF Zuwachs
<1>3. B \in Nat
  BY AnzahlNat DEF ExtraReihen
<1>4. H = 0
  BY DEF ImFach, Eins
<1> HIDE DEF A, B, C, F, G, H
<1>5. C + H = B + G
  BY <1>1, <1>2, <1>3, <1>4
<1> QED BY <1>5 DEF B, C, G, H

LEMMA StandGruppe ==
  ASSUME NEW k, NEW u, NEW i \in Nat, i > 0, NEW l \in Nat, NEW K, NEW U,
         NEW I \in Seq(Seq(Seq(Nat))), NEW N \in ExtraReihen, NEW g \in ExtraTyp, NEW M, NEW vorn,
         GesetztIn(k, u, i, g, K, U, N, M, vorn), StandBei(k, u, i - 1, l, K, U, I, N)
  PROVE  /\ StandBei(k, u, i, l, K, U, I, M)
         /\ i = l => StandBei(k, u, 0, 0, K, U, I, M)
<1> SUFFICES ASSUME NEW a \in Nat, NEW c \in Nat
             PROVE  /\ Anzahl(I, a, c) + ImFach(<<a, c>>, k, u, K, U, i) =
                         Anzahl(M, a, c) + ImFach(<<a, c>>, k, u, K, U, l)
                    /\ i = l => Anzahl(I, a, c) + ImFach(<<a, c>>, k, u, K, U, 0) =
                                  Anzahl(M, a, c) + ImFach(<<a, c>>, k, u, K, U, 0)
  BY DEF StandBei
<1> DEFINE A == Anzahl(I, a, c)
           B == Anzahl(N, a, c)
           C == Anzahl(M, a, c)
           F == ImFach(<<a, c>>, k, u, K, U, i - 1)
           G == ImFach(<<a, c>>, k, u, K, U, i)
           T == ImFach(<<a, c>>, k, u, K, U, l)
           H == ImFach(<<a, c>>, k, u, K, U, 0)
<1>1. A + F = B + T
  BY DEF StandBei
<1>2. PICK z \in Nat : B \in Nat /\ C = B + z /\ F \in Nat /\ G = F + z
  <2>1. Zuwachs(k, u, i, K, U, N, M, a, c)
    BY FachZuwachs DEF ExtraReihen
  <2> QED BY <2>1 DEF Zuwachs
<1>3. A \in Nat
  BY AnzahlNat
<1>4. H = 0
  BY DEF ImFach, Eins
<1>5. T \in Nat /\ (i = l => T = G)
  BY ImFachNeu
<1> HIDE DEF A, B, C, F, G, H, T
<1>6. A + G = C + T
  BY <1>1, <1>2, <1>3, <1>5
<1>7. i = l => A + H = C + H
  BY <1>1, <1>2, <1>3, <1>4, <1>5
<1> QED BY <1>6, <1>7 DEF A, C, G, H, T

\* No group is empty.
LEMMA NichtleerNeu ==
  ASSUME NEW k, NEW u, NEW i \in Nat, i > 0, NEW K, NEW U, NEW N \in ExtraReihen,
         NEW g \in ExtraTyp, g # <<>>, NEW M, NEW vorn \in BOOLEAN,
         GesetztIn(k, u, i, g, K, U, N, M, vorn), Nichtleer(N)
  PROVE  Nichtleer(M)
<1>1. PICK a, c \in Nat :
        /\ <<a, c>> = Zielfach(k, u, i, K, U) /\ (Fach(N, a, c) <=> i > 1)
        /\ Gesetzt(N, M, a, c, Neu(u, i, g, K, N[a][c], vorn))
  BY DEF GesetztIn
<1>2. \A r \in DOMAIN Neu(u, i, g, K, N[a][c], vorn) : Neu(u, i, g, K, N[a][c], vorn)[r] # <<>>
  <2>1. CASE i = 1
    BY <2>1 DEF Neu
  <2>2. CASE i > 1
    <3> DEFINE alt == N[a][c]
    <3>1. Fach(N, a, c)
      BY <1>1, <2>2
    <3>2. alt \in Seq(ExtraTyp)
      BY <3>1, AnzahlNat DEF ExtraReihen
    <3>3. \A r \in DOMAIN alt : alt[r] # <<>>
      BY <3>1 DEF Nichtleer, Fach
    <3> HIDE DEF alt
    <3> DEFINE S == {y \in ExtraTyp : y # <<>>}
    <3>4. alt \in Seq(S) /\ g \in S
      <4>1. g \in S
        OBVIOUS
      <4>2. \A r \in 1..Len(alt) : alt[r] \in S
        BY <3>2, <3>3
      <4> HIDE DEF S
      <4> QED BY <3>2, <4>1, <4>2
    <3> HIDE DEF S
    <3>5. <<g>> \o alt \in Seq(S) /\ Append(alt, g) \in Seq(S)
      BY <3>4
    <3>6. \A s \in Seq(S) : \A r \in DOMAIN s : s[r] \in S
      OBVIOUS
    <3>7. \A y \in S : y # <<>>
      BY DEF S
    <3>8. Neu(u, i, g, K, alt, vorn) \in Seq(S)
      BY <2>2, <3>5 DEF Neu
    <3> QED BY <3>6, <3>7, <3>8 DEF alt
  <2> QED BY <2>1, <2>2
<1> DEFINE h == Neu(u, i, g, K, N[a][c], vorn)
<1>3. \A r \in DOMAIN h : h[r] # <<>>
  BY <1>2
<1>4. Gesetzt(N, M, a, c, h)
  BY <1>1
<1> HIDE DEF h
<1> SUFFICES ASSUME NEW p \in DOMAIN M, NEW q \in DOMAIN M[p], NEW r \in DOMAIN M[p][q]
             PROVE  M[p][q][r] # <<>>
  BY DEF Nichtleer
<1>5. Fach(M, p, q)
  BY DEF Fach
<1>6. CASE p = a /\ q = c
  BY <1>3, <1>4, <1>6 DEF Gesetzt
<1>7. CASE ~(p = a /\ q = c)
  <2>1. Fach(N, p, q) /\ M[p][q] = N[p][q]
    BY <1>4, <1>5, <1>7 DEF Gesetzt
  <2> QED BY <2>1 DEF Nichtleer, Fach
<1> QED BY <1>6, <1>7

LEMMA StandInit == LadeInit => StandInv
<1> SUFFICES ASSUME LadeInit, NEW id \in IDs, NEW n \in DOMAIN eingabe
             PROVE  /\ Nichtleer(ExtrasPreise[id])
                    /\ Stand(Stelle(id), eingabe[n].baum, Kategorien[id], Unterkategorien[id],
                             Items[id], ExtrasPreise[id])
  BY DEF StandInv
<1>1. ExtrasPreise[id] = <<>> /\ Items[id] = <<>> /\ Stelle(id) = Ende
  BY DEF LadeInit, Stelle
<1>2. Nichtleer(<<>>)
  BY DEF Nichtleer
<1>3. ItemsDavon(Ende, eingabe[n].baum) = 0 /\ GruppenDavon(Ende) = 0
  BY OrtFelder DEF ItemsDavon, GruppenDavon, Ende
<1>4. \A k, u, K, U : StandBei(k, u, 0, 0, K, U, <<>>, <<>>)
  BY DEF StandBei
<1>5. StandBei(Ende.k, Ende.u, 0, 0, Kategorien[id], Unterkategorien[id], <<>>, <<>>)
  BY <1>4
<1>6. Stand(Ende, eingabe[n].baum, Kategorien[id], Unterkategorien[id], <<>>, <<>>)
  BY <1>3, <1>5 DEF Stand
<1> QED BY <1>1, <1>2, <1>6

\* What the invariant says of one order, and how it is primed.
StandVon(o, b, K, U, I, N) == Nichtleer(N) /\ Stand(o, b, K, U, I, N)

LEMMA StandInvIst ==
  /\ StandInv <=> (AlleSauber => \A id \in IDs : \A n \in DOMAIN eingabe : eingabe[n].id = id =>
       StandVon(Stelle(id), eingabe[n].baum, Kategorien[id], Unterkategorien[id], Items[id],
                ExtrasPreise[id]))
  /\ StandInv' <=> (AlleSauber' => \A id \in IDs' : \A n \in DOMAIN eingabe' :
       eingabe'[n].id = id =>
         StandVon(Stelle(id)', eingabe'[n].baum, Kategorien'[id], Unterkategorien'[id],
                  Items'[id], ExtrasPreise'[id]))
<1>1. StandInv <=> (AlleSauber => \A id \in IDs : \A n \in DOMAIN eingabe : eingabe[n].id = id =>
       StandVon(Stelle(id), eingabe[n].baum, Kategorien[id], Unterkategorien[id], Items[id],
                ExtrasPreise[id]))
  BY DEF StandInv, StandVon
<1>2. StandInv' <=> (AlleSauber' => \A id \in IDs' : \A n \in DOMAIN eingabe' :
       eingabe'[n].id = id =>
         StandVon(Stelle(id)', eingabe'[n].baum, Kategorien'[id], Unterkategorien'[id],
                  Items'[id], ExtrasPreise'[id]))
  BY DEF StandInv, StandVon, Stand, StandBei, Nichtleer, Anzahl, Fach, ImFach, ErstesFach,
         WeiteresFach, ItemsDavon, GruppenDavon, Eins
<1> QED BY <1>1, <1>2

LEMMA StandUnveraendert ==
  ASSUME StandInv, UNCHANGED ladeVars
  PROVE  StandInv'
<1>1. /\ eingabe' = eingabe /\ gefaltet' = gefaltet /\ ort' = ort
      /\ Kategorien' = Kategorien /\ Unterkategorien' = Unterkategorien
      /\ Items' = Items /\ ExtrasPreise' = ExtrasPreise
  BY DEF ladeVars, woerterbuecher
<1>2. IDs' = IDs /\ (AlleSauber' <=> AlleSauber) /\ \A id : Stelle(id)' = Stelle(id)
  BY <1>1 DEF IDs, AlleSauber, Sauber, Stelle, BestellungID
<1> QED BY <1>1, <1>2, StandInvIst

LEMMA StandAufruf ==
  ASSUME LadeTyp, StandInv, Aufruf
  PROVE  StandInv'
<1> SUFFICES ASSUME AlleSauber' PROVE StandInv'
  BY DEF StandInv
<1> DEFINE o == Ort("kategorie", 1, 0, 0, 0)
<1>1. AlleSauber
  BY SauberVorher
<1>2. /\ eingabe' = eingabe /\ ort = Ende /\ ort' = o /\ IDs' = IDs
      /\ Kategorien' = Kategorien /\ Unterkategorien' = Unterkategorien
      /\ Items' = Items /\ ExtrasPreise' = ExtrasPreise
  BY DEF Aufruf, LadeTyp, IDs
<1>3. \A b : /\ ItemsDavon(Ende, b) = 0 /\ GruppenDavon(Ende) = 0
             /\ ItemsDavon(o, b) = 0 /\ GruppenDavon(o) = 0
  BY OrtFelder DEF ItemsDavon, GruppenDavon, Ende
<1>4. ASSUME NEW b, NEW K, NEW U, NEW I, NEW N, StandVon(Ende, b, K, U, I, N)
      PROVE  StandVon(o, b, K, U, I, N)
  <2>1. StandBei(Ende.k, Ende.u, 0, 0, K, U, I, N) /\ Nichtleer(N)
    BY <1>3, <1>4 DEF StandVon, Stand
  <2>2. StandBei(o.k, o.u, 0, 0, K, U, I, N)
    BY <2>1, StandRuhe
  <2> QED BY <1>3, <2>1, <2>2 DEF StandVon, Stand
<1>5. \A id : Stelle(id) = Ende /\ Stelle(id)' \in {Ende, o}
  BY <1>2 DEF Stelle
<1> HIDE DEF o
<1>6. ASSUME NEW id \in IDs', NEW n \in DOMAIN eingabe', eingabe'[n].id = id
      PROVE  StandVon(Stelle(id)', eingabe'[n].baum, Kategorien'[id], Unterkategorien'[id],
                      Items'[id], ExtrasPreise'[id])
  <2>1. StandVon(Stelle(id), eingabe[n].baum, Kategorien[id], Unterkategorien[id], Items[id],
                 ExtrasPreise[id])
    BY <1>1, <1>2, <1>6, StandInvIst
  <2>2. Stelle(id) = Ende /\ Stelle(id)' \in {Ende, o}
    BY <1>5
  <2>3. StandVon(Ende, eingabe[n].baum, Kategorien[id], Unterkategorien[id], Items[id],
                 ExtrasPreise[id])
    BY <2>1, <2>2
  <2>4. StandVon(o, eingabe[n].baum, Kategorien[id], Unterkategorien[id], Items[id],
                 ExtrasPreise[id])
    BY <1>4, <2>3
  <2> QED BY <1>2, <2>2, <2>3, <2>4
<1> QED BY <1>6, StandInvIst

LEMMA StandUebertragen ==
  ASSUME LadeTyp, ExtraInv, StandInv, AlleSauber, Weiter, NEW L, NEW V, NEW J, NEW W,
         Kategorien' = [Kategorien EXCEPT ![BestellungID] = L],
         Unterkategorien' = [Unterkategorien EXCEPT ![BestellungID] = V],
         Items' = [Items EXCEPT ![BestellungID] = J],
         ExtrasPreise' = [ExtrasPreise EXCEPT ![BestellungID] = W],
         StandVon(ort, Datensatz, Kategorien[BestellungID], Unterkategorien[BestellungID],
                  Items[BestellungID], ExtrasPreise[BestellungID])
           => StandVon(ort', Datensatz, L, V, J, W)
  PROVE  StandInv'
<1>1. BestellungID \in IDs /\ gefaltet > 0 /\ eingabe' = eingabe
  BY DatensatzForm DEF Weiter
<1>2. /\ IDs' = IDs /\ \A x : Stelle(x)' = IF x = BestellungID THEN ort' ELSE Ende
      /\ \A x : Stelle(x) = IF x = BestellungID THEN ort ELSE Ende
  BY WeiterStelle
<1>3. /\ DOMAIN Kategorien = IDs /\ DOMAIN Unterkategorien = IDs /\ DOMAIN Items = IDs
      /\ DOMAIN ExtrasPreise = IDs
  BY DEF LadeTyp, ExtraInv
<1>4. /\ Kategorien'[BestellungID] = L /\ Unterkategorien'[BestellungID] = V
      /\ Items'[BestellungID] = J /\ ExtrasPreise'[BestellungID] = W
  BY <1>1, <1>3
<1>5. ASSUME NEW x \in IDs, x # BestellungID
      PROVE  /\ Kategorien'[x] = Kategorien[x] /\ Unterkategorien'[x] = Unterkategorien[x]
             /\ Items'[x] = Items[x] /\ ExtrasPreise'[x] = ExtrasPreise[x]
  BY <1>3, <1>5
<1>6. ASSUME NEW id \in IDs', NEW n \in DOMAIN eingabe', eingabe'[n].id = id
      PROVE  StandVon(Stelle(id)', eingabe'[n].baum, Kategorien'[id], Unterkategorien'[id],
                      Items'[id], ExtrasPreise'[id])
  <2>1. StandVon(Stelle(id), eingabe[n].baum, Kategorien[id], Unterkategorien[id], Items[id],
                 ExtrasPreise[id])
    BY <1>1, <1>2, <1>6, StandInvIst
  <2>2. CASE id = BestellungID
    <3>1. eingabe[n].baum = Datensatz /\ Stelle(id) = ort /\ Stelle(id)' = ort'
      BY <1>1, <1>2, <1>6, <2>2, GleicherBaum
    <3>2. StandVon(ort', Datensatz, L, V, J, W)
      BY <2>1, <2>2, <3>1
    <3> QED BY <1>1, <1>4, <2>2, <3>1, <3>2
  <2>3. CASE id # BestellungID
    <3>1. Stelle(id) = Ende /\ Stelle(id)' = Ende
      BY <1>2, <2>3
    <3> QED BY <1>1, <1>2, <1>5, <2>1, <2>3, <3>1
  <2> QED BY <2>2, <2>3
<1> QED BY <1>6, StandInvIst

LEMMA StandInvSchritt ==
  ASSUME LadeTyp, FormInv, GenauInv, ExtraInv, StandInv, LadeNext
  PROVE  StandInv'
<1> DEFINE id == BestellungID
           K == Kategorien[id]
           U == Unterkategorien[id]
           I == Items[id]
           N == ExtrasNamen[id]
           W == ExtrasPreise[id]
           b == Datensatz
<1>1. CASE Aufruf
  BY <1>1, StandAufruf
<1>2. ASSUME Weiter, AlleSauber => StandInv'
      PROVE  StandInv'
  BY <1>2, SauberBleibt DEF StandInv
<1>3. ASSUME Weiter, AlleSauber
      PROVE  /\ id \in IDs /\ Baumform(b) /\ Reihen(K, U, I) /\ Form(ort, K, U, I)
             /\ FormX(ort, K, U, W) /\ W \in ExtraReihen
             /\ Kategorien = [Kategorien EXCEPT ![id] = K]
             /\ Unterkategorien = [Unterkategorien EXCEPT ![id] = U]
             /\ Items = [Items EXCEPT ![id] = I]
             /\ ExtrasPreise = [ExtrasPreise EXCEPT ![id] = W]
  <2>1. Items \in [IDs -> Seq(Seq(Seq(Nat)))]
    BY DEF LadeTyp
  <2>2. Items = [Items EXCEPT ![id] = I]
    BY <2>1
  <2> QED BY <1>3, <2>2, Zusammenhang
\* The walk is in no subcategory, before and after.
<1>4. ASSUME Weiter, AlleSauber, Items' = Items, ExtrasPreise' = ExtrasPreise, NEW L, NEW V,
             Kategorien' = [Kategorien EXCEPT ![id] = L],
             Unterkategorien' = [Unterkategorien EXCEPT ![id] = V],
             ItemsDavon(ort, b) = 0, GruppenDavon(ort) = 0,
             ItemsDavon(ort', b) = 0, GruppenDavon(ort') = 0
      PROVE  StandInv'
  <2>1. Items' = [Items EXCEPT ![id] = I] /\ ExtrasPreise' = [ExtrasPreise EXCEPT ![id] = W]
    BY <1>3, <1>4
  <2>2. ASSUME StandVon(ort, b, K, U, I, W) PROVE StandVon(ort', b, L, V, I, W)
    <3> HIDE DEF K, U, I, W, b
    <3>1. StandBei(ort.k, ort.u, 0, 0, K, U, I, W) /\ Nichtleer(W)
      BY <1>4, <2>2 DEF StandVon, Stand
    <3>2. StandBei(ort'.k, ort'.u, 0, 0, L, V, I, W)
      BY <3>1, StandRuhe
    <3> QED BY <1>4, <3>1, <3>2 DEF StandVon, Stand
  <2>3. StandVon(ort, Datensatz, Kategorien[id], Unterkategorien[id], Items[id],
                 ExtrasPreise[id]) => StandVon(ort', Datensatz, L, V, I, W)
    BY <2>2
  <2> HIDE DEF I, W
  <2> QED BY <1>4, <2>1, <2>3, StandUebertragen
<1>5. ASSUME NEW k \in 1..Len(b), AmKategorie(k), AlleSauber
      PROVE  StandInv'
  <2> DEFINE L == Append(K, k)
  <2>1. /\ Weiter /\ ort = Ort("kategorie", k, 0, 0, 0)
        /\ ort' = Ort("unterkategorie", k, 1, 0, 0)
        /\ Kategorien' = [Kategorien EXCEPT ![id] = L] /\ Unterkategorien' = Unterkategorien
        /\ Items' = Items /\ ExtrasPreise' = ExtrasPreise
    BY <1>5 DEF AmKategorie
  <2>2. ort.art = "kategorie" /\ ort'.art = "unterkategorie"
    BY <2>1, OrtFelder
  <2>3. /\ ItemsDavon(ort, b) = 0 /\ GruppenDavon(ort) = 0
        /\ ItemsDavon(ort', b) = 0 /\ GruppenDavon(ort') = 0
    BY <2>2 DEF ItemsDavon, GruppenDavon
  <2>4. Unterkategorien' = [Unterkategorien EXCEPT ![id] = U]
    BY <1>3, <1>5, <2>1
  <2> HIDE DEF L, U
  <2> QED BY <1>4, <1>5, <2>1, <2>3, <2>4
<1>6. ASSUME NEW k \in 1..Len(b), NEW u \in 1..Len(b[k]), NEW V, AmUnterkategorie(k, u, V),
             AlleSauber
      PROVE  StandInv'
  <2>1. /\ Weiter /\ ort = Ort("unterkategorie", k, u, 0, 0)
        /\ ort' = Ort("item", k, u, 1, 0)
        /\ Unterkategorien' = [Unterkategorien EXCEPT ![id] = V] /\ Kategorien' = Kategorien
        /\ Items' = Items /\ ExtrasPreise' = ExtrasPreise
    BY <1>6 DEF AmUnterkategorie
  <2>2. ort.art = "unterkategorie" /\ ort'.art = "item" /\ ort'.i = 1
    BY <2>1, OrtFelder
  <2>3. /\ ItemsDavon(ort, b) = 0 /\ GruppenDavon(ort) = 0
        /\ ItemsDavon(ort', b) = 0 /\ GruppenDavon(ort') = 0
    BY <2>2 DEF ItemsDavon, GruppenDavon
  <2>4. Kategorien' = [Kategorien EXCEPT ![id] = K]
    BY <1>3, <1>6, <2>1
  <2> HIDE DEF K
  <2> QED BY <1>4, <1>6, <2>1, <2>3, <2>4
<1>7. ASSUME NEW k \in 1..Len(b), NEW u \in 1..Len(b[k]), NEW i \in 1..Len(b[k][u]), Weiter,
             ort.art \in {"item", "extra"}, ort.k = k, AlleSauber
      PROVE  /\ \A j \in 1..Len(b[k][u]) : b[k][u][j] > 0
             /\ k \in Nat /\ u \in Nat /\ u > 0 /\ i \in Nat /\ i > 0 /\ b[k][u][i] \in Nat
             /\ Len(b[k][u]) \in Nat
  <2>1. \A j \in 1..Len(b[k][u]) : b[k][u][j] > 0
    BY <1>3, <1>7, SauberIst DEF SauberesBlatt, Weiter
  <2>2. Len(b) \in Nat /\ Len(b[k]) \in Nat /\ Len(b[k][u]) \in Nat /\ b[k][u][i] \in Nat
    BY <1>3, <1>7, BaumTeile
  <2> QED BY <2>1, <2>2
<1>8. ASSUME NEW k \in 1..Len(b), NEW u \in 1..Len(b[k]), NEW i \in 1..Len(b[k][u]),
             NEW J, AmItem(k, u, i, J), AlleSauber
      PROVE  StandInv'
  <2>1. /\ Weiter /\ ort = Ort("item", k, u, i, 0) /\ ort' = Folgender(b, ort)
        /\ Items' = [Items EXCEPT ![id] = J] /\ ItemHinzu(k, u, i, K, U, I, J)
        /\ Kategorien' = Kategorien /\ Unterkategorien' = Unterkategorien
        /\ ExtrasPreise' = ExtrasPreise
    BY <1>8 DEF AmItem
  <2>2. ort.art = "item" /\ ort.k = k /\ ort.u = u /\ ort.i = i
    BY <2>1, OrtFelder
  <2>3. /\ \A j \in 1..Len(b[k][u]) : b[k][u][j] > 0
        /\ k \in Nat /\ u \in Nat /\ u > 0 /\ i \in Nat /\ i > 0 /\ Len(b[k][u]) \in Nat
    BY <1>7, <1>8, <2>1, <2>2
  <2>4. ort' = IF i < Len(b[k][u]) THEN Ort("item", k, u, i + 1, 0)
               ELSE Ort("extra", k, u, 1, 1)
    BY <1>3, <1>8, <2>1, <2>3, FolgenderSauber
  <2>5. /\ ItemsDavon(ort, b) = i - 1 /\ GruppenDavon(ort) = 0
        /\ ItemsDavon(ort', b) = i /\ GruppenDavon(ort') = 0
        /\ ort'.k = k /\ ort'.u = u
    <3>1. ItemsDavon(ort, b) = i - 1 /\ GruppenDavon(ort) = 0
      BY <2>2 DEF ItemsDavon, GruppenDavon
    <3>2. CASE i < Len(b[k][u])
      <4>1. ort'.art = "item" /\ ort'.k = k /\ ort'.u = u /\ ort'.i = i + 1
        BY <2>4, <3>2, OrtFelder
      <4>2. (i + 1) - 1 = i
        BY <2>3
      <4> QED BY <3>1, <4>1, <4>2 DEF ItemsDavon, GruppenDavon
    <3>3. CASE ~(i < Len(b[k][u]))
      <4>1. ort'.art = "extra" /\ ort'.k = k /\ ort'.u = u /\ ort'.i = 1
        BY <2>4, <3>3, OrtFelder
      <4>2. Len(b[k][u]) = i
        BY <2>3, <3>3
      <4> QED BY <3>1, <4>1, <4>2 DEF ItemsDavon, GruppenDavon
    <3> QED BY <3>2, <3>3
  <2>6. /\ Kategorien' = [Kategorien EXCEPT ![id] = K]
        /\ Unterkategorien' = [Unterkategorien EXCEPT ![id] = U]
        /\ ExtrasPreise' = [ExtrasPreise EXCEPT ![id] = W]
    BY <1>3, <1>8, <2>1
  <2>7. ASSUME StandVon(ort, b, K, U, I, W) PROVE StandVon(ort', b, K, U, J, W)
    <3>1. Reihen(K, U, I) /\ W \in ExtraReihen
      BY <1>3, <1>8, <2>1
    <3> HIDE DEF K, U, I, W, b
    <3>2. GesetztIn(k, u, i, i, K, U, I, J, FALSE)
      BY <2>1, <2>3, <3>1, ItemGesetzt
    <3>3. I \in Seq(Seq(Seq(Nat)))
      BY <3>1 DEF Reihen
    <3>4. StandBei(k, u, 0, i - 1, K, U, I, W) /\ Nichtleer(W)
      BY <2>2, <2>5, <2>7 DEF StandVon, Stand
    <3>5. StandBei(k, u, 0, i, K, U, J, W)
      BY <2>3, <3>1, <3>2, <3>3, <3>4, StandItem
    <3> QED BY <2>5, <3>4, <3>5 DEF StandVon, Stand
  <2>8. StandVon(ort, Datensatz, Kategorien[id], Unterkategorien[id], Items[id],
                 ExtrasPreise[id]) => StandVon(ort', Datensatz, K, U, J, W)
    BY <2>7
  <2> HIDE DEF K, U, I, W
  <2> QED BY <1>8, <2>1, <2>6, <2>8, StandUebertragen
<1>9. ASSUME NEW k \in 1..Len(b), NEW u \in 1..Len(b[k]), NEW i \in 1..Len(b[k][u]),
             NEW e \in 1..b[k][u][i], AmExtra(k, u, i, e), AlleSauber
      PROVE  StandInv'
  <2>1. /\ Weiter /\ ort = Ort("extra", k, u, i, e) /\ ort' = Folgender(b, ort)
        /\ Kategorien' = Kategorien /\ Unterkategorien' = Unterkategorien /\ Items' = Items
    BY <1>9 DEF AmExtra
  <2>2. ort.art = "extra" /\ ort.k = k /\ ort.u = u /\ ort.i = i /\ ort.e = e
    BY <2>1, OrtFelder
  <2>3. /\ \A j \in 1..Len(b[k][u]) : b[k][u][j] > 0
        /\ k \in Nat /\ u \in Nat /\ u > 0 /\ i \in Nat /\ i > 0 /\ b[k][u][i] \in Nat
        /\ Len(b[k][u]) \in Nat
    BY <1>7, <1>9, <2>1, <2>2
  <2>4. ort' = IF e < b[k][u][i] THEN Ort("extra", k, u, i, e + 1)
               ELSE IF i < Len(b[k][u]) THEN Ort("extra", k, u, i + 1, 1)
               ELSE NachUnterkategorie(b, k, u)
    BY <1>3, <1>9, <2>1, <2>3, FolgenderSauber
  <2>5. \/ e < b[k][u][i] /\ Gesammeltes(k, u, i, e)
        \/ e = b[k][u][i] /\ \E X, Y : Abgeschlossen(k, u, i, e, X, Y)
    BY <1>9, ExtraWirkung
  <2>6. /\ Kategorien' = [Kategorien EXCEPT ![id] = K]
        /\ Unterkategorien' = [Unterkategorien EXCEPT ![id] = U]
        /\ Items' = [Items EXCEPT ![id] = I]
    BY <1>3, <1>9, <2>1
  <2>7. ItemsDavon(ort, b) = Len(b[k][u]) /\ GruppenDavon(ort) = i - 1
    BY <2>2 DEF ItemsDavon, GruppenDavon
  <2>8. CASE e < b[k][u][i] /\ Gesammeltes(k, u, i, e)
    <3>1. ort'.art = "extra" /\ ort'.k = k /\ ort'.u = u /\ ort'.i = i
      BY <2>4, <2>8, OrtFelder
    <3>2. ItemsDavon(ort', b) = Len(b[k][u]) /\ GruppenDavon(ort') = i - 1
      BY <3>1 DEF ItemsDavon, GruppenDavon
    <3>3. ExtrasPreise' = [ExtrasPreise EXCEPT ![id] = W]
      BY <1>3, <1>9, <2>1, <2>8 DEF Gesammeltes
    <3>4. StandVon(ort, b, K, U, I, W) => StandVon(ort', b, K, U, I, W)
      <4> HIDE DEF K, U, I, W, b
      <4> QED BY <2>2, <2>7, <3>1, <3>2 DEF StandVon, Stand
    <3>5. StandVon(ort, Datensatz, Kategorien[id], Unterkategorien[id], Items[id],
                   ExtrasPreise[id]) => StandVon(ort', Datensatz, K, U, I, W)
      BY <3>4
    <3> HIDE DEF K, U, I, W
    <3> QED BY <1>9, <2>1, <2>6, <3>3, <3>5, StandUebertragen
  <2>9. ASSUME NEW X, NEW Y, e = b[k][u][i], Abgeschlossen(k, u, i, e, X, Y)
        PROVE  StandInv'
    <3> DEFINE G == Gruppe(k, u, i, e)
               l == Len(b[k][u])
    <3>1. /\ ExtrasPreise' = [ExtrasPreise EXCEPT ![id] = Y]
          /\ GruppeHinzu(k, u, i, G, K, U, W, Y, TRUE)
      BY <2>9 DEF Abgeschlossen
    <3>2. Reihen(K, U, I) /\ Ruhe(k, u, K, U, I)
      BY <1>3, <1>9, <2>1, <2>2, <2>3, FormRuhe
    <3>3. G \in ExtraTyp /\ G # <<>>
      <4>1. e \in Nat /\ e > 0
        BY <2>3
      <4> QED BY <2>3, <4>1, GruppeIst, ZenonT(30)
    <3>4. GesetztIn(k, u, i, G, K, U, W, Y, TRUE) /\ W \in ExtraReihen
      <4>1. Len(U) = Len(K) /\ W \in Seq(Seq(Seq(ExtraTyp))) /\ W \in ExtraReihen
        BY <1>3, <1>9, <2>1, <3>2 DEF Ruhe, ExtraReihen
      <4>2. FormX(ort, K, U, W)
        BY <1>3, <1>9, <2>1
      <4> HIDE DEF K, U, I, N, W, G
      <4>3. GesetztIn(k, u, i, G, K, U, W, Y, TRUE)
        BY <2>1, <2>3, <3>1, <3>2, <3>3, <4>1, <4>2, GruppeGesetzt
      <4> QED BY <4>1, <4>3
    <3>5. \/ /\ ort'.k = k /\ ort'.u = u
             /\ ItemsDavon(ort', b) = l /\ GruppenDavon(ort') = i
          \/ i = l /\ ItemsDavon(ort', b) = 0 /\ GruppenDavon(ort') = 0
      <4>1. ort' = IF i < l THEN Ort("extra", k, u, i + 1, 1) ELSE NachUnterkategorie(b, k, u)
        BY <2>3, <2>4, <2>9
      <4>2. CASE i < l
        <5>1. ort'.art = "extra" /\ ort'.k = k /\ ort'.u = u /\ ort'.i = i + 1
          BY <4>1, <4>2, OrtFelder
        <5>2. (i + 1) - 1 = i
          BY <2>3
        <5> QED BY <5>1, <5>2 DEF ItemsDavon, GruppenDavon
      <4>3. CASE ~(i < l)
        <5>1. i = l
          BY <2>3, <4>3
        <5>2. ort'.art \notin {"item", "extra"}
          <6>1. ort' = NachUnterkategorie(b, k, u)
            BY <4>1, <4>3
          <6> QED BY <6>1, OrtFelder DEF NachUnterkategorie, Ende
        <5> QED BY <5>1, <5>2 DEF ItemsDavon, GruppenDavon
      <4> QED BY <4>2, <4>3
    <3>6. ASSUME StandVon(ort, b, K, U, I, W) PROVE StandVon(ort', b, K, U, I, Y)
      <4>1. I \in Seq(Seq(Seq(Nat)))
        BY <3>2 DEF Reihen
      <4>2. l \in Nat /\ ItemsDavon(ort, b) = l
        BY <2>3, <2>7
      <4> HIDE DEF K, U, I, N, W, G, b, l
      <4>3. StandBei(k, u, i - 1, l, K, U, I, W) /\ Nichtleer(W)
        BY <2>2, <2>7, <3>6, <4>2 DEF StandVon, Stand
      <4>4. /\ StandBei(k, u, i, l, K, U, I, Y)
            /\ i = l => StandBei(k, u, 0, 0, K, U, I, Y)
        BY <2>3, <3>3, <3>4, <4>1, <4>2, <4>3, StandGruppe
      <4>5. Nichtleer(Y)
        BY <2>3, <3>3, <3>4, <4>3, NichtleerNeu
      <4>6. ASSUME i = l, ItemsDavon(ort', b) = 0, GruppenDavon(ort') = 0
            PROVE  StandVon(ort', b, K, U, I, Y)
        <5>1. StandBei(ort'.k, ort'.u, 0, 0, K, U, I, Y)
          BY <4>4, <4>6, StandRuhe
        <5> QED BY <4>5, <4>6, <5>1 DEF StandVon, Stand
      <4>7. ASSUME ort'.k = k, ort'.u = u, ItemsDavon(ort', b) = l, GruppenDavon(ort') = i
            PROVE  StandVon(ort', b, K, U, I, Y)
        BY <4>4, <4>5, <4>7 DEF StandVon, Stand
      <4> QED BY <3>5, <4>6, <4>7
    <3>7. StandVon(ort, Datensatz, Kategorien[id], Unterkategorien[id], Items[id],
                   ExtrasPreise[id]) => StandVon(ort', Datensatz, K, U, I, Y)
      BY <3>6
    <3> HIDE DEF K, U, I, N, W, G
    <3> QED BY <1>9, <2>1, <2>6, <3>1, <3>7, StandUebertragen
  <2> QED BY <2>5, <2>8, <2>9
<1>10. /\ \A k : AmKategorie(k) => Weiter
       /\ \A k, u, V : AmUnterkategorie(k, u, V) => Weiter
       /\ \A k, u, i, J : AmItem(k, u, i, J) => Weiter
       /\ \A k, u, i, e : AmExtra(k, u, i, e) => Weiter
  BY DEF AmKategorie, AmUnterkategorie, AmItem, AmExtra
<1> QED BY <1>1, <1>2, <1>5, <1>6, <1>8, <1>9, <1>10, Schritte

(***************************************************************************)
(* The total: items and groups in the order they are added up.             *)
(***************************************************************************)
Posten(K, U, I) ==
  [p \in DOMAIN I |-> [q \in DOMAIN I[p] |-> [r \in DOMAIN I[p][q] |->
     <<K[p], U[p][q], I[p][q][r]>>]]]

Tripel == Nat \X Nat \X Nat

LEMMA FolgeTyp ==
  ASSUME NEW X, NEW n \in Nat, NEW h, h = [i \in 1..n |-> h[i]], \A i \in 1..n : h[i] \in X
  PROVE  h \in Seq(X) /\ Len(h) = n
<1>1. h \in [1..n -> X]
  <2>1. [i \in 1..n |-> h[i]] \in [1..n -> X]
    OBVIOUS
  <2> QED BY <2>1
<1> QED BY <1>1

\* At the end of a walk the two have the same shape.
Formgleich(K, U, I, W) ==
  /\ Len(W) = Len(I) /\ Len(U) = Len(I) /\ Len(K) = Len(I)
  /\ \A p \in 1..Len(I) :
       /\ Len(W[p]) = Len(I[p]) /\ Len(U[p]) = Len(I[p])
       /\ \A q \in 1..Len(I[p]) : Len(W[p][q]) = Len(I[p][q])

LEMMA GleicheForm ==
  ASSUME NEW K, NEW U, NEW I, Reihen(K, U, I), Form(Ende, K, U, I), NEW W \in ExtraReihen,
         FormX(Ende, K, U, W), NEW b, StandVon(Ende, b, K, U, I, W)
  PROVE  Formgleich(K, U, I, W)
<1>1. /\ DOMAIN K = 1..Len(K) /\ DOMAIN U = 1..Len(U) /\ DOMAIN I = 1..Len(I)
      /\ Len(K) \in Nat /\ Len(U) \in Nat /\ Len(I) \in Nat
      /\ \A p \in DOMAIN U : Len(U[p]) \in Nat
      /\ \A p \in DOMAIN I : DOMAIN I[p] = 1..Len(I[p]) /\ Len(I[p]) \in Nat
  BY DEF Reihen
<1>2. /\ DOMAIN W = 1..Len(W) /\ Len(W) \in Nat
      /\ \A p \in DOMAIN W : DOMAIN W[p] = 1..Len(W[p]) /\ Len(W[p]) \in Nat
  BY DEF ExtraReihen
<1>3. Ende.art = "ende" /\ Ende.k = 0 /\ Ende.u = 0
  BY OrtFelder DEF Ende
<1>4. /\ ~OhneGruppe(Ende) /\ ~WeitereOhneGruppe(Ende)
      /\ ~OhneUnter(Ende) /\ ~OhneItem(Ende) /\ ~WeitereOhneItem(Ende)
  BY <1>3 DEF OhneGruppe, WeitereOhneGruppe, OhneUnter, OhneItem, WeitereOhneItem
<1>5. /\ Len(U) = Len(K) - 0 /\ Len(I) = Len(K) - 0 /\ Len(W) = Len(K) - 0
  <2>1. Eins(OhneUnter(Ende)) = 0 /\ Eins(OhneItem(Ende)) = 0 /\ Eins(OhneGruppe(Ende)) = 0
    BY <1>4 DEF Eins
  <2> QED BY <2>1 DEF Form, FormX
<1>6. Len(W) = Len(I) /\ Len(U) = Len(I) /\ Len(K) = Len(I)
  BY <1>1, <1>5
<1>7. ASSUME NEW p \in 1..Len(I)
      PROVE  Len(W[p]) = Len(I[p]) /\ Len(U[p]) = Len(I[p])
  <2>1. /\ Eins(WeitereOhneItem(Ende) /\ p = IndexOf(K, Ende.k)) = 0
        /\ Eins(WeitereOhneGruppe(Ende) /\ p = IndexOf(K, Ende.k)) = 0
    BY <1>4 DEF Eins
  <2>2. p \in DOMAIN I /\ p \in DOMAIN W /\ Len(U[p]) \in Nat
    BY <1>1, <1>2, <1>6
  <2>3. Len(I[p]) = Len(U[p]) - 0
    BY <2>1, <2>2 DEF Form
  <2>4. Len(W[p]) = Len(U[p]) - 0
    BY <2>1, <2>2 DEF FormX
  <2> QED BY <2>2, <2>3, <2>4
<1>8. ASSUME NEW p \in 1..Len(I), NEW q \in 1..Len(I[p])
      PROVE  Len(W[p][q]) = Len(I[p][q])
  <2>1. p \in DOMAIN I /\ q \in DOMAIN I[p] /\ p \in DOMAIN W /\ q \in DOMAIN W[p]
        /\ p \in Nat /\ q \in Nat
    BY <1>1, <1>2, <1>6, <1>7
  <2>2. Fach(I, p, q) /\ Fach(W, p, q)
    BY <2>1 DEF Fach
  <2>3. Anzahl(I, p, q) = Len(I[p][q]) /\ Anzahl(W, p, q) = Len(W[p][q])
    BY <2>2 DEF Anzahl
  <2>4. I \in Seq(Seq(Seq(Nat))) /\ W \in Seq(Seq(Seq(ExtraTyp)))
    BY DEF Reihen, ExtraReihen
  <2>5. Anzahl(I, p, q) \in Nat
    BY <2>4, AnzahlNat
  <2>6. Anzahl(W, p, q) \in Nat
    BY <2>4, AnzahlNat
  <2>7. ItemsDavon(Ende, b) = 0 /\ GruppenDavon(Ende) = 0
    BY <1>3 DEF ItemsDavon, GruppenDavon
  <2>8. StandBei(0, 0, 0, 0, K, U, I, W)
    BY <1>3, <2>7 DEF StandVon, Stand
  <2>9. ImFach(<<p, q>>, 0, 0, K, U, 0) = 0
    BY DEF ImFach, Eins
  <2>10. Anzahl(I, p, q) + ImFach(<<p, q>>, 0, 0, K, U, 0) =
           Anzahl(W, p, q) + ImFach(<<p, q>>, 0, 0, K, U, 0)
    BY <2>1, <2>8 DEF StandBei
  <2>11. Anzahl(I, p, q) + 0 = Anzahl(W, p, q) + 0
    BY <2>9, <2>10, Zenon
  <2> QED BY <2>3, <2>5, <2>6, <2>11
<1> QED BY <1>6, <1>7, <1>8 DEF Formgleich

LEMMA PostenGepaart ==
  ASSUME NEW K, NEW U, NEW I, Reihen(K, U, I), Form(Ende, K, U, I), NEW W \in ExtraReihen,
         FormX(Ende, K, U, W), NEW b, StandVon(Ende, b, K, U, I, W), NEW R,
         \A p \in 1..Len(I) : \A q \in 1..Len(I[p]) : \A r \in 1..Len(I[p][q]) :
           <<K[p], U[p][q], I[p][q][r]>> \in Tripel =>
             << <<K[p], U[p][q], I[p][q][r]>>, W[p][q][r] >> \in R
  PROVE  /\ FlattenSeq(FlattenSeq(Posten(K, U, I))) \in Seq(Tripel)
         /\ FlattenSeq(FlattenSeq(W)) \in Seq(ExtraTyp)
         /\ Gepaart(FlattenSeq(FlattenSeq(Posten(K, U, I))), FlattenSeq(FlattenSeq(W)), R)
<1> DEFINE T == Posten(K, U, I)
<1>1. /\ Len(W) = Len(I) /\ Len(U) = Len(I) /\ Len(K) = Len(I)
      /\ \A p \in 1..Len(I) :
           /\ Len(W[p]) = Len(I[p]) /\ Len(U[p]) = Len(I[p])
           /\ \A q \in 1..Len(I[p]) : Len(W[p][q]) = Len(I[p][q])
  <2>1. Formgleich(K, U, I, W)
    BY GleicheForm
  <2> QED BY <2>1 DEF Formgleich
<1>2. /\ K \in Seq(Nat) /\ U \in Seq(Seq(Nat)) /\ I \in Seq(Seq(Seq(Nat)))
      /\ DOMAIN I = 1..Len(I) /\ Len(I) \in Nat
      /\ \A p \in 1..Len(I) : I[p] \in Seq(Seq(Nat)) /\ DOMAIN I[p] = 1..Len(I[p])
                              /\ Len(I[p]) \in Nat
      /\ \A p \in 1..Len(I) : \A q \in 1..Len(I[p]) :
           I[p][q] \in Seq(Nat) /\ DOMAIN I[p][q] = 1..Len(I[p][q]) /\ Len(I[p][q]) \in Nat
  BY DEF Reihen
<1>3. /\ T = [p \in 1..Len(I) |-> T[p]]
      /\ \A p \in 1..Len(I) : T[p] = [q \in 1..Len(I[p]) |-> T[p][q]]
      /\ \A p \in 1..Len(I) : \A q \in 1..Len(I[p]) :
           T[p][q] = [r \in 1..Len(I[p][q]) |-> <<K[p], U[p][q], I[p][q][r]>>]
  BY <1>2 DEF Posten
<1> HIDE DEF T
<1>4. ASSUME NEW p \in 1..Len(I), NEW q \in 1..Len(I[p])
      PROVE  /\ T[p][q] \in Seq(Tripel) /\ Len(T[p][q]) = Len(I[p][q])
             /\ Gepaart(T[p][q], W[p][q], R)
  <2> DEFINE t == T[p][q]
             n == Len(I[p][q])
  <2>1. K[p] \in Nat /\ U[p] \in Seq(Nat)
    <3>1. p \in 1..Len(K) /\ p \in 1..Len(U)
      BY <1>1
    <3>2. \A X : \A s \in Seq(X) : \A x \in 1..Len(s) : s[x] \in X
      OBVIOUS
    <3> QED BY <1>2, <3>1, <3>2, Zenon
  <2>2. U[p][q] \in Nat
    <3>1. q \in 1..Len(U[p])
      BY <1>1, Zenon
    <3> QED BY <2>1, <3>1
  <2>3. n \in Nat /\ \A r \in 1..n : I[p][q][r] \in Nat
    <3>1. I[p][q] \in Seq(Nat)
      BY <1>2, Zenon
    <3> QED BY <3>1
  <2>4. t = [r \in 1..n |-> <<K[p], U[p][q], I[p][q][r]>>]
    BY <1>3
  <2>5. \A r \in 1..n : t[r] = <<K[p], U[p][q], I[p][q][r]>>
    BY <2>4
  <2>6. \A r \in 1..n : t[r] \in Tripel
    <3>1. \A x, y, z \in Nat : <<x, y, z>> \in Tripel
      BY DEF Tripel
    <3>2. \A r \in 1..n : <<K[p], U[p][q], I[p][q][r]>> \in Tripel
      BY <2>1, <2>2, <2>3, <3>1
    <3> HIDE DEF t, n
    <3> QED BY <2>5, <3>2
  <2>7. t = [r \in 1..n |-> t[r]]
    BY <2>4
  <2>8. \A r \in 1..n : <<t[r], W[p][q][r]>> \in R
    BY <2>5, <2>6
  <2>9. Len(W[p][q]) = n
    BY <1>1
  <2> HIDE DEF t, n
  <2>10. t \in Seq(Tripel) /\ Len(t) = n
    BY <2>3, <2>6, <2>7, FolgeTyp
  <2>11. Gepaart(t, W[p][q], R)
    BY <2>8, <2>9, <2>10 DEF Gepaart
  <2> QED BY <2>10, <2>11 DEF t, n
<1>5. ASSUME NEW p \in 1..Len(I)
      PROVE  T[p] \in Seq(Seq(Tripel)) /\ Len(T[p]) = Len(I[p])
  BY <1>2, <1>3, <1>4, FolgeTyp
<1>6. T \in Seq(Seq(Seq(Tripel))) /\ Len(T) = Len(I)
  BY <1>2, <1>3, <1>5, FolgeTyp
<1>7. W \in Seq(Seq(Seq(ExtraTyp)))
  BY DEF ExtraReihen
<1>8. /\ Len(T) = Len(W)
      /\ \A p \in 1..Len(T) : /\ Len(T[p]) = Len(W[p])
                              /\ \A q \in 1..Len(T[p]) : Gepaart(T[p][q], W[p][q], R)
  BY <1>1, <1>4, <1>5, <1>6
<1>9. /\ FlattenSeq(FlattenSeq(T)) \in Seq(Tripel)
      /\ FlattenSeq(FlattenSeq(W)) \in Seq(ExtraTyp)
      /\ Gepaart(FlattenSeq(FlattenSeq(T)), FlattenSeq(FlattenSeq(W)), R)
  BY <1>6, <1>7, <1>8, FlachGepaart
<1> QED BY <1>9 DEF T

GesamtInv == ExtrasInv /\ StandInv

LEMMA GruppeEins ==
  ASSUME NEW p \in Nat, NEW q \in Nat, NEW r \in Nat
  PROVE  Gruppe(p, q, r, 1) = <<Append(<<p, q, r>>, 1)>>
<1>1. Append(<<p, q, r>>, 1) = <<p, q, r, 1>>
  <2> DEFINE s == <<p, q, r>>
             t == Append(s, 1)
             v == <<p, q, r, 1>>
  <2>1. s \in Seq(Nat) /\ Len(s) = 3 /\ s[1] = p /\ s[2] = q /\ s[3] = r
    OBVIOUS
  <2>2. v \in Seq(Nat) /\ Len(v) = 4 /\ v[1] = p /\ v[2] = q /\ v[3] = r /\ v[4] = 1
    OBVIOUS
  <2> HIDE DEF s, v
  <2>3. t \in Seq(Nat) /\ Len(t) = 4 /\ t[1] = p /\ t[2] = q /\ t[3] = r /\ t[4] = 1
    <3>1. ASSUME NEW z \in Seq(Nat), NEW x \in Nat
          PROVE  /\ Append(z, x) \in Seq(Nat) /\ Len(Append(z, x)) = Len(z) + 1
                 /\ Append(z, x)[Len(z) + 1] = x
                 /\ \A i \in 1..Len(z) : Append(z, x)[i] = z[i]
      OBVIOUS
    <3>2. /\ t \in Seq(Nat) /\ Len(t) = Len(s) + 1 /\ t[Len(s) + 1] = 1
          /\ \A i \in 1..Len(s) : t[i] = s[i]
      BY <2>1, <3>1, Zenon
    <3>3. 1 \in 1..Len(s) /\ 2 \in 1..Len(s) /\ 3 \in 1..Len(s) /\ Len(s) + 1 = 4
      BY <2>1
    <3> HIDE DEF t
    <3> QED BY <2>1, <3>2, <3>3
  <2> HIDE DEF t
  <2>4. \A i \in 1..4 : i = 1 \/ i = 2 \/ i = 3 \/ i = 4
    OBVIOUS
  <2>5. \A i \in 1..4 : t[i] = v[i]
    BY <2>2, <2>3, <2>4
  <2>6. t = [i \in 1..4 |-> t[i]] /\ v = [i \in 1..4 |-> v[i]]
    BY <2>2, <2>3
  <2>7. t = v
    BY <2>5, <2>6
  <2> QED BY <2>7 DEF s, t, v
<1>2. Gruppe(p, q, r, 1) = [x \in 1..1 |-> <<p, q, r, x>>]
  BY DEF Gruppe
<1>3. 1..1 = {1}
  OBVIOUS
<1>4. [x \in 1..1 |-> <<p, q, r, x>>] = [x \in 1..1 |-> <<p, q, r, 1>>]
  BY <1>3
<1>5. << <<p, q, r, 1>> >> = [x \in 1..1 |-> <<p, q, r, 1>>]
  OBVIOUS
<1> QED BY <1>1, <1>2, <1>4, <1>5

LEMMA GesamtAusInv == GesamtInv => GesamtpreisStimmt
<1> SUFFICES ASSUME GesamtInv, AlleSauber, NEW id \in IDs, Fertig(id)
             PROVE  /\ teilPreisMoeglich(ItemsPreis(id), ExtraPreis(id))
                    /\ EinExtra(Baum(id)) /\ Einmal(id) =>
                         /\ Len(ItemsPreis(id)) = Len(ExtraPreis(id))
                         /\ \A s \in ToSet(gesamtpreisBerechnen(id)) : s[2] = Append(s[1], 1)
  BY DEF GesamtpreisStimmt
<1> DEFINE b == Baum(id)
           K == Kategorien[id]
           U == Unterkategorien[id]
           I == Items[id]
           W == ExtrasPreise[id]
           A == FlattenSeq(FlattenSeq(Posten(K, U, I)))
           B == FlattenSeq(FlattenSeq(W))
<1>1. LadeTyp /\ FormInv /\ GenauInv /\ ExtraInv /\ GenauXInv /\ StandInv
  BY DEF GesamtInv, ExtrasInv, LadeInv
<1>2. Faltungen(id) # {} /\ ort = Ende
  BY DEF Fertig
<1>3. PICK n \in DOMAIN eingabe : eingabe[n].id = id /\ b = eingabe[n].baum
  BY <1>1, <1>2, BaumIst
<1>4. Stelle(id) = Ende
  BY <1>2 DEF Stelle
<1>5. Baumform(b) /\ Reihen(K, U, I) /\ Form(Ende, K, U, I)
  BY <1>1, <1>3, <1>4, BaumVon, ReihenTyp DEF FormInv
<1>6. W \in ExtraReihen /\ FormX(Ende, K, U, W)
  BY <1>1, <1>4 DEF ExtraInv, ExtraReihen
<1>7. StandVon(Ende, b, K, U, I, W)
  BY <1>1, <1>3, <1>4, StandInvIst
<1>8. ItemsPreis(id) = A /\ ExtraPreis(id) = FlattenSeq(B)
  BY DEF ItemsPreis, ExtraPreis, Posten
<1>9. ASSUME EinExtra(b), Einmal(id)
      PROVE  /\ Genau(Ende, b, K, U, I) /\ GruppenWie(Ende, b, W, TRUE)
  BY <1>1, <1>2, <1>3, <1>4, <1>9 DEF GenauInv, GenauXInv
<1> HIDE DEF b, K, U, I, W
<1>10. /\ DOMAIN I = 1..Len(I) /\ \A p \in 1..Len(I) : DOMAIN I[p] = 1..Len(I[p])
       /\ \A p \in 1..Len(I) : \A q \in 1..Len(I[p]) :
            I[p][q] \in Seq(Nat) /\ DOMAIN I[p][q] = 1..Len(I[p][q])
  BY <1>5 DEF Reihen
<1>11. Formgleich(K, U, I, W)
  BY <1>5, <1>6, <1>7, GleicheForm
<1>12. ASSUME NEW p \in 1..Len(I), NEW q \in 1..Len(I[p]), NEW r \in 1..Len(I[p][q])
       PROVE  /\ p \in DOMAIN W /\ q \in DOMAIN W[p] /\ r \in DOMAIN W[p][q]
              /\ W[p][q] \in Seq(ExtraTyp)
  <2>1. /\ DOMAIN W = 1..Len(W) /\ \A m \in DOMAIN W : W[m] \in Seq(Seq(ExtraTyp))
    BY <1>6 DEF ExtraReihen
  <2>2. Len(W) = Len(I) /\ Len(W[p]) = Len(I[p]) /\ Len(W[p][q]) = Len(I[p][q])
    BY <1>11 DEF Formgleich
  <2>3. p \in DOMAIN W /\ W[p] \in Seq(Seq(ExtraTyp))
    BY <2>1, <2>2
  <2>4. q \in DOMAIN W[p] /\ W[p][q] \in Seq(ExtraTyp)
    BY <2>2, <2>3
  <2>5. r \in DOMAIN W[p][q]
    BY <2>2, <2>4
  <2> QED BY <2>3, <2>4, <2>5
\* No group is empty, so there are at least as many extras as items.
<1>13. Nichtleer(W)
  BY <1>7 DEF StandVon
<1>14. teilPreisMoeglich(A, FlattenSeq(B))
  <2> DEFINE F == {g \in ExtraTyp : g # <<>>}
             R == Tripel \X F
  <2>1. ASSUME NEW p \in 1..Len(I), NEW q \in 1..Len(I[p]), NEW r \in 1..Len(I[p][q]),
               <<K[p], U[p][q], I[p][q][r]>> \in Tripel
        PROVE  << <<K[p], U[p][q], I[p][q][r]>>, W[p][q][r] >> \in R
    <3>1. W[p][q][r] # <<>>
      BY <1>12, <1>13 DEF Nichtleer
    <3>2. W[p][q][r] \in ExtraTyp
      BY <1>12, SMTT(30)
    <3>3. W[p][q][r] \in F
      BY <3>1, <3>2
    <3> HIDE DEF F
    <3> QED BY <2>1, <3>3
  <2>2. A \in Seq(Tripel) /\ B \in Seq(ExtraTyp) /\ Gepaart(A, B, R)
    <3> HIDE DEF R
    <3> QED BY <1>5, <1>6, <1>7, <2>1, PostenGepaart
  <2> HIDE DEF A, B
  <2>3. Len(A) = Len(B) /\ \A j \in 1..Len(B) : <<A[j], B[j]>> \in R
    BY <2>2 DEF Gepaart
  <2>4. \A j \in 1..Len(B) : B[j] # <<>>
    BY <2>3
  <2>5. Len(B) <= Len(FlattenSeq(B))
    BY <2>2, <2>4, FlattenLaenge DEF ExtraTyp
  <2> QED BY <2>3, <2>5 DEF teilPreisMoeglich
\* Every item has one extra, so the group of an item is its extra.
<1>15. ASSUME EinExtra(b), Einmal(id)
       PROVE  /\ Len(A) = Len(FlattenSeq(B))
              /\ \A s \in ToSet(teilPreis(A, FlattenSeq(B))) : s[2] = Append(s[1], 1)
  <2> DEFINE h(x) == <<x, <<Append(x, 1)>> >>
             R == {h(x) : x \in Tripel}
  <2>1. Genau(Ende, b, K, U, I) /\ GruppenWie(Ende, b, W, TRUE)
    BY <1>9, <1>15
  <2>2. /\ K = [k \in DOMAIN b |-> k]
        /\ U = [k \in DOMAIN b |-> [u \in DOMAIN b[k] |-> u]]
        /\ I = [k \in DOMAIN b |-> [u \in DOMAIN b[k] |-> [i \in DOMAIN b[k][u] |-> i]]]
    BY <1>5, <2>1, GenauEnde
  <2>3. ASSUME NEW p \in 1..Len(I), NEW q \in 1..Len(I[p]), NEW r \in 1..Len(I[p][q])
        PROVE  /\ <<K[p], U[p][q], I[p][q][r]>> = <<p, q, r>>
               /\ W[p][q][r] = <<Append(<<p, q, r>>, 1)>>
    <3>1. p \in DOMAIN I /\ q \in DOMAIN I[p] /\ r \in DOMAIN I[p][q]
      BY <1>10
    <3>2. p \in DOMAIN b /\ q \in DOMAIN b[p] /\ r \in DOMAIN b[p][q]
      BY <2>2, <3>1
    <3>3. K[p] = p /\ U[p][q] = q /\ I[p][q][r] = r
      BY <2>2, <3>2
    <3>4. GruppenIm(W[p][q], Len(b[p][q]), b, p, q, TRUE)
      <4>1. Soll(Ende, b, p, q) = Len(b[p][q])
        BY OrtFelder DEF Soll, Ende
      <4> QED BY <1>12, <2>1, <4>1 DEF GruppenWie
    <3>5. /\ DOMAIN b[p][q] = 1..Len(b[p][q]) /\ Len(b[p][q]) \in Nat
          /\ p \in Nat /\ q \in Nat /\ r \in Nat
      <4>1. /\ DOMAIN b = 1..Len(b) /\ \A k \in DOMAIN b : DOMAIN b[k] = 1..Len(b[k])
            /\ \A k \in DOMAIN b : \A u \in DOMAIN b[k] :
                 DOMAIN b[k][u] = 1..Len(b[k][u]) /\ Len(b[k][u]) \in Nat
        BY <1>5, BaumTeile
      <4> QED BY <3>2, <4>1
    <3>6. W[p][q][r] = Gruppe(p, q, r, b[p][q][r])
      <4>1. CASE p = 1 /\ q = 1
        <5>1. Len(b[p][q]) = 1
          BY <1>15, <4>1 DEF EinExtra
        <5>2. r = 1 /\ (Len(b[p][q]) + 1) - r = r
          BY <3>2, <3>5, <5>1
        <5> QED BY <3>2, <3>4, <3>5, <4>1, <5>2 DEF GruppenIm
      <4>2. CASE ~(p = 1 /\ q = 1)
        BY <3>2, <3>4, <3>5, <4>2 DEF GruppenIm
      <4> QED BY <4>1, <4>2
    <3>7. b[p][q][r] = 1
      BY <1>15, <3>2 DEF EinExtra
    <3>8. W[p][q][r] = <<Append(<<p, q, r>>, 1)>>
      BY <3>5, <3>6, <3>7, GruppeEins
    <3> QED BY <3>3, <3>8
  <2>4. ASSUME NEW p \in 1..Len(I), NEW q \in 1..Len(I[p]), NEW r \in 1..Len(I[p][q]),
               <<K[p], U[p][q], I[p][q][r]>> \in Tripel
        PROVE  << <<K[p], U[p][q], I[p][q][r]>>, W[p][q][r] >> \in R
    <3>1. <<p, q, r>> \in Tripel /\ <<K[p], U[p][q], I[p][q][r]>> = <<p, q, r>>
      BY <2>3, <2>4, ZenonT(30)
    <3>2. << <<K[p], U[p][q], I[p][q][r]>>, W[p][q][r] >> = h(<<p, q, r>>)
      BY <2>3, <3>1
    <3> HIDE DEF h
    <3> QED BY <3>1, <3>2
  <2>5. A \in Seq(Tripel) /\ B \in Seq(ExtraTyp) /\ Gepaart(A, B, R)
    <3> HIDE DEF R
    <3> QED BY <1>5, <1>6, <1>7, <2>4, PostenGepaart
  <2> HIDE DEF A, B
  <2>6. Len(A) = Len(B) /\ \A j \in 1..Len(B) : <<A[j], B[j]>> \in R
    BY <2>5 DEF Gepaart
  <2>7. ASSUME NEW j \in 1..Len(B)
        PROVE  B[j] = <<Append(A[j], 1)>> /\ B[j] # <<>> /\ Len(B[j]) = 1
    <3>1. PICK x \in Tripel : <<A[j], B[j]>> = h(x)
      BY <2>6
    <3>2. B[j] = <<Append(A[j], 1)>>
      BY <3>1
    <3> DEFINE y == Append(A[j], 1)
    <3>3. <<y>> # <<>> /\ Len(<<y>>) = 1
      OBVIOUS
    <3> QED BY <3>2, <3>3
  <2>8. /\ Len(FlattenSeq(B)) = Len(B)
        /\ \A j \in 1..Len(B) : FlattenSeq(B)[j] = B[j][1]
    BY <2>5, <2>7, FlattenLaenge DEF ExtraTyp
  <2>9. \A j \in DOMAIN A : FlattenSeq(B)[j] = Append(A[j], 1)
    <3>1. DOMAIN A = 1..Len(B)
      BY <2>5, <2>6
    <3>2. ASSUME NEW j \in 1..Len(B) PROVE B[j][1] = Append(A[j], 1)
      BY <2>7, <3>2
    <3> QED BY <2>8, <3>1, <3>2
  <2>10. ASSUME NEW s \in ToSet(teilPreis(A, FlattenSeq(B))) PROVE s[2] = Append(s[1], 1)
    <3>1. PICK j \in DOMAIN A : s = <<A[j], FlattenSeq(B)[j]>>
      BY <2>10 DEF ToSet, teilPreis
    <3> QED BY <2>9, <3>1
  <2> QED BY <2>6, <2>8, <2>10
<1> HIDE DEF A, B
<1>16. teilPreisMoeglich(ItemsPreis(id), ExtraPreis(id))
  BY <1>8, <1>14
<1>17. EinExtra(Baum(id)) /\ Einmal(id) =>
         /\ Len(ItemsPreis(id)) = Len(ExtraPreis(id))
         /\ \A s \in ToSet(gesamtpreisBerechnen(id)) : s[2] = Append(s[1], 1)
  BY <1>8, <1>15 DEF gesamtpreisBerechnen, b
<1> QED BY <1>16, <1>17

LEMMA GesamtInvGilt == LadeSpec => []GesamtInv
<1>1. LadeInit => StandInv
  BY StandInit
<1>2. ExtrasInv /\ StandInv /\ [LadeNext]_ladeVars => StandInv'
  <2>1. ExtrasInv /\ StandInv /\ LadeNext => StandInv'
    BY StandInvSchritt DEF ExtrasInv, LadeInv
  <2>2. StandInv /\ UNCHANGED ladeVars => StandInv'
    BY StandUnveraendert
  <2> QED BY <2>1, <2>2
<1>3. ExtrasInv /\ StandInv <=> GesamtInv
  BY DEF GesamtInv
<1> QED BY <1>1, <1>2, <1>3, ExtrasInvGilt, PTL DEF LadeSpec

\* As long as every record is one the branches for extras are made for,
\* gesamtpreisBerechnen indexes no array past its end, however often an
\* order was folded, and charges every item with its own extra where each
\* has one and the first subcategory has one item.
THEOREM GesamtpreisKorrekt == LadeSpec => []GesamtpreisStimmt
BY GesamtInvGilt, GesamtAusInv, PTL
=============================================================================
