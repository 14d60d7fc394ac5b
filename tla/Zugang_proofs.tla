---------------------------- MODULE Zugang_proofs ----------------------------
(***************************************************************************)
(* Proofs about the access of a waiter: the login page (Anmeldung), for    *)
(* any accounts and bars, any number of attempts at once and any bounds,   *)
(* and the change of the password (Passwort), for any passwords and any    *)
(* number of chains at once.                                               *)
(***************************************************************************)
EXTENDS Anmeldung, Passwort, FiniteSetTheorems, TLAPS

(***************************************************************************)
(*                              THE LOGIN PAGE                             *)
(***************************************************************************)

(***************************************************************************)
(* The steps of the page fall in two: those of the forgotten password and  *)
(* of the alerts leave the logins alone, the others the password.          *)
(***************************************************************************)
Ruhig ==
  /\ UNCHANGED <<anmeldeVars, kellnerVars, ereignisse, absturz>>
  /\ gezeigt' = gezeigt \/ gezeigt' \in {Nichts, Hinweis}

LEMMA RuhigeSchritte ==
  /\ HinweisOK => Ruhig /\ UNCHANGED resetVars
  /\ LoginTappedLeer => Ruhig /\ UNCHANGED resetVars
  /\ pwVergessenTapped => Ruhig
  /\ pwReset => Ruhig
  /\ animateOutPW => Ruhig
  /\ \A c \in resetKetten : AnbieterAntwort(c) \/ MailAntwort(c) => Ruhig
  /\ \A a \in Adressen : pwTippen(a) => Ruhig
BY DEF Ruhig, HinweisOK, LoginTappedLeer, pwVergessenTapped, pwReset,
       animateOutPW, AnbieterAntwort, MailAntwort, pwTippen, Praesentiere,
       anmeldeVars, kellnerVars

\* What is shown is the pages or not, never both.
LEMMA KeineSeiten == Nichts \notin Seiten /\ Hinweis \notin Seiten
<1>1. Nichts.was = "nichts" /\ Hinweis.was = "hinweis"
  BY DEF Nichts, Hinweis
<1>2. \A s \in Seiten : s.was = "seiten"
  BY DEF Seiten
<1> QED BY <1>1, <1>2

(***************************************************************************)
(* Types.  That the observers stay within the bound needs the count: every *)
(* observer and every chain has cost an attempt.                           *)
(***************************************************************************)
Kette == [nr: 1..MaxLogin, konto: Konten, richtig: BOOLEAN,
          phase: {"signIn", "kellner"}]
ResetKette == [nr: 1..MaxReset, adresse: Adressen, geaendert: BOOLEAN,
               phase: {"anbieter", "mail"}]

Kosten ==
  /\ IsFiniteSet(ketten)
  /\ \A k \in Konten : beobachter[k] + Cardinality(ketten) <= logins

TypInv == TypeOK /\ Kosten

LEMMA Typen ==
  TypeOK => /\ ketten \subseteq Kette
            /\ resetKetten \subseteq ResetKette
            /\ MaxLogin \in Nat /\ MaxFremd \in Nat /\ MaxReset \in Nat
            /\ logins \in Nat /\ fremde \in Nat
            /\ beobachter \in [Konten -> Nat]
BY MaxAnnahme DEF TypeOK, Kette, ResetKette

\* A chain whose request was answered is the same chain one step on.
LEMMA KetteWeiter ==
  ASSUME NEW c \in Kette
  PROVE  LET d == [c EXCEPT !.phase = "kellner"]
         IN d \in Kette /\ d.konto = c.konto /\ d.phase = "kellner"
BY DEF Kette

\* Counting the chains.
LEMMA EinElement ==
  ASSUME NEW S, IsFiniteSet(S), NEW c \in S
  PROVE  /\ IsFiniteSet(S \ {c})
         /\ Cardinality(S \ {c}) = Cardinality(S) - 1
         /\ Cardinality(S) \in Nat
BY FS_RemoveElement, FS_CardinalityType

LEMMA NochEins ==
  ASSUME NEW S, IsFiniteSet(S), NEW c
  PROVE  /\ IsFiniteSet(S \cup {c})
         /\ Cardinality(S \cup {c}) <= Cardinality(S) + 1
         /\ Cardinality(S \cup {c}) \in Nat /\ Cardinality(S) \in Nat
<1>1. Cardinality(S) \in Nat
  BY FS_CardinalityType
<1>2. IsFiniteSet(S \cup {c}) /\ (Cardinality(S \cup {c}) = Cardinality(S)
                                  \/ Cardinality(S \cup {c}) = Cardinality(S) + 1)
  BY FS_AddElement
<1> QED BY <1>1, <1>2

LEMMA Austausch ==
  ASSUME NEW S, IsFiniteSet(S), NEW c \in S, NEW d
  PROVE  /\ IsFiniteSet((S \ {c}) \cup {d})
         /\ Cardinality((S \ {c}) \cup {d}) <= Cardinality(S)
         /\ Cardinality((S \ {c}) \cup {d}) \in Nat /\ Cardinality(S) \in Nat
<1> DEFINE R == S \ {c}
<1>1. IsFiniteSet(R) /\ Cardinality(R) = Cardinality(S) - 1 /\ Cardinality(S) \in Nat
  BY EinElement
<1> HIDE DEF R
<1>2. /\ IsFiniteSet(R \cup {d})
      /\ Cardinality(R \cup {d}) <= Cardinality(R) + 1
      /\ Cardinality(R \cup {d}) \in Nat
  BY <1>1, NochEins
<1>3. Cardinality(R \cup {d}) <= Cardinality(S)
  BY <1>1, <1>2
<1> QED BY <1>1, <1>2, <1>3 DEF R

\* The events of a changed record: as many as it has observers.
Wiederholt(m, x) == [n \in 1..m |-> x]

LEMMA Ereignisfolge ==
  ASSUME NEW S, NEW s \in Seq(S), NEW m \in Nat, NEW x \in S
  PROVE  /\ s \o Wiederholt(m, x) \in Seq(S)
         /\ \A i \in 1..Len(s \o Wiederholt(m, x)) :
              \/ i \in 1..Len(s) /\ (s \o Wiederholt(m, x))[i] = s[i]
              \/ m > 0 /\ (s \o Wiederholt(m, x))[i] = x
         /\ s \o Wiederholt(m, x) # <<>> => s # <<>> \/ m > 0
<1> DEFINE u == Wiederholt(m, x)
<1>1. u \in Seq(S) /\ Len(u) = m /\ \A n \in 1..m : u[n] = x
  BY DEF Wiederholt
<1> HIDE DEF u
<1>2. s \o u \in Seq(S) /\ Len(s \o u) = Len(s) + m
  BY <1>1
<1>3. ASSUME NEW i \in 1..Len(s \o u)
      PROVE  (i \in 1..Len(s) /\ (s \o u)[i] = s[i]) \/ (m > 0 /\ (s \o u)[i] = x)
  BY <1>1, <1>2
<1>4. s \o u # <<>> => s # <<>> \/ m > 0
  BY <1>1, <1>2
<1> QED BY <1>2, <1>3, <1>4 DEF u

LEMMA Angehaengt ==
  ASSUME NEW S, NEW s \in Seq(S), NEW x \in S
  PROVE  /\ Append(s, x) \in Seq(S)
         /\ Append(s, x) # <<>>
         /\ \A i \in 1..Len(Append(s, x)) :
              (i \in 1..Len(s) /\ Append(s, x)[i] = s[i]) \/ Append(s, x)[i] = x
OBVIOUS

LEMMA Abgenommen ==
  ASSUME NEW S, NEW s \in Seq(S), s # <<>>
  PROVE  /\ Head(s) \in S /\ Tail(s) \in Seq(S)
         /\ Len(s) \in Nat /\ 1 \in 1..Len(s) /\ Head(s) = s[1]
         /\ Len(Tail(s)) = Len(s) - 1
         /\ \A i \in 1..Len(Tail(s)) : i + 1 \in 1..Len(s) /\ Tail(s)[i] = s[i + 1]
OBVIOUS

ResetTyp ==
  /\ dialog \in BOOLEAN /\ pwTextfield \in Adressen
  /\ resetKetten \subseteq ResetKette
  /\ resets \in 0..MaxReset
  /\ mail \in {"keine", "geprueft", "geaendert", "andere"}

Ereignis == [konto: Konten, bar: Bars \cup {Keine}]

LEMMA TypStart == Init => TypInv
<1> SUFFICES ASSUME Init
             PROVE  TypInv
  OBVIOUS
<1>1. currentUser \in Konten \cup {Niemand} /\ pwTextfield \in Adressen
  BY NamenAnnahme DEF Init
<1>2. bisher \in [Konten -> SUBSET Bars]
  BY DEF Init
<1>3. /\ logins = 0 /\ fremde = 0 /\ resets = 0 /\ ketten = {}
      /\ beobachter = [k \in Konten |-> 0]
  BY DEF Init
<1>4. logins \in 0..MaxLogin /\ fremde \in 0..MaxFremd /\ resets \in 0..MaxReset
  BY <1>3, MaxAnnahme
<1>5. beobachter \in [Konten -> 0..MaxLogin]
  BY <1>3, MaxAnnahme
<1>6. TypeOK
  <2>1. /\ kellner \in [Konten -> Bars \cup {Keine}]
        /\ ereignisse = <<>> /\ gezeigt = Nichts /\ absturz = "keiner"
        /\ versucht = {} /\ ueberlappt = FALSE /\ dialog = FALSE
        /\ resetKetten = {} /\ mail = "keine"
    BY DEF Init
  <2>2. ketten \subseteq Kette /\ resetKetten \subseteq ResetKette /\ versucht \subseteq Konten
    BY <1>3, <2>1
  <2>3. ereignisse \in Seq(Ereignis)
    BY <2>1
  <2>4. ueberlappt \in BOOLEAN /\ dialog \in BOOLEAN
    BY <2>1
  <2>5. /\ gezeigt \in {Nichts, Hinweis} \cup Seiten
        /\ absturz \in {"keiner", "pruefen", "prepare"}
        /\ mail \in {"keine", "geprueft", "geaendert", "andere"}
    BY <2>1
  <2>6. kellner \in [Konten -> Bars \cup {Keine}]
    BY <2>1
  <2> QED BY <1>1, <1>2, <1>4, <1>5, <2>2, <2>3, <2>4, <2>5, <2>6
          DEF TypeOK, Kette, ResetKette, Ereignis
<1>7. IsFiniteSet(ketten) /\ Cardinality(ketten) = 0
  BY <1>3, FS_EmptySet
<1>8. Kosten
  BY <1>3, <1>7 DEF Kosten
<1> QED BY <1>6, <1>8 DEF TypInv

\* Requests for a new password: the fields keep their types.
LEMMA TypReset ==
  TypInv /\ Ruhig
    /\ (\/ UNCHANGED resetVars \/ pwVergessenTapped \/ pwReset \/ animateOutPW
        \/ \E c \in resetKetten : AnbieterAntwort(c) \/ MailAntwort(c)
        \/ \E a \in Adressen : pwTippen(a))
  => TypInv'
<1> SUFFICES ASSUME TypInv, Ruhig,
                    \/ UNCHANGED resetVars \/ pwVergessenTapped \/ pwReset
                    \/ animateOutPW
                    \/ \E c \in resetKetten : AnbieterAntwort(c) \/ MailAntwort(c)
                    \/ \E a \in Adressen : pwTippen(a)
             PROVE  TypInv'
  OBVIOUS
<1>1. TypeOK /\ Kosten /\ resetKetten \subseteq ResetKette
  BY Typen DEF TypInv
<1>2. gezeigt' \in {Nichts, Hinweis} \cup Seiten
  BY <1>1 DEF Ruhig, TypeOK
<1>3. ResetTyp'
  <2>1. CASE UNCHANGED resetVars
    BY <1>1, <2>1 DEF resetVars, TypeOK, ResetTyp
  <2>2. CASE pwVergessenTapped \/ animateOutPW
    BY <1>1, <2>2 DEF pwVergessenTapped, animateOutPW, TypeOK, ResetTyp
  <2>3. CASE pwReset
    <3>1. resets + 1 \in 1..MaxReset /\ resets' \in 0..MaxReset
      BY <1>1, <2>3, MaxAnnahme DEF pwReset, TypeOK, ResetTyp
    <3>2. [nr |-> resets + 1, adresse |-> pwTextfield, geaendert |-> FALSE,
           phase |-> "anbieter"] \in ResetKette
      BY <1>1, <3>1 DEF TypeOK, ResetKette
    <3>3. resetKetten' \subseteq ResetKette
      BY <1>1, <2>3, <3>2 DEF pwReset
    <3> QED BY <1>1, <2>3, <3>1, <3>3 DEF pwReset, TypeOK, ResetTyp
  <2>4. ASSUME NEW c \in resetKetten, AnbieterAntwort(c) \/ MailAntwort(c)
        PROVE  ResetTyp'
    <3>1. [c EXCEPT !.phase = "mail", !.adresse = "", !.geaendert = FALSE] \in ResetKette
      BY <1>1, NamenAnnahme DEF ResetKette
    <3>2. resetKetten' \subseteq ResetKette
      BY <1>1, <2>4, <3>1 DEF AnbieterAntwort, MailAntwort
    <3>3. mail' \in {"keine", "geprueft", "geaendert", "andere"} /\ dialog' \in BOOLEAN
      BY <1>1, <2>4 DEF AnbieterAntwort, MailAntwort, TypeOK, ResetTyp
    <3>4. UNCHANGED <<pwTextfield, resets>>
      BY <2>4 DEF AnbieterAntwort, MailAntwort
    <3> QED BY <1>1, <3>2, <3>3, <3>4 DEF TypeOK, ResetTyp
  <2>5. ASSUME NEW a \in Adressen, pwTippen(a)
        PROVE  ResetTyp'
    <3>1. \A c \in resetKetten : [c EXCEPT !.geaendert = TRUE] \in ResetKette
      BY <1>1 DEF ResetKette
    <3>2. resetKetten' \subseteq ResetKette
      BY <2>5, <3>1 DEF pwTippen
    <3> QED BY <1>1, <2>5, <3>2 DEF pwTippen, TypeOK, ResetTyp
  <2> QED BY <2>1, <2>2, <2>3, <2>4, <2>5
<1>4. TypeOK'
  BY <1>1, <1>2, <1>3 DEF Ruhig, TypeOK, ResetTyp, ResetKette, anmeldeVars, kellnerVars
<1>5. Kosten'
  BY <1>1 DEF Ruhig, Kosten, anmeldeVars
<1> QED BY <1>4, <1>5 DEF TypInv

\* The steps of a login: the chains, the observers and the events.
LEMMA TypLogin ==
  ASSUME TypInv, NEW k \in Konten, NEW r \in BOOLEAN, LoginTapped(k, r)
  PROVE  TypInv'
<1> DEFINE neu == [nr |-> logins + 1, konto |-> k, richtig |-> r, phase |-> "signIn"]
<1>1. TypeOK /\ Kosten
  BY DEF TypInv
<1>2. logins + 1 \in 1..MaxLogin /\ logins' \in 0..MaxLogin /\ logins' = logins + 1
  BY <1>1, MaxAnnahme DEF LoginTapped, TypeOK
<1>3. neu \in Kette
  BY <1>2 DEF Kette
<1>4. ketten' = ketten \cup {neu}
  BY DEF LoginTapped
<1> HIDE DEF neu
<1>5. ketten' \subseteq Kette
  BY <1>1, <1>3, <1>4, Typen
<1>6. versucht' \subseteq Konten /\ ueberlappt' \in BOOLEAN
  BY <1>1 DEF LoginTapped, TypeOK
<1>7. UNCHANGED <<currentUser, beobachter, kellnerVars, ereignisse, gezeigt,
                  absturz, resetVars>>
  BY DEF LoginTapped
<1>8. TypeOK'
  BY <1>1, <1>2, <1>5, <1>6, <1>7 DEF TypeOK, Kette, kellnerVars, resetVars
<1>9. /\ IsFiniteSet(ketten') /\ Cardinality(ketten') <= Cardinality(ketten) + 1
      /\ Cardinality(ketten') \in Nat /\ Cardinality(ketten) \in Nat
  BY <1>1, <1>4, NochEins DEF Kosten
<1>10. Kosten'
  BY <1>1, <1>2, <1>7, <1>9, Typen DEF Kosten
<1> QED BY <1>8, <1>10 DEF TypInv

LEMMA TypSignIn ==
  ASSUME TypInv, NEW c \in ketten, SignInGelingt(c) \/ SignInScheitert(c)
  PROVE  TypInv'
<1> DEFINE d == [c EXCEPT !.phase = "kellner"]
<1>1. TypeOK /\ Kosten /\ c \in Kette
  BY Typen DEF TypInv
<1>2. d \in Kette /\ c.konto \in Konten
  BY <1>1, KetteWeiter DEF Kette
<1>3. ketten' = (ketten \ {c}) \cup {d} \/ ketten' = ketten \ {c}
  BY DEF SignInGelingt, SignInScheitert
<1> HIDE DEF d
<1>4. ketten' \subseteq Kette
  BY <1>1, <1>2, <1>3, Typen
<1>5. currentUser' \in Konten \cup {Niemand} /\ gezeigt' \in {Nichts, Hinweis} \cup Seiten
  BY <1>1, <1>2 DEF SignInGelingt, SignInScheitert, Praesentiere, TypeOK
<1>6. UNCHANGED <<beobachter, logins, versucht, ueberlappt, kellnerVars,
                  ereignisse, absturz, resetVars>>
  BY DEF SignInGelingt, SignInScheitert
<1>7. TypeOK'
  BY <1>1, <1>4, <1>5, <1>6 DEF TypeOK, Kette, kellnerVars, resetVars
<1>8. /\ IsFiniteSet(ketten') /\ Cardinality(ketten') <= Cardinality(ketten)
      /\ Cardinality(ketten') \in Nat /\ Cardinality(ketten) \in Nat
  <2>1. IsFiniteSet(ketten)
    BY <1>1 DEF Kosten
  <2>2. CASE ketten' = (ketten \ {c}) \cup {d}
    BY <2>1, <2>2, Austausch
  <2>3. CASE ketten' = ketten \ {c}
    <3>1. /\ IsFiniteSet(ketten \ {c})
          /\ Cardinality(ketten \ {c}) = Cardinality(ketten) - 1
          /\ Cardinality(ketten) \in Nat
      BY <2>1, EinElement
    <3>2. Cardinality(ketten \ {c}) \in Nat
      BY <3>1, FS_CardinalityType
    <3> QED BY <2>3, <3>1, <3>2
  <2> QED BY <1>3, <2>2, <2>3
<1>9. Kosten'
  BY <1>1, <1>6, <1>8, Typen DEF Kosten
<1> QED BY <1>7, <1>9 DEF TypInv

LEMMA TypKellnerAntwort ==
  ASSUME TypInv, NEW c \in ketten, KellnerAntwort(c)
  PROVE  TypInv'
<1> DEFINE e == [konto |-> currentUser, bar |-> kellner[currentUser]]
<1>1. TypeOK /\ Kosten
  BY DEF TypInv
<1>2. ketten' \subseteq Kette /\ ketten' = ketten \ {c}
  BY <1>1, Typen DEF KellnerAntwort
<1>3. /\ IsFiniteSet(ketten') /\ Cardinality(ketten') = Cardinality(ketten) - 1
      /\ Cardinality(ketten) \in Nat
  BY <1>1, <1>2, EinElement DEF Kosten
<1>4. UNCHANGED <<logins, versucht, ueberlappt, kellnerVars, gezeigt, resetVars>>
  BY DEF KellnerAntwort
<1>5. currentUser' \in Konten \cup {Niemand} /\ absturz' \in {"keiner", "pruefen", "prepare"}
  BY <1>1 DEF KellnerAntwort, TypeOK
<1>6. \/ UNCHANGED <<beobachter, ereignisse>>
      \/ currentUser # Niemand /\ segueToKellnerVC(currentUser)
  BY DEF KellnerAntwort
<1>7. \A k \in Konten : beobachter'[k] \in Nat /\ beobachter'[k] <= beobachter[k] + 1
  <2>1. beobachter \in [Konten -> Nat]
    BY <1>1, Typen
  <2>2. CASE UNCHANGED beobachter
    BY <2>1, <2>2
  <2>3. CASE beobachter' = [beobachter EXCEPT ![currentUser] = @ + 1]
    BY <2>1, <2>3
  <2> QED BY <1>6, <2>2, <2>3 DEF segueToKellnerVC
<1>8. Kosten'
  BY <1>1, <1>3, <1>4, <1>7, Typen DEF Kosten
<1>9. \A k \in Konten : beobachter'[k] \in 0..MaxLogin
  <2>1. Cardinality(ketten') \in Nat
    BY <1>3, FS_CardinalityType
  <2>2. logins' \in 0..MaxLogin
    BY <1>1, <1>4 DEF TypeOK
  <2> QED BY <1>7, <1>8, <2>1, <2>2, MaxAnnahme DEF Kosten
<1>10. beobachter' \in [Konten -> 0..MaxLogin]
  <2>1. \E f \in [Konten -> Nat] : beobachter' = f
    <3>1. beobachter \in [Konten -> Nat]
      BY <1>1, Typen
    <3>2. beobachter' = beobachter
          \/ beobachter' = [beobachter EXCEPT ![currentUser] = @ + 1]
      BY <1>6 DEF segueToKellnerVC
    <3> QED BY <3>1, <3>2
  <2> QED BY <1>9, <2>1
<1>11. ereignisse' \in Seq(Ereignis)
  <2>1. ereignisse \in Seq(Ereignis)
    BY <1>1 DEF TypeOK, Ereignis
  <2>2. CASE currentUser # Niemand /\ segueToKellnerVC(currentUser)
    <3>1. currentUser \in Konten /\ kellner[currentUser] \in Bars \cup {Keine}
      BY <1>1, <2>2 DEF TypeOK
    <3>2. e \in Ereignis
      BY <3>1 DEF Ereignis
    <3>3. ereignisse' = Append(ereignisse, e)
      BY <2>2 DEF segueToKellnerVC
    <3> HIDE DEF e
    <3> QED BY <2>1, <3>2, <3>3, Angehaengt
  <2> QED BY <1>6, <2>1, <2>2
<1>12. TypeOK'
  BY <1>1, <1>2, <1>4, <1>5, <1>10, <1>11
     DEF TypeOK, Kette, Ereignis, kellnerVars, resetVars
<1> QED BY <1>8, <1>12 DEF TypInv

LEMMA TypWertereignis == TypInv /\ (Wertereignis \/ logout) => TypInv'
<1> SUFFICES ASSUME TypInv, Wertereignis \/ logout
             PROVE  TypInv'
  OBVIOUS
<1>1. TypeOK /\ Kosten
  BY DEF TypInv
<1>2. CASE Wertereignis
  <2>1. ereignisse \in Seq(Ereignis) /\ ereignisse # <<>>
    BY <1>1, <1>2 DEF TypeOK, Ereignis, Wertereignis
  <2>2. Head(ereignisse) \in Ereignis /\ Tail(ereignisse) \in Seq(Ereignis)
    BY <2>1, Abgenommen
  <2>3. ereignisse' \in Seq(Ereignis) /\ absturz' \in {"keiner", "pruefen", "prepare"}
    BY <1>1, <1>2, <2>2 DEF Wertereignis, TypeOK
  <2>4. gezeigt' \in {Nichts, Hinweis} \cup Seiten
    <3>1. CASE UNCHANGED gezeigt
      BY <1>1, <3>1 DEF TypeOK
    <3>2. CASE /\ EinDatensatz(Head(ereignisse).bar) /\ currentUser # Niemand
               /\ Praesentiere([was |-> "seiten", konto |-> currentUser,
                                bar |-> Head(ereignisse).bar])
      <4>1. Head(ereignisse).bar \in Bars /\ currentUser \in Konten
        BY <1>1, <2>2, <3>2 DEF Ereignis, EinDatensatz, TypeOK
      <4>2. [was |-> "seiten", konto |-> currentUser, bar |-> Head(ereignisse).bar] \in Seiten
        BY <4>1 DEF Seiten
      <4> QED BY <1>1, <3>2, <4>2 DEF Praesentiere, TypeOK
    <3> QED BY <1>2, <3>1, <3>2 DEF Wertereignis
  <2>5. UNCHANGED <<anmeldeVars, kellnerVars, resetVars>>
    BY <1>2 DEF Wertereignis
  <2>6. TypeOK'
    BY <1>1, <2>3, <2>4, <2>5 DEF TypeOK, Ereignis, anmeldeVars, kellnerVars, resetVars
  <2>7. Kosten'
    BY <1>1, <2>5 DEF Kosten, anmeldeVars
  <2> QED BY <2>6, <2>7 DEF TypInv
<1>3. CASE logout
  <2>1. /\ currentUser' = Niemand /\ gezeigt' = Nichts
        /\ UNCHANGED <<ketten, beobachter, logins, versucht, ueberlappt, kellnerVars,
                       ereignisse, absturz, resetVars>>
    BY <1>3 DEF logout
  <2>3. TypeOK'
    BY <1>1, <2>1 DEF TypeOK, kellnerVars, resetVars
  <2>2. Kosten'
    BY <1>1, <2>1 DEF Kosten
  <2> QED BY <2>2, <2>3 DEF TypInv
<1> QED BY <1>2, <1>3

LEMMA TypFremd ==
  ASSUME TypInv, NEW k \in Konten, NEW b \in Bars \cup {Keine}, FremdeAenderung(k, b)
  PROVE  TypInv'
<1> DEFINE e == [konto |-> k, bar |-> b]
<1>1. TypeOK /\ Kosten
  BY DEF TypInv
<1>2. e \in Ereignis
  BY DEF Ereignis
<1>3. ereignisse' = ereignisse \o Wiederholt(beobachter[k], e)
  BY DEF FremdeAenderung, Wiederholt
<1>4. ereignisse \in Seq(Ereignis) /\ beobachter[k] \in Nat
  BY <1>1, Typen DEF TypeOK, Ereignis
<1> HIDE DEF e
<1>5. ereignisse' \in Seq(Ereignis)
  BY <1>2, <1>3, <1>4, Ereignisfolge
<1>6. fremde' \in 0..MaxFremd
  BY <1>1, MaxAnnahme DEF FremdeAenderung, TypeOK
<1>7. kellner' \in [Konten -> Bars \cup {Keine}] /\ bisher' \in [Konten -> SUBSET Bars]
  BY <1>1 DEF FremdeAenderung, TypeOK
<1>8. UNCHANGED <<anmeldeVars, gezeigt, absturz, resetVars>>
  BY DEF FremdeAenderung
<1>9. TypeOK'
  BY <1>1, <1>5, <1>6, <1>7, <1>8 DEF TypeOK, Ereignis, anmeldeVars, resetVars
<1>10. Kosten'
  BY <1>1, <1>8 DEF Kosten, anmeldeVars
<1> QED BY <1>9, <1>10 DEF TypInv

LEMMA TypSchritt == TypInv /\ [Next]_vars => TypInv'
<1> SUFFICES ASSUME TypInv, [Next]_vars
             PROVE  TypInv'
  OBVIOUS
<1>1. CASE UNCHANGED vars
  BY <1>1 DEF vars, TypInv, TypeOK, Kosten, anmeldeVars, kellnerVars, resetVars
<1>2. ASSUME NEW k \in Konten, NEW r \in BOOLEAN, LoginTapped(k, r)
      PROVE  TypInv'
  BY <1>2, TypLogin
<1>3. ASSUME NEW c \in ketten, SignInGelingt(c) \/ SignInScheitert(c)
      PROVE  TypInv'
  BY <1>3, TypSignIn
<1>4. ASSUME NEW c \in ketten, KellnerAntwort(c)
      PROVE  TypInv'
  BY <1>4, TypKellnerAntwort
<1>5. CASE Wertereignis \/ logout
  BY <1>5, TypWertereignis
<1>6. ASSUME NEW k \in Konten, NEW b \in Bars \cup {Keine}, FremdeAenderung(k, b)
      PROVE  TypInv'
  BY <1>6, TypFremd
<1>7. CASE \/ HinweisOK \/ LoginTappedLeer
           \/ pwVergessenTapped \/ pwReset \/ animateOutPW
           \/ \E c \in resetKetten : AnbieterAntwort(c) \/ MailAntwort(c)
           \/ \E a \in Adressen : pwTippen(a)
  BY <1>7, RuhigeSchritte, TypReset
<1> QED BY <1>1, <1>2, <1>3, <1>4, <1>5, <1>6, <1>7 DEF Next

\* The page keeps its types, whatever order the answers come in; no account
\* has more observers than there were attempts (LoginVC.swift 35-80, 140-153).
THEOREM TypKorrekt == Spec => []TypeOK
<1>1. Spec => []TypInv
  BY TypStart, TypSchritt, PTL DEF Spec
<1> QED BY <1>1, PTL DEF TypInv

(***************************************************************************)
(* The forgotten password.  Until the field is typed in, it holds what     *)
(* every chain has asked the service about.                                *)
(***************************************************************************)
FeldWieGefragt ==
  \A c \in resetKetten : c.phase = "anbieter" /\ ~c.geaendert => c.adresse = pwTextfield

MailInv == TypeOK /\ FeldWieGefragt /\ MailGeprueft

LEMMA MailSchritt == MailInv /\ TypeOK' /\ [Next]_vars => MailInv'
<1> SUFFICES ASSUME MailInv, TypeOK', [Next]_vars
             PROVE  FeldWieGefragt' /\ MailGeprueft'
  BY DEF MailInv
<1>1. /\ FeldWieGefragt /\ MailGeprueft
      /\ resetKetten \subseteq ResetKette
  BY Typen DEF MailInv
<1>2. CASE UNCHANGED <<resetKetten, pwTextfield, mail>>
  BY <1>1, <1>2 DEF FeldWieGefragt, MailGeprueft
<1>3. CASE pwReset
  <2> DEFINE neu == [nr |-> resets + 1, adresse |-> pwTextfield, geaendert |-> FALSE,
                     phase |-> "anbieter"]
  <2>1. neu.adresse = pwTextfield
    OBVIOUS
  <2>2. resetKetten' = resetKetten \cup {neu} /\ UNCHANGED <<pwTextfield, mail>>
    BY <1>3 DEF pwReset
  <2> HIDE DEF neu
  <2> QED BY <1>1, <2>1, <2>2 DEF FeldWieGefragt, MailGeprueft
<1>4. ASSUME NEW a \in Adressen, pwTippen(a)
      PROVE  FeldWieGefragt' /\ MailGeprueft'
  <2>1. \A c \in resetKetten : [c EXCEPT !.geaendert = TRUE].geaendert = TRUE
    BY <1>1 DEF ResetKette
  <2>2. \A d \in resetKetten' : d.geaendert = TRUE
    BY <1>4, <2>1 DEF pwTippen
  <2> QED BY <1>1, <1>4, <2>2 DEF pwTippen, FeldWieGefragt, MailGeprueft
<1>5. ASSUME NEW c \in resetKetten, AnbieterAntwort(c)
      PROVE  FeldWieGefragt' /\ MailGeprueft'
  <2> DEFINE d == [c EXCEPT !.phase = "mail", !.adresse = "", !.geaendert = FALSE]
  <2>1. d.phase = "mail"
    BY <1>1 DEF ResetKette
  <2>2. /\ resetKetten' = (resetKetten \ {c}) \cup {d} \/ resetKetten' = resetKetten \ {c}
        /\ UNCHANGED pwTextfield
    BY <1>5 DEF AnbieterAntwort
  <2> HIDE DEF d
  <2>3. FeldWieGefragt'
    BY <1>1, <2>1, <2>2 DEF FeldWieGefragt
  <2>4. MailGeprueft'
    BY <1>1, <1>5 DEF AnbieterAntwort, MitPasswort, FeldWieGefragt, MailGeprueft
  <2> QED BY <2>3, <2>4
<1>6. ASSUME NEW c \in resetKetten, MailAntwort(c)
      PROVE  FeldWieGefragt' /\ MailGeprueft'
  BY <1>1, <1>6 DEF MailAntwort, FeldWieGefragt, MailGeprueft
<1> QED BY <1>2, <1>3, <1>4, <1>5, <1>6
        DEF Next, HinweisOK, LoginTappedLeer, LoginTapped, SignInGelingt,
            SignInScheitert, KellnerAntwort, Wertereignis, logout, FremdeAenderung,
            pwVergessenTapped, animateOutPW, vars, resetVars

\* No mail goes to an address nobody looked up, unless it was typed while the
\* answer was awaited: pwReset reads the field a second time when the answer
\* is there (LoginVC.swift 100-126).
THEOREM MailGeltend == Spec => []MailGeprueft
<1>1. Init => MailInv
  BY TypStart DEF Init, TypInv, MailInv, FeldWieGefragt, MailGeprueft
<1>2. TypInv /\ MailInv /\ [Next]_vars => TypInv' /\ MailInv'
  BY TypSchritt, MailSchritt DEF TypInv
<1>3. Spec => [](TypInv /\ MailInv)
  BY <1>1, <1>2, TypStart, PTL DEF Spec
<1> QED BY <1>3, PTL DEF MailInv

(***************************************************************************)
(* Where the pages come from.  Observers, chains and events are of         *)
(* accounts that were tried; once there is an observer, whoever is signed  *)
(* in was tried too; an event names a bar its record has named.            *)
(***************************************************************************)
Beobachtet == \E k \in Konten : beobachter[k] > 0

BarBekannt == \A k \in Konten : kellner[k] # Keine => kellner[k] \in bisher[k]

AllesVersucht ==
  /\ IsFiniteSet(versucht)
  /\ \A c \in ketten : c.konto \in versucht
  /\ \A k \in Konten : beobachter[k] > 0 => k \in versucht

NutzerVersucht ==
  (Beobachtet \/ \E c \in ketten : c.phase = "kellner") =>
    currentUser \in versucht \cup {Niemand}

EreignisBekannt ==
  /\ ereignisse # <<>> => Beobachtet
  /\ \A n \in 1..Len(ereignisse) :
       /\ ereignisse[n].konto \in versucht
       /\ ereignisse[n].bar # Keine => ereignisse[n].bar \in bisher[ereignisse[n].konto]

SeitenBekannt ==
  gezeigt \in Seiten =>
    /\ Beobachtet
    /\ gezeigt.konto \in versucht
    /\ \E k \in versucht : gezeigt.bar \in bisher[k]

Herkunft ==
  /\ BarBekannt /\ AllesVersucht /\ NutzerVersucht
  /\ EreignisBekannt /\ SeitenBekannt

\* A step of Next is one of the login's, or does not touch it.
LEMMA Zerlegung ==
  [Next]_vars =>
    \/ Ruhig
    \/ \E k \in Konten, r \in BOOLEAN : LoginTapped(k, r)
    \/ \E c \in ketten : SignInGelingt(c) \/ SignInScheitert(c) \/ KellnerAntwort(c)
    \/ Wertereignis
    \/ logout
    \/ \E k \in Konten, b \in Bars \cup {Keine} : FremdeAenderung(k, b)
<1>1. UNCHANGED vars => Ruhig
  BY DEF vars, Ruhig
<1> QED BY <1>1, RuhigeSchritte DEF Next

LEMMA HerkunftStart == Init => Herkunft
<1> SUFFICES ASSUME Init
             PROVE  Herkunft
  OBVIOUS
<1>1. /\ ketten = {} /\ ereignisse = <<>> /\ gezeigt = Nichts /\ versucht = {}
      /\ beobachter = [k \in Konten |-> 0]
  BY DEF Init
<1>2. BarBekannt
  BY DEF Init, BarBekannt
<1>3. \A k \in Konten : ~(beobachter[k] > 0)
  BY <1>1
<1>4. AllesVersucht /\ NutzerVersucht
  BY <1>1, <1>3, FS_EmptySet DEF AllesVersucht, NutzerVersucht, Beobachtet
<1>5. EreignisBekannt
  BY <1>1 DEF EreignisBekannt
<1>6. SeitenBekannt
  BY <1>1, KeineSeiten DEF SeitenBekannt
<1> QED BY <1>2, <1>4, <1>5, <1>6 DEF Herkunft

LEMMA HerkunftRuhig == Herkunft /\ Ruhig => Herkunft'
<1> SUFFICES ASSUME Herkunft, Ruhig
             PROVE  Herkunft'
  OBVIOUS
<1>1. UNCHANGED <<currentUser, ketten, beobachter, versucht, kellner, bisher, ereignisse>>
  BY DEF Ruhig, anmeldeVars, kellnerVars
<1>2. SeitenBekannt'
  BY <1>1, KeineSeiten DEF Herkunft, Ruhig, SeitenBekannt, Beobachtet
<1>3. BarBekannt' /\ AllesVersucht' /\ NutzerVersucht' /\ EreignisBekannt'
  BY <1>1 DEF Herkunft, BarBekannt, AllesVersucht, NutzerVersucht, EreignisBekannt,
              Beobachtet
<1> QED BY <1>2, <1>3 DEF Herkunft

LEMMA HerkunftLogin ==
  ASSUME TypeOK, Herkunft, NEW k \in Konten, NEW r \in BOOLEAN, LoginTapped(k, r)
  PROVE  Herkunft'
<1> DEFINE neu == [nr |-> logins + 1, konto |-> k, richtig |-> r, phase |-> "signIn"]
<1>1. neu.konto = k /\ neu.phase = "signIn"
  OBVIOUS
<1>2. /\ ketten' = ketten \cup {neu} /\ versucht' = versucht \cup {k}
      /\ UNCHANGED <<currentUser, beobachter, kellner, bisher, ereignisse, gezeigt>>
  BY DEF LoginTapped, kellnerVars
<1> HIDE DEF neu
<1>3. BarBekannt'
  BY <1>2 DEF Herkunft, BarBekannt
<1>4. IsFiniteSet(versucht')
  BY <1>2, FS_AddElement DEF Herkunft, AllesVersucht
<1>5. AllesVersucht' /\ NutzerVersucht'
  BY <1>1, <1>2, <1>4 DEF Herkunft, AllesVersucht, NutzerVersucht, Beobachtet
<1>6. EreignisBekannt' /\ SeitenBekannt'
  BY <1>2 DEF Herkunft, EreignisBekannt, SeitenBekannt, Beobachtet
<1> QED BY <1>3, <1>5, <1>6 DEF Herkunft

LEMMA HerkunftSignIn ==
  ASSUME TypeOK, Herkunft, NEW c \in ketten, SignInGelingt(c) \/ SignInScheitert(c)
  PROVE  Herkunft'
<1> DEFINE d == [c EXCEPT !.phase = "kellner"]
<1>1. d.konto = c.konto /\ c.konto \in versucht
  BY KetteWeiter, Typen DEF Herkunft, AllesVersucht
<1>2. UNCHANGED <<beobachter, versucht, kellner, bisher, ereignisse>>
  BY DEF SignInGelingt, SignInScheitert, kellnerVars
<1>3. \/ ketten' = (ketten \ {c}) \cup {d} /\ currentUser' = c.konto
      \/ ketten' = ketten \ {c} /\ UNCHANGED currentUser
  BY DEF SignInGelingt, SignInScheitert
<1> HIDE DEF d
<1>4. AllesVersucht' /\ NutzerVersucht'
  BY <1>1, <1>2, <1>3 DEF Herkunft, AllesVersucht, NutzerVersucht, Beobachtet
<1>5. BarBekannt' /\ EreignisBekannt'
  BY <1>2 DEF Herkunft, BarBekannt, EreignisBekannt, Beobachtet
<1>6. gezeigt' = gezeigt \/ gezeigt' = Hinweis
  BY DEF SignInGelingt, SignInScheitert, Praesentiere
<1>7. SeitenBekannt'
  BY <1>2, <1>6, KeineSeiten DEF Herkunft, SeitenBekannt, Beobachtet
<1> QED BY <1>4, <1>5, <1>7 DEF Herkunft

LEMMA HerkunftKellner ==
  ASSUME TypeOK, Herkunft, NEW c \in ketten, KellnerAntwort(c)
  PROVE  Herkunft'
<1> DEFINE e == [konto |-> currentUser, bar |-> kellner[currentUser]]
<1>1. /\ ketten' = ketten \ {c} /\ currentUser \in versucht \cup {Niemand}
      /\ UNCHANGED <<versucht, kellner, bisher, gezeigt>>
  BY DEF KellnerAntwort, Herkunft, NutzerVersucht, kellnerVars
<1>2. CASE UNCHANGED <<beobachter, ereignisse>>
  <2>1. currentUser' = currentUser \/ currentUser' = Niemand
    BY DEF KellnerAntwort
  <2>2. AllesVersucht' /\ NutzerVersucht'
    BY <1>1, <1>2, <2>1 DEF Herkunft, AllesVersucht, NutzerVersucht, Beobachtet
  <2>3. BarBekannt' /\ EreignisBekannt' /\ SeitenBekannt'
    BY <1>1, <1>2 DEF Herkunft, BarBekannt, EreignisBekannt, SeitenBekannt, Beobachtet
  <2> QED BY <2>2, <2>3 DEF Herkunft
<1>3. CASE /\ currentUser # Niemand /\ IstKellner(currentUser)
           /\ segueToKellnerVC(currentUser) /\ UNCHANGED currentUser
  <2>1. currentUser \in versucht /\ currentUser \in Konten
    BY <1>1, <1>3 DEF TypeOK
  <2>2. kellner[currentUser] \in bisher[currentUser] /\ kellner[currentUser] \in Bars
    BY <1>3, <2>1 DEF Herkunft, BarBekannt, IstKellner, TypeOK
  <2>3. e \in Ereignis /\ e.konto = currentUser /\ e.bar = kellner[currentUser]
    BY <2>1, <2>2 DEF Ereignis
  <2>4. ereignisse' = Append(ereignisse, e)
    BY <1>3 DEF segueToKellnerVC
  <2> HIDE DEF e
  <2>5. /\ beobachter'[currentUser] > 0
        /\ \A k \in Konten : k # currentUser => beobachter'[k] = beobachter[k]
    BY <1>3, <2>1, Typen DEF segueToKellnerVC
  <2>6. BarBekannt'
    BY <1>1 DEF Herkunft, BarBekannt
  <2>7. AllesVersucht' /\ NutzerVersucht'
    BY <1>1, <1>3, <2>1, <2>5 DEF Herkunft, AllesVersucht, NutzerVersucht
  <2>8. Beobachtet'
    BY <2>1, <2>5 DEF Beobachtet
  <2>9. EreignisBekannt'
    <3>1. ereignisse \in Seq(Ereignis)
      BY DEF TypeOK, Ereignis
    <3>2. \A i \in 1..Len(ereignisse') :
            (i \in 1..Len(ereignisse) /\ ereignisse'[i] = ereignisse[i]) \/ ereignisse'[i] = e
      BY <2>3, <2>4, <3>1, Angehaengt
    <3> QED BY <1>1, <2>1, <2>2, <2>3, <2>8, <3>2 DEF Herkunft, EreignisBekannt
  <2>10. SeitenBekannt'
    BY <1>1, <2>8 DEF Herkunft, SeitenBekannt
  <2> QED BY <2>6, <2>7, <2>9, <2>10 DEF Herkunft
<1> QED BY <1>2, <1>3 DEF KellnerAntwort

LEMMA HerkunftWertereignis == TypeOK /\ Herkunft /\ Wertereignis => Herkunft'
<1> SUFFICES ASSUME TypeOK, Herkunft, Wertereignis
             PROVE  Herkunft'
  OBVIOUS
<1> DEFINE bar == Head(ereignisse).bar
           neu == [was |-> "seiten", konto |-> currentUser, bar |-> bar]
<1>1. UNCHANGED <<currentUser, ketten, beobachter, versucht, kellner, bisher>>
  BY DEF Wertereignis, anmeldeVars, kellnerVars
<1>2. ereignisse \in Seq(Ereignis) /\ ereignisse # <<>> /\ ereignisse' = Tail(ereignisse)
  BY DEF Wertereignis, TypeOK, Ereignis
<1>3. /\ Head(ereignisse) \in Ereignis /\ 1 \in 1..Len(ereignisse)
      /\ Head(ereignisse) = ereignisse[1]
      /\ \A i \in 1..Len(ereignisse') : /\ i + 1 \in 1..Len(ereignisse)
                                        /\ ereignisse'[i] = ereignisse[i + 1]
  BY <1>2, Abgenommen
<1>4. Beobachtet /\ Beobachtet'
  BY <1>1, <1>2 DEF Herkunft, EreignisBekannt, Beobachtet
<1>5. BarBekannt' /\ AllesVersucht' /\ NutzerVersucht'
  BY <1>1 DEF Herkunft, BarBekannt, AllesVersucht, NutzerVersucht, Beobachtet
<1>6. EreignisBekannt'
  BY <1>1, <1>3, <1>4 DEF Herkunft, EreignisBekannt
<1>7. \/ UNCHANGED gezeigt
      \/ /\ bar # Keine /\ currentUser # Niemand
         /\ gezeigt' = gezeigt \/ gezeigt' = neu
  BY DEF Wertereignis, EinDatensatz, Praesentiere
<1>8. neu.konto = currentUser /\ neu.bar = bar
  OBVIOUS
<1>9. bar # Keine => \E k \in versucht : bar \in bisher[k]
  BY <1>3 DEF Herkunft, EreignisBekannt
<1>10. currentUser # Niemand => currentUser \in versucht
  BY <1>4 DEF Herkunft, NutzerVersucht
<1> HIDE DEF neu, bar
<1>11. SeitenBekannt'
  BY <1>1, <1>4, <1>7, <1>8, <1>9, <1>10 DEF Herkunft, SeitenBekannt
<1> QED BY <1>5, <1>6, <1>11 DEF Herkunft

LEMMA HerkunftLogout == Herkunft /\ logout => Herkunft'
<1> SUFFICES ASSUME Herkunft, logout
             PROVE  Herkunft'
  OBVIOUS
<1>1. /\ UNCHANGED <<ketten, beobachter, versucht, kellner, bisher, ereignisse>>
      /\ currentUser' = Niemand /\ gezeigt' = Nichts
  BY DEF logout, kellnerVars
<1>2. BarBekannt' /\ AllesVersucht' /\ EreignisBekannt'
  BY <1>1 DEF Herkunft, BarBekannt, AllesVersucht, EreignisBekannt, Beobachtet
<1>3. NutzerVersucht'
  BY <1>1 DEF NutzerVersucht
<1>4. SeitenBekannt'
  BY <1>1, KeineSeiten DEF SeitenBekannt
<1> QED BY <1>2, <1>3, <1>4 DEF Herkunft

LEMMA HerkunftFremd ==
  ASSUME TypeOK, Herkunft, NEW k \in Konten, NEW b \in Bars \cup {Keine},
         FremdeAenderung(k, b)
  PROVE  Herkunft'
<1> DEFINE e == [konto |-> k, bar |-> b]
           m == beobachter[k]
           z == ereignisse \o Wiederholt(m, e)
<1>1. UNCHANGED <<currentUser, ketten, beobachter, versucht, gezeigt>>
  BY DEF FremdeAenderung, anmeldeVars
<1>2. /\ \A j \in Konten : bisher[j] \subseteq bisher'[j]
      /\ b # Keine => b \in bisher'[k]
      /\ kellner' = [kellner EXCEPT ![k] = b]
  BY DEF FremdeAenderung, TypeOK
<1>3. BarBekannt'
  BY <1>2 DEF Herkunft, BarBekannt, TypeOK
<1>4. AllesVersucht' /\ NutzerVersucht'
  BY <1>1 DEF Herkunft, AllesVersucht, NutzerVersucht, Beobachtet
<1>5. e \in Ereignis /\ e.konto = k /\ e.bar = b
  BY DEF Ereignis
<1>6. ereignisse' = z
  BY DEF FremdeAenderung, Wiederholt
<1>7. ereignisse \in Seq(Ereignis) /\ m \in Nat /\ versucht \subseteq Konten
  BY Typen DEF TypeOK, Ereignis
<1>8. m > 0 => Beobachtet /\ k \in versucht
  BY DEF Beobachtet, Herkunft, AllesVersucht
<1> HIDE DEF e, m
<1>9. /\ \A i \in 1..Len(z) : \/ i \in 1..Len(ereignisse) /\ z[i] = ereignisse[i]
                              \/ m > 0 /\ z[i] = e
      /\ z # <<>> => ereignisse # <<>> \/ m > 0
  BY <1>5, <1>7, Ereignisfolge
<1> HIDE DEF z
<1>10. Beobachtet' <=> Beobachtet
  BY <1>1 DEF Beobachtet
<1>11. EreignisBekannt'
  <2>1. ereignisse' # <<>> => Beobachtet'
    BY <1>6, <1>8, <1>9, <1>10 DEF Herkunft, EreignisBekannt
  <2>2. ASSUME NEW n \in 1..Len(ereignisse')
        PROVE  /\ ereignisse'[n].konto \in versucht'
               /\ ereignisse'[n].bar # Keine =>
                    ereignisse'[n].bar \in bisher'[ereignisse'[n].konto]
    <3>1. CASE n \in 1..Len(ereignisse) /\ ereignisse'[n] = ereignisse[n]
      <4>1. ereignisse[n].konto \in versucht /\ ereignisse[n].konto \in Konten
        BY <1>7, <3>1 DEF Herkunft, EreignisBekannt
      <4> QED BY <1>1, <1>2, <3>1, <4>1 DEF Herkunft, EreignisBekannt
    <3>2. CASE m > 0 /\ ereignisse'[n] = e
      BY <1>1, <1>2, <1>5, <1>8, <3>2
    <3> QED BY <1>6, <1>9, <3>1, <3>2
  <2> QED BY <2>1, <2>2 DEF EreignisBekannt
<1>12. SeitenBekannt'
  BY <1>1, <1>2, <1>7, <1>10 DEF Herkunft, SeitenBekannt
<1> QED BY <1>3, <1>4, <1>11, <1>12 DEF Herkunft

LEMMA HerkunftSchritt == TypeOK /\ Herkunft /\ [Next]_vars => Herkunft'
<1> SUFFICES ASSUME TypeOK, Herkunft, [Next]_vars
             PROVE  Herkunft'
  OBVIOUS
<1>1. ASSUME NEW k \in Konten, NEW r \in BOOLEAN, LoginTapped(k, r)
      PROVE  Herkunft'
  BY <1>1, HerkunftLogin
<1>2. ASSUME NEW c \in ketten, SignInGelingt(c) \/ SignInScheitert(c)
      PROVE  Herkunft'
  BY <1>2, HerkunftSignIn
<1>3. ASSUME NEW c \in ketten, KellnerAntwort(c)
      PROVE  Herkunft'
  BY <1>3, HerkunftKellner
<1>4. ASSUME NEW k \in Konten, NEW b \in Bars \cup {Keine}, FremdeAenderung(k, b)
      PROVE  Herkunft'
  BY <1>4, HerkunftFremd
<1> QED BY <1>1, <1>2, <1>3, <1>4, Zerlegung, HerkunftRuhig, HerkunftWertereignis,
           HerkunftLogout

(***************************************************************************)
(* One attempt at a time and no record changed: there is one chain, or one *)
(* event, or the pages are open, and all are of the account signed in.     *)
(***************************************************************************)
Einzelkette ==
  /\ \A c, d \in ketten : c = d
  /\ \A c \in ketten : c.phase = "kellner" => currentUser = c.konto

EinzelnInv ==
  /\ absturz = "keiner"
  /\ Einzelkette
  /\ ketten # {} => ereignisse = <<>>
  /\ Len(ereignisse) <= 1
  /\ (ketten # {} \/ ereignisse # <<>>) => gezeigt \notin Seiten
  /\ ereignisse # <<>> => currentUser = Head(ereignisse).konto
  /\ gezeigt \in Seiten => gezeigt.bar \in bisher[gezeigt.konto]

Einzeln == (~ueberlappt /\ fremde = 0) => EinzelnInv

LEMMA EinzelnSchritt == TypeOK /\ Herkunft /\ Einzeln /\ [Next]_vars => Einzeln'
<1> SUFFICES ASSUME TypeOK, Herkunft, Einzeln, [Next]_vars, ~ueberlappt', fremde' = 0
             PROVE  EinzelnInv'
  BY DEF Einzeln
<1>1. ASSUME NEW k \in Konten, NEW b \in Bars \cup {Keine}, FremdeAenderung(k, b)
      PROVE  FALSE
  BY <1>1, Typen DEF FremdeAenderung
<1>2. CASE Ruhig
  <2>1. /\ UNCHANGED <<currentUser, ketten, ereignisse, bisher, absturz>>
        /\ ~ueberlappt /\ fremde = 0
    BY <1>2 DEF Ruhig, anmeldeVars, kellnerVars
  <2>2. gezeigt' = gezeigt \/ gezeigt' \notin Seiten
    BY <1>2, KeineSeiten DEF Ruhig
  <2> QED BY <2>1, <2>2 DEF Einzeln, EinzelnInv, Einzelkette
<1>3. ASSUME NEW k \in Konten, NEW r \in BOOLEAN, LoginTapped(k, r)
      PROVE  EinzelnInv'
  <2> DEFINE neu == [nr |-> logins + 1, konto |-> k, richtig |-> r, phase |-> "signIn"]
  <2>1. neu.phase = "signIn"
    OBVIOUS
  <2>2. /\ ~ueberlappt /\ fremde = 0 /\ ketten = {} /\ ereignisse = <<>>
        /\ gezeigt = Nichts
    BY <1>3 DEF LoginTapped, kellnerVars
  <2>3. /\ ketten' = {neu} /\ ereignisse' = <<>> /\ gezeigt' \notin Seiten
        /\ absturz' = absturz
    BY <1>3, <2>2, KeineSeiten DEF LoginTapped
  <2> HIDE DEF neu
  <2> QED BY <2>1, <2>2, <2>3 DEF Einzeln, EinzelnInv, Einzelkette
<1>4. ASSUME NEW c \in ketten, SignInGelingt(c)
      PROVE  EinzelnInv'
  <2> DEFINE d == [c EXCEPT !.phase = "kellner"]
  <2>1. d.konto = c.konto
    BY KetteWeiter, Typen
  <2>2. /\ ~ueberlappt /\ fremde = 0 /\ currentUser' = c.konto
        /\ ketten' = (ketten \ {c}) \cup {d}
        /\ UNCHANGED <<ereignisse, gezeigt, absturz>>
    BY <1>4 DEF SignInGelingt, kellnerVars
  <2>3. EinzelnInv /\ ketten = {c}
    BY <2>2 DEF Einzeln, EinzelnInv, Einzelkette
  <2> HIDE DEF d
  <2>4. ketten' = {d}
    BY <2>2, <2>3
  <2> QED BY <2>1, <2>2, <2>3, <2>4 DEF EinzelnInv, Einzelkette
<1>5. ASSUME NEW c \in ketten, SignInScheitert(c)
      PROVE  EinzelnInv'
  <2>1. /\ ~ueberlappt /\ fremde = 0 /\ ketten' = ketten \ {c}
        /\ UNCHANGED <<currentUser, ereignisse, absturz>>
        /\ gezeigt' = gezeigt \/ gezeigt' = Hinweis
    BY <1>5 DEF SignInScheitert, Praesentiere, kellnerVars
  <2>2. EinzelnInv /\ ketten' = {} /\ gezeigt' \notin Seiten
    BY <2>1, KeineSeiten DEF Einzeln, EinzelnInv, Einzelkette
  <2> QED BY <2>1, <2>2 DEF EinzelnInv, Einzelkette
<1>6. ASSUME NEW c \in ketten, KellnerAntwort(c)
      PROVE  EinzelnInv'
  <2>1. /\ ~ueberlappt /\ fremde = 0 /\ ketten' = ketten \ {c} /\ c.phase = "kellner"
        /\ UNCHANGED gezeigt
    BY <1>6 DEF KellnerAntwort, kellnerVars
  <2>2. EinzelnInv /\ ketten' = {} /\ gezeigt' \notin Seiten /\ ereignisse = <<>>
    BY <2>1 DEF Einzeln, EinzelnInv, Einzelkette
  <2>3. currentUser = c.konto /\ c.konto \in Konten
    BY <2>1, <2>2, Typen DEF EinzelnInv, Einzelkette, Kette
  <2>4. currentUser # Niemand
    BY <2>3, NamenAnnahme
  <2>5. UNCHANGED absturz
    BY <1>6, <2>4 DEF KellnerAntwort
  <2>6. ereignisse' = <<>> \/ (/\ ereignisse' = <<[konto |-> currentUser,
                                                  bar |-> kellner[currentUser]]>>
                               /\ currentUser' = currentUser)
    BY <1>6, <2>2, <2>4 DEF KellnerAntwort, segueToKellnerVC
  <2>7. /\ Len(ereignisse') <= 1
        /\ ereignisse' # <<>> => currentUser' = Head(ereignisse').konto
    BY <2>6
  <2> QED BY <2>2, <2>5, <2>7 DEF EinzelnInv, Einzelkette
<1>7. CASE Wertereignis
  <2> DEFINE bar == Head(ereignisse).bar
             neu == [was |-> "seiten", konto |-> currentUser, bar |-> bar]
  <2>1. /\ ~ueberlappt /\ fremde = 0 /\ UNCHANGED <<currentUser, ketten, bisher>>
        /\ ereignisse # <<>> /\ ereignisse' = Tail(ereignisse)
    BY <1>7 DEF Wertereignis, anmeldeVars, kellnerVars
  <2>2. /\ ereignisse \in Seq(Ereignis) /\ Head(ereignisse) \in Ereignis
        /\ 1 \in 1..Len(ereignisse) /\ Head(ereignisse) = ereignisse[1]
    BY <2>1, Abgenommen DEF TypeOK, Ereignis
  <2>3. EinzelnInv /\ ketten' = {}
    BY <2>1 DEF Einzeln, EinzelnInv
  <2>4. ereignisse' = <<>>
    BY <2>1, <2>2, <2>3 DEF EinzelnInv
  <2>5. currentUser = Head(ereignisse).konto /\ currentUser \in Konten
    BY <2>1, <2>2, <2>3 DEF EinzelnInv, Ereignis
  <2>6. currentUser # Niemand
    BY <2>5, NamenAnnahme
  <2>7. UNCHANGED absturz
    BY <1>7, <2>6 DEF Wertereignis
  <2>8. bar # Keine => bar \in bisher[currentUser]
    BY <2>2, <2>5 DEF Herkunft, EreignisBekannt
  <2>9. neu.konto = currentUser /\ neu.bar = bar
    OBVIOUS
  <2>10. gezeigt' = gezeigt \/ (bar # Keine /\ gezeigt' = neu)
    BY <1>7 DEF Wertereignis, Praesentiere, EinDatensatz
  <2> HIDE DEF neu, bar
  <2>11. gezeigt' \in Seiten => gezeigt'.bar \in bisher'[gezeigt'.konto]
    BY <2>1, <2>3, <2>8, <2>9, <2>10 DEF EinzelnInv
  <2> QED BY <2>3, <2>4, <2>7, <2>11 DEF EinzelnInv, Einzelkette
<1>8. CASE logout
  <2>1. /\ ~ueberlappt /\ fremde = 0 /\ gezeigt \in Seiten /\ gezeigt' \notin Seiten
        /\ UNCHANGED <<ketten, ereignisse, absturz>>
    BY <1>8, KeineSeiten DEF logout, kellnerVars
  <2> QED BY <2>1 DEF Einzeln, EinzelnInv, Einzelkette
<1> QED BY <1>1, <1>2, <1>3, <1>4, <1>5, <1>6, <1>7, <1>8, Zerlegung

(***************************************************************************)
(* The first attempt, while no record is observed yet: there is no other   *)
(* chain, so whoever it signs in is still signed in when the waiters are   *)
(* asked for.                                                              *)
(***************************************************************************)
Erster ==
  /\ logins = 0 => ketten = {}
  /\ (logins <= 1 /\ ~Beobachtet) => absturz = "keiner" /\ Einzelkette

LEMMA ErsterSchritt == TypeOK /\ Herkunft /\ Erster /\ [Next]_vars => Erster'
<1> SUFFICES ASSUME TypeOK, Herkunft, Erster, [Next]_vars
             PROVE  Erster'
  OBVIOUS
<1>1. CASE /\ UNCHANGED <<currentUser, ketten, beobachter, logins, absturz>>
  BY <1>1 DEF Erster, Einzelkette, Beobachtet
<1>2. ASSUME NEW k \in Konten, NEW r \in BOOLEAN, LoginTapped(k, r)
      PROVE  Erster'
  <2> DEFINE neu == [nr |-> logins + 1, konto |-> k, richtig |-> r, phase |-> "signIn"]
  <2>1. neu.phase = "signIn"
    OBVIOUS
  <2>2. /\ ketten' = ketten \cup {neu} /\ logins' = logins + 1
        /\ UNCHANGED <<beobachter, absturz>> /\ absturz = "keiner"
    BY <1>2 DEF LoginTapped, laeuft
  <2> HIDE DEF neu
  <2>3. logins' # 0 /\ (logins' <= 1 => ketten' = {neu})
    BY <2>2, Typen DEF Erster
  <2> QED BY <2>1, <2>2, <2>3 DEF Erster, Einzelkette
<1>3. ASSUME NEW c \in ketten, SignInGelingt(c)
      PROVE  Erster'
  <2> DEFINE d == [c EXCEPT !.phase = "kellner"]
  <2>1. d.konto = c.konto
    BY KetteWeiter, Typen
  <2>2. /\ currentUser' = c.konto /\ ketten' = (ketten \ {c}) \cup {d}
        /\ UNCHANGED <<beobachter, logins, absturz>>
    BY <1>3 DEF SignInGelingt
  <2> HIDE DEF d
  <2>3. (logins <= 1 /\ ~Beobachtet) => ketten' = {d}
    BY <2>2 DEF Erster, Einzelkette
  <2> QED BY <2>1, <2>2, <2>3 DEF Erster, Einzelkette, Beobachtet
<1>4. ASSUME NEW c \in ketten, SignInScheitert(c)
      PROVE  Erster'
  <2>1. /\ ketten' = ketten \ {c}
        /\ UNCHANGED <<currentUser, beobachter, logins, absturz>>
    BY <1>4 DEF SignInScheitert
  <2> QED BY <2>1 DEF Erster, Einzelkette, Beobachtet
<1>5. ASSUME NEW c \in ketten, KellnerAntwort(c)
      PROVE  Erster'
  <2>1. ketten' = ketten \ {c} /\ c.phase = "kellner" /\ UNCHANGED logins
    BY <1>5 DEF KellnerAntwort
  <2>2. logins' = 0 => ketten' = {}
    BY <2>1 DEF Erster
  <2>3. CASE currentUser # Niemand /\ segueToKellnerVC(currentUser)
    <3>1. beobachter'[currentUser] > 0 /\ currentUser \in Konten
      BY <2>3, Typen DEF segueToKellnerVC, TypeOK
    <3> QED BY <2>2, <3>1 DEF Erster, Beobachtet
  <2>4. CASE UNCHANGED beobachter
    <3>1. SUFFICES ASSUME logins <= 1, ~Beobachtet
                   PROVE  absturz' = "keiner" /\ Einzelkette'
      BY <2>1, <2>2, <2>4 DEF Erster, Beobachtet
    <3>2. currentUser = c.konto /\ c.konto \in Konten /\ ketten' = {}
      BY <2>1, <3>1, Typen DEF Erster, Einzelkette, Kette
    <3>3. UNCHANGED absturz
      BY <1>5, <3>2, NamenAnnahme DEF KellnerAntwort
    <3> QED BY <3>1, <3>2, <3>3 DEF Erster, Einzelkette
  <2> QED BY <1>5, <2>3, <2>4 DEF KellnerAntwort
<1>6. CASE Wertereignis \/ logout
  <2>1. Beobachtet
    BY <1>6 DEF Wertereignis, logout, Herkunft, EreignisBekannt, SeitenBekannt
  <2>2. UNCHANGED <<ketten, beobachter, logins>>
    BY <1>6 DEF Wertereignis, logout, anmeldeVars
  <2> QED BY <2>1, <2>2 DEF Erster, Beobachtet
<1>7. ASSUME NEW k \in Konten, NEW b \in Bars \cup {Keine}, FremdeAenderung(k, b)
      PROVE  Erster'
  BY <1>1, <1>7 DEF FremdeAenderung, anmeldeVars
<1>8. Ruhig => Erster'
  BY <1>1 DEF Ruhig, anmeldeVars
<1> QED BY <1>2, <1>3, <1>4, <1>5, <1>6, <1>7, <1>8, Zerlegung

(***************************************************************************)
(* The two properties.                                                     *)
(***************************************************************************)
SeitenInv == TypInv /\ Herkunft /\ Einzeln /\ Erster

LEMMA SeitenStart == Init => SeitenInv
<1> SUFFICES ASSUME Init
             PROVE  SeitenInv
  OBVIOUS
<1>1. ketten = {} /\ ereignisse = <<>> /\ gezeigt = Nichts /\ absturz = "keiner"
  BY DEF Init
<1>2. Einzeln
  BY <1>1, KeineSeiten DEF Einzeln, EinzelnInv, Einzelkette
<1>3. Erster
  BY <1>1 DEF Erster, Einzelkette
<1> QED BY <1>2, <1>3, TypStart, HerkunftStart DEF SeitenInv

LEMMA SeitenInvariante == Spec => []SeitenInv
<1>1. SeitenInv /\ [Next]_vars => SeitenInv'
  BY TypSchritt, HerkunftSchritt, EinzelnSchritt, ErsterSchritt DEF SeitenInv, TypInv
<1> QED BY <1>1, SeitenStart, PTL DEF Spec

\* One login at a time and no record changed, or always the same account:
\* prepare hands over the account that logged in and a bar of its record,
\* although it asks anew who is signed in and the observers are never removed
\* (LoginVC.swift 140-153, 165-190).
THEOREM SeitenGeltend == Spec => []RichtigeSeiten
<1>1. SeitenInv => RichtigeSeiten
  <2> SUFFICES ASSUME SeitenInv, gezeigt \in Seiten,
                      Cardinality(versucht) = 1 \/ (fremde = 0 /\ ~ueberlappt)
               PROVE  /\ gezeigt.konto \in versucht
                      /\ gezeigt.bar \in bisher[gezeigt.konto]
    BY DEF RichtigeSeiten
  <2>1. gezeigt.konto \in versucht /\ \E k \in versucht : gezeigt.bar \in bisher[k]
    BY DEF SeitenInv, Herkunft, SeitenBekannt
  <2>2. CASE Cardinality(versucht) = 1
    <3>1. \E k : versucht = {k}
      BY <2>2, FS_Singleton DEF SeitenInv, Herkunft, AllesVersucht
    <3> QED BY <2>1, <3>1
  <2>3. CASE fremde = 0 /\ ~ueberlappt
    BY <2>1, <2>3 DEF SeitenInv, Einzeln, EinzelnInv
  <2> QED BY <2>2, <2>3
<1> QED BY <1>1, SeitenInvariante, PTL

\* The forced unwrapping of currentUser's uid fails only after attempts that
\* overlap or for a record that changed, and not before the second attempt or
\* an observer (LoginVC.swift 53, 174, 177).
THEOREM AbsturzGeltend == Spec => []AbsturzErklaert
<1>1. SeitenInv => AbsturzErklaert
  <2> SUFFICES ASSUME SeitenInv, absturz # "keiner"
               PROVE  /\ ueberlappt \/ fremde > 0
                      /\ logins > 1 \/ \E k \in Konten : beobachter[k] > 0
    BY DEF AbsturzErklaert
  <2>1. fremde \in Nat /\ logins \in Nat
    BY Typen DEF SeitenInv, TypInv
  <2>2. ueberlappt \/ fremde > 0
    BY <2>1 DEF SeitenInv, Einzeln, EinzelnInv
  <2>3. logins > 1 \/ Beobachtet
    BY <2>1 DEF SeitenInv, Erster
  <2> QED BY <2>2, <2>3 DEF Beobachtet
<1> QED BY <1>1, SeitenInvariante, PTL

(***************************************************************************)
(*                       THE CHANGE OF THE PASSWORD                        *)
(***************************************************************************)

(***************************************************************************)
(* Types.                                                                  *)
(***************************************************************************)
Kettenform == [schritt: {"keiner", "anbieter", "aendern", "geaendert", "bestaetigen"},
          wort: Text]

\* Sending a request and ending a chain keep the type of the chains, touch
\* no other chain, and do what they say to this one.
LEMMA Setzen ==
  ASSUME kette \in [Vorgang -> Kettenform], NEW v \in Vorgang,
         NEW s \in {"keiner", "anbieter", "aendern", "geaendert", "bestaetigen"},
         NEW w \in Text, setze(v, s, w)
  PROVE  /\ kette' \in [Vorgang -> Kettenform]
         /\ kette'[v].schritt = s /\ kette'[v].wort = w
         /\ \A u \in Vorgang : u # v => kette'[u] = kette[u]
BY DEF setze, Kettenform

LEMMA Freigeben ==
  ASSUME kette \in [Vorgang -> Kettenform], NEW v \in Vorgang, frei(v)
  PROVE  /\ kette' \in [Vorgang -> Kettenform]
         /\ kette'[v] = Ruhe /\ kette'[v].schritt = "keiner"
         /\ \A u \in Vorgang : u # v => kette'[u] = kette[u]
<1>1. kette' \in [Vorgang -> Kettenform]
  BY DEF frei, Kettenform, Ruhe, Text
<1>2. kette'[v] = Ruhe /\ \A u \in Vorgang : u # v => kette'[u] = kette[u]
  BY DEF frei
<1>3. Ruhe.schritt = "keiner"
  BY DEF Ruhe
<1> QED BY <1>1, <1>2, <1>3

LEMMA KettenTyp == PasswortTypeOK => kette \in [Vorgang -> Kettenform]
BY DEF PasswortTypeOK, Kettenform

LEMMA TypInit == PasswortInit => PasswortTypeOK
<1> SUFFICES ASSUME PasswortInit
             PROVE  PasswortTypeOK
  OBVIOUS
<1>1. kette \in [Vorgang -> Kettenform]
  BY DEF PasswortInit, Kettenform, Ruhe, Text
<1>2. passwort \in Wort /\ geprueft \subseteq Wort /\ gesetzt \subseteq Wort
  BY WortAnnahme DEF PasswortInit
<1> QED BY <1>1, <1>2 DEF PasswortInit, PasswortTypeOK, Kettenform, Text, PinText

LEMMA PasswortTypSchritt == PasswortTypeOK /\ [PasswortNext]_passwortVars => PasswortTypeOK'
<1> SUFFICES ASSUME PasswortTypeOK, [PasswortNext]_passwortVars
             PROVE  PasswortTypeOK'
  OBVIOUS
<1>0. kette \in [Vorgang -> Kettenform]
  BY KettenTyp
<1> USE DEF felder, dienst
<1>1. CASE tippen
  <2>1. /\ neuesPW1' \in Text /\ neuesPW2' \in Text /\ altesPW' \in Text
        /\ pin' \in PinText
    BY <1>1 DEF tippen, PasswortTypeOK
  <2>2. geprueft' \subseteq Wort
    BY <1>1 DEF tippen, PasswortTypeOK
  <2> QED BY <1>1, <2>1, <2>2 DEF tippen, PasswortTypeOK
<1>2. CASE getPin
  BY <1>2 DEF getPin, PasswortTypeOK
<1>3. CASE alertOk
  BY <1>3 DEF alertOk, PasswortTypeOK
<1>4. CASE abbrechenPW
  BY <1>4 DEF abbrechenPW, PasswortTypeOK
<1>5. CASE SitzungEndet
  BY <1>5 DEF SitzungEndet, PasswortTypeOK
<1>6. ASSUME NEW v \in Vorgang, speichernPW(v)
      PROVE  PasswortTypeOK'
  <2>1. kette' \in [Vorgang -> Kettenform]
    BY <1>0, <1>6, Setzen DEF speichernPW, Text
  <2>2. meldung' \in {"keine", "fehler", "pin", "erfolg"}
    BY <1>6 DEF speichernPW, zeige, PasswortTypeOK
  <2>3. geprueft' \subseteq Wort
    BY <1>6 DEF speichernPW, zulaessig, PasswortTypeOK, Text
  <2> QED BY <1>6, <2>1, <2>2, <2>3 DEF speichernPW, PasswortTypeOK, Kettenform
<1>7. ASSUME NEW v \in Vorgang, DienstAendert(v)
      PROVE  PasswortTypeOK'
  <2>1. kette' \in [Vorgang -> Kettenform]
    BY <1>0, <1>7, Setzen DEF DienstAendert, Kettenform
  <2> QED BY <1>7, <2>1 DEF DienstAendert, PasswortTypeOK, Kettenform
<1>8. ASSUME NEW v \in Vorgang, anbieterAntwort(v)
      PROVE  PasswortTypeOK'
  <2>1. kette' \in [Vorgang -> Kettenform]
    BY <1>0, <1>8, Setzen, Freigeben DEF anbieterAntwort, PasswortTypeOK
  <2>2. meldung' \in {"keine", "fehler", "pin", "erfolg"}
    BY <1>8 DEF anbieterAntwort, zeige, PasswortTypeOK
  <2> QED BY <1>8, <2>1, <2>2 DEF anbieterAntwort, PasswortTypeOK, Kettenform
<1>9. ASSUME NEW v \in Vorgang, aendernAntwort(v)
      PROVE  PasswortTypeOK'
  <2>1. kette' \in [Vorgang -> Kettenform]
    BY <1>0, <1>9, Setzen, Freigeben DEF aendernAntwort, PasswortTypeOK
  <2>2. meldung' \in {"keine", "fehler", "pin", "erfolg"}
    BY <1>9 DEF aendernAntwort, zeige, PasswortTypeOK
  <2> QED BY <1>9, <2>1, <2>2 DEF aendernAntwort, PasswortTypeOK, Kettenform
<1>10. ASSUME NEW v \in Vorgang, bestaetigenAntwort(v)
       PROVE  PasswortTypeOK'
  <2>1. kette' \in [Vorgang -> Kettenform]
    BY <1>0, <1>10, Freigeben DEF bestaetigenAntwort
  <2>2. meldung' \in {"keine", "fehler", "pin", "erfolg"}
    BY <1>10 DEF bestaetigenAntwort, zeige, PasswortTypeOK
  <2>3. pinGefragt' \in BOOLEAN /\ abgestuerzt' \in BOOLEAN
    BY <1>10 DEF bestaetigenAntwort, PasswortTypeOK
  <2> QED BY <1>10, <2>1, <2>2, <2>3 DEF bestaetigenAntwort, PasswortTypeOK, Kettenform
<1>11. CASE UNCHANGED passwortVars
  BY <1>11 DEF passwortVars, PasswortTypeOK
<1> QED BY <1>1, <1>2, <1>3, <1>4, <1>5, <1>6, <1>7, <1>8, <1>9, <1>10, <1>11
        DEF PasswortNext, Antwort

\* The fields, the chains and the alert keep their types.
THEOREM PasswortTypKorrekt == PasswortSpec => []PasswortTypeOK
BY TypInit, PasswortTypSchritt, PTL DEF PasswortSpec

(***************************************************************************)
(* What the alerts and a trap say about the account.                       *)
(*                                                                         *)
(* The alerts are shown by a chain that has passed updatePassword, so the  *)
(* invariant speaks of the chains: once one is there, the service has      *)
(* taken a password, and then the account has one that was taken.          *)
(***************************************************************************)
Gewechselt ==
  /\ gesetzt # {} => passwort \in gesetzt
  /\ \A v \in Vorgang :
       kette[v].schritt \in {"geaendert", "bestaetigen"} => gesetzt # {}

\* A trap in a running session leaves its chain where it was.
AInv == Gewechselt /\ MeldungNachAenderung /\ AbsturzNurMitNeuem

LEMMA AInit == PasswortInit => AInv
<1> SUFFICES ASSUME PasswortInit
             PROVE  AInv
  OBVIOUS
<1>1. \A v \in Vorgang : kette[v].schritt = "keiner"
  BY DEF PasswortInit, Ruhe
<1>2. gesetzt = {} /\ meldung = "keine" /\ ~abgestuerzt
  BY DEF PasswortInit
<1> QED BY <1>1, <1>2
        DEF AInv, Gewechselt, MeldungNachAenderung, AbsturzNurMitNeuem

\* The handlers that touch neither a chain nor the account.
LEMMA AUnberuehrt ==
  ASSUME AInv, UNCHANGED <<kette, passwort, gesetzt, abgestuerzt>>,
         meldung' \in {meldung, "keine", "fehler"},
         angemeldet' => angemeldet
  PROVE  AInv'
<1>1. Gewechselt'
  BY DEF AInv, Gewechselt
<1>2. MeldungNachAenderung'
  BY DEF AInv, MeldungNachAenderung
<1>3. AbsturzNurMitNeuem'
  BY DEF AInv, AbsturzNurMitNeuem
<1> QED BY <1>1, <1>2, <1>3 DEF AInv

LEMMA ASchritt == PasswortTypeOK /\ AInv /\ [PasswortNext]_passwortVars => AInv'
<1> SUFFICES ASSUME PasswortTypeOK, AInv, [PasswortNext]_passwortVars
             PROVE  AInv'
  OBVIOUS
<1>0. kette \in [Vorgang -> Kettenform]
  BY KettenTyp
<1> USE DEF felder, dienst
<1>1. CASE tippen
  BY <1>1, AUnberuehrt DEF tippen
<1>2. CASE getPin
  BY <1>2, AUnberuehrt DEF getPin
<1>3. CASE alertOk
  <2>1. angemeldet' => angemeldet
    BY <1>3 DEF alertOk
  <2> QED BY <1>3, <2>1, AUnberuehrt DEF alertOk
<1>4. CASE abbrechenPW
  BY <1>4, AUnberuehrt DEF abbrechenPW
<1>5. CASE SitzungEndet
  BY <1>5, AUnberuehrt DEF SitzungEndet
<1>6. ASSUME NEW v \in Vorgang, speichernPW(v)
      PROVE  AInv'
  <2>1. CASE UNCHANGED kette
    BY <1>6, <2>1, AUnberuehrt DEF speichernPW, zeige
  <2>2. CASE setze(v, "anbieter", "")
    <3>1. /\ kette'[v].schritt = "anbieter"
          /\ \A u \in Vorgang : u # v => kette'[u] = kette[u]
      BY <1>0, <2>2, Setzen DEF Text
    <3>2. ~abgestuerzt /\ UNCHANGED <<abgestuerzt, passwort, gesetzt>>
      BY <1>6 DEF speichernPW, bedienbar
    <3>3. meldung' \in {meldung, "fehler"}
      BY <1>6 DEF speichernPW, zeige
    <3> QED BY <3>1, <3>2, <3>3
            DEF AInv, Gewechselt, MeldungNachAenderung, AbsturzNurMitNeuem
  <2> QED BY <1>6, <2>1, <2>2 DEF speichernPW
<1>7. ASSUME NEW v \in Vorgang, DienstAendert(v)
      PROVE  AInv'
  <2>1. /\ kette'[v].schritt = "geaendert"
        /\ \A u \in Vorgang : u # v => kette'[u] = kette[u]
    BY <1>0, <1>7, Setzen DEF DienstAendert, Kettenform
  <2>2. /\ passwort' \in gesetzt' /\ gesetzt \subseteq gesetzt'
        /\ kette[v].schritt = "aendern"
        /\ UNCHANGED <<meldung, abgestuerzt, angemeldet>>
    BY <1>7 DEF DienstAendert
  <2>3. Gewechselt'
    BY <2>2 DEF Gewechselt
  <2>4. MeldungNachAenderung'
    BY <2>2 DEF MeldungNachAenderung, AInv
  <2>5. AbsturzNurMitNeuem'
    <3> SUFFICES ASSUME abgestuerzt, angemeldet
                 PROVE  AbsturzNurMitNeuem'
      BY <2>2 DEF AbsturzNurMitNeuem
    <3>1. PICK u \in Vorgang : kette[u].schritt = "bestaetigen" /\ kette[u].wort \in gesetzt
      BY DEF AInv, AbsturzNurMitNeuem
    <3>2. kette'[u] = kette[u]
      BY <2>1, <2>2, <3>1
    <3> QED BY <2>2, <3>1, <3>2 DEF AbsturzNurMitNeuem
  <2> QED BY <2>3, <2>4, <2>5 DEF AInv
<1>8. ASSUME NEW v \in Vorgang, anbieterAntwort(v)
      PROVE  AInv'
  <2>1. /\ kette'[v].schritt \in {"aendern", "keiner"}
        /\ \A u \in Vorgang : u # v => kette'[u] = kette[u]
    BY <1>0, <1>8, Setzen, Freigeben DEF anbieterAntwort, PasswortTypeOK
  <2>2. ~abgestuerzt /\ UNCHANGED <<abgestuerzt, passwort, gesetzt>>
    BY <1>8 DEF anbieterAntwort
  <2>3. meldung' \in {meldung, "fehler"}
    BY <1>8 DEF anbieterAntwort, zeige
  <2> QED BY <2>1, <2>2, <2>3
          DEF AInv, Gewechselt, MeldungNachAenderung, AbsturzNurMitNeuem
<1>9. ASSUME NEW v \in Vorgang, aendernAntwort(v)
      PROVE  AInv'
  <2>1. UNCHANGED <<passwort, gesetzt, angemeldet>> /\ meldung' \in {meldung, "fehler"}
    BY <1>9 DEF aendernAntwort, zeige
  <2>2. abgestuerzt' => ~angemeldet
    BY <1>9 DEF aendernAntwort
  <2>3. CASE UNCHANGED kette
    BY <2>1, <2>2, <2>3
       DEF AInv, Gewechselt, MeldungNachAenderung, AbsturzNurMitNeuem
  <2>4. CASE setze(v, "bestaetigen", altesPW) /\ kette[v].schritt = "geaendert"
    <3>1. \A u \in Vorgang : u # v => kette'[u] = kette[u]
      BY <1>0, <2>4, Setzen DEF PasswortTypeOK
    <3> QED BY <2>1, <2>2, <2>4, <3>1
            DEF AInv, Gewechselt, MeldungNachAenderung, AbsturzNurMitNeuem
  <2>5. CASE frei(v)
    <3>1. /\ kette'[v].schritt = "keiner"
          /\ \A u \in Vorgang : u # v => kette'[u] = kette[u]
      BY <1>0, <2>5, Freigeben
    <3> QED BY <2>1, <2>2, <3>1
            DEF AInv, Gewechselt, MeldungNachAenderung, AbsturzNurMitNeuem
  <2> QED BY <1>9, <2>3, <2>4, <2>5 DEF aendernAntwort
<1>10. ASSUME NEW v \in Vorgang, bestaetigenAntwort(v)
       PROVE  AInv'
  <2>1. UNCHANGED <<passwort, gesetzt, angemeldet>> /\ kette[v].schritt = "bestaetigen"
    BY <1>10 DEF bestaetigenAntwort
  <2>2. passwort \in gesetzt /\ gesetzt # {}
    BY <2>1 DEF AInv, Gewechselt
  <2>3. MeldungNachAenderung'
    BY <2>1, <2>2 DEF MeldungNachAenderung
  <2>4. CASE UNCHANGED kette
    <3>1. abgestuerzt' /\ (kette[v].wort = passwort \/ ~angemeldet)
      BY <1>10, <2>4, <2>1, <1>0, Freigeben DEF bestaetigenAntwort
    <3> QED BY <2>1, <2>2, <2>3, <2>4, <3>1 DEF AInv, Gewechselt, AbsturzNurMitNeuem
  <2>5. CASE frei(v) /\ UNCHANGED abgestuerzt
    <3>1. /\ kette'[v].schritt = "keiner"
          /\ \A u \in Vorgang : u # v => kette'[u] = kette[u]
      BY <1>0, <2>5, Freigeben
    <3>2. ~abgestuerzt
      BY <1>10 DEF bestaetigenAntwort
    <3> QED BY <2>1, <2>2, <2>3, <2>5, <3>1, <3>2 DEF AInv, Gewechselt, AbsturzNurMitNeuem
  <2> QED BY <1>10, <2>4, <2>5 DEF bestaetigenAntwort
<1>11. CASE UNCHANGED passwortVars
  BY <1>11, AUnberuehrt DEF passwortVars
<1> QED BY <1>1, <1>2, <1>3, <1>4, <1>5, <1>6, <1>7, <1>8, <1>9, <1>10, <1>11
        DEF PasswortNext, Antwort

\* A chain past updatePassword means that the service has taken a password of
\* this view and the account has one it took; the alerts and the trap of
\* speichernPW's closures agree with that (PasswortVC.swift 37-60).
THEOREM AInvGilt == PasswortSpec => []AInv
BY PasswortTypKorrekt, AInit, ASchritt, PTL DEF PasswortSpec

\* The success alert is only shown when the account has a password that this
\* view set, and the error about the pin only after the service took one.
THEOREM MeldungGilt == PasswortSpec => []MeldungNachAenderung
<1>1. AInv => MeldungNachAenderung
  BY DEF AInv
<1> QED BY <1>1, AInvGilt, PTL

\* In a running session only a confirmed new password reaches the unwrap of
\* the nil error.
THEOREM AbsturzGilt == PasswortSpec => []AbsturzNurMitNeuem
<1>1. AInv => AbsturzNurMitNeuem
  BY DEF AInv
<1> QED BY <1>1, AInvGilt, PTL

(***************************************************************************)
(* Which passwords are set.                                                *)
(*                                                                         *)
(* The comparison of the two fields is three closures away from the change.*)
(* The invariant carries it along: while a chain waits for its first       *)
(* answer the first field holds a compared word (or none, which the        *)
(* service refuses), and so does a request to change the password.         *)
(***************************************************************************)
Verglichen ==
  /\ wartetAufAnbieter => neuesPW1 \in geprueft \cup {""}
  /\ \A v \in Vorgang :
       kette[v].schritt = "aendern" => kette[v].wort \in geprueft \cup {""}
  /\ NurVerglicheneGesetzt

LEMMA VInit == PasswortInit => Verglichen
<1> SUFFICES ASSUME PasswortInit
             PROVE  Verglichen
  OBVIOUS
<1>1. \A v \in Vorgang : kette[v].schritt = "keiner"
  BY DEF PasswortInit, Ruhe
<1> QED BY <1>1 DEF PasswortInit, Verglichen, wartetAufAnbieter, NurVerglicheneGesetzt

\* The handlers that touch neither the chains nor the first field.
LEMMA VUnberuehrt ==
  ASSUME Verglichen, UNCHANGED <<kette, neuesPW1, geprueft, gesetzt>>
  PROVE  Verglichen'
BY DEF Verglichen, wartetAufAnbieter, NurVerglicheneGesetzt

\* A chain moves on or ends without asking for the provider or for the change.
LEMMA VWeiter ==
  ASSUME Verglichen, NEW v \in Vorgang,
         kette'[v].schritt \notin {"anbieter", "aendern"},
         \A u \in Vorgang : u # v => kette'[u] = kette[u],
         UNCHANGED <<neuesPW1, geprueft>>, gesetzt' \subseteq geprueft
  PROVE  Verglichen'
<1>1. wartetAufAnbieter' => wartetAufAnbieter
  BY DEF wartetAufAnbieter
<1>2. \A u \in Vorgang :
        kette'[u].schritt = "aendern" => kette'[u].wort \in geprueft \cup {""}
  BY DEF Verglichen
<1> QED BY <1>1, <1>2 DEF Verglichen, NurVerglicheneGesetzt

LEMMA VSchritt == PasswortTypeOK /\ Verglichen /\ [PasswortNext]_passwortVars => Verglichen'
<1> SUFFICES ASSUME PasswortTypeOK, Verglichen, [PasswortNext]_passwortVars
             PROVE  Verglichen'
  OBVIOUS
<1>0. kette \in [Vorgang -> Kettenform]
  BY KettenTyp
<1> USE DEF felder, dienst
<1>1. CASE tippen
  <2>1. geprueft \subseteq geprueft' /\ UNCHANGED <<kette, gesetzt>>
    BY <1>1 DEF tippen
  <2>2. neuesPW1' \in Wort \cup {""}
    BY <1>1 DEF tippen, PasswortTypeOK, Text
  <2>3. wartetAufAnbieter => neuesPW1' \in geprueft' \cup {""}
    BY <1>1, <2>2 DEF tippen, Verglichen
  <2> QED BY <2>1, <2>3 DEF Verglichen, wartetAufAnbieter, NurVerglicheneGesetzt
<1>2. CASE getPin
  BY <1>2, VUnberuehrt DEF getPin
<1>3. CASE alertOk
  BY <1>3, VUnberuehrt DEF alertOk
<1>4. CASE abbrechenPW
  BY <1>4, VUnberuehrt DEF abbrechenPW
<1>5. CASE SitzungEndet
  BY <1>5, VUnberuehrt DEF SitzungEndet
<1>6. ASSUME NEW v \in Vorgang, speichernPW(v)
      PROVE  Verglichen'
  <2>1. CASE zulaessig
    <3>1. /\ kette'[v].schritt = "anbieter"
          /\ \A u \in Vorgang : u # v => kette'[u] = kette[u]
      BY <1>0, <1>6, <2>1, Setzen DEF speichernPW, Text
    <3>2. /\ neuesPW1' \in geprueft' /\ geprueft \subseteq geprueft'
          /\ UNCHANGED gesetzt
      BY <1>6, <2>1 DEF speichernPW, zulaessig
    <3> QED BY <3>1, <3>2 DEF Verglichen, NurVerglicheneGesetzt
  <2>2. CASE ~zulaessig
    BY <1>6, <2>2, VUnberuehrt DEF speichernPW
  <2> QED BY <2>1, <2>2
<1>7. ASSUME NEW v \in Vorgang, DienstAendert(v)
      PROVE  Verglichen'
  <2>1. /\ kette'[v].schritt = "geaendert"
        /\ \A u \in Vorgang : u # v => kette'[u] = kette[u]
    BY <1>0, <1>7, Setzen DEF DienstAendert, Kettenform
  <2>2. kette[v].wort \in geprueft
    BY <1>7, WortAnnahme DEF DienstAendert, Verglichen
  <2>3. gesetzt' \subseteq geprueft /\ UNCHANGED <<neuesPW1, geprueft>>
    BY <1>7, <2>2 DEF DienstAendert, Verglichen, NurVerglicheneGesetzt
  <2> QED BY <2>1, <2>3, VWeiter
<1>8. ASSUME NEW v \in Vorgang, anbieterAntwort(v)
      PROVE  Verglichen'
  <2>1. UNCHANGED <<neuesPW1, geprueft, gesetzt>> /\ gesetzt' \subseteq geprueft
    BY <1>8 DEF anbieterAntwort, Verglichen, NurVerglicheneGesetzt
  <2>2. CASE setze(v, "aendern", neuesPW1)
    <3>1. /\ kette'[v].schritt = "aendern" /\ kette'[v].wort = neuesPW1
          /\ \A u \in Vorgang : u # v => kette'[u] = kette[u]
      BY <1>0, <2>2, Setzen DEF PasswortTypeOK
    <3>2. neuesPW1 \in geprueft \cup {""}
      BY <1>8 DEF anbieterAntwort, Verglichen, wartetAufAnbieter
    <3> QED BY <2>1, <3>1, <3>2 DEF Verglichen, NurVerglicheneGesetzt
  <2>3. CASE frei(v)
    BY <1>0, <2>1, <2>3, Freigeben, VWeiter
  <2> QED BY <1>8, <2>2, <2>3 DEF anbieterAntwort
<1>9. ASSUME NEW v \in Vorgang, aendernAntwort(v)
      PROVE  Verglichen'
  <2>1. UNCHANGED <<neuesPW1, geprueft, gesetzt>> /\ gesetzt' \subseteq geprueft
    BY <1>9 DEF aendernAntwort, Verglichen, NurVerglicheneGesetzt
  <2>2. CASE UNCHANGED kette
    BY <2>1, <2>2, VUnberuehrt
  <2>3. CASE setze(v, "bestaetigen", altesPW)
    <3>1. /\ kette'[v].schritt = "bestaetigen"
          /\ \A u \in Vorgang : u # v => kette'[u] = kette[u]
      BY <1>0, <2>3, Setzen DEF PasswortTypeOK
    <3> QED BY <2>1, <3>1, VWeiter
  <2>4. CASE frei(v)
    BY <1>0, <2>1, <2>4, Freigeben, VWeiter
  <2> QED BY <1>9, <2>2, <2>3, <2>4 DEF aendernAntwort
<1>10. ASSUME NEW v \in Vorgang, bestaetigenAntwort(v)
       PROVE  Verglichen'
  <2>1. UNCHANGED <<neuesPW1, geprueft, gesetzt>> /\ gesetzt' \subseteq geprueft
    BY <1>10 DEF bestaetigenAntwort, Verglichen, NurVerglicheneGesetzt
  <2>2. CASE UNCHANGED kette
    BY <2>1, <2>2, VUnberuehrt
  <2>3. CASE frei(v)
    BY <1>0, <2>1, <2>3, Freigeben, VWeiter
  <2> QED BY <1>10, <2>2, <2>3 DEF bestaetigenAntwort
<1>11. CASE UNCHANGED passwortVars
  BY <1>11, VUnberuehrt DEF passwortVars
<1> QED BY <1>1, <1>2, <1>3, <1>4, <1>5, <1>6, <1>7, <1>8, <1>9, <1>10, <1>11
        DEF PasswortNext, Antwort

\* The service is only given words that stood in both fields on a tap, or
\* were typed while a chain waited for its first answer.
THEOREM VergleichGilt == PasswortSpec => []NurVerglicheneGesetzt
<1>1. Verglichen => NurVerglicheneGesetzt
  BY DEF Verglichen
<1> QED BY <1>1, PasswortTypKorrekt, VInit, VSchritt, PTL DEF PasswortSpec

(***************************************************************************)
(* Every chain ends with an alert.                                         *)
(***************************************************************************)
EndeBeantwortet ==
  \A v \in Vorgang :
    (kette[v] # Ruhe /\ kette'[v] = Ruhe) => meldung' # "keine" \/ ~offen

\* A chain that goes on is not at rest, and the others stay as they were.
LEMMA WeiterIstNichtEnde ==
  ASSUME kette \in [Vorgang -> Kettenform], NEW v \in Vorgang,
         NEW s \in {"anbieter", "aendern", "geaendert", "bestaetigen"},
         NEW w \in Text, setze(v, s, w)
  PROVE  EndeBeantwortet
<1>1. /\ kette'[v].schritt = s
      /\ \A u \in Vorgang : u # v => kette'[u] = kette[u]
  BY Setzen
<1>2. Ruhe.schritt = "keiner"
  BY DEF Ruhe
<1>3. kette'[v] # Ruhe
  BY <1>1, <1>2
<1> QED BY <1>1, <1>3 DEF EndeBeantwortet

\* An alert that is shown at the end answers the chain.
LEMMA GezeigtIstBeantwortet ==
  ASSUME NEW m \in {"fehler", "pin", "erfolg"}, zeige(m)
  PROVE  EndeBeantwortet
BY DEF zeige, EndeBeantwortet

LEMMA BeantwortetSchritt == PasswortTypeOK /\ [PasswortNext]_passwortVars => [EndeBeantwortet]_passwortVars
<1> SUFFICES ASSUME PasswortTypeOK, PasswortNext
             PROVE  EndeBeantwortet
  OBVIOUS
<1>0. kette \in [Vorgang -> Kettenform]
  BY KettenTyp
<1>1. CASE UNCHANGED kette
  BY <1>1 DEF EndeBeantwortet
<1>2. ASSUME NEW v \in Vorgang, speichernPW(v)
      PROVE  EndeBeantwortet
  BY <1>0, <1>1, <1>2, WeiterIstNichtEnde DEF speichernPW, Text
<1>3. ASSUME NEW v \in Vorgang, DienstAendert(v)
      PROVE  EndeBeantwortet
  BY <1>0, <1>3, WeiterIstNichtEnde DEF DienstAendert, Kettenform
<1>4. ASSUME NEW v \in Vorgang, anbieterAntwort(v)
      PROVE  EndeBeantwortet
  BY <1>0, <1>4, WeiterIstNichtEnde, GezeigtIstBeantwortet
     DEF anbieterAntwort, PasswortTypeOK
<1>5. ASSUME NEW v \in Vorgang, aendernAntwort(v)
      PROVE  EndeBeantwortet
  BY <1>0, <1>1, <1>5, WeiterIstNichtEnde, GezeigtIstBeantwortet
     DEF aendernAntwort, PasswortTypeOK
<1>6. ASSUME NEW v \in Vorgang, bestaetigenAntwort(v)
      PROVE  EndeBeantwortet
  <2>1. CASE zeige(IF pin = Pin THEN "erfolg" ELSE "pin")
    BY <2>1, GezeigtIstBeantwortet
  <2> QED BY <1>1, <1>6, <2>1 DEF bestaetigenAntwort
<1>7. tippen \/ getPin \/ alertOk \/ abbrechenPW \/ SitzungEndet => UNCHANGED kette
  BY DEF tippen, getPin, alertOk, abbrechenPW, SitzungEndet
<1> QED BY <1>1, <1>2, <1>3, <1>4, <1>5, <1>6, <1>7 DEF PasswortNext, Antwort

\* Whichever closure ends a chain, an alert is on screen then, unless the
\* view has been left.
THEOREM AntwortGilt == PasswortSpec => JederAuftragBeantwortet
BY PasswortTypKorrekt, BeantwortetSchritt, PTL
   DEF PasswortSpec, JederAuftragBeantwortet, EndeBeantwortet
=============================================================================
