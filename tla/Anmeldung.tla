----------------------------- MODULE Anmeldung -------------------------------
(***************************************************************************)
(* The login page (LoginVC.swift) and the logout of EinstellungenVC.swift. *)
(*                                                                         *)
(* A login is a chain of three answers: the authentication signs the user  *)
(* in, one event on all waiters tells whether this is one, and an observer *)
(* of the waiter's own record opens the waiter's pages whenever it is      *)
(* told.  Each step asks anew who is signed in, and the observer is never  *)
(* removed.  Accounts that are no waiter belong to guests.                 *)
(***************************************************************************)
EXTENDS Naturals, Sequences, FiniteSets

CONSTANTS
  Konten,       (* accounts                                                *)
  Bars,         (* bars a waiter works for                                 *)
  AmStart,      (* who may still be signed in when the app starts          *)
  Adressen,     (* addresses typed for a new password                      *)
  Registriert,  (* those that have an account with a password              *)
  Niemand,      (* nobody is signed in                                     *)
  Keine,        (* no record among the waiters                             *)
  MaxLogin,     (* bound: attempts to log in                               *)
  MaxFremd,     (* bound: changes of waiters' records elsewhere            *)
  MaxReset      (* bound: requests for a new password                      *)

ASSUME NamenAnnahme == /\ Niemand \notin Konten /\ Keine \notin Bars
                       /\ AmStart \subseteq Konten \cup {Niemand}
                       /\ Registriert \subseteq Adressen
                       /\ "" \in Adressen \ Registriert
ASSUME MaxAnnahme == {MaxLogin, MaxFremd, MaxReset} \subseteq Nat

VARIABLES
  currentUser,  (* who is signed in; kept over restarts                    *)
  kellner,      (* per account the bar in its waiter's record              *)
  ketten,       (* logins under way                                        *)
  beobachter,   (* per account the observers of its record                 *)
  ereignisse,   (* value events on the main queue                          *)
  gezeigt,      (* what the login page presents: nothing, an alert, or the *)
                (* waiter's pages                                          *)
  absturz,      (* the trap that ended the process, or "keiner"            *)
  logins, fremde,     (* the bounded steps so far                          *)
  versucht,     (* history: accounts of the attempts                       *)
  ueberlappt,   (* history: an attempt began before the last had ended     *)
  bisher,       (* history: bars each record has named                     *)
  dialog,       (* the view for a forgotten password is open               *)
  pwTextfield,  (* the address in it                                       *)
  resetKetten,  (* requests for a new password under way                   *)
  resets,       (* how many there were                                     *)
  mail          (* history: whether a mail was requested for the address   *)
                (* that was looked up, for one typed in the meantime, or   *)
                (* for another                                             *)

anmeldeVars == <<currentUser, ketten, beobachter, logins, versucht, ueberlappt>>
kellnerVars == <<kellner, fremde, bisher>>
resetVars == <<dialog, pwTextfield, resetKetten, resets, mail>>
vars == <<anmeldeVars, kellnerVars, ereignisse, gezeigt, absturz, resetVars>>

laeuft == absturz = "keiner"
Nichts == [was |-> "nichts"]
Hinweis == [was |-> "hinweis"]
Seiten == [was: {"seiten"}, konto: Konten, bar: Bars]

TypeOK ==
  /\ currentUser \in Konten \cup {Niemand}
  /\ kellner \in [Konten -> Bars \cup {Keine}]
  /\ ketten \subseteq [nr: 1..MaxLogin, konto: Konten, richtig: BOOLEAN,
                       phase: {"signIn", "kellner"}]
  /\ beobachter \in [Konten -> 0..MaxLogin]
  /\ ereignisse \in Seq([konto: Konten, bar: Bars \cup {Keine}])
  /\ gezeigt \in {Nichts, Hinweis} \cup Seiten
  /\ absturz \in {"keiner", "pruefen", "prepare"}
  /\ logins \in 0..MaxLogin /\ fremde \in 0..MaxFremd
  /\ versucht \subseteq Konten /\ ueberlappt \in BOOLEAN
  /\ bisher \in [Konten -> SUBSET Bars]
  /\ dialog \in BOOLEAN /\ pwTextfield \in Adressen
  /\ resetKetten \subseteq [nr: 1..MaxReset, adresse: Adressen,
                            geaendert: BOOLEAN, phase: {"anbieter", "mail"}]
  /\ resets \in 0..MaxReset
  /\ mail \in {"keine", "geprueft", "geaendert", "andere"}

\* The app starts with the login page, also if somebody is still signed in.
Init ==
  /\ currentUser \in AmStart
  /\ kellner \in [Konten -> Bars \cup {Keine}]
  /\ ketten = {}
  /\ beobachter = [k \in Konten |-> 0]
  /\ ereignisse = <<>>
  /\ gezeigt = Nichts
  /\ absturz = "keiner"
  /\ logins = 0 /\ fremde = 0
  /\ versucht = {} /\ ueberlappt = FALSE
  /\ bisher = [k \in Konten |-> {kellner[k]} \ {Keine}]
  /\ dialog = FALSE /\ pwTextfield = ""
  /\ resetKetten = {}
  /\ resets = 0
  /\ mail = "keine"

\* present: ignored while the page presents something else.
Praesentiere(x) == gezeigt' = IF gezeigt = Nichts THEN x ELSE gezeigt

\* The user closes an alert.
HinweisOK ==
  /\ laeuft /\ gezeigt = Hinweis
  /\ gezeigt' = Nichts
  /\ UNCHANGED <<anmeldeVars, kellnerVars, ereignisse, absturz, resetVars>>

(***************************************************************************)
(* Logging in.                                                             *)
(***************************************************************************)

\* The button with an empty field.
LoginTappedLeer ==
  /\ laeuft /\ gezeigt = Nichts /\ ~dialog
  /\ Praesentiere(Hinweis)
  /\ UNCHANGED <<anmeldeVars, kellnerVars, ereignisse, absturz, resetVars>>

\* The button with an account and a right or a wrong password.
LoginTapped(k, richtig) ==
  /\ laeuft /\ gezeigt = Nichts /\ ~dialog
  /\ logins < MaxLogin
  /\ logins' = logins + 1
  /\ ketten' = ketten \cup {[nr |-> logins + 1, konto |-> k,
                             richtig |-> richtig, phase |-> "signIn"]}
  /\ versucht' = versucht \cup {k}
  /\ ueberlappt' = (ueberlappt \/ ketten # {} \/ ereignisse # <<>>)
  /\ UNCHANGED <<currentUser, beobachter, kellnerVars, ereignisse, gezeigt,
                 absturz, resetVars>>

\* Slip: whoever is signed in already stays so.
SignInGelingtAlterNutzer(c) ==
  /\ laeuft /\ c \in ketten /\ c.phase = "signIn"
  /\ c.richtig
  /\ currentUser' = IF currentUser = Niemand THEN c.konto ELSE currentUser
  /\ ketten' = (ketten \ {c}) \cup {[c EXCEPT !.phase = "kellner"]}
  /\ UNCHANGED <<beobachter, logins, versucht, ueberlappt, kellnerVars,
                 ereignisse, gezeigt, absturz, resetVars>>

\* The answer of signIn: signed in, and the waiters are asked for; or an
\* error, also of the network.
SignInGelingt(c) ==
  /\ laeuft /\ c \in ketten /\ c.phase = "signIn"
  /\ c.richtig
  /\ currentUser' = c.konto
  /\ ketten' = (ketten \ {c}) \cup {[c EXCEPT !.phase = "kellner"]}
  /\ UNCHANGED <<beobachter, logins, versucht, ueberlappt, kellnerVars,
                 ereignisse, gezeigt, absturz, resetVars>>

SignInScheitert(c) ==
  /\ laeuft /\ c \in ketten /\ c.phase = "signIn"
  /\ ketten' = ketten \ {c}
  /\ Praesentiere(Hinweis)
  /\ UNCHANGED <<currentUser, beobachter, logins, versucht, ueberlappt,
                 kellnerVars, ereignisse, absturz, resetVars>>

\* snapshot.hasChild
IstKellner(k) == kellner[k] # Keine

\* Slip: the observer is not told what is there already.
BeobachteStumm(k) ==
  /\ beobachter' = [beobachter EXCEPT ![k] = @ + 1]
  /\ UNCHANGED ereignisse

\* segueToKellnerVC: one more observer of the record, told at once.
segueToKellnerVC(k) ==
  /\ beobachter' = [beobachter EXCEPT ![k] = @ + 1]
  /\ ereignisse' = Append(ereignisse, [konto |-> k, bar |-> kellner[k]])

\* Slip: the else is missing, waiters are signed out as well.
KellnerAntwortOhneElse(c) ==
  /\ laeuft /\ c \in ketten /\ c.phase = "kellner"
  /\ ketten' = ketten \ {c}
  /\ currentUser' = Niemand
  /\ IF currentUser # Niemand /\ IstKellner(currentUser)
     THEN segueToKellnerVC(currentUser)
     ELSE UNCHANGED <<beobachter, ereignisse>>
  /\ UNCHANGED <<logins, versucht, ueberlappt, kellnerVars, gezeigt, absturz,
                 resetVars>>

\* The event on the waiters, about whoever is signed in now.
KellnerAntwort(c) ==
  /\ laeuft /\ c \in ketten /\ c.phase = "kellner"
  /\ ketten' = ketten \ {c}
  /\ \/ /\ currentUser = Niemand
        /\ absturz' = "pruefen"
        /\ UNCHANGED <<currentUser, beobachter, ereignisse>>
     \/ /\ currentUser # Niemand /\ IstKellner(currentUser)
        /\ segueToKellnerVC(currentUser)
        /\ UNCHANGED <<currentUser, absturz>>
     \/ /\ currentUser # Niemand /\ ~IstKellner(currentUser)
        /\ currentUser' = Niemand
        /\ UNCHANGED <<beobachter, ereignisse, absturz>>
  /\ UNCHANGED <<logins, versucht, ueberlappt, kellnerVars, gezeigt, resetVars>>

\* The value is a dictionary: the record exists.
EinDatensatz(bar) == bar # Keine

\* The observer's closure: a record opens the pages, with its bar and for
\* whoever is signed in now; a removed one does nothing.
Wertereignis ==
  /\ laeuft /\ ereignisse # <<>>
  /\ ereignisse' = Tail(ereignisse)
  /\ LET bar == Head(ereignisse).bar
     IN \/ /\ ~EinDatensatz(bar)
           /\ UNCHANGED <<gezeigt, absturz>>
        \/ /\ EinDatensatz(bar) /\ currentUser = Niemand
           /\ absturz' = "prepare"
           /\ UNCHANGED gezeigt
        \/ /\ EinDatensatz(bar) /\ currentUser # Niemand
           /\ Praesentiere([was |-> "seiten", konto |-> currentUser,
                         bar |-> bar])
           /\ UNCHANGED absturz
  /\ UNCHANGED <<anmeldeVars, kellnerVars, resetVars>>

\* The settings' button: nothing happens if nobody is signed in.
logout ==
  /\ laeuft /\ gezeigt \in Seiten
  /\ currentUser # Niemand
  /\ currentUser' = Niemand
  /\ gezeigt' = Nichts
  /\ UNCHANGED <<ketten, beobachter, logins, versucht, ueberlappt, kellnerVars,
                 ereignisse, absturz, resetVars>>

\* A waiter's record is created, removed, or changed in its bar or another
\* field; every observer of it is told.
FremdeAenderung(k, b) ==
  /\ fremde < MaxFremd
  /\ kellner[k] # Keine \/ b # Keine
  /\ fremde' = fremde + 1
  /\ kellner' = [kellner EXCEPT ![k] = b]
  /\ bisher' = [bisher EXCEPT ![k] = @ \cup ({b} \ {Keine})]
  /\ ereignisse' = ereignisse \o
       [n \in 1..beobachter[k] |-> [konto |-> k, bar |-> b]]
  /\ UNCHANGED <<anmeldeVars, gezeigt, absturz, resetVars>>

(***************************************************************************)
(* The forgotten password.                                                 *)
(***************************************************************************)

pwVergessenTapped ==
  /\ laeuft /\ gezeigt = Nichts /\ ~dialog
  /\ dialog' = TRUE
  /\ UNCHANGED <<anmeldeVars, kellnerVars, ereignisse, gezeigt, absturz,
                 pwTextfield, resetKetten, resets, mail>>

pwTippen(a) ==
  /\ laeuft /\ gezeigt = Nichts /\ dialog
  /\ pwTextfield' = a
  /\ resetKetten' = {[c EXCEPT !.geaendert = TRUE] : c \in resetKetten}
  /\ UNCHANGED <<anmeldeVars, kellnerVars, ereignisse, gezeigt, absturz,
                 dialog, resets, mail>>

\* The button: the address is looked up.
pwReset ==
  /\ laeuft /\ gezeigt = Nichts /\ dialog
  /\ resets < MaxReset
  /\ resets' = resets + 1
  /\ resetKetten' = resetKetten \cup
       {[nr |-> resets + 1, adresse |-> pwTextfield, geaendert |-> FALSE,
         phase |-> "anbieter"]}
  /\ UNCHANGED <<anmeldeVars, kellnerVars, ereignisse, gezeigt, absturz,
                 dialog, pwTextfield, mail>>

\* Slip: the provider is not looked at.
ImmerPasswort(a) == TRUE

\* The providers of an address begin with the password; accounts of other
\* providers are like addresses without one.
MitPasswort(a) == a \in Registriert

\* The answer of fetchProviders: the mail is requested, for what the field
\* holds now; or an alert, also for an error.
AnbieterAntwort(c) ==
  /\ laeuft /\ c \in resetKetten /\ c.phase = "anbieter"
  /\ \/ /\ MitPasswort(c.adresse)
        /\ resetKetten' = (resetKetten \ {c}) \cup
             {[c EXCEPT !.phase = "mail", !.adresse = "", !.geaendert = FALSE]}
        /\ mail' = IF c.geaendert THEN "geaendert"
                   ELSE IF pwTextfield \in Registriert THEN "geprueft"
                   ELSE "andere"
        /\ UNCHANGED gezeigt
     \/ /\ resetKetten' = resetKetten \ {c}
        /\ Praesentiere(Hinweis)
        /\ UNCHANGED mail
  /\ UNCHANGED <<anmeldeVars, kellnerVars, ereignisse, absturz, dialog,
                 pwTextfield, resets>>

\* The answer of sendPasswordReset: the view is closed, or an alert.
MailAntwort(c) ==
  /\ laeuft /\ c \in resetKetten /\ c.phase = "mail"
  /\ resetKetten' = resetKetten \ {c}
  /\ \/ dialog' = FALSE /\ UNCHANGED gezeigt
     \/ Praesentiere(Hinweis) /\ UNCHANGED dialog
  /\ UNCHANGED <<anmeldeVars, kellnerVars, ereignisse, absturz, pwTextfield,
                 resets, mail>>

\* animateOutPW by the return key or a touch beside the view.
animateOutPW ==
  /\ laeuft /\ gezeigt = Nichts /\ dialog
  /\ dialog' = FALSE
  /\ UNCHANGED <<anmeldeVars, kellnerVars, ereignisse, gezeigt, absturz,
                 pwTextfield, resetKetten, resets, mail>>

Next ==
  \/ HinweisOK \/ LoginTappedLeer
  \/ \E k \in Konten, r \in BOOLEAN : LoginTapped(k, r)
  \/ \E c \in ketten : SignInGelingt(c) \/ SignInScheitert(c) \/ KellnerAntwort(c)
  \/ Wertereignis
  \/ logout
  \/ \E k \in Konten, b \in Bars \cup {Keine} : FremdeAenderung(k, b)
  \/ pwVergessenTapped \/ pwReset \/ animateOutPW
  \/ \E c \in resetKetten : AnbieterAntwort(c) \/ MailAntwort(c)
  \/ \E a \in Adressen : pwTippen(a)

Spec == Init /\ [][Next]_vars

(***************************************************************************)
(* Every request is answered and the main queue is worked off; users are   *)
(* free.                                                                   *)
(***************************************************************************)
FairSpec ==
  /\ Spec
  /\ WF_vars(\E c \in ketten : \/ SignInGelingt(c) \/ SignInScheitert(c)
                               \/ KellnerAntwort(c))
  /\ WF_vars(Wertereignis)

(***************************************************************************)
(* Properties.                                                             *)
(***************************************************************************)

\* One login at a time and no record changed, or always the same account:
\* the pages are those of the waiter who logged in and of a bar his record
\* has named.  An observer left over from another waiter, or a second
\* attempt in between, can show them to a guest or for another's bar.
RichtigeSeiten ==
  (/\ gezeigt \in Seiten
   /\ Cardinality(versucht) = 1 \/ (fremde = 0 /\ ~ueberlappt)) =>
     /\ gezeigt.konto \in versucht
     /\ gezeigt.bar \in bisher[gezeigt.konto]

\* The process ends only if a second attempt ran into the first, or if the
\* record of a waiter changes whose observer has outlived the logout: the
\* first waiter to log in on a device never sees it end.
AbsturzErklaert ==
  absturz # "keiner" => /\ ueberlappt \/ fremde > 0
                        /\ logins > 1 \/ \E k \in Konten : beobachter[k] > 0

\* A mail goes to an address that was looked up and has a password, or to
\* one typed while the answer was awaited: the field is read twice.
MailGeprueft == mail # "andere"

\* A waiter with the right password gets to his pages, or sees an alert;
\* left out are attempts that overlap and records that change meanwhile.
KellnerKommtAn ==
  \A k \in Konten :
    (\E c \in ketten : c.konto = k /\ c.richtig /\ kellner[k] # Keine) ~>
      (\/ gezeigt \in Seiten /\ gezeigt.konto = k
       \/ gezeigt = Hinweis \/ ueberlappt \/ fremde > 0 \/ ~laeuft)
=============================================================================
