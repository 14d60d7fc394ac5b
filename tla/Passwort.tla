------------------------------ MODULE Passwort ------------------------------
(***************************************************************************)
(* Changing the password (PasswortVC.swift).  "Speichern" starts a chain   *)
(* of three requests to the authentication service: which kind of login    *)
(* the account has, the new password, and the old password for             *)
(* confirmation; then the pin is compared.  Between the requests the       *)
(* waiter may edit the fields and tap "Speichern" again, which starts a    *)
(* further chain.                                                          *)
(***************************************************************************)
EXTENDS Naturals

CONSTANTS
  Wort,       (* passwords                                                 *)
  Altes,      (* the password before                                       *)
  Vorgang     (* chains that run at once; its size is a bound              *)

ASSUME WortAnnahme == Altes \in Wort /\ "" \notin Wort

VARIABLES
  konto,      (* kind of the account: by password, Facebook, no address    *)
  angemeldet, (* the library has a current user                            *)
  passwort,   (* the password the service holds                            *)
  neuesPW1, neuesPW2, altesPW, pin,   (* the text fields                   *)
  Pin,        (* the pin as loaded from the database, "" before            *)
  pinGefragt, (* an observer of the pin waits for its first data           *)
  kette,      (* per chain: the request under way and the word it carries  *)
  meldung,    (* the alert on screen                                       *)
  offen,      (* the view is on screen                                     *)
  abgestuerzt,
  geprueft,   (* history: words that were equal in both fields on a tap,   *)
              (* or typed into the first one before the first answer       *)
  gesetzt     (* history: words the service took                           *)

felder == <<neuesPW1, neuesPW2, altesPW, pin>>
dienst == <<konto, passwort, gesetzt>>
passwortVars == <<felder, dienst, angemeldet, Pin, pinGefragt, kette,
                  meldung, offen, abgestuerzt, geprueft>>

Text    == Wort \cup {""}
PinText == {"", "richtig", "falsch"}
Ruhe    == [schritt |-> "keiner", wort |-> ""]

PasswortTypeOK ==
  /\ konto \in {"password", "facebook", "ohneEmail"}
  /\ angemeldet \in BOOLEAN /\ offen \in BOOLEAN /\ abgestuerzt \in BOOLEAN
  /\ passwort \in Wort
  /\ neuesPW1 \in Text /\ neuesPW2 \in Text /\ altesPW \in Text
  /\ pin \in PinText
  /\ Pin \in {"", "richtig"} /\ pinGefragt \in BOOLEAN
  /\ kette \in [Vorgang ->
       [schritt: {"keiner", "anbieter", "aendern", "geaendert", "bestaetigen"},
        wort: Text]]
  /\ meldung \in {"keine", "fehler", "pin", "erfolg"}
  /\ geprueft \subseteq Wort /\ gesetzt \subseteq Wort

PasswortInit ==
  /\ konto \in {"password", "facebook", "ohneEmail"}
  /\ angemeldet = TRUE
  /\ passwort = Altes
  /\ neuesPW1 = "" /\ neuesPW2 = "" /\ altesPW = "" /\ pin = ""
  /\ Pin = "" /\ pinGefragt = FALSE
  /\ kette = [v \in Vorgang |-> Ruhe]
  /\ meldung = "keine"
  /\ offen = TRUE
  /\ abgestuerzt = FALSE
  /\ geprueft = {} /\ gesetzt = {}

\* An alert is shown if the view is on screen and shows none yet.
zeige(m) == meldung' = IF offen /\ meldung = "keine" THEN m ELSE meldung

setze(v, schritt, wort) ==
  kette' = [kette EXCEPT ![v] = [schritt |-> schritt, wort |-> wort]]

frei(v) == kette' = [kette EXCEPT ![v] = Ruhe]

bedienbar == ~abgestuerzt /\ offen /\ meldung = "keine"

wartetAufAnbieter == \E v \in Vorgang : kette[v].schritt = "anbieter"

tippen ==
  /\ bedienbar
  /\ \/ neuesPW1' \in Text /\ UNCHANGED <<neuesPW2, altesPW, pin>>
     \/ neuesPW2' \in Text /\ UNCHANGED <<neuesPW1, altesPW, pin>>
     \/ altesPW' \in Text /\ UNCHANGED <<neuesPW1, neuesPW2, pin>>
     \/ pin' \in PinText /\ UNCHANGED <<neuesPW1, neuesPW2, altesPW>>
  /\ geprueft' = IF wartetAufAnbieter /\ neuesPW1' # neuesPW1
                 THEN geprueft \cup ({neuesPW1'} \cap Wort) ELSE geprueft
  /\ UNCHANGED <<dienst, angemeldet, Pin, pinGefragt, kette, meldung, offen,
                 abgestuerzt>>

\* Slip: the two fields are not compared.
zulaessigOhneVergleich ==
  /\ angemeldet
  /\ neuesPW1 # ""
  /\ konto # "ohneEmail"

\* What speichernPW tests before it asks the service.
zulaessig ==
  /\ angemeldet
  /\ neuesPW1 = neuesPW2 /\ neuesPW1 # ""
  /\ konto # "ohneEmail"

speichernPW(v) ==
  /\ bedienbar
  /\ kette[v] = Ruhe
  /\ \/ /\ zulaessig
        /\ setze(v, "anbieter", "")
        /\ geprueft' = geprueft \cup ({neuesPW1} \cap {neuesPW2})
        /\ UNCHANGED meldung
     \/ /\ ~zulaessig
        /\ zeige("fehler")
        /\ UNCHANGED <<kette, geprueft>>
  /\ UNCHANGED <<felder, dienst, angemeldet, Pin, pinGefragt, offen,
                 abgestuerzt>>

\* Slip: the old password is confirmed before the new one is set.
anbieterAntwortVertauscht(v) ==
  /\ ~abgestuerzt
  /\ kette[v].schritt = "anbieter"
  /\ setze(v, "bestaetigen", altesPW)
  /\ UNCHANGED <<felder, dienst, angemeldet, Pin, pinGefragt, meldung, offen,
                 abgestuerzt, geprueft>>

\* The answer to fetchProviders: the new password is taken from its field.
anbieterAntwort(v) ==
  /\ ~abgestuerzt
  /\ kette[v].schritt = "anbieter"
  /\ \/ /\ konto = "password"
        /\ setze(v, "aendern", neuesPW1)
        /\ UNCHANGED meldung
     \/ /\ frei(v)
        /\ zeige("fehler")
  /\ UNCHANGED <<felder, dienst, angemeldet, Pin, pinGefragt, offen,
                 abgestuerzt, geprueft>>

\* The service takes the new password; it refuses an empty one.
DienstAendert(v) ==
  /\ kette[v].schritt = "aendern"
  /\ kette[v].wort \in Wort
  /\ passwort' = kette[v].wort
  /\ gesetzt' = gesetzt \cup {kette[v].wort}
  /\ setze(v, "geaendert", kette[v].wort)
  /\ UNCHANGED <<felder, konto, angemeldet, Pin, pinGefragt, meldung, offen,
                 abgestuerzt, geprueft>>

\* Slip: an error of updatePassword is not shown.
aendernAntwortStumm(v) ==
  /\ ~abgestuerzt
  /\ kette[v].schritt \in {"aendern", "geaendert"}
  /\ IF kette[v].schritt = "geaendert" THEN setze(v, "bestaetigen", altesPW)
                                       ELSE frei(v)
  /\ UNCHANGED <<felder, dienst, angemeldet, Pin, pinGefragt, meldung, offen,
                 abgestuerzt, geprueft>>

\* The answer to updatePassword.  It may be an error although the service
\* took the password.  Without a current user the address is nil.
aendernAntwort(v) ==
  /\ ~abgestuerzt
  /\ \/ /\ kette[v].schritt = "geaendert" /\ angemeldet
        /\ setze(v, "bestaetigen", altesPW)
        /\ UNCHANGED <<meldung, abgestuerzt>>
     \/ /\ kette[v].schritt = "geaendert" /\ ~angemeldet
        /\ abgestuerzt' = TRUE
        /\ UNCHANGED <<kette, meldung>>
     \/ /\ kette[v].schritt \in {"aendern", "geaendert"}
        /\ frei(v)
        /\ zeige("fehler")
        /\ UNCHANGED abgestuerzt
  /\ UNCHANGED <<felder, dienst, angemeldet, Pin, pinGefragt, offen, geprueft>>

\* The answer to reauthenticate.  On an error, as for every password that is
\* no longer the account's, the pin is requested and compared at once; on
\* success the text of an error that is nil is shown.
bestaetigenAntwort(v) ==
  /\ ~abgestuerzt
  /\ kette[v].schritt = "bestaetigen"
  /\ \/ /\ kette[v].wort = passwort
        /\ abgestuerzt' = TRUE
        /\ UNCHANGED <<kette, pinGefragt, meldung>>
     \/ /\ angemeldet
        /\ frei(v)
        /\ pinGefragt' = TRUE
        /\ zeige(IF pin = Pin THEN "erfolg" ELSE "pin")
        /\ UNCHANGED abgestuerzt
     \/ /\ ~angemeldet
        /\ abgestuerzt' = TRUE
        /\ UNCHANGED <<kette, pinGefragt, meldung>>
  /\ UNCHANGED <<felder, dienst, angemeldet, Pin, offen, geprueft>>

\* The pin arrives; its observer stays.
getPin ==
  /\ ~abgestuerzt /\ pinGefragt
  /\ Pin' = "richtig"
  /\ UNCHANGED <<felder, dienst, angemeldet, pinGefragt, kette, meldung, offen,
                 abgestuerzt, geprueft>>

\* "Ok" below an alert.  After "Erfolgreich" the user is signed out (which
\* may fail) and the view is left.
alertOk ==
  /\ ~abgestuerzt /\ meldung # "keine"
  /\ meldung' = "keine"
  /\ \/ /\ meldung = "erfolg"
        /\ angemeldet' \in {FALSE, angemeldet}
        /\ offen' = FALSE
     \/ /\ meldung # "erfolg"
        /\ UNCHANGED <<angemeldet, offen>>
  /\ UNCHANGED <<felder, dienst, Pin, pinGefragt, kette, abgestuerzt, geprueft>>

abbrechenPW ==
  /\ bedienbar
  /\ offen' = FALSE
  /\ UNCHANGED <<felder, dienst, angemeldet, Pin, pinGefragt, kette, meldung,
                 abgestuerzt, geprueft>>

\* The service ends the session.
SitzungEndet ==
  /\ angemeldet
  /\ angemeldet' = FALSE
  /\ UNCHANGED <<felder, dienst, Pin, pinGefragt, kette, meldung, offen,
                 abgestuerzt, geprueft>>

Antwort(v) == anbieterAntwort(v) \/ aendernAntwort(v) \/ bestaetigenAntwort(v)

PasswortNext ==
  \/ tippen \/ getPin \/ alertOk \/ abbrechenPW \/ SitzungEndet
  \/ \E v \in Vorgang : speichernPW(v) \/ DienstAendert(v) \/ Antwort(v)

PasswortSpec == PasswortInit /\ [][PasswortNext]_passwortVars

(***************************************************************************)
(* Properties.                                                             *)
(***************************************************************************)

\* What the last closure says, it says after the change: "Erfolgreich: Dein
\* Passwort wurde aktualisiert" only when the account has a password that
\* this view set, and the error about the pin when the service has already
\* taken a new one, since the pin is compared after updatePassword.
MeldungNachAenderung ==
  /\ meldung = "erfolg" => passwort \in gesetzt
  /\ meldung = "pin" => gesetzt # {}

\* While the session lasts, the process only ends (force-unwrap of a nil
\* error, line 54) when what stood in the field for the old password was a
\* password that a chain had just set.
AbsturzNurMitNeuem ==
  abgestuerzt /\ angemeldet =>
    \E v \in Vorgang : kette[v].schritt = "bestaetigen" /\ kette[v].wort \in gesetzt

\* No accepted tap on "Speichern" goes unanswered: whichever of the nested
\* closures ends its chain, an alert is on screen then (its own, or that of
\* another chain), unless the view has been left.
JederAuftragBeantwortet ==
  [][\A v \in Vorgang :
       (kette[v] # Ruhe /\ kette'[v] = Ruhe) => meldung' # "keine" \/ ~offen]_passwortVars

\* A password that was never repeated is set only if it was typed between
\* the tap and the first answer: the field is read again after the answer
\* (anbieterAntwort), the comparison is not made again.
NurVerglicheneGesetzt == gesetzt \subseteq geprueft
=============================================================================
