-------------------------------- MODULE Ampel --------------------------------
(***************************************************************************)
(* The traffic light of the order lists.  The record Ampelregel of a bar   *)
(* holds four limits in seconds, two for the list of new orders (gelb,     *)
(* rot) and two for the list of accepted ones (gelb2, rot2).  Both lists   *)
(* and the settings page (DetailEinstellungenVC.swift) observe it; the     *)
(* page shows whole minutes and writes what its fields hold.               *)
(*                                                                         *)
(* The client applies a write of this device at once, tells the observers, *)
(* and sends it; until the server has it, it covers what arrives from      *)
(* other devices.  An event carries the record as it was when raised and   *)
(* runs on the main thread later, between any two touches.                 *)
(***************************************************************************)
EXTENDS Integers, Sequences

CONSTANTS
  Minuten,      (* numbers a user types                                    *)
  Sekunden,     (* limits other programs write into the record             *)
  Alter,        (* ages of orders, in seconds                              *)
  IntMax,       (* largest value of Int (2^63 - 1 on the device)           *)
  MaxSpeichern, (* bound: saves on this device                             *)
  MaxFremd,     (* bound: changes of the record elsewhere                  *)
  MaxTippen     (* bound: edits of a field                                 *)

ASSUME MinutenAnnahme == Minuten \subseteq Nat
ASSUME SekundenAnnahme == Sekunden \subseteq Nat /\ Alter \subseteq Nat
ASSUME IntMaxAnnahme == IntMax \in Nat /\ IntMax >= 6000
ASSUME MaxAnnahme == {MaxSpeichern, MaxFremd, MaxTippen} \subseteq Nat

VARIABLES
  regel,         (* the record on the server; Fehlt where a key is absent  *)
  ausstehend,    (* writes of this device the server has not taken         *)
  verbunden,     (* the client holds the record                            *)
  ereignisse,    (* value events on the main queue                         *)
  seite,         (* the settings page: "zu", "offen" or "verlassen"        *)
  feld,          (* its four text fields                                   *)
  aktualisieren, (* its button is enabled                                  *)
  grenze,        (* limits the two lists colour by                         *)
  absturz,       (* the trap that ended the process, or "keiner"           *)
  speicherungen, (* saves so far                                           *)
  fremde,        (* changes elsewhere so far                               *)
  eingaben,      (* edits so far                                           *)
  getippt,       (* history: a field was edited since the last event       *)
  eingabe        (* history: the fields at the last save, while nothing    *)
                 (* has been changed elsewhere since                       *)

dbVars    == <<regel, ausstehend, verbunden>>
seiteVars == <<seite, feld, aktualisieren, eingaben, getippt>>
vars == <<dbVars, ereignisse, seiteVars, grenze, absturz, speicherungen,
          fremde, eingabe>>

Grenzen   == {"gelb", "rot", "gelb2", "rot2"}
Fehlt     == -1       \* no such key in the record
KeinText  == -1       \* an empty text field
KeineZahl == -2       \* a text that Double() does not read
Text      == Minuten \cup {KeinText, KeineZahl}
Keine     == [g \in Grenzen |-> Fehlt]
Leer      == [g \in Grenzen |-> KeinText]
Beobachter == {"listen", "seite"}

TypeOK ==
  /\ regel \in [Grenzen -> Nat \cup {Fehlt}]
  /\ ausstehend \in Seq([key: Grenzen, wert: Nat])
  /\ verbunden \in BOOLEAN
  /\ ereignisse \in Seq([an: SUBSET Beobachter,
                         regel: [Grenzen -> Nat \cup {Fehlt}]])
  /\ seite \in {"zu", "offen", "verlassen"}
  /\ feld \in [Grenzen -> Nat \cup {KeinText, KeineZahl}]
  /\ aktualisieren \in BOOLEAN
  /\ grenze \in [Grenzen -> Nat]
  /\ absturz \in {"keiner", "text", "int"}
  /\ speicherungen \in 0..MaxSpeichern /\ fremde \in 0..MaxFremd
  /\ eingaben \in 0..MaxTippen
  /\ getippt \in BOOLEAN
  /\ eingabe \in [Grenzen -> Nat \cup {KeinText}]

Init ==
  /\ regel \in {Keine} \cup {[Keine EXCEPT !.gelb = s] : s \in Sekunden}
  /\ ausstehend = <<>>
  /\ verbunden = FALSE
  /\ ereignisse = <<>>
  /\ seite = "zu"
  /\ feld = Leer
  /\ aktualisieren = FALSE
  /\ grenze = [g \in Grenzen |-> 0]
  /\ absturz = "keiner"
  /\ speicherungen = 0
  /\ fremde = 0
  /\ eingaben = 0
  /\ getippt = FALSE
  /\ eingabe = Leer

laeuft == absturz = "keiner"

\* Ampelmodel: a record gets the defaults for the keys it lacks.
Ampelmodel(r) ==
  [g \in Grenzen |-> IF r[g] # Fehlt THEN r[g]
                     ELSE IF g \in {"rot", "rot2"} THEN 6000 ELSE 3000]

\* The record r as a device sees it that has not sent its writes w.
Sicht(r, w) ==
  [g \in Grenzen |->
     LET eigene == {j \in DOMAIN w : w[j].key = g}
     IN IF eigene = {} THEN r[g]
        ELSE w[CHOOSE j \in eigene : \A k \in eigene : k <= j].wert]

\* Who is told of a change: the lists observe from the start, the page
\* since it was opened; leaving it removes no observer.
Registriert == {"listen"} \cup IF seite = "zu" THEN {} ELSE {"seite"}

Ereignis(r) == [an |-> Registriert, regel |-> r]

(***************************************************************************)
(* The database and the other devices.                                     *)
(***************************************************************************)

\* The first data arrives and is raised for every observer.
ErsteDaten ==
  /\ laeuft /\ ~verbunden
  /\ verbunden' = TRUE
  /\ ereignisse' = Append(ereignisse, Ereignis(Sicht(regel, ausstehend)))
  /\ UNCHANGED <<regel, ausstehend, seiteVars, grenze, absturz,
                 speicherungen, fremde, eingabe>>

\* The server takes the oldest write of this device; what the device sees
\* stays the same.
ServerNimmt ==
  /\ ausstehend # <<>>
  /\ regel' = [regel EXCEPT ![Head(ausstehend).key] = Head(ausstehend).wert]
  /\ ausstehend' = Tail(ausstehend)
  /\ UNCHANGED <<verbunden, ereignisse, seiteVars, grenze, absturz,
                 speicherungen, fremde, eingabe>>

\* Another device or the operator changes a limit.  The observers are told
\* if this device sees a difference.
FremdeAenderung(g, s) ==
  /\ fremde < MaxFremd
  /\ s # regel[g]
  /\ regel' = [regel EXCEPT ![g] = s]
  /\ ereignisse' =
       IF verbunden /\ Sicht(regel', ausstehend) # Sicht(regel, ausstehend)
       THEN Append(ereignisse, Ereignis(Sicht(regel', ausstehend)))
       ELSE ereignisse
  /\ fremde' = fremde + 1
  /\ eingabe' = Leer
  /\ UNCHANGED <<ausstehend, verbunden, seiteVars, grenze, absturz,
                 speicherungen>>

(***************************************************************************)
(* The value event.                                                        *)
(***************************************************************************)

\* Slip: the second red limit is shown from the first one.
AnzeigeVertauscht(a) ==
  [g \in Grenzen |-> (IF g = "rot2" THEN a["rot"] ELSE a[g]) \div 60]

\* What the page puts into its fields: whole minutes.
Anzeige(a) == [g \in Grenzen |-> a[g] \div 60]

\* Slip: the list of accepted orders keeps its limits.
UebernahmeOhneZweite(a) ==
  [g \in Grenzen |-> IF g \in {"gelb", "rot"} THEN a[g] ELSE grenze[g]]

\* What the lists take over: loadampel of KellnerVC the first two limits,
\* loadampel2 of KellnerAngenommenVC the other two.
Uebernahme(a) == a

\* The closures of loadampel and loadampel2.  A record that does not exist
\* changes nothing; Int() of a limit beyond its range traps in the page's.
loadampel ==
  /\ laeuft /\ ereignisse # <<>>
  /\ ereignisse' = Tail(ereignisse)
  /\ LET e == Head(ereignisse)
         a == Ampelmodel(e.regel)
         zuGross == \E g \in Grenzen : a[g] > IntMax
     IN /\ grenze' = IF "listen" \in e.an /\ e.regel # Keine
                     THEN Uebernahme(a) ELSE grenze
        /\ \/ /\ "seite" \notin e.an \/ e.regel = Keine
              /\ UNCHANGED <<feld, getippt, absturz>>
           \/ /\ "seite" \in e.an /\ e.regel # Keine /\ ~zuGross
              /\ feld' = Anzeige(a)
              /\ getippt' = FALSE
              /\ UNCHANGED absturz
           \/ /\ "seite" \in e.an /\ e.regel # Keine /\ zuGross
              /\ absturz' = "int"
              /\ UNCHANGED <<feld, getippt>>
  /\ UNCHANGED <<dbVars, seite, aktualisieren, eingaben, speicherungen, fremde,
                 eingabe>>

(***************************************************************************)
(* The settings page.                                                      *)
(***************************************************************************)

\* viewDidLoad: empty fields, the button off, one more observer, which is
\* told at once what the client already holds.
oeffnen ==
  /\ laeuft /\ seite = "zu"
  /\ seite' = "offen"
  /\ feld' = Leer
  /\ aktualisieren' = FALSE
  /\ getippt' = FALSE
  /\ ereignisse' =
       IF verbunden
       THEN Append(ereignisse, [an |-> {"seite"},
                                regel |-> Sicht(regel, ausstehend)])
       ELSE ereignisse
  /\ UNCHANGED <<dbVars, eingaben, grenze, absturz, speicherungen, fremde,
                 eingabe>>

\* Back in the navigation bar: the page is gone, its observer is not.
verlassen ==
  /\ laeuft /\ seite = "offen"
  /\ seite' = "verlassen"
  /\ UNCHANGED <<dbVars, ereignisse, feld, aktualisieren, eingaben, getippt,
                 grenze, absturz, speicherungen, fremde, eingabe>>

\* Slip: no field insists on digits.
tippenOhnePruefung(g, t) ==
  /\ laeuft /\ seite = "offen"
  /\ eingaben < MaxTippen
  /\ eingaben' = eingaben + 1
  /\ feld' = [feld EXCEPT ![g] = t]
  /\ getippt' = TRUE
  /\ UNCHANGED <<dbVars, ereignisse, seite, aktualisieren, grenze, absturz,
                 speicherungen, fremde, eingabe>>

\* shouldChangeCharactersIn: only the first two fields insist on digits.
tippen(g, t) ==
  /\ laeuft /\ seite = "offen"
  /\ eingaben < MaxTippen
  /\ eingaben' = eingaben + 1
  /\ g \in {"gelb", "rot"} => t # KeineZahl
  /\ feld' = [feld EXCEPT ![g] = t]
  /\ getippt' = TRUE
  /\ UNCHANGED <<dbVars, ereignisse, seite, aktualisieren, grenze, absturz,
                 speicherungen, fremde, eingabe>>

\* A field is left, or the page touched: the button follows the fields.
textFieldDidEndEditing ==
  /\ laeuft /\ seite = "offen"
  /\ aktualisieren' = \A g \in Grenzen : feld[g] # KeinText
  /\ UNCHANGED <<dbVars, ereignisse, seite, feld, eingaben, getippt, grenze,
                 absturz, speicherungen, fremde, eingabe>>

\* Slip: the accepted list's red limit is written last.
SchreibfolgeVertauscht ==
  << [feld |-> "gelb", key |-> "gelb"], [feld |-> "rot", key |-> "rot"],
     [feld |-> "gelb2", key |-> "rot"], [feld |-> "rot2", key |-> "rot"] >>

\* The four updates of updateAmpel in the order of the code: the field and
\* the key it is written under.  Three of them name the key "rot".
Schreibfolge ==
  << [feld |-> "gelb", key |-> "gelb"], [feld |-> "rot", key |-> "rot"],
     [feld |-> "rot2", key |-> "rot"], [feld |-> "gelb2", key |-> "rot"] >>

\* One of the four updates, on what the ones before it have left: a filled
\* field is written in minutes times 60, and observers are told if this
\* device sees a difference.  A text that is no number traps.
Schreibe(z, s) ==
  LET x == [key |-> s.key, wert |-> 60 * feld[s.feld]]
      w == Append(z.ausstehend, x)
      r == Sicht(regel, w)
      neu == verbunden /\ r # Sicht(regel, z.ausstehend)
  IN CASE z.absturz # "keiner" \/ feld[s.feld] = KeinText -> z
       [] z.absturz = "keiner" /\ feld[s.feld] = KeineZahl ->
            [z EXCEPT !.absturz = "text"]
       [] OTHER ->
            [ausstehend |-> w, absturz |-> "keiner",
             ereignisse |-> IF neu THEN Append(z.ereignisse, Ereignis(r))
                            ELSE z.ereignisse]

\* The button "Aktualisieren".  After a trap the client may still send what
\* was written before it.
updateAmpel ==
  /\ laeuft /\ seite = "offen" /\ aktualisieren
  /\ speicherungen < MaxSpeichern
  /\ speicherungen' = speicherungen + 1
  /\ LET z0 == [ausstehend |-> ausstehend, ereignisse |-> ereignisse,
                absturz |-> absturz]
         z1 == Schreibe(z0, Schreibfolge[1])
         z2 == Schreibe(z1, Schreibfolge[2])
         z3 == Schreibe(z2, Schreibfolge[3])
         z4 == Schreibe(z3, Schreibfolge[4])
     IN /\ ausstehend' = z4.ausstehend
        /\ ereignisse' = z4.ereignisse
        /\ absturz' = z4.absturz
        /\ eingabe' = IF z4.absturz = "keiner" THEN feld ELSE Leer
  /\ UNCHANGED <<regel, verbunden, seiteVars, grenze, fremde>>

Next ==
  \/ ErsteDaten \/ ServerNimmt
  \/ \E g \in Grenzen, s \in Sekunden : FremdeAenderung(g, s)
  \/ loadampel
  \/ oeffnen \/ verlassen \/ textFieldDidEndEditing \/ updateAmpel
  \/ \E g \in Grenzen, t \in Text : tippen(g, t)

Spec == Init /\ [][Next]_vars

(***************************************************************************)
(* The client and the main queue keep working; users are free.             *)
(***************************************************************************)
FairSpec == Spec /\ WF_vars(ErsteDaten) /\ WF_vars(loadampel)

(***************************************************************************)
(* The colour of a list header.                                            *)
(***************************************************************************)

\* Slip: the upper limit of yellow is not tested, and red is tested first.
FarbeOhneObergrenze(alter, gelb, rot) ==
  IF alter > gelb THEN "gelb"
  ELSE IF alter > rot THEN "rot"
  ELSE IF alter < gelb THEN "gruen" ELSE "keine"

\* viewForHeaderInSection: three tests, of which a later one wins.
Farbe(alter, gelb, rot) ==
  IF alter > rot THEN "rot"
  ELSE IF alter > gelb /\ alter < rot THEN "gelb"
  ELSE IF alter < gelb THEN "gruen" ELSE "keine"

Rang(farbe) == CASE farbe = "gruen" -> 1
                 [] farbe = "gelb" -> 2
                 [] farbe = "rot" -> 3

(***************************************************************************)
(* Properties.                                                             *)
(***************************************************************************)

\* An open page shows what the database holds: when no event is waiting
\* and nothing was typed after the last one, every field is the limit this
\* device sees, in whole minutes, whatever was written here and elsewhere
\* in between.
FormularStimmt ==
  (/\ laeuft /\ verbunden /\ seite = "offen"
   /\ ereignisse = <<>> /\ ~getippt
   /\ Sicht(regel, ausstehend) # Keine) =>
    \A g \in Grenzen :
      feld[g] = Ampelmodel(Sicht(regel, ausstehend))[g] \div 60

\* What a save leaves in the database once it is sent and nobody else has
\* written: the first yellow limit as entered, and as the first red limit
\* the last filled one of the fields for red, the second red and the second
\* yellow limit (DetailEinstellungenVC.swift 104, 109, 114).
LetztesFeldWirdRot ==
  ausstehend = <<>> =>
    /\ eingabe["gelb"] # KeinText => regel["gelb"] = 60 * eingabe["gelb"]
    /\ LET f == IF eingabe["gelb2"] # KeinText THEN "gelb2"
                ELSE IF eingabe["rot2"] # KeinText THEN "rot2" ELSE "rot"
       IN eingabe[f] # KeinText => regel["rot"] = 60 * eingabe[f]

\* The page's process ends only by a text that is no number in one of the
\* two fields that accept one, or by a limit too large for Int, which some
\* device has saved: digits alone, but for such a number, never end it.
AbsturzErklaert ==
  /\ absturz = "text" => \E g \in {"gelb2", "rot2"} : feld[g] = KeineZahl
  /\ absturz = "int" => \/ \E s \in Sekunden : s > IntMax
                        \/ \E m \in Minuten : 60 * m > IntMax
                                              /\ speicherungen > 0

\* An older order never looks fresher than a younger one, whatever limits
\* the list holds, also before they are loaded and when red is below
\* yellow; ages that equal a limit have no colour and are left out.
FarbeMonoton ==
  \A z \in {<<"gelb", "rot">>, <<"gelb2", "rot2">>} :
    \A a, b \in Alter \ {grenze[z[1]], grenze[z[2]]} :
      a < b => Rang(Farbe(a, grenze[z[1]], grenze[z[2]]))
                 <= Rang(Farbe(b, grenze[z[1]], grenze[z[2]]))

\* The lists catch up: again and again they colour by the limits the
\* database holds, unless there are none or the process has ended.
ListenHolenAuf ==
  []<>(\/ ~laeuft
       \/ Sicht(regel, ausstehend) = Keine
       \/ grenze = Ampelmodel(Sicht(regel, ausstehend)))
=============================================================================
