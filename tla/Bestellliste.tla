---------------------------- MODULE Bestellliste ----------------------------
(***************************************************************************)
(* What the order lists of the waiter app have in common: the Firebase     *)
(* client underneath them and the state a list view controller keeps.      *)
(*                                                                         *)
(* Every list observes userBestellungen/<KellnerID> for child-added        *)
(* events, remembers the keys whose Status it wants, requests the record   *)
(* Bestellungen/<Barname>/<key> of each of them once, and builds its       *)
(* sections when as many records have been loaded as keys were noted.      *)
(* Callbacks of the client and touches of the waiter all run on the main   *)
(* thread, one at a time, in an order nobody controls.                     *)
(*                                                                         *)
(* The module has no Next of its own: KellnerVC and KellnerAngenommenVC    *)
(* extend it with their handlers.                                          *)
(***************************************************************************)
EXTENDS Integers, Sequences, FiniteSets

CONSTANTS
  ID,           (* keys of this waiter's orders; Firebase sorts by key     *)
  Leer,         (* orders whose record holds no category                   *)
  Sauber,       (* orders whose record has all the fold unwraps: every     *)
                (* item has extras, the first item of a further            *)
                (* subcategory one (module Ladevorgang), no field missing  *)
  Status,       (* the values of Status an order can have                  *)
  MaxReload,    (* bound: how often the list is reloaded in one launch     *)
  MaxNeustart   (* bound: how often the app is launched again              *)

ASSUME IDAnnahme == ID \subseteq Nat /\ IsFiniteSet(ID)
ASSUME LeerAnnahme == Leer \subseteq ID
ASSUME SauberAnnahme == Sauber \subseteq ID \ Leer
ASSUME StatusAnnahme == /\ {"versendet", "angenommen"} \subseteq Status
                        /\ "keine" \notin Status
ASSUME GrenzenAnnahme == MaxReload \in Nat /\ MaxNeustart \in Nat

VARIABLES
  status,          (* Status of every order as this device sees it         *)
  verbunden,       (* the client holds the data of userBestellungen        *)
  registrierungen, (* child-added observers; none is ever removed          *)
  hauptschlange,   (* blocks the client has posted to the main queue       *)
  unterwegs,       (* outstanding single-event observers of every record   *)
  bestellungIDs,   (* keys noted since the last reload                     *)
  kopien,          (* how often a record was folded into the dictionaries  *)
                   (* BestellungKategorien etc.; 0 is a nil entry          *)
  luecken,         (* orders with a nil entry in another dictionary, that  *)
                   (* of the extras for one                                *)
  unsauber,        (* since the launch a record was folded that is not of  *)
                   (* the kind Sauber; extrasString may hold a rest of it  *)
  Bestellungen,    (* sections of the list                                 *)
  tafel,           (* sections as the table view last drew them            *)
  absturz,         (* the trap that ended the process, or "keiner"         *)
  neustarts,       (* launches so far, after the first                     *)
  fremd            (* history: since the last reload a record landed that  *)
                   (* had been requested before it                         *)

clientVars == <<status, verbunden, registrierungen, hauptschlange, unterwegs>>
listeVars  == <<bestellungIDs, kopien, luecken, unsauber, Bestellungen, tafel,
                fremd>>
vars == <<clientVars, listeVars, absturz, neustarts>>

(***************************************************************************)
(* Blocks on the main queue.  The child-added events one change raises are *)
(* posted together and run in key order, for one key in the order of the   *)
(* registrations: a block "keys" holds those not run yet, each a triple    *)
(* <<key, registration, Status in the snapshot>>.  A block "order" is the  *)
(* answer to one single-event observer, registered when the list had been  *)
(* reloaded aera - 1 times.                                                *)
(***************************************************************************)
Schluessel == ID \X (1..(MaxReload + 1)) \X Status
KeysBlock  == [art: {"keys"}, offen: SUBSET Schluessel]
OrderBlock == [art: {"order"}, id: ID, aera: 1..(MaxReload + 1)]
Abschnitt  == [BestellungID: ID, kopien: Nat, expanded: BOOLEAN]

Vorher(p, q) == p[1] < q[1] \/ (p[1] = q[1] /\ p[2] < q[2])

Melde(schlange, offen) ==
  IF offen = {} THEN schlange
                ELSE Append(schlange, [art |-> "keys", offen |-> offen])

Ereignisse(st, ids, regs) ==
  {p \in Schluessel : p[1] \in ids /\ p[2] \in regs /\ p[3] = st[p[1]]}

TypeOK ==
  /\ status \in [ID -> Status \cup {"keine"}]
  /\ verbunden \in BOOLEAN
  /\ registrierungen \in 1..(MaxReload + 1)
  /\ hauptschlange \in Seq(KeysBlock \cup OrderBlock)
  /\ unterwegs \in [ID -> Seq(1..(MaxReload + 1))]
  /\ bestellungIDs \in Seq(ID)
  /\ kopien \in [ID -> Nat]
  /\ luecken \subseteq ID
  /\ unsauber \in BOOLEAN
  /\ Bestellungen \in Seq(Abschnitt)
  /\ tafel \in Seq(Abschnitt)
  /\ absturz \in {"keiner", "nil", "index", "tabelle", "pfad"}
  /\ neustarts \in 0..MaxNeustart
  /\ fremd \in BOOLEAN

(***************************************************************************)
(* The Firebase client.                                                    *)
(***************************************************************************)
laeuft == absturz = "keiner"

\* observe(.childAdded): a further registration; what the client already
\* holds is raised for it at once, with the writes of this device applied.
observeChildAdded(st) ==
  /\ registrierungen <= MaxReload
  /\ registrierungen' = registrierungen + 1
  /\ hauptschlange' = IF verbunden
                      THEN Melde(hauptschlange,
                                 Ereignisse(st, ID, {registrierungen + 1}))
                      ELSE hauptschlange

\* observeSingleEvent(of: .value) on the record of one order.
observeSingleEvent(id) ==
  unterwegs' = [unterwegs EXCEPT ![id] = Append(@, registrierungen)]

\* The first data of userBestellungen arrives and is raised for every
\* registration made so far.
ErsteDaten ==
  /\ laeuft /\ ~verbunden
  /\ verbunden' = TRUE
  /\ hauptschlange' = Melde(hauptschlange,
                            Ereignisse(status, ID, 1..registrierungen))
  /\ UNCHANGED <<status, registrierungen, unterwegs, listeVars, absturz,
                 neustarts>>

\* The record of an order arrives: every observer waiting for it is served.
Antwort(id) ==
  /\ laeuft
  /\ unterwegs[id] # <<>>
  /\ hauptschlange' = hauptschlange \o
       [j \in 1..Len(unterwegs[id]) |->
          [art |-> "order", id |-> id, aera |-> unterwegs[id][j]]]
  /\ unterwegs' = [unterwegs EXCEPT ![id] = <<>>]
  /\ UNCHANGED <<status, verbunden, registrierungen, listeVars, absturz,
                 neustarts>>

(***************************************************************************)
(* The other clients of the database: the guest's app and the other        *)
(* devices and tabs of this waiter.                                        *)
(***************************************************************************)

\* A new order reaches this device.  It was sent as "versendet", but may
\* have been worked on elsewhere before this device hears of it.
NeueBestellung(id, s) ==
  /\ laeuft
  /\ status[id] = "keine"
  /\ status' = [status EXCEPT ![id] = s]
  /\ hauptschlange' = IF verbunden
                      THEN Melde(hauptschlange,
                                 Ereignisse(status', {id}, 1..registrierungen))
                      ELSE hauptschlange
  /\ UNCHANGED <<verbunden, registrierungen, unterwegs, listeVars, absturz,
                 neustarts>>

\* The Status of a known order changes elsewhere.  That is a child-changed
\* event, which no list observes; only the guest's app writes "versendet".
FremdeAenderung(id, s) ==
  /\ laeuft
  /\ s # "versendet"
  /\ status[id] \notin {"keine", s}
  /\ status' = [status EXCEPT ![id] = s]
  /\ UNCHANGED <<verbunden, registrierungen, hauptschlange, unterwegs,
                 listeVars, absturz, neustarts>>

(***************************************************************************)
(* The blocks the main thread runs next.                                   *)
(***************************************************************************)

\* The child-added event p is the first one on the main queue.
NaechsterSchluessel(p) ==
  /\ laeuft
  /\ hauptschlange # <<>>
  /\ Head(hauptschlange).art = "keys"
  /\ LET offen == Head(hauptschlange).offen
     IN /\ p \in offen
        /\ \A q \in offen \ {p} : Vorher(p, q)
        /\ hauptschlange' =
             IF offen = {p} THEN Tail(hauptschlange)
             ELSE [hauptschlange EXCEPT ![1].offen = @ \ {p}]

\* The answer b is the first block on the main queue.
NaechsteAntwort(b) ==
  /\ laeuft
  /\ hauptschlange # <<>>
  /\ Head(hauptschlange).art = "order"
  /\ b = Head(hauptschlange)
  /\ hauptschlange' = Tail(hauptschlange)

(***************************************************************************)
(* The state of a list.                                                    *)
(***************************************************************************)
geladen(k) == {id \in ID : k[id] > 0}

\* Folding the record of id once more: its categories and items.
gefaltet(id) == IF id \in Leer THEN kopien
                               ELSE [kopien EXCEPT ![id] = @ + 1]

\* Whether the fold of the record of id may meet a nil or end without an
\* entry for its extras: by its own shape, or by what an earlier record
\* left in extrasString.
heikel(id) == id \notin Leer /\ (unsauber \/ id \notin Sauber)

\* The orders with a nil entry after that fold.  The dictionaries of extras
\* get their entry with the first group of extras, and keep it.
lueckenNach(id) ==
  {luecken \ {id}} \cup
    {l \in {luecken \cup {id}} :
       heikel(id) /\ (kopien[id] = 0 \/ id \in luecken)}

\* The fold meets a nil.
FaltungTrap(id) ==
  /\ heikel(id)
  /\ absturz' = "nil"
  /\ kopien' = gefaltet(id)
  /\ UNCHANGED <<luecken, Bestellungen, tafel>>

\* Every noted key has its entry in each dictionary.
alleBelegt(k, l) ==
  \A i \in DOMAIN bestellungIDs : bestellungIDs[i] \in geladen(k) \ l

Abschnitte(ids, k) ==
  [i \in 1..Len(ids) |->
     [BestellungID |-> ids[i], kopien |-> k[ids[i]], expanded |-> FALSE]]

Init ==
  /\ status \in [ID -> {"keine", "versendet", "angenommen"}]
  /\ verbunden = FALSE
  /\ registrierungen = 1
  /\ hauptschlange = <<>>
  /\ unterwegs = [id \in ID |-> <<>>]
  /\ bestellungIDs = <<>>
  /\ kopien = [id \in ID |-> 0]
  /\ luecken = {}
  /\ unsauber = FALSE
  /\ Bestellungen = <<>>
  /\ tafel = <<>>
  /\ absturz = "keiner"
  /\ neustarts = 0
  /\ fremd = FALSE

\* The process ended, by a trap or by the system, and is launched again:
\* viewDidLoad registers the first observer of an empty list.
Neustart ==
  /\ neustarts < MaxNeustart
  /\ neustarts' = neustarts + 1
  /\ verbunden' = FALSE
  /\ registrierungen' = 1
  /\ hauptschlange' = <<>>
  /\ unterwegs' = [id \in ID |-> <<>>]
  /\ bestellungIDs' = <<>>
  /\ kopien' = [id \in ID |-> 0]
  /\ luecken' = {}
  /\ unsauber' = FALSE
  /\ Bestellungen' = <<>>
  /\ tafel' = <<>>
  /\ absturz' = "keiner"
  /\ fremd' = FALSE
  /\ UNCHANGED status

\* The process traps: nothing it still does is observed.
Trap(grund) ==
  /\ absturz' = grund
  /\ UNCHANGED <<status, verbunden, registrierungen, unterwegs, bestellungIDs,
                 kopien, luecken, unsauber, Bestellungen, tafel, neustarts>>

\* The table view asks for a row it has room for: the data source indexes
\* Bestellungen with the row's section.
Zeichne(i) ==
  /\ laeuft
  /\ i \in DOMAIN tafel
  /\ i > Len(Bestellungen)
  /\ Trap("index")
  /\ UNCHANGED <<hauptschlange, fremd>>

Umgebung ==
  \/ ErsteDaten
  \/ \E id \in ID : Antwort(id)
  \/ \E id \in ID, s \in Status : NeueBestellung(id, s)
  \/ \E id \in ID, s \in Status : FremdeAenderung(id, s)
=============================================================================
