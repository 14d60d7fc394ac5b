# SMOLO+ for waiters: a TLA+ verification project

SMOLO+ is the iPad app with which the waiters of a bar work on the orders that
guests send from their phones. The app is written in Swift
(`src/SMOLO+/SMOLO+`, about 7100 lines); all data lives in a Firebase Realtime
Database, whose client is vendored under `src/SMOLO+/Pods`. This directory holds
TLA+ models of every part of it that keeps state: the lists of orders, the
status of an order in the database, the folding of a record into a list, the
filter, the bill, the menu, the traffic light, login, and the change of the
password. TLC checks them on small instances; TLAPS proves every safety property
that holds, for any number of orders, devices, accounts and requests, and for
records and menus of any shape. Liveness is model-checked only.

Names in the modules are those of the code, German where the code is German.

## 1. Inventory

### Parts, their state and their operations

| part | state | operations |
|---|---|---|
| **New orders** `KellnerVC` | `bestellungIDs` (noted keys), dictionaries of loaded records (`BestellungKategorien` ...), `Bestellungen` (sections), the rows the table view drew | `loadBestellungenKeys`, `loadBestellungen`, `reload`, `annehmen`/`removeBestellung`, `toggleSection`, pull to refresh |
| **Dialogs** of `KellnerVC` | `problemSection`, `viewBestellungID`, the dialog on screen | swipe "Problem", swipe "umbuchen", send, move, cancel |
| **Accepted orders** `KellnerAngenommenVC` | as `KellnerVC` | as `KellnerVC`; `removeBestellung2` |
| **Status in the database** | `Bestellungen/<Bar>/<id>/Information/Status`, `userBestellungen/<KellnerID>/<id>/Status`; on every device a cache and a queue of writes | guest sends; waiter accepts, finishes; server applies; process ends |
| **Folding a record** `loadBestellungen` | nested arrays per order: categories, subcategories, items, extras; `extrasString`, `extrasPreis` | one branch for each of: first or later category, first or further subcategory |
| **Bill** `FertiggestelltVC` | `TischnummerIDs`, `BestellungenFertig`, `BestellungenBezahlen`, `tischnummerBezahlen`, `trueSection` | `BestellungenZusammenführen`, select a row, deselect, select all, search, reload |
| **Filter** `DetailKatVC`, `FilterCell` | `DropDownKats` (ticked categories), `IDfilter`, a further copy of the list's dictionaries | `getKategorien`, `loadBestellungenKeys`, `loadBestellungen`, tick, "Filtern", pull to refresh |
| **Menu** `ProdukteVC`, `produktCell` | `Kategorien`, dictionaries per category, `sections`; in every cell a copy of all sections; `cellIndexPathSection` | `getKategorien`, `getUnterKategorienItems`, open a category or a subcategory, switch an item |
| **Password** `PasswortVC` | four text fields, `Pin`, the alert on screen | `speichernPW` with its three nested closures, `getPin`, `abbrechenPW` |
| **Traffic light** `DetailEinstellungenVC`; `loadampel` of the lists | four limits in the database, four text fields, the limits each list colours by | the value event, edit, `updateAmpel`, the colour of a header |
| **Login** `LoginVC`; logout of `EinstellungenVC` | the user signed in, the requests under way, observers of the waiter's record, what is presented | log in, its three answers, log out, reset of a forgotten password |
| All orders `KellnerAlleBestellungenVC` | a further copy of the list | none: no scene and no code refers to it |
| Navigation, cells, headers, fonts | none that outlives a redraw | layout |

### How they interact

There is one thread that matters: callbacks of the database client and touches
all run on the main queue, one after another, but in an order nobody controls.
A list registers a *child-added* observer on the index
`userBestellungen/<KellnerID>`; for each key with the wanted Status it requests
the record `Bestellungen/<Barname>/<id>` once, and when as many records are
loaded as keys are noted it builds its sections and redraws. Accepting or
finishing an order writes its Status twice (record and index) and reloads the
list; the lists of different tabs and devices meet only in the database. So do
the settings page and the two lists, which all observe the record
`Ampelregel`, and the menu page and the guests, who read what it switches. The
login hands account and bar to the lists once, when it opens them.

### What is hard

* answers arrive after the state they were requested for is gone (`reload`
  cancels nothing and removes no observer);
* the table view shows what was drawn last, the handlers index what is stored
  now;
* two independent writes per Status, several devices, no reading before
  writing, no persistence of unsent writes;
* one fold written out four times with a scratch array that belongs to the
  list, not to the call;
* payment state kept under section numbers that change when the list is built
  again;
* chains of nested requests (password, login, reset) that read text fields or
  the signed-in user anew after each answer, and that a second tap starts again;
* observers that are never removed and act for whoever is signed in later;
* copies of the menu in every cell, handed back to the page as a whole, and
  taps carried out for the cell drawn last;
* four writes of one save, three of them under the same key, each of which
  comes back as an event of its own into the form being edited.

`PROJECT.json` lists each of these hazards with its line and its properties.

### What makes each part correct

* lists: a list on screen shows every noted order once and whole; a tap reaches
  the order that was drawn; the force-unwraps of the completion find their
  entries; new orders get drawn;
* dialogs: report and table change concern the order that was swiped;
* status: an order goes from sent to accepted to finished in both copies, and
  the guest's copy is never behind the waiter's;
* fold: the arrays mirror the record, nothing of one order ends in another, and
  the price shown is the price of the record;
* bill: no row is paid more often than its amount, the first list built is the
  bill of the noted orders, and the lookups by section number succeed;
* password: every tap is answered, and the answer says what happened;
* menu: the page has every item where the menu has it, a tap switches the item
  shown, page and database agree;
* traffic light: form and lists end up with what the database holds, an older
  order never looks fresher;
* login: the pages opened are those of the waiter who logged in, and he gets
  there;
* filter: what is ticked is gathered, what is kept per order stays bounded, and
  what ends the process.

## 2. Modules and the code they model

    Bestellliste            client + state of a list   (no Next of its own)
      |- Bestellliste_proofs   lemmas for both lists
      |- KellnerVC          new orders
      |    `- KellnerDialoge   its two dialogs - KellnerVC_proofs
      `- KellnerAngenommenVC   accepted orders - KellnerAngenommenVC_proofs
    Lebenszyklus            abstract: life cycle of an order
      `- Auftragsstatus     two copies of the Status, devices, server
    Ladevorgang             folding a record   - MCLadevorgang
      `- Auftrag_proofs     proofs about the status and the fold
    Abrechnung              the bill           - MCAbrechnung
    Produkte                the menu           - MCProdukte
      `- Seiten_proofs      proofs about the bill and the menu
    Ampel                   limits, form and colours - Ampel_proofs
    Filter                  the filter         - Filter_proofs
    Anmeldung               login, logout, forgotten password
    Passwort                changing the password
      `- Zugang_proofs      proofs about login and password

Auftrag_proofs, Seiten_proofs and Zugang_proofs each extend two modules;
Ladevorgang, Produkte and Passwort therefore carry their own name in `Init`,
`Next` and `Spec` (`LadeSpec`, `ProdukteSpec`, `PasswortSpec`), and the traps of
the last two are `falle` and `abgestuerzt`.

**Bestellliste** holds the client as the lists use it. `hauptschlange` is the
main queue. A change raises its child-added events together, sorted by key and
for one key in the order of registrations (`FEventGenerator.m`), so a block
"keys" is a set of which the least element runs next. `unterwegs` holds, for
each record, the single-event observers waiting for it; `Antwort` serves all of
them, as the client does. `registrierungen` counts observers, which only grow.
Of the dictionaries two things are kept: how often a record was folded into
those that every record with a category enters (`kopien`; 0 is a missing entry,
orders in `Leer` never get one), and which orders have no entry in one of the
others (`luecken`), such as the two of the extras, first written at
`KellnerVC.swift` 482 and 483. `Sauber` are the orders whose records have all
that the fold unwraps. Of any other record, and of every record after one of
them (`unsauber`: a rest of its extras may wait in `extrasString`), nothing is
assumed: its fold may trap (`FaltungTrap`), may leave a gap (`lueckenNach`) or
may go well. `tafel` is what the table view last drew. A trap ends the
process (`absturz`): "nil" a failed force-unwrap, "index" an index past the
end, "tabelle" the exception UIKit throws when a partial update changes the
number of sections, "pfad" the exception the client throws for an empty key.
`fremd` is a history variable: a record requested before the last reload landed
after it. It is only read by properties.

**KellnerVC** and **KellnerAngenommenVC** add the handlers, one action per
closure or handler. They differ in the Status they want and write, and in one
line: `KellnerVC.loadBestellungen` empties the sections when it requests a
record (line 94), `KellnerAngenommenVC` does not. `reload` is a sub-action of
`annehmen` and of `refreshOptions`, as in the code. `Abschluss` is the end of
the closure: the loop over the noted keys unwraps the entry of each in every
dictionary, and either appends all sections and redraws at the one moment the
counts agree, or traps at a key that is not loaded or has a gap. In KellnerAngenommenVC
no row is ever drawn without its section (property `TafelGedeckt`), so its
`annehmen` has no failing alternative.

**KellnerDialoge** puts the dialogs on top of KellnerVC. While one is open no
touch reaches the list, but callbacks do. Texts are abstracted to empty or not.
The loop that copies the items of a report counts subcategories where it should
count items (`KellnerVC.swift` 586); whether it runs past the end depends on
the order's shape, which is not modelled, so both happen.

**Auftragsstatus** models the Status alone, with several devices. A device
queues two writes per change (`ausstehend`), sees its own writes at once
(`Sieht`), and loses them when the process ends. The lists are reduced to the
orders they may offer (`neu`, `inArbeit`): an order enters when the list sees it
with the wanted Status and leaves at a reload. With `Veraltet` a reload may
leave any order on offer, which covers events queued before the reload; a list
may offer less than the set says, so this over-approximates the lists and what
is proved holds for them. **Lebenszyklus** is the abstract specification,
instantiated once for each copy of the Status.

**Ladevorgang** walks a record node by node. `ort` is the place its loops have
reached (`Folgender` is the next one: for a subcategory first all items, then
the extras of all items). `zweig` says which of the four
branches of the closure the current subcategory takes; each branch has its own
action for items and for extras. Of the six item dictionaries, which are
written together in every branch, one is kept; of the two dictionaries of
extras both, because one branch treats them differently. `teilPreis` and
`gesamtpreisBerechnen` are operators on the finished arrays, compared with the
price summed over the record itself (`GesamtpreisStimmt`). The lists
reduce this fold to a counter, the set `luecken` and whether it may trap; for
which records it neither traps nor leaves a gap is what this module shows
(property `ExtrasWieImDatensatz`), and what `Sauber` stands for there.

**Abrechnung** models the bill. Sections and rows are numbered from 1 instead
of 0. Observers report keys one at a time (`schluesselGemeldet`), each with the
table the *index* has for the order (`TischIndex`), which is noted in
`TischnummerIDs`; records land one at a time (`bestellungGeladen`), each with the
table the *record* has then, which may be another, since rebooking writes only
the record (`KellnerVC.swift` 623). A reload may come in between: the requests
under way become `veraltet`, and `fremd` remembers, as in the lists, that one of
them landed after it. The order in which keys and answers come is left open,
which includes the orders the client's queue allows. A second fold of a record
leaves its rows in any arrangement (`Gefaltet`), and any fold may trap
(`FaltungTrap`): no record is trusted here. The order of the tables is that of a Swift dictionary, so any (`SetToSeqs`). The bill has no
payment yet: `auswahlBezahlenTapped` only prints, and `removeBestellung3` is
reached by no cell. A table number is assumed not to be empty. The loops over
orders and sections are recursive functions of the position (`AlleMengen`).

**Passwort** follows each tap on "Speichern" as a chain in `kette`: the request
under way and the word it carries, which is what the fields held when the
closure before it ran. What the service does (`DienstAendert`) is apart from its
answer, because an answer may be lost or late. Every closure may also get an
error. UIKit drops an alert while another is on screen (`zeige`). An account has
at least one kind of login; only accounts by password get past the first answer.
`geprueft` and `gesetzt` are history variables that only properties read.

**Ampel** has the record with its four limits, the writes this device has not
sent, and the events on the main queue. An event carries the record as it was
when it was raised (`Sicht`: the server's copy under the unsent writes) and the
observers it is for; the page's observer stays when the page is left. Numbers
keep what matters of them: seconds are shown as whole minutes (`Anzeige`), a
field may be empty or no number, and `Int()` traps beyond `IntMax`.
`Schreibfolge` is the order and the keys of the four writes of `updateAmpel`,
`Schreibe` one of them: skipped for an empty field, a trap for a text that is no
number, else a write whose event carries what the device then sees.
`Farbe` is the colour of a header as the three tests in sequence leave it. The
times of orders are ages here; the clock is not modelled.

**Produkte** loads the menu category by category. An item is named by category,
subcategory and place, and `Einordnen` is the comparison of two lengths that
sorts it into an array; `EinordnenAlle` is the loop over an entry and
`ItemsNachUnterkategorie` the one over a category. `zelle` holds the copy of all
sections that each cell got when it was drawn, `cellIndexPathSection` the
section drawn last: a tap is carried out by the page for that one. `InsBild` is
a cell that comes into sight by itself. `beruehrt` and `fehlgriff` are history
variables. A tap that writes to a place the menu does not have adds a stray
record there; such a record is not loaded again (the page is not reopened then).
Keys are taken to be the names, as the code does when it writes; prices and
texts are left out.

**Anmeldung** follows each tap on "Login" through its answers: `signIn`, the
event on all waiters, and the observer of the waiter's record, which opens the
pages whenever it is told. Each closure asks anew who is signed in. UIKit
ignores a segue or an alert while the page presents something (`Praesentiere`).
The reset of a forgotten password is a second chain, with the address read
twice. The rules of the database are taken to let a signed-in account read what
the code reads. StartVC's hand-over of account and bar happens with the segue.

**Filter** is the tab that filters accepted orders. A record is its set of
categories; of it the ticked ones are kept (`kategorien`), in an order that does
not matter. Records answer in any order. The closure folds them with the text of
the lists, so a record outside `Sauber` may end the process, and so may one with
ticked categories after it (`heikel`). `erwartet` is a history variable: what
the last refresh or "Filtern" was to gather. The list is built from the orders
selected in `IDfilter`; the only value ever written there is false
(`DetailKatVC.swift` 112), so it stays empty, and opening and closing its
sections is left out.

Every handler is mapped to its lines in `PROJECT.json`.

## 3. Runs

| run | question | result |
|---|---|---|
| `kellner` | three orders, one without a category: list, taps and traps of the new orders; are new orders drawn | holds |
| `dialoge` | does a report reach the swiped order while the list changes | holds |
| `umbuchen` | does a table change reach the swiped order | **violated** |
| `angenommen` | the same questions as `kellner` for the accepted orders | holds |
| `status` | two devices, one order: both copies follow the life cycle | holds |
| `ladevorgang` | do the arrays, and the price computed from them, mirror the record | holds |
| `abrechnung` | amounts, section numbers and the bill, with keys, records and a reload in any order and orders rebooked | holds |
| `passwort` | what alerts and a trap say about the account; is every tap answered; which passwords are set | holds |
| `ampel` | do form and lists end up with what the database holds; what a save leaves there; colours | holds |
| `produkte` | loading of menus of any shape, taps, copies of the sections | holds |
| `anmeldung` | whose pages are opened; does a waiter get there; what ends the process | holds |
| `filter` | is what was ticked gathered; what is kept per order; what ends the process | holds |

**Bounds.** Two orders are the fewest with which a record can land for another
key, and with which sections can be swapped; `kellner` adds a third that never
loads. `MaxReload` = 2 in `angenommen` gives three observers, so that a record
can be older than one and than two reloads; with three orders and one reload
`kellner` has two. `MaxNeustart` = 1 gives a second launch, after a trap too
(`dialoge`, which runs on the same list, and `angenommen`). In `status` one
order suffices for TLC because no action relates two orders and the proofs
cover any number; `MaxOffen` = 4 lets a device queue both changes of an order.
The records of `ladevorgang` have up to two categories of two subcategories of
two items, which reaches the first and a further element in each branch; they
are folded once, two and three times in a row, and again after the record of
another order. In `abrechnung` one reload gives two observers, an order noted
twice and a record older than the reload; three taps and searches reach a row
tapped beyond its amount on either side, and a tap after a merge on top of a
merge (a search that empties the orders lets the next completion merge again). The two
tables are interchangeable and declared symmetric. `Sauber` has one of the two
or three orders in `kellner`, `angenommen` and `filter`, so that records of both
kinds meet, and all of them in the dialog runs. `passwort` runs two chains at once, so that
one chain's word can meet the other's change.

`ampel`: the minutes 1 and 101 lie on both sides of the default limits and of
`IntMax` = 6000, the least that admits the defaults (on the device it is
2^63 - 1); 90 seconds are no whole minute; two edits can fill or spoil two
fields, or one twice; one save and one change elsewhere meet in any order. The
ages are chosen below, between, on and above every limit that can arise.
`produkte`: seven menus, filled ones whose categories differ in shape so that a
wrong section can hit another item or none, and one for each place an empty
entry can be in; two visits, two taps, one cell drawn in between, one change
elsewhere. A page is reopened only when the answers to the last one are in.
`anmeldung`: two accounts, each a waiter of either bar or a guest, two attempts,
one changed record and one reset: the fewest with which one waiter's observer
meets another's login. `filter`: two orders with any categories, two categories
on the menu and one that is not, one "Filtern" and one refresh, hence up to
three observers.

No run checks for deadlock: the app may stop, by a trap, and a waiter may do
nothing.

**Fairness.** Only the machine is fair: the connection delivers the first data
and the records, and the main queue runs its blocks (`Fairness` in KellnerVC and
KellnerAngenommenVC; `ErsteDaten` and `loadampel` in Ampel; the answers in
Produkte; the answers and `Wertereignis` in Anmeldung). The main queue is a FIFO
that the system runs as long as the app is in the foreground; the client retries
its connection until it has one, and the authentication library answers every
request, with an error at the latest. Nothing is assumed of the waiter, the
guests, other devices, or the system's decision to end the process. Not even
that the server takes this device's writes: a device sees its own writes at
once. The properties that need fairness are `EinBeobachterZeigtAlles`,
`AngenommeneErscheinen`, `ListenHolenAuf`, `MenueErscheint` and
`KellnerKommtAn`.

**Type invariants.** `TypeOK` is checked in `kellner` and `status` and proved
for KellnerVC, KellnerAngenommenVC, Auftragsstatus, Filter, Passwort, Produkte,
Ampel and Anmeldung; that of Abrechnung is contained in the invariant its proofs
use, and so is that of Ladevorgang (`LadeTyp`). KellnerDialoge states its own
(`DialogTypeOK`) as documentation of its state.

### What the runs show

* `ListeVollstaendig`, `NeuesteAbschnitte`: a wrong completion needs a record
  that was requested before a reload and landed after it; without one, a list on
  offer is exact, whatever the records hold. A nil that is unwrapped, in the
  fold or in the completion loop (`KellnerVC.swift` 491,
  `KellnerAngenommenVC.swift` 501), needs such a record too, or one the fold is
  not made for: an order with an item that has no extras may have no entry in
  the dictionaries of extras, and then ends the process when the list is
  complete.
* `TippTrifft` and `TafelGedeckt`: although cells keep section numbers, no tap
  accepts or finishes an order other than the one drawn. In KellnerVC it may
  hit no section at all and trap; `RissNurBeimLaden` says when: while a noted
  record is on its way, and for good when an order is noted by two observers or
  its record is empty.
* `EinBeobachterZeigtAlles`: with one observer every new order is drawn. After
  a reload this fails, because the observers that stay note each later order
  once more and the counts never agree again. In KellnerAngenommenVC even
  without a reload only the orders accepted at the start are sure to be drawn
  (`AngenommeneErscheinen`): a later completion appends all keys behind the old
  sections and the number of sections passes the number of keys.
* `InformationVoraus`: because the record is written before the index and a
  device's writes keep their order, the guest never sees an order as unseen
  that the waiter's index has as accepted, whoever crashes when.
* `ItemsWieImDatensatz`: the four branches agree on items, also when an order is
  folded several times. `ExtrasWieImDatensatz`: extras agree for the records the
  branches are made for, but for the prices of the first subcategory, which
  stand in reverse (`KellnerVC.swift` 473), and none is left over. Other records
  are those with an item without extras, or with two extras on the first item of
  a further subcategory of a later category (283-293); what is left over there
  goes to the next item or the next *order*. An order that is folded again takes
  the branches for later categories already with its first one, so there one
  extra is the limit for the first category too (`wieder` in `Sauber`).
* `GesamtpreisStimmt`: for those records the total price never runs past the end
  of an array, also for an order folded several times. It charges every item
  with its own extra if each has exactly one and the first subcategory has one
  item; with more items there, an amount meets the extra price of another item.
* `RechnungVollstaendig`: the first merge since a reload is the bill of the
  noted orders, if no record older than the reload landed: no order is noted
  twice, the index table of each has a section, no table has two, and a section
  has every item of the noted orders whose record names its table, once. What
  this does not say the code does not do: an order rebooked to a table that no
  noted order has in the index is in no section (`FertiggestelltVC.swift` 144,
  169, 581), and an order whose record of before a reload lands after it
  may be folded twice and billed twice. When two observers report the same new order
  the counts never agree, and there is no merge at all.
* `BezahltBegrenzt`: every amount to be paid stays within the amount of its row,
  and the table on the right is the one its number says. The rows are the
  section's: where an order was appended twice, by a merge on top of a merge,
  its rows are there twice. `AbsturzNurNachWiederaufbau`: the lookups by section
  number succeed until the list is built a second time, and then they do not.
* `MeldungNachAenderung`: the success alert is only shown when this view set
  the password the account has; the alert about the pin, too, comes after a
  change, since the pin is compared after the new password was sent
  (`PasswortVC.swift` 47, 50). `AbsturzNurMitNeuem`: the closure for a
  confirmed password unwraps an error that is nil (54); while the session lasts
  this is reached only with the *new* password in the field for the old one,
  because the change comes before the confirmation. `NurVerglicheneGesetzt`:
  the fields are compared at the tap and the first is read again after an answer
  (39), so a word that was never repeated is set only if it was typed in
  between. `JederAuftragBeantwortet`: whichever closure ends a chain, an alert
  is on screen then, although UIKit drops an alert while another is shown.
* `FormularStimmt`, `ListenHolenAuf`: however saves and changes elsewhere
  overlap, the last event leaves the form and the lists with what the database
  holds. `LetztesFeldWirdRot`: three of the four writes of a save name the key
  "rot" (`DetailEinstellungenVC.swift` 104, 109, 114), so the first list turns
  red by the limit typed for the second list's yellow, and the second pair is
  never stored. `AbsturzErklaert`: a text that is no number, which only the two
  lower fields accept, or a number beyond `Int`. `FarbeMonoton`: an older order
  is never greener than a younger one, whatever the limits, ages equal to a
  limit apart, which have no colour.
* `LadenWieKarte`: with no empty entry every item is where the menu has it; an
  empty subcategory shifts the later ones, and `FalleErklaert` says that only
  such menus end the process while loading. `TippTrifft`: a tap on an item
  reaches it as long as no cell came into sight since its section was opened;
  after that it is carried out for the section drawn last
  (`ProdukteVC.swift` 77). `AbweichungErklaert`: page and database differ only
  by switches elsewhere and by opening a subcategory, which puts back the copy a
  cell was drawn with (50). `MenueErscheint`: unless a category is removed
  between its two requests or is empty, the menu appears.
* `RichtigeSeiten`, Anmeldung's `AbsturzErklaert`: the wrong account or bar, or
  the unwrapping of a user who is gone, needs a second attempt that overlaps
  the first, or a record that changes after the logout, because its observer
  stays (`LoginVC.swift` 174). `MailGeprueft`: the reset's mail goes to an
  address that was looked up, or to one typed while the answer was awaited.
  `KellnerKommtAn`: a login with the right password ends on the waiter's pages
  or with an alert.
* `AngekreuztesKommt`: what a refresh or "Filtern" was to gather of an accepted
  order is kept, asked for or about to be asked for, until a tick changes;
  answers to older requests, and a refresh that drops what is kept, lose nothing
  of it. `HoechstensJeBeobachter`: what is kept for an order grows by each
  observer. Filter's `AbsturzErklaert`: the process ends only by an order that
  was noted as accepted and that is read before the menu, has a category the
  menu no longer has (`DetailKatVC.swift` 142), or has a record that the
  unwraps of the fold (143-522, for instance 219) are not made for or that left
  extras behind for another.

### Finding

`umbuchen`: the action behind the swipe "umbuchen" does not note the order; the
table number is written to the order of the last Problem swipe
(`KellnerVC.swift` 546, 623).

Three further observations made while modelling have no run of their own. The
check that an order is still "versendet" before it is accepted is commented out
(`KellnerVC.swift` 512), so a second device can take a finished order back to
accepted; `Lebenszyklus` allows that step. The button that opens the
settings page both has an action that performs the segue and a show segue of its
own in the storyboard, so that the page is pushed twice. And the filtered list
never shows an order (see **Filter** in section 2).

## 4. Proofs

### The status of an order

`Auftrag_proofs` proves, for every finite or infinite set of orders and
devices, every bound on unsent writes and both values of `Veraltet`:

* `TypKorrekt`: `Spec => []TypeOK`;
* `GastSiehtFortschritt`: `Spec => []InformationVoraus`;
* `InformationImplementiert`, `UserImplementiert`: `Spec` implements
  `Lebenszyklus` under the two refinement mappings.

None of these is inductive alone: that a write arriving at the server is a legal
step depends on what the device knew when it queued it. The invariant `IInv`
(theorem `IInvGilt`) adds

* `Bekannt`: what a device has received, or offers, the server has in a Status
  at least as far in the life cycle;
* `Reihenfolge`: every queued write of the index has the write of the record
  that belongs to it before it in the queue, or that one has already arrived;
* `InArbeitGeschrieben`: an order on offer as accepted was accepted in both
  copies, or the writes that make it so are queued on the same device ahead of
  any write that finishes it.

The argument: new writes are appended with their companion, which keeps
`Reihenfolge` (lemmas `GedecktAnhaengen`, `GedecktVorn`); the server takes the
oldest write, so whatever the rest of the queue relies on is now on the server
(`GedecktTail`, `ServerSchritt`); writes of other devices only move the Status
forward in the sense the invariant uses (`GedecktMonoton`); and a process that
ends empties its queue and its offers together (`BeendenSchritt`). The
refinement then follows step by step (`InformationSchritt`, `UserSchritt`):
only `Senden` and `ServerSchreibt` change a copy, and the invariant says from
which Status. `IInv` was checked with TLC before it was proved.

The assumptions are the named ones of `Auftragsstatus` (`MaxOffen` a natural
number, `Veraltet` a Boolean).

### What the two lists share

`Bestellliste_proofs` holds lemmas on the client and the state of a list: types,
counting (`Anzahl(s, x)`, how often x occurs in a sequence, under append,
concatenation and tail), and the account `Konto`. The code compares two numbers,
keys noted and records loaded, and takes their equality for "everything is
there". Why that is right is the balance (`Bilanz`): unless a record of before a
reload landed after it (`fremd`), for every order what was folded in plus what
is still on its way (with the client or on the main queue, asked for since the
reload) is what was noted of it; for an order without a category it is at most
that. `AeraAlt` says that no request is ahead of the last reload. From the
balance, `Vollstaendig` concludes that equal counts mean every noted key loaded
once and none noted twice; it is a counting argument over any finite set of
orders.

### The fold of a record

`Auftrag_proofs` also proves all properties of the fold, for records with any
number of categories, subcategories, items and extras, and any sequence of
records, the same order folded several times and others in between:

* `ItemsKorrekt`: `LadeSpec => []ItemsWieImDatensatz`, from `LadeInv`;
* `ExtrasKorrekt`: `LadeSpec => []ExtrasWieImDatensatz`, from `ExtrasInv`;
* `GesamtpreisKorrekt`: `LadeSpec => []GesamtpreisStimmt`, from `GesamtInv`.

The properties speak of moments between two records; in the middle of one the
arrays of categories, subcategories, items and extras have different lengths,
and it is by comparing these lengths that the branches find out where they are.
The invariants therefore describe the arrays at every place of the walk.

* `LadeInv`: `LadeTyp`; `FormInv`, which arrays are shorter by one than the
  others at the place the walk has reached, and that `zweig` is the branch meant
  for that place; `GenauInv`, for an order folded once, that the arrays are the
  record up to that place; and `ZahlInv`, how often an item stands in them:
  once for each fold that has visited it, wherever it was put.
* `ExtrasInv` adds the same for the extras while all records are of the kind the
  branches are made for: `ExtraInv` (no trap so far, `extrasString` holds just
  the extras visited of the current item, the lengths) and `GenauXInv` (names in
  the order of the items; prices too, reversed in the first subcategory).
* `GesamtInv` adds `StandInv`. Items and prices are flattened before they are
  paired, so an item and its price meet only if in *every* array before them
  items and groups are equal in number. `Stand` is that balance, corrected for
  the subcategory whose items are in and whose extras are still to come; it is
  needed because an order that is folded again puts first items and further
  items into different arrays, where no exact description is left.

What a step does is said once, without the four branches: `Schritte` reduces
each action to the visit of a category, a subcategory, an item or an extra,
`ItemHinzu` and `GruppeHinzu` say where an item and a group of extras go. The
total flattens three levels of arrays with `FlattenSeq`, which is recursive; its
equations are derived from induction over a set of numbers (see "Recursion over
the data"), and with them that flattening keeps pairs (`FlattenGepaart`) and
that sequences without empty entries flatten to no shorter ones
(`FlattenLaenge`).

The assumption is `EingabenAnnahme`: what is folded are records without an empty
node, and an order folded again has the same record. In the first attempt
`ExtrasWieImDatensatz` did not ask for the condition `wieder` above; the proof
failed there, and TLC showed the counterexample, an order folded twice, once the
run had records of that size. All invariants were checked with TLC before they
were proved.

### The list of new orders

`KellnerVC_proofs` proves, for any finite set of orders, any subset of empty
ones and any bounds on reloads and launches:

* `TypKorrekt`: `Spec => []TypeOK`;
* `TippGeltend`: `Spec => []TippTrifft`. Alone it is not inductive: a completion
  that finds as many sections as keys appends without redrawing, and would slide
  new sections under rows that have none. The strengthening `Reihenfolge` (with
  the types, `RInv`) says that rows and sections both follow the order in which
  the keys were noted: rows are drawn for noted keys only, and sections, while
  there are any, cover all noted keys;
* `ListeGeltend`: `Spec => []ListeVollstaendig`, from `VInv`, which joins the
  account, `RInv` and `GebautGenau` (sections were built when the counts agreed,
  once for each key, of records folded in once; and unless a record of another
  kind than `Sauber` was folded there is no gap and no nil was unwrapped). The
  account alone excludes a key that is not loaded, the second part one that has
  a gap;
* `RissGeltend`: `Spec => []RissNurBeimLaden`, from `VInv` as well: a key noted
  once, not empty and with nothing on its way is loaded (`Gelandet`), and if all
  are, the counts agreed and the list was built;
* `MeldungGeltend`: `DialogSpec => []MeldungTrifft`. While the report dialog is
  open, the section it noted is the number of the swiped order among the noted
  keys (`DialogNennt`); the dialog covers the list, so there is no reload and
  that number stays, while the sections are emptied and built again.

### The list of accepted orders

`KellnerAngenommenVC_proofs` proves for the second list, for the same range of
constants:

* `TypKorrekt`: `Spec => []TypeOK`;
* `GedecktGeltend`: `Spec => []TafelGedeckt`; with the types it is inductive,
  since sections only grow until a reload, which draws the table anew;
* `NeuesteGeltend`: `Spec => []NeuesteAbschnitte`, from `NInv`: the account,
  that only a record of another kind than `Sauber` leaves a gap (`Luecken`), and
  that the newest sections are those of the noted keys whenever the counts
  agree.

Both rest on the assumptions of `Bestellliste`, the second also on
`FertigAnnahme` (the Status this list writes is one of the Status values).

### The change of the password

`Zugang_proofs` proves all of the run's properties for any set of passwords
and any number of chains at once, from `WortAnnahme` alone:

* `PasswortTypKorrekt`: `PasswortSpec => []PasswortTypeOK`;
* `MeldungGilt`, `AbsturzGilt`: `PasswortSpec => []MeldungNachAenderung` and
  `PasswortSpec => []AbsturzNurMitNeuem`. The alerts are shown by chains, so the
  invariant `AInv` adds `Gewechselt`: a chain past `updatePassword` means that
  the service has taken a password, and then the account has one it took;
* `VergleichGilt`: `PasswortSpec => []NurVerglicheneGesetzt`. The comparison is
  three closures away from the change; `Verglichen` carries it along: while a
  chain waits for its first answer the first field holds a compared word or
  none, and so does every request to change the password;
* `AntwortGilt`: `PasswortSpec => JederAuftragBeantwortet`, an action property.
  A chain that goes on is not at rest (`WeiterIstNichtEnde`), one that ends
  shows an alert or finds one on screen (`GezeigtIstBeantwortet`).

### The filter

`Filter_proofs` proves all of the run's properties, for any finite set of
orders, any menu and any number of refreshes and taps on "Filtern":

* `TypKorrekt`: `Spec => []TypeOK`;
* `AbsturzErklaerbar`: `Spec => []AbsturzErklaert`, from `AInv`: a record is
  only asked for after its order was noted (`Befragt`), which `IDfilter` never
  forgets, and a rest of extras is of a noted order outside `Sauber` (`Rest`);
* `AngekreuztesKommtAn`: `Spec => []AngekreuztesKommt`. `KommtInv` says the same
  of any order that is expected (`Erreichbar`) and adds that the expected
  categories are ticked and in the record, which an answer then finds; the step
  from event to request and from request to entry (`KommtKey`, `KommtLaden`)
  never leaves a gap between them, and a new observer is told of every accepted
  order (`KommtBeobachter`);
* `ZahlGeltend`: `Spec => []HoechstensJeBeobachter`. What is kept of a category
  is bounded only together with what may still be added: `Gezaehlt` says that
  copies kept, requests under way and events waiting for an order are together
  no more than the observers. An event becomes at most one request, an answer
  adds a ticked category at most once (`AngekreuzteEinmal`), a new observer is
  told of an order once (`VorhandeneEinmal`), and a new order, which every
  observer is told of, was unknown before (`Herkunft`).

### The traffic light

`Ampel_proofs` proves, for any limits and ages, any `IntMax` that admits the
default limits, and any number of edits, saves and changes elsewhere:

* `TypKorrekt`: `Spec => []TypeOK`;
* `FarbeGeltend`: `Spec => []FarbeMonoton`, a fact about `Farbe` for any two
  limits, ordered or not (`FarbeSteigt`);
* `SpeichernGeltend`: `Spec => []LetztesFeldWirdRot`. A save's writes may wait
  long, so the invariant (`GesehenWieEingegeben`) speaks of what the device
  *sees*, the record under its unsent writes, from the moment of the save;
* `FormularGeltend`: `Spec => []FormularStimmt`. Several events may wait, each
  with the record as it was when raised; `FormularFolgt` says that on an open
  page the last one waiting carries what the device sees now and is for the
  page, and that with none waiting the fields show it;
* `AbsturzGeltend`: `Spec => []AbsturzErklaert`. Unless some device has saved a
  limit beyond `Int`, none is in the record, in a write or in an event
  (`AllesKlein`), and the first two fields hold numbers (`FelderGeprueft`).

`Sicht` picks the last of a device's writes of a key. Its lemmas say what it is
after a further write (`SichtAnhang`), without writes (`SichtLeer`) and that the
server taking the oldest write changes nothing of it (`SichtServer`); that a
last write exists (`Groesstes`) follows from the well-foundedness of the subset
ordering on finite sets. A save is followed through its four updates one by one
(`SchreibeWirkung`).

### Login

`Zugang_proofs` also proves, for any accounts, bars and addresses and any number
of attempts at once:

* `TypKorrekt`: `Spec => []TypeOK`. That the observers stay within their bound
  needs a count (`Kosten`): every observer and every chain has cost an attempt;
* `MailGeltend`: `Spec => []MailGeprueft`; until the field is typed in, it holds
  what every chain has asked the service about (`FeldWieGefragt`);
* `SeitenGeltend`, `AbsturzGeltend`: `Spec => []RichtigeSeiten` and
  `Spec => []AbsturzErklaert`, from one invariant `SeitenInv` of three parts.
  `Herkunft`: observers, chains, events and pages are of accounts that were
  tried, and whoever is signed in once there is an observer was tried too.
  `Einzeln`: with one attempt at a time and no record changed there is one
  chain, or one event, or the pages are open, all of the account signed in.
  `Erster`: during the first attempt there is no other chain, so the user it
  signs in is still there when the waiters are asked for.

### Recursion over the data

The bill and the menu are computed by recursive functions over the positions of
a sequence. Induction over such functions cannot be cited from the library,
whose theorems take the property as an operator, so `Seiten_proofs` first
establishes it for a property given as a *set* of numbers. `Kleinstes`: a
nonempty set of numbers has a smallest member, because of the intervals from 0
to its members one contains no smaller one (the subset ordering on finite sets
is well-founded). `Induktion`: hence a set with 0, and with i whenever it has
i - 1, has all of 0..n. `RekursionGibtEs`: hence a function with the equations
of the recursion exists, which is what makes the `CHOOSE` behind a recursive
definition denote it. Everything below rests on these three.

### The bill

`Seiten_proofs` proves all of the bill's properties, for any finite set of
orders, any tables and item lists, and any number of merges:

* `BezahltKorrekt`: `Spec => []BezahltBegrenzt`. `TypInv` says that every
  section has payment amounts of the shape of its rows, and within them, under
  each number it has amounts for; the one section on the right is such a
  section, of the table it is named after (`RechtsTyp`); and that keys, records
  and dictionaries have their types (`LadeTyp`);
* `RechnungKorrekt`: `Spec => RechnungVollstaendig`, an action property.
  `LeerInv`: while there is no section no order was appended, so a first merge
  has the orders of this completion alone. `KontoInv`, unless an older record
  has landed: every loaded or awaited record is of a noted key (`Gedeckt`), and
  a key that is noted once is either still awaited and has no entry, or was
  folded once (`Einfach`). The code compares numbers; that equal numbers mean
  that no key is noted twice is a pigeonhole argument (`Abgezaehlt`). Then the
  amounts merged are those of the records, and the merge takes each noted table
  once (`SetToSeqs`) with the items of all orders of that table (`AlleMengen`);
* `AbsturzKorrekt`: `Spec => []AbsturzNurNachWiederaufbau`. `Ordnung` says why
  the lookups by section number succeed while the list was built at most once:
  each section stands at the number it was built with, no two are of one table,
  and the section on the right has amounts under the number its table has in the
  list and under the number drawn last (`trueSection`). The second merge appends
  sections at new numbers, and none of this is left.

### The menu

`Seiten_proofs` proves all of the menu's safety properties, for menus of any
number of categories, entries and items, empty ones included, and any number of
visits, taps, changes elsewhere and cells drawn in between:

* `ProdukteTypKorrekt`: `ProdukteSpec => []ProdukteTypeOK`. The invariant
  `SeiteInv` is stronger: it has the exact arrays. `LadeForm`: every noted
  category is noted once, and one still under way is not folded in, so that
  counting categories (as the code does) says which are there
  (`AlleNotierten`); `TafelForm`: there are no sections, or every category is
  folded in and the page and the copy in every cell have one section for each,
  with the arrays that loading computes;
* `LadenKorrekt`: `ProdukteSpec => []LadenWieKarte`. For a menu without an empty
  entry the fold puts item i of entry u at place i of array u: while an entry is
  read, the first item finds fewer arrays than entries and opens one, the others
  find as many and go into the last;
* `TippKorrekt`, `FalleKorrekt`: `ProdukteSpec => []TippTrifft` and
  `ProdukteSpec => []FalleErklaert`, from `OffenInv`: before a cell comes into
  sight by itself, only the section drawn last is open, on the page as in each
  copy, so the section a tap is carried out for is the one it was made in;
* `AbweichungKorrekt`: `ProdukteSpec => []AbweichungErklaert`, from `TreueInv`:
  the dictionaries agree with the database while the menu loads, and the
  sections do afterwards, but for the items in `beruehrt`.

The assumptions are the named ones of `Abrechnung` and `Produkte` (finitely
many orders, natural bounds, a menu that has a category). `SeiteInv`,
`OffenInv`, `TreueInv`, `TypInv`, `LeerInv`, `KontoInv` and `Ordnung` were checked with TLC
before they were proved.

### What is only model-checked

* Liveness (`EinBeobachterZeigtAlles`, `AngenommeneErscheinen`,
  `ListenHolenAuf`, `MenueErscheint`, `KellnerKommtAn`): reasoning from fairness
  is out of the prover's reach.
* `UmbuchungTrifft` is false; the run `umbuchen` shows the behaviour.

## 5. Not modelled

* `KellnerAlleBestellungenVC`: no scene of the storyboard and no code refers to
  it; its closures are a further copy of those of KellnerAngenommenVC.
* Navigation, static pages, layout, fonts: no state that outlives a redraw.
* Which finished orders the bill's index holds when: their set is fixed, each is
  reported once by each observer, at any time.
* The clock behind the age of an order, prices of the menu, texts.
* Two instances of the settings page at once (see Finding): both would observe
  and show the same record.
* The guest's app, the server and the authentication service are environment:
  what they do is taken from how the code uses them. The pods are third-party
  code; of the database client the models have what the app relies on.

## 6. Plan

The models are complete as far as section 5 says, and every safety property that
holds is proved. What could be improved is the proofs themselves: the lemmas on
counting, which Bestellliste_proofs and Filter_proofs both have, and those on
induction over sets, which Auftrag_proofs and Seiten_proofs both have, could
each go into one place.
