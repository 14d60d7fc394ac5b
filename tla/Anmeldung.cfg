SPECIFICATION FairSpec
CONSTANTS
  Konten = {k1, k2}
  Bars = {b1, b2}
  AmStart = {k1}
  Adressen = {"", "a"}
  Registriert = {"a"}
  Niemand = niemand
  Keine = keine
  MaxLogin = 2
  MaxFremd = 1
  MaxReset = 1
INVARIANTS
  RichtigeSeiten
  AbsturzErklaert
  MailGeprueft
PROPERTIES
  KellnerKommtAn
CHECK_DEADLOCK FALSE
