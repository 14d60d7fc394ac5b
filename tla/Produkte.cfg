SPECIFICATION ProdukteFairSpec
CONSTANTS
  Karten <- MCKarten
  MaxBesuche = 2
  MaxAenderungen = 1
  MaxTipps = 2
  MaxZeichnen = 1
INVARIANTS
  TippTrifft
  AbweichungErklaert
  FalleErklaert
  LadenWieKarte
PROPERTIES
  MenueErscheint
CHECK_DEADLOCK FALSE
