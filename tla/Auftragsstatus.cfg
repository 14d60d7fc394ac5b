SPECIFICATION Spec
CONSTANTS
  Bestellung = {b1}
  Geraet = {g1, g2}
  MaxOffen = 4
  Veraltet = TRUE
INVARIANTS
  TypeOK
  InformationVoraus
PROPERTIES
  InformationFolgtLebenszyklus
  UserFolgtLebenszyklus
CHECK_DEADLOCK FALSE
