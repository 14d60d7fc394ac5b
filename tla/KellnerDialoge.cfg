SPECIFICATION DialogSpec
CONSTANTS
  ID = {1, 2}
  Leer = {}
  Sauber = {1, 2}
  Status = {"versendet", "angenommen"}
  MaxReload = 1
  MaxNeustart = 1
INVARIANTS
  MeldungTrifft
CHECK_DEADLOCK FALSE
