SPECIFICATION DialogSpec
CONSTANTS
  ID = {1, 2}
  Leer = {}
  Sauber = {1, 2}
  Status = {"versendet", "angenommen"}
  MaxReload = 1
  MaxNeustart = 0
INVARIANTS
  UmbuchungTrifft
CHECK_DEADLOCK FALSE
