SPECIFICATION FairSpec
CONSTANTS
  ID = {1, 2}
  Leer = {}
  Sauber = {1}
  Status = {"versendet", "angenommen", "fertig"}
  MaxReload = 2
  MaxNeustart = 1
INVARIANTS
  TafelGedeckt
  NeuesteAbschnitte
PROPERTIES
  AngenommeneErscheinen
CHECK_DEADLOCK FALSE
