SPECIFICATION FairSpec
CONSTANTS
  Minuten = {1, 101}
  Sekunden = {90}
  Alter = {0, 30, 60, 75, 90, 5000, 6000, 6060, 7000}
  IntMax = 6000
  MaxSpeichern = 1
  MaxFremd = 1
  MaxTippen = 2
INVARIANTS
  FormularStimmt
  LetztesFeldWirdRot
  AbsturzErklaert
  FarbeMonoton
PROPERTIES
  ListenHolenAuf
CHECK_DEADLOCK FALSE
