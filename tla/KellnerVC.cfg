SPECIFICATION FairSpec
CONSTANTS
  ID = {1, 2, 3}
  Leer = {3}
  Sauber = {1}
  Status = {"versendet", "angenommen"}
  MaxReload = 1
  MaxNeustart = 0
INVARIANTS
  TypeOK
  ListeVollstaendig
  TippTrifft
  RissNurBeimLaden
PROPERTIES
  EinBeobachterZeigtAlles
CHECK_DEADLOCK FALSE
