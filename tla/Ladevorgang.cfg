SPECIFICATION LadeSpec
CONSTANT Eingaben <- MCEingaben
INVARIANTS
  ItemsWieImDatensatz
  ExtrasWieImDatensatz
  GesamtpreisStimmt
CHECK_DEADLOCK FALSE
