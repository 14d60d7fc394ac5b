SPECIFICATION PasswortSpec
CONSTANTS
  Wort = {"a", "b"}
  Altes = "a"
  Vorgang = {1, 2}
INVARIANTS
  MeldungNachAenderung
  AbsturzNurMitNeuem
  NurVerglicheneGesetzt
PROPERTIES
  JederAuftragBeantwortet
CHECK_DEADLOCK FALSE
