SPECIFICATION Spec
CONSTANTS
  Auftrag = {1, 2}
  Tische = {t4, t7}
  Menge <- MCMenge
  MaxReload = 1
  MaxGriffe = 3
SYMMETRY Vertauscht
INVARIANTS
  BezahltBegrenzt
  AbsturzNurNachWiederaufbau
PROPERTIES
  RechnungVollstaendig
CHECK_DEADLOCK FALSE
