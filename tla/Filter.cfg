SPECIFICATION Spec
CONSTANTS
  ID = {1, 2}
  Karte = {k1, k2}
  Alt = alt
  Sauber = {1}
  MaxFiltern = 1
  MaxReload = 1
INVARIANTS
  AngekreuztesKommt
  HoechstensJeBeobachter
  AbsturzErklaert
CHECK_DEADLOCK FALSE
