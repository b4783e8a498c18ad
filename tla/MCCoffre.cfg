CONSTANTS
  p1 = p1
  p2 = p2
  Nul = Nul
  Pieces = {p1, p2}
  Cles = {k1, k2}
  CleApi = k1
  Chiffrement = TRUE
  Refs = {r1, r2}
  RefApi = r1
  MaxIncidents = 1
  TailleTrame = 2
  Octets <- MCOctets
  Rang <- MCRang
  Locataires = {p1, p2}
  LocataireDe <- MCLocataireDe
SPECIFICATION Spec
CONSTRAINT Bornes
ACTION_CONSTRAINT SansDoublon
INVARIANTS
  VouteTypeOK
  PieceRecouvrable
  
  LigneScelleeVraie
  PlageExacte
  
  
  RestaurableFondee
  ConstatJuste
CHECK_DEADLOCK FALSE
