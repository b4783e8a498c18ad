CONSTANTS
  Radicaux = {p1}
  Sons = {s1, s2}
  Nul = nul
  Chiffrement = TRUE
  PanneApresCreation = TRUE
  MaxIncidents = 1
SPECIFICATION Spec
SYMMETRY Symetrie
INVARIANT RangeConserve
