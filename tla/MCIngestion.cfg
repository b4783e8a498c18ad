CONSTANTS
  Radicaux = {p1}
  Sons = {s1, s2}
  Nul = nul
  Chiffrement = TRUE
  PanneApresCreation = FALSE
  MaxIncidents = 2
SPECIFICATION FairSpec
INVARIANTS
  TypeOK
  PreuveIntacte
  AttestationFidele
  PurgeSansRetour
  RangeConserve
PROPERTIES
  RegistreTenu
  DepotTraite
