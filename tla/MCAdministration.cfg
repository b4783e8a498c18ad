CONSTANTS
  a1 = a1
  a2 = a2
  a3 = a3
  u1 = u1
  Cli = cli
  Comptes = {a1, a2, a3}
  Auteurs = {a1, a2}
  Natures = {"modifier", "rattacher", "promouvoir", "revoquer"}
  FormesDemandees <- MCFormes
  SynchroActive = TRUE
  RolesDonnes = {}
  CompteInitial <- MCCompteInitial
  SecretMax = 1
  Jetons = {}
  Requetes = {}
  Seuil = 2
  EchecsMax = 0
SPECIFICATION Spec
SYMMETRY Symetrie
INVARIANTS
  AdminLocalReste
  AdminInstanceReste
CONSTRAINT DeuxALaFois
PROPERTY DernierConsigne
