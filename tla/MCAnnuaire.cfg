CONSTANTS
  a1 = a1
  a2 = a2
  a3 = a3
  u1 = u1
  Cli = cli
  Comptes = {a1, a2, a3}
  Auteurs = {a1, a2}
  Natures = {"reinitialiser", "rattacher"}
  FormesDemandees <- MCFormes
  SynchroActive = TRUE
  RolesDonnes = {}
  CompteInitial <- MCCompteInitial
  SecretMax = 2
  Jetons = {}
  Requetes = {}
  Seuil = 2
  EchecsMax = 0
SPECIFICATION Spec
INVARIANT AnnuaireSansMotDePasse
