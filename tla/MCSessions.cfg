CONSTANTS
  a1 = a1
  a2 = a2
  a3 = a3
  u1 = u1
  Cli = cli
  Comptes = {u1}
  Auteurs = {a1}
  Natures = {"creer", "reinitialiser"}
  FormesDemandees = {}
  SynchroActive = TRUE
  RolesDonnes = {"AUDITOR"}
  CompteInitial <- MCCompteInitial
  SecretMax = 1
  Jetons = {j1, j2, j3}
  Requetes = {q1, q2}
  Seuil = 2
  EchecsMax = 2
SPECIFICATION Spec
SYMMETRY SymetrieSessions
INVARIANTS
  TypeOK
  SessionsDuMotDePasse
  UneSessionParConnexion
  VerrouMerite
