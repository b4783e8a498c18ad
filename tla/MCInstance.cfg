CONSTANTS
  r1 = r1
  c1 = c1
  c2 = c2
  Enregistrements = {r1}
  Categories = {c1, c2}
  CategorieDe <- MCCategorieDe
  Debut <- MCDebut
  DernierJour = 0
  Tous = tous
  JoursPossibles = {1, 2}
  DureeParDefaut = 3
  Plancher = 2
  PlancherLegal <- MCPlancherLegal
  Holds = {h1, h2}
  Comptes = {u1, u2}
  Demandes = {d1, d2}
  Nul = nul
  document1 = document1
  document2 = document2
  Versions = {1, 2, 3}
  Documents = {document1, document2}
  DocumentDefaut = document1
  Redacteurs = {d1, d2}
  Neant = nul
  entrant = entrant
  sortant = sortant
  categorie = categorie
  liste1 = liste1
  libelle1 = libelle1
  defaut = defaut
  Directions = {entrant, sortant}
  CategoriesAppel = {categorie}
  Vide = nul
  CleDefaut = defaut
  Tirage <- MCTirage
  Motifs <- MCMotifs
  Noms = {liste1}
  Libelles = {libelle1}
  TauxSaisis = {0}
  TauxPropose = 20
  Appels <- MCAppels
  NbListes = 2
  NbRegles = 2
  reseau = reseau
  annuaire = annuaire
  contenu1 = contenu1
  contenu2 = contenu2
  Sections = {reseau, annuaire}
  Secretes = {annuaire}
  Contenus = {contenu1, contenu2}
  Defaut = contenu1
  Recevables = {contenu1}
  k2 = k2
  Secrets = {k1, k2}
  Operateurs = {d1, d2}
  Aucun = nul
  VersionMax = 2
  Adresses = {h1, h2}
  Essais = {d1, d2}
  Max = 2
  Fenetre = 2
  MaxAdresses = 1
  HeureMax = 4
  MaxLibres = 1
  Aucune = nul
  tout = tout
  critere1 = critere1
  exports = exports
  systeme = systeme
  Consultables = {d1, d2}
  Recherches = {tout, critere1}
  SansCritere = tout
  Refusees = {}
  PagesDe <- MCPagesDe
  NbPages = 2
  MaxEnVol = 3
  Rien = nul
  Tout = tout
  LesExports = exports
  HorsPerimetre = systeme
  DuSysteme = FALSE
  Taille = 1
  MaxLignes = 2
  MaxEvenements = 3
  AucunePage = nul
  Utilisateurs = {d1, d2}
  NbPaires = 3
  NbAppels = 2
  Personne = nul
SPECIFICATION UnSujetSpec
SYMMETRY SymetrieDemandes
CONSTRAINT Bornes
INVARIANTS
  InstanceTypeOK
  EcheanceAnnoncee
  PolitiqueOpposable
  EnVigueurDerniere
  DecisionOpposable
  ReglageTenu
  LimitationTenue
  PagesTenues
  SessionTenue
PROPERTY LeveeDefinitive
