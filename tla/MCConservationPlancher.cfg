CONSTANTS
  r1 = r1
  c1 = c1
  c2 = c2
  Enregistrements = {r1}
  Categories = {c1, c2}
  CategorieDe <- MCCategorieDe
  Debut <- MCDebut
  DernierJour = 0
  Tous = tous
  JoursPossibles = {1, 2}
  DureeParDefaut = 3
  Plancher = 2
  PlancherLegal <- MCPlancherLegal
  Holds = {h1, h2}
  Comptes = {u1, u2}
  Demandes = {d1, d2}
  Nul = nul
SPECIFICATION Spec
SYMMETRY Symetrie
INVARIANT PlancherLegalTenu
