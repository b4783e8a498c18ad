CONSTANTS
  r1 = r1
  r2 = r2
  c1 = c1
  Enregistrements = {r1, r2}
  Categories = {c1}
  CategorieDe <- MCCategorieDe
  Debut <- MCDebut
  DernierJour = 2
  Tous = tous
  JoursPossibles = {1}
  DureeParDefaut = 0
  Plancher = 1
  PlancherLegal <- MCPlancherLegal
  Holds = {h1}
  Comptes = {u1}
  Demandes = {d1}
  Nul = nul
  Rapports = {k1}
  Appels = {a1, a2}
  PanneDisque = TRUE
  PanneAppel = TRUE
SPECIFICATION Spec
SYMMETRY Symetrie
INVARIANTS
  TypeOK
  HoldAnterieurRespecte
  DestructionFondee
  CertificatComplet
  CertificatAuJournal
