--------------------------- MODULE IngestionProofs ---------------------------
(***************************************************************************)
(* The safety of ingestion, for any number of calls, contents, stops and    *)
(* failures.  The three invariants of the vault rest on what the pass knows *)
(* of the call it is working on (CibleInv): its locals, read before many    *)
(* awaits, still agree with the folders and the tables when they are used.  *)
(***************************************************************************)
EXTENDS Ingestion, TLAPS

Absente(p) == lignes[p].statut = "absente"
EnCours == balayage.pc \notin {"repos", "parcours"}
EnSceau == balayage.pc \in {"sceller", "basculer", "inscrire", "auditer"}

(* What the listing saw and the pass has not treated is still in the folder. *)
VusInv ==
  /\ \A p \in Radicaux : \A x \in balayage.vus[p] : depot[p][x] # Nul
  /\ EnCours => balayage.cible \in Radicaux /\ balayage.vus[balayage.cible] = {}

AvantDepart ==
  \/ balayage.pc = "chercher"
  \/ balayage.pc = "deplacer" /\ "wav" \in balayage.pieces

(* The file of the current call is where the pass believes it to be, with   *)
(* the audio its SHA-256 was computed on.                                   *)
CibleInv(p) ==
  /\ balayage.pc = "chercher" => balayage.pieces = Extensions
  /\ AvantDepart => balayage.sha \in Sons /\ depot[p].wav = Clair(balayage.sha)
  /\ balayage.pc = "deplacer" => Absente(p)
  /\ balayage.pc = "deplacer" /\ "wav" \notin balayage.pieces =>
       balayage.sha \in Sons /\ coffre[p].wav = Clair(balayage.sha)
  /\ EnSceau =>
       /\ <<p, "ingestion">> \notin attestes
       /\ balayage.sha \in Sons
       /\ lignes[p].statut = "stored"
       /\ lignes[p].sha = balayage.sha
       /\ coffre[p].wav # Nul
       /\ coffre[p].wav.son = balayage.sha
  /\ balayage.pc \in {"sceller", "basculer"} =>
       lignes[p].chiffre = FALSE
  /\ balayage.pc = "basculer" => provisoire[p] = Conteneur(balayage.sha)
  /\ balayage.pc = "inscrire" => coffre[p].wav = Conteneur(balayage.sha)
  /\ balayage.pc = "auditer" =>
       coffre[p].wav = [son |-> balayage.sha, scelle |-> lignes[p].chiffre]
  /\ balayage.pc = "retirer" => ~Absente(p)
  /\ balayage.pc = "remettre" => <<p, "ingestion">> \notin attestes /\ lignes[p].statut # "purged"

CouranteInv == \A p \in Radicaux : EnCours /\ balayage.cible = p => CibleInv(p)

VoulteInv == PreuveIntacte /\ IngestionAttestee /\ PurgeSansRetour

IInv == TypeOK /\ VusInv /\ CouranteInv /\ VoulteInv

-----------------------------------------------------------------------------
(* Data                                                                     *)

LEMMA FichierType ==
  ASSUME NEW s \in Sons
  PROVE  /\ Clair(s) \in Fichier /\ Clair(s).son = s
         /\ Conteneur(s) \in Fichier /\ Conteneur(s).son = s
         /\ Clair(s) # Nul /\ Conteneur(s) # Nul
<1>1. Clair(s) \in Fichier /\ Conteneur(s) \in Fichier
  BY DEF Clair, Conteneur, Fichier
<1>2. Clair(s).son = s /\ Conteneur(s).son = s
  BY DEF Clair, Conteneur
<1> QED
  BY <1>1, <1>2, IngestionAssumption

LEMMA DossierEcrit ==
  ASSUME NEW D \in [Radicaux -> Dossier], NEW p \in Radicaux, NEW x \in Extensions,
         NEW v, x = "wav" => v \in Fichier \cup {Nul},
         x = "json" => v \in {"bon", "mauvais", Nul}
  PROVE  /\ Avec(D, p, x, v) \in [Radicaux -> Dossier]
         /\ Avec(D, p, x, v)[p][x] = v
         /\ \A q \in Radicaux : q # p => Avec(D, p, x, v)[q] = D[q]
         /\ \A y \in Extensions : y # x => Avec(D, p, x, v)[p][y] = D[p][y]
<1>1. D[p] \in Dossier
  OBVIOUS
<1>2. CASE x = "wav"
  BY <1>1, <1>2 DEF Dossier, Extensions, Avec
<1>3. CASE x = "json"
  BY <1>1, <1>3 DEF Dossier, Extensions, Avec
<1> QED
  BY <1>2, <1>3 DEF Extensions

LEMMA DossierLu ==
  ASSUME NEW D \in [Radicaux -> Dossier], NEW p \in Radicaux
  PROVE  /\ D[p]["wav"] \in Fichier \cup {Nul}
         /\ D[p]["json"] \in {"bon", "mauvais", Nul}
BY DEF Dossier

LEMMA InitInv == ASSUME Init PROVE IInv
<1> USE IngestionAssumption
<1>1. TypeOK
  BY DEF Init, TypeOK, Dossier, Vide, LigneRecording, PasDeLigne, Balayage, Repos,
         RienVu, Pas
<1>2. VusInv /\ CouranteInv
  BY DEF Init, VusInv, CouranteInv, EnCours, Repos, RienVu
<1>3. VoulteInv
  BY DEF Init, VoulteInv, PreuveIntacte, IngestionAttestee, PurgeSansRetour, PasDeLigne
<1> QED
  BY <1>1, <1>2, <1>3 DEF IInv

(* A step that changes only the locals of the pass leaves the vault alone.  *)
LEMMA VoulteStable ==
  ASSUME VoulteInv, UNCHANGED <<coffre, lignes, attestes>>
  PROVE  VoulteInv'
BY DEF VoulteInv, PreuveIntacte, IngestionAttestee, PurgeSansRetour

LEMMA ListerStep ==
  ASSUME IInv, Lister, UNCHANGED <<vieux, producteurs, incidents>>
  PROVE  IInv'
<1>1. TypeOK'
  BY DEF IInv, TypeOK, Lister, dossiers, Balayage, Repos, Pas, Extensions
<1>2. VusInv' /\ CouranteInv'
  BY DEF IInv, TypeOK, Lister, dossiers, Balayage, Repos, VusInv, CouranteInv, EnCours
<1> QED
  BY <1>1, <1>2, VoulteStable DEF IInv, Lister, dossiers

LEMMA FinirStep ==
  ASSUME IInv, Finir \/ Interrompre \/ (\E p \in Radicaux : Attendre(p)),
         UNCHANGED <<vieux, producteurs>>, incidents' \in Nat
  PROVE  IInv'
<1>1. /\ UNCHANGED <<depot, coffre, quarantaine, provisoire, lignes, attestes>>
      /\ balayage' \in Balayage
      /\ balayage'.pc \in {"repos", "parcours"}
      /\ \A p \in Radicaux : balayage'.vus[p] \subseteq balayage.vus[p]
  BY DEF IInv, TypeOK, Finir, Interrompre, Attendre, dossiers, Balayage, Repos, RienVu, Pas
<1>2. TypeOK'
  BY <1>1 DEF IInv, TypeOK
<1>3. VusInv' /\ CouranteInv'
  BY <1>1 DEF IInv, VusInv, CouranteInv, EnCours
<1> QED
  BY <1>1, <1>2, <1>3, VoulteStable DEF IInv

LEMMA TrouverStep ==
  ASSUME IInv, NEW p \in Radicaux, TrouverOrphelin(p),
         UNCHANGED <<vieux, producteurs, incidents>>
  PROVE  IInv'
<1>1. /\ UNCHANGED <<depot, coffre, quarantaine, provisoire, lignes, attestes>>
      /\ balayage' \in Balayage
      /\ balayage'.pc = "ecarter"
      /\ balayage'.cible = p
      /\ balayage'.vus = [balayage.vus EXCEPT ![p] = {}]
  BY DEF IInv, TypeOK, TrouverOrphelin, Traiter, dossiers, Balayage, Pas
<1>2. TypeOK'
  BY <1>1 DEF IInv, TypeOK
<1>3. VusInv' /\ CouranteInv'
  BY <1>1 DEF IInv, TypeOK, Balayage, VusInv, CouranteInv, CibleInv, EnCours, EnSceau, AvantDepart
<1> QED
  BY <1>1, <1>2, <1>3, VoulteStable DEF IInv

LEMMA VerifierStep ==
  ASSUME IInv, NEW p \in Radicaux, Verifier(p),
         UNCHANGED <<vieux, producteurs, incidents>>
  PROVE  IInv'
<1> DEFINE w == depot[p].wav
<1>1. /\ UNCHANGED <<depot, coffre, quarantaine, provisoire, lignes, attestes>>
      /\ balayage.vus[p] = Extensions
      /\ w \in Fichier
  BY DossierLu DEF IInv, TypeOK, Verifier, dossiers, VusInv, Extensions
<1>2. w.son \in Sons
  BY <1>1 DEF Fichier
<1>3. ASSUME Conforme(p) PROVE w = Clair(w.son)
  <2>1. w = [son |-> w.son, scelle |-> w.scelle] /\ w.scelle \in BOOLEAN
    BY <1>1 DEF Fichier
  <2>2. w.scelle = FALSE
    BY <1>3, <2>1 DEF Conforme, EnteteLisible
  <2> QED
    BY <2>1, <2>2 DEF Clair
<1>4. /\ balayage'.vus = [balayage.vus EXCEPT ![p] = {}]
      /\ balayage'.cible = p
      /\ balayage'.pieces = Extensions
      /\ \/ Conforme(p) /\ balayage'.pc = "chercher" /\ balayage'.sha = w.son
         \/ balayage'.pc = "ecarter" /\ balayage'.sha = Nul
      /\ balayage' = [pc |-> balayage'.pc, vus |-> balayage'.vus, cible |-> p,
                      pieces |-> Extensions, sha |-> balayage'.sha]
  BY DEF Verifier, Traiter
<1>5. balayage' \in Balayage
  BY <1>2, <1>4 DEF IInv, TypeOK, Balayage, Pas
<1>6. TypeOK'
  BY <1>1, <1>5 DEF IInv, TypeOK
<1>7. VusInv'
  BY <1>1, <1>4 DEF IInv, TypeOK, Balayage, VusInv
<1>8. CouranteInv'
  BY <1>1, <1>2, <1>3, <1>4 DEF CouranteInv, CibleInv, EnCours, EnSceau, AvantDepart
<1> QED
  BY <1>1, <1>6, <1>7, <1>8, VoulteStable DEF IInv

LEMMA ChercherStep ==
  ASSUME IInv, NEW p \in Radicaux, balayage.cible = p, Chercher(p),
         UNCHANGED <<vieux, producteurs, incidents>>
  PROVE  IInv'
<1>1. /\ UNCHANGED <<depot, coffre, quarantaine, provisoire, lignes, attestes>>
      /\ balayage'.pc \in {"deplacer", "retirer", "ecarter"}
      /\ balayage' = [balayage EXCEPT !.pc = balayage'.pc]
      /\ balayage'.pc = "deplacer" => Absente(p)
      /\ balayage'.pc = "retirer" => ~Absente(p)
  BY DEF IInv, TypeOK, Balayage, Chercher, Etape, dossiers, Absente
<1>2. /\ balayage' \in Balayage
      /\ balayage'.vus = balayage.vus /\ balayage'.cible = p
      /\ balayage'.sha = balayage.sha /\ balayage'.pieces = balayage.pieces
  BY <1>1 DEF IInv, TypeOK, Balayage, Pas
<1>3. balayage.pc = "chercher" /\ CibleInv(p)
  BY DEF Chercher, IInv, CouranteInv, EnCours
<1>4. TypeOK'
  BY <1>1, <1>2 DEF IInv, TypeOK
<1>5. VusInv'
  BY <1>1, <1>2, <1>3 DEF IInv, VusInv, EnCours
<1>6. CouranteInv'
  BY <1>1, <1>2, <1>3 DEF CouranteInv, CibleInv, EnCours, EnSceau, AvantDepart, Absente, Extensions
<1> QED
  BY <1>1, <1>4, <1>5, <1>6, VoulteStable DEF IInv

LEMMA EchouerStep ==
  ASSUME IInv, Echouer, UNCHANGED <<vieux, producteurs>>
  PROVE  IInv'
<1>1. /\ UNCHANGED <<depot, coffre, quarantaine, provisoire, lignes, attestes>>
      /\ incidents' \in Nat
  BY DEF IInv, TypeOK, Echouer, dossiers
<1>2. balayage' = [balayage EXCEPT !.pc = "remettre", !.pieces = Extensions]
  BY DEF Echouer
<1>3. /\ balayage' \in Balayage
      /\ balayage'.pc = "remettre"
      /\ balayage'.vus = balayage.vus /\ balayage'.cible = balayage.cible
  BY <1>2 DEF IInv, TypeOK, Balayage, Pas
<1>4. EnSceau \/ balayage.pc = "deplacer"
  BY Zenon DEF Echouer, EchecRattrape, EnSceau
<1>5. EnCours
  BY <1>4 DEF EnCours, EnSceau
<1>6. TypeOK'
  BY <1>1, <1>3 DEF IInv, TypeOK
<1>7. VusInv'
  BY <1>1, <1>5, <1>3 DEF IInv, VusInv, EnCours
<1>8. ASSUME NEW p \in Radicaux, balayage.cible = p
      PROVE  <<p, "ingestion">> \notin attestes /\ lignes[p].statut # "purged"
  BY <1>4, <1>8, <1>5 DEF IInv, CouranteInv, CibleInv, Absente, VoulteInv, IngestionAttestee
<1>9. CouranteInv'
  BY <1>1, <1>8, <1>3 DEF CouranteInv, CibleInv, EnCours, EnSceau, AvantDepart
<1> QED
  BY <1>1, <1>6, <1>7, <1>9, VoulteStable DEF IInv

LEMMA CloreStep ==
  ASSUME IInv, NEW p \in Radicaux, Clore(p),
         UNCHANGED <<vieux, producteurs, incidents>>
  PROVE  IInv'
<1>1. /\ UNCHANGED <<depot, coffre, quarantaine, provisoire, lignes>>
      /\ balayage' \in Balayage
      /\ balayage'.pc = "parcours"
      /\ balayage'.vus = balayage.vus
  BY DEF IInv, TypeOK, Clore, Suivant, dossiers, Balayage, Repos, Pas
<1>2. attestes' = attestes \/ attestes' = attestes \cup {<<p, "redepot">>}
  BY DEF Clore
<1>3. TypeOK'
  BY <1>1, <1>2 DEF IInv, TypeOK
<1>4. VusInv' /\ CouranteInv'
  BY <1>1 DEF IInv, VusInv, CouranteInv, EnCours
<1>5. \A q \in Radicaux : <<q, "ingestion">> \in attestes' => <<q, "ingestion">> \in attestes
  BY <1>2
<1>6. VoulteInv'
  BY <1>1, <1>5 DEF IInv, VoulteInv, PreuveIntacte, IngestionAttestee, PurgeSansRetour
<1> QED
  BY <1>3, <1>4, <1>6 DEF IInv

-----------------------------------------------------------------------------
(* The moves                                                                *)

LEMMA PasseType ==
  ASSUME balayage \in Balayage, NEW x \in Extensions, Passe(x)
  PROVE  /\ balayage' \in Balayage
         /\ balayage'.pc = balayage.pc
         /\ balayage'.vus = balayage.vus
         /\ balayage'.cible = balayage.cible
         /\ balayage'.sha = balayage.sha
         /\ balayage'.pieces = balayage.pieces \ {x}
BY DEF Passe, Balayage

(* A move of the current call disturbs nothing the listing saw.             *)
LEMMA VusApresPiece ==
  ASSUME VusInv, TypeOK, EnCours, NEW p \in Radicaux, balayage.cible = p,
         \A q \in Radicaux : q # p => depot'[q] = depot[q],
         balayage'.vus = balayage.vus, balayage'.cible = p
  PROVE  VusInv'
BY DEF VusInv, TypeOK, Balayage

LEMMA DeplacerStep ==
  ASSUME IInv, NEW p \in Radicaux, balayage.cible = p, NEW x \in Extensions,
         DeplacerPiece(p, x), UNCHANGED <<vieux, producteurs, incidents>>
  PROVE  IInv'
<1> DEFINE v == depot[p][x]
<1>1. /\ balayage.pc = "deplacer" /\ x \in balayage.pieces
      /\ x = "json" => "wav" \notin balayage.pieces
      /\ UNCHANGED <<quarantaine, provisoire, lignes, attestes>>
      /\ TypeOK /\ Passe(x)
  BY DEF DeplacerPiece, EnTete, IInv
<1>2. EnCours /\ CibleInv(p)
  BY <1>1 DEF EnCours, IInv, CouranteInv
<1>3. /\ x = "wav" => v \in Fichier \cup {Nul}
      /\ x = "json" => v \in {"bon", "mauvais", Nul}
  BY <1>1, DossierLu DEF TypeOK
<1>4. /\ depot' \in [Radicaux -> Dossier]
      /\ \A q \in Radicaux : q # p => depot'[q] = depot[q]
      /\ \A y \in Extensions : y # x => depot'[p][y] = depot[p][y]
  <2>1. depot' = Avec(depot, p, x, Nul)
    BY DEF DeplacerPiece
  <2> QED
    BY <1>1, <2>1, DossierEcrit DEF TypeOK
<1>5. /\ coffre' \in [Radicaux -> Dossier]
      /\ coffre'[p][x] = v
      /\ \A q \in Radicaux : q # p => coffre'[q] = coffre[q]
      /\ \A y \in Extensions : y # x => coffre'[p][y] = coffre[p][y]
  <2>1. coffre' = Avec(coffre, p, x, v)
    BY DEF DeplacerPiece
  <2>2. coffre \in [Radicaux -> Dossier]
    BY <1>1 DEF TypeOK
  <2> QED
    BY <1>3, <2>1, <2>2, DossierEcrit
<1> HIDE DEF v
<1>6. TypeOK'
  BY <1>1, <1>4, <1>5, PasseType DEF TypeOK
<1>7. VusInv'
  BY <1>1, <1>2, <1>4, PasseType, VusApresPiece DEF IInv, TypeOK
<1>8. CibleInv(p)'
  <2>1. CASE x = "wav"
    <3>1. v = Clair(balayage.sha) /\ balayage.sha \in Sons
      BY <1>1, <1>2, <2>1 DEF CibleInv, AvantDepart, v
    <3>2. coffre'[p].wav = Clair(balayage.sha)
      BY <1>5, <2>1, <3>1
    <3> QED
      BY <1>1, <1>2, <2>1, <3>1, <3>2, PasseType
      DEF CibleInv, AvantDepart, EnSceau, Absente, TypeOK
  <2>2. CASE x = "json"
    <3>1. coffre'[p].wav = coffre[p].wav /\ coffre[p].wav = Clair(balayage.sha)
          /\ balayage.sha \in Sons
      BY <1>1, <1>2, <1>5, <2>2 DEF CibleInv, Extensions
    <3> QED
      BY <1>1, <1>2, <2>2, <3>1, PasseType
      DEF CibleInv, AvantDepart, EnSceau, Absente, TypeOK
  <2> QED
    BY <2>1, <2>2 DEF Extensions
<1>9. CouranteInv'
  BY <1>1, <1>8, PasseType DEF CouranteInv, TypeOK
<1>10. VoulteInv'
  <2>1. Absente(p) /\ VoulteInv
    BY <1>1, <1>2 DEF CibleInv, IInv
  <2>2. \A q \in Radicaux : ~Absente(q) => coffre'[q] = coffre[q]
    BY <1>5, <2>1
  <2>3. PreuveIntacte'
    BY <1>1, <2>1, <2>2 DEF VoulteInv, PreuveIntacte, Absente
  <2>4. IngestionAttestee'
    BY <1>1, <2>1, <2>2 DEF VoulteInv, IngestionAttestee, Absente, TypeOK
  <2>5. PurgeSansRetour'
    BY <1>1, <2>1, <2>2 DEF VoulteInv, PurgeSansRetour, Absente
  <2> QED
    BY <2>3, <2>4, <2>5 DEF VoulteInv
<1> QED
  BY <1>6, <1>7, <1>9, <1>10 DEF IInv

LEMMA RetirerStep ==
  ASSUME IInv, NEW p \in Radicaux, balayage.cible = p, NEW x \in Extensions,
         RetirerPiece(p, x) \/ EcarterPiece(p, x),
         UNCHANGED <<vieux, producteurs, incidents>>
  PROVE  IInv'
<1> DEFINE v == depot[p][x]
<1>1. /\ balayage.pc \in {"retirer", "ecarter"}
      /\ UNCHANGED <<coffre, provisoire, lignes, attestes>>
      /\ TypeOK /\ Passe(x)
  BY DEF RetirerPiece, EcarterPiece, IInv
<1>2. EnCours /\ CibleInv(p)
  BY <1>1 DEF EnCours, IInv, CouranteInv
<1>3. /\ x = "wav" => v \in Fichier \cup {Nul}
      /\ x = "json" => v \in {"bon", "mauvais", Nul}
  BY <1>1, DossierLu DEF TypeOK
<1>4. /\ depot' \in [Radicaux -> Dossier]
      /\ \A q \in Radicaux : q # p => depot'[q] = depot[q]
  <2>1. depot' = Avec(depot, p, x, Nul)
    BY DEF RetirerPiece, EcarterPiece
  <2> QED
    BY <1>1, <2>1, DossierEcrit DEF TypeOK
<1>5. quarantaine' \in [Radicaux -> Dossier]
  <2>1. quarantaine' = quarantaine \/ quarantaine' = Avec(quarantaine, p, x, v)
    BY DEF RetirerPiece, EcarterPiece
  <2>2. quarantaine \in [Radicaux -> Dossier]
    BY <1>1 DEF TypeOK
  <2> QED
    BY <1>3, <2>1, <2>2, DossierEcrit
<1>6. TypeOK'
  BY <1>1, <1>4, <1>5, PasseType DEF TypeOK
<1>7. VusInv'
  BY <1>1, <1>2, <1>4, PasseType, VusApresPiece DEF IInv, TypeOK
<1>8. CouranteInv'
  BY <1>1, <1>2, PasseType DEF CouranteInv, CibleInv, EnSceau, AvantDepart, Absente, TypeOK
<1> QED
  BY <1>1, <1>6, <1>7, <1>8, VoulteStable DEF IInv

LEMMA RemettreStep ==
  ASSUME IInv, NEW p \in Radicaux, balayage.cible = p, NEW x \in Extensions,
         RemettrePiece(p, x), UNCHANGED <<vieux, producteurs, incidents>>
  PROVE  IInv'
<1> DEFINE v == coffre[p][x]
<1>1. /\ balayage.pc = "remettre"
      /\ UNCHANGED <<quarantaine, provisoire, lignes, attestes>>
      /\ TypeOK /\ Passe(x)
  BY DEF RemettrePiece, IInv
<1>2. EnCours /\ <<p, "ingestion">> \notin attestes /\ lignes[p].statut # "purged"
  BY <1>1 DEF EnCours, IInv, CouranteInv, CibleInv
<1>3. /\ x = "wav" => v \in Fichier \cup {Nul}
      /\ x = "json" => v \in {"bon", "mauvais", Nul}
  BY <1>1, DossierLu DEF TypeOK
<1>4. /\ depot' \in [Radicaux -> Dossier]
      /\ \A q \in Radicaux : q # p => depot'[q] = depot[q]
  <2>1. depot' = depot \/ depot' = Avec(depot, p, x, v)
    BY DEF RemettrePiece
  <2>2. depot \in [Radicaux -> Dossier]
    BY <1>1 DEF TypeOK
  <2> QED
    BY <1>3, <2>1, <2>2, DossierEcrit
<1>5. /\ coffre' \in [Radicaux -> Dossier]
      /\ \A q \in Radicaux : q # p => coffre'[q] = coffre[q]
      /\ coffre'[p].wav \in {coffre[p].wav, Nul}
  <2>1. coffre' = coffre \/ coffre' = Avec(coffre, p, x, Nul)
    BY DEF RemettrePiece
  <2>2. coffre \in [Radicaux -> Dossier]
    BY <1>1 DEF TypeOK
  <2> QED
    BY <2>1, <2>2, DossierEcrit DEF Extensions
<1>6. TypeOK'
  BY <1>1, <1>4, <1>5, PasseType DEF TypeOK
<1>7. VusInv'
  BY <1>1, <1>2, <1>4, PasseType, VusApresPiece DEF IInv, TypeOK
<1>8. CouranteInv'
  BY <1>1, <1>2, PasseType DEF CouranteInv, CibleInv, EnSceau, AvantDepart, TypeOK
<1>9. VoulteInv'
  <2>1. PreuveIntacte' /\ PurgeSansRetour'
    BY <1>1, <1>5 DEF IInv, VoulteInv, PreuveIntacte, PurgeSansRetour
  <2>2. IngestionAttestee'
    BY <1>1, <1>2, <1>5 DEF IInv, VoulteInv, IngestionAttestee, TypeOK
  <2> QED
    BY <2>1, <2>2 DEF VoulteInv
<1> QED
  BY <1>6, <1>7, <1>8, <1>9 DEF IInv

-----------------------------------------------------------------------------
(* The row and the container                                                *)

LEMMA EtapeType ==
  ASSUME balayage \in Balayage, NEW pc \in Pas, Etape(pc)
  PROVE  /\ balayage' \in Balayage
         /\ balayage'.pc = pc
         /\ balayage'.vus = balayage.vus
         /\ balayage'.cible = balayage.cible
         /\ balayage'.sha = balayage.sha
         /\ balayage'.pieces = balayage.pieces
BY DEF Etape, Balayage

LEMMA CreerStep ==
  ASSUME IInv, NEW p \in Radicaux, balayage.cible = p, Creer(p),
         UNCHANGED <<vieux, producteurs, incidents>>
  PROVE  IInv'
<1> DEFINE suite == IF Chiffrement THEN "sceller" ELSE "auditer"
<1> DEFINE neuve == [statut |-> "stored", sha |-> balayage.sha, chiffre |-> FALSE]
<1>1. /\ balayage.pc = "deplacer" /\ balayage.pieces = {}
      /\ Absente(p)
      /\ UNCHANGED <<depot, coffre, quarantaine, provisoire, attestes>>
      /\ lignes' = [lignes EXCEPT ![p] = neuve]
      /\ Etape(suite)
      /\ TypeOK
  BY DEF Creer, Absente, dossiers, IInv
<1>2. EnCours /\ CibleInv(p)
  BY <1>1 DEF EnCours, IInv, CouranteInv
<1>3. /\ balayage.sha \in Sons
      /\ coffre[p].wav = Clair(balayage.sha)
  BY <1>1, <1>2 DEF CibleInv
<1>4. <<p, "ingestion">> \notin attestes
  BY <1>1 DEF IInv, VoulteInv, IngestionAttestee, Absente
<1>5. suite \in {"sceller", "auditer"}
  OBVIOUS
<1> HIDE DEF suite
<1>6. /\ balayage' \in Balayage
      /\ balayage'.pc = suite
      /\ balayage'.vus = balayage.vus /\ balayage'.cible = p
      /\ balayage'.sha = balayage.sha
  BY <1>1, <1>5, EtapeType DEF TypeOK, Pas
<1>7. /\ neuve \in LigneRecording
      /\ neuve.statut = "stored" /\ neuve.sha = balayage.sha /\ neuve.chiffre = FALSE
  BY <1>3 DEF LigneRecording
<1> HIDE DEF neuve
<1>8. /\ lignes' \in [Radicaux -> LigneRecording]
      /\ lignes'[p] = neuve
      /\ \A q \in Radicaux : q # p => lignes'[q] = lignes[q]
  BY <1>1, <1>7 DEF TypeOK
<1>9. TypeOK'
  BY <1>1, <1>6, <1>8 DEF TypeOK
<1>10. VusInv'
  BY <1>1, <1>2, <1>6 DEF IInv, VusInv, EnCours
<1>11. coffre[p].wav # Nul /\ coffre[p].wav.son = balayage.sha
  BY <1>3, FichierType
<1>12. coffre[p].wav = [son |-> balayage.sha, scelle |-> lignes'[p].chiffre]
  BY <1>3, <1>7, <1>8 DEF Clair
<1>13. CibleInv(p)'
  <2>1. /\ lignes'[p].statut = "stored" /\ lignes'[p].sha = balayage.sha
        /\ lignes'[p].chiffre = FALSE
    BY <1>7, <1>8
  <2> QED
    BY <1>1, <1>3, <1>4, <1>5, <1>6, <1>11, <1>12, <2>1
    DEF CibleInv, AvantDepart, EnSceau
<1>14. CouranteInv'
  BY <1>6, <1>13 DEF CouranteInv
<1>15. VoulteInv'
  <2>1. PreuveIntacte'
    BY <1>1, <1>7, <1>8, <1>11 DEF IInv, VoulteInv, PreuveIntacte
  <2>2. IngestionAttestee'
    BY <1>1, <1>4, <1>8 DEF IInv, VoulteInv, IngestionAttestee, TypeOK
  <2>3. PurgeSansRetour'
    BY <1>1, <1>7, <1>8 DEF IInv, VoulteInv, PurgeSansRetour
  <2> QED
    BY <2>1, <2>2, <2>3 DEF VoulteInv
<1> QED
  BY <1>9, <1>10, <1>14, <1>15 DEF IInv

LEMMA EcrireStep ==
  ASSUME IInv, NEW p \in Radicaux, balayage.cible = p, EcrireConteneur(p),
         UNCHANGED <<vieux, producteurs, incidents>>
  PROVE  IInv'
<1>1. /\ balayage.pc = "sceller"
      /\ UNCHANGED <<depot, coffre, quarantaine, lignes, attestes>>
      /\ provisoire' = [provisoire EXCEPT ![p] = Conteneur(coffre[p].wav.son)]
      /\ Etape("basculer")
      /\ TypeOK
  BY DEF EcrireConteneur, dossiers, IInv
<1>2. EnCours /\ CibleInv(p) /\ EnSceau
  BY <1>1 DEF EnCours, IInv, CouranteInv, EnSceau
<1>3. balayage.sha \in Sons /\ coffre[p].wav.son = balayage.sha
  BY <1>2 DEF CibleInv
<1>4. /\ balayage' \in Balayage
      /\ balayage'.pc = "basculer"
      /\ balayage'.vus = balayage.vus /\ balayage'.cible = p
      /\ balayage'.sha = balayage.sha
  BY <1>1, EtapeType DEF TypeOK, Pas
<1>5. /\ provisoire' \in [Radicaux -> Fichier \cup {Nul}]
      /\ provisoire'[p] = Conteneur(balayage.sha)
  BY <1>1, <1>3, FichierType DEF TypeOK
<1>6. TypeOK'
  BY <1>1, <1>4, <1>5 DEF TypeOK
<1>7. VusInv'
  BY <1>1, <1>2, <1>4 DEF IInv, VusInv, EnCours
<1>8. CibleInv(p)'
  BY <1>1, <1>2, <1>4, <1>5 DEF CibleInv, AvantDepart, EnSceau
<1>9. CouranteInv'
  BY <1>4, <1>8 DEF CouranteInv
<1> QED
  BY <1>1, <1>6, <1>7, <1>9, VoulteStable DEF IInv

LEMMA BasculerStep ==
  ASSUME IInv, NEW p \in Radicaux, balayage.cible = p, Basculer(p),
         UNCHANGED <<vieux, producteurs, incidents>>
  PROVE  IInv'
<1>1. /\ balayage.pc = "basculer"
      /\ UNCHANGED <<depot, quarantaine, lignes, attestes>>
      /\ coffre' = Avec(coffre, p, "wav", provisoire[p])
      /\ provisoire' = [provisoire EXCEPT ![p] = Nul]
      /\ Etape("inscrire")
      /\ TypeOK
  BY DEF Basculer, IInv
<1>2. EnCours /\ CibleInv(p) /\ EnSceau
  BY <1>1 DEF EnCours, IInv, CouranteInv, EnSceau
<1>3. /\ balayage.sha \in Sons /\ provisoire[p] = Conteneur(balayage.sha)
      /\ lignes[p].sha = balayage.sha /\ lignes[p].statut = "stored"
      /\ <<p, "ingestion">> \notin attestes
  BY <1>1, <1>2 DEF CibleInv
<1>4. /\ balayage' \in Balayage
      /\ balayage'.pc = "inscrire"
      /\ balayage'.vus = balayage.vus /\ balayage'.cible = p
      /\ balayage'.sha = balayage.sha
  BY <1>1, EtapeType DEF TypeOK, Pas
<1>5. /\ coffre' \in [Radicaux -> Dossier]
      /\ coffre'[p].wav = Conteneur(balayage.sha)
      /\ \A q \in Radicaux : q # p => coffre'[q] = coffre[q]
  BY <1>1, <1>3, FichierType, DossierEcrit DEF TypeOK, Extensions
<1>6. coffre'[p].wav # Nul /\ coffre'[p].wav.son = balayage.sha
  BY <1>3, <1>5, FichierType
<1>7. TypeOK'
  BY <1>1, <1>4, <1>5 DEF TypeOK
<1>8. VusInv'
  BY <1>1, <1>2, <1>4 DEF IInv, VusInv, EnCours
<1>9. CibleInv(p)'
  BY <1>1, <1>3, <1>4, <1>5, <1>6 DEF CibleInv, AvantDepart, EnSceau
<1>10. CouranteInv'
  BY <1>4, <1>9 DEF CouranteInv
<1>11. VoulteInv'
  <2>1. PreuveIntacte'
    BY <1>1, <1>3, <1>5, <1>6 DEF IInv, VoulteInv, PreuveIntacte
  <2>2. IngestionAttestee'
    BY <1>1, <1>3, <1>5 DEF IInv, VoulteInv, IngestionAttestee, TypeOK
  <2>3. PurgeSansRetour'
    BY <1>1, <1>3, <1>5 DEF IInv, VoulteInv, PurgeSansRetour
  <2> QED
    BY <2>1, <2>2, <2>3 DEF VoulteInv
<1> QED
  BY <1>7, <1>8, <1>10, <1>11 DEF IInv

LEMMA InscrireStep ==
  ASSUME IInv, NEW p \in Radicaux, balayage.cible = p, Inscrire(p),
         UNCHANGED <<vieux, producteurs, incidents>>
  PROVE  IInv'
<1>1. /\ balayage.pc = "inscrire"
      /\ UNCHANGED <<depot, coffre, quarantaine, provisoire, attestes>>
      /\ lignes' = [lignes EXCEPT ![p].chiffre = TRUE]
      /\ Etape("auditer")
      /\ TypeOK
  BY DEF Inscrire, dossiers, IInv
<1>2. EnCours /\ CibleInv(p) /\ EnSceau
  BY <1>1 DEF EnCours, IInv, CouranteInv, EnSceau
<1>3. /\ balayage' \in Balayage
      /\ balayage'.pc = "auditer"
      /\ balayage'.vus = balayage.vus /\ balayage'.cible = p
      /\ balayage'.sha = balayage.sha
  BY <1>1, EtapeType DEF TypeOK, Pas
<1>4. /\ lignes' \in [Radicaux -> LigneRecording]
      /\ lignes'[p].statut = lignes[p].statut /\ lignes'[p].sha = lignes[p].sha
      /\ lignes'[p].chiffre = TRUE
      /\ \A q \in Radicaux : q # p => lignes'[q] = lignes[q]
  <2>1. lignes[p] \in LigneRecording
    BY <1>1 DEF TypeOK
  <2>2. lignes' = [lignes EXCEPT ![p] = [lignes[p] EXCEPT !.chiffre = TRUE]]
    BY <1>1
  <2>3. /\ [lignes[p] EXCEPT !.chiffre = TRUE] \in LigneRecording
        /\ [lignes[p] EXCEPT !.chiffre = TRUE].statut = lignes[p].statut
        /\ [lignes[p] EXCEPT !.chiffre = TRUE].sha = lignes[p].sha
        /\ [lignes[p] EXCEPT !.chiffre = TRUE].chiffre = TRUE
    BY <2>1 DEF LigneRecording
  <2> QED
    BY <1>1, <2>2, <2>3 DEF TypeOK
<1>5. coffre[p].wav = [son |-> balayage.sha, scelle |-> lignes'[p].chiffre]
  BY <1>1, <1>2, <1>4 DEF CibleInv, Conteneur
<1>6. TypeOK'
  BY <1>1, <1>3, <1>4 DEF TypeOK
<1>7. VusInv'
  BY <1>1, <1>2, <1>3 DEF IInv, VusInv, EnCours
<1>8. CibleInv(p)'
  BY <1>1, <1>2, <1>3, <1>4, <1>5 DEF CibleInv, AvantDepart, EnSceau
<1>9. CouranteInv'
  BY <1>3, <1>8 DEF CouranteInv
<1>10. VoulteInv'
  <2>1. PreuveIntacte' /\ PurgeSansRetour'
    BY <1>1, <1>4 DEF IInv, VoulteInv, PreuveIntacte, PurgeSansRetour
  <2>2. IngestionAttestee'
    BY <1>1, <1>2, <1>4 DEF IInv, VoulteInv, IngestionAttestee, TypeOK, CibleInv
  <2> QED
    BY <2>1, <2>2 DEF VoulteInv
<1> QED
  BY <1>6, <1>7, <1>9, <1>10 DEF IInv

LEMMA AuditerStep ==
  ASSUME IInv, NEW p \in Radicaux, balayage.cible = p, Auditer(p),
         UNCHANGED <<vieux, producteurs, incidents>>
  PROVE  IInv'
<1>1. /\ balayage.pc = "auditer"
      /\ UNCHANGED <<depot, coffre, quarantaine, provisoire, lignes>>
      /\ attestes' \in {attestes, attestes \cup {<<p, "ingestion">>}}
      /\ Suivant
      /\ TypeOK
  BY DEF Auditer, dossiers, IInv
<1>2. EnCours /\ CibleInv(p) /\ EnSceau
  BY <1>1 DEF EnCours, IInv, CouranteInv, EnSceau
<1>3. /\ balayage' \in Balayage
      /\ balayage'.pc = "parcours"
      /\ balayage'.vus = balayage.vus
  BY <1>1 DEF Suivant, Balayage, Repos, Pas, TypeOK
<1>4. TypeOK'
  BY <1>1, <1>3 DEF TypeOK
<1>5. VusInv' /\ CouranteInv'
  BY <1>1, <1>3 DEF IInv, VusInv, CouranteInv, EnCours
<1>6. PreuveIntacte' /\ PurgeSansRetour'
  BY <1>1 DEF IInv, VoulteInv, PreuveIntacte, PurgeSansRetour
<1>7. IngestionAttestee'
  <2>1. /\ lignes[p].statut = "stored"
        /\ coffre[p].wav = [son |-> lignes[p].sha, scelle |-> lignes[p].chiffre]
    BY <1>1, <1>2 DEF CibleInv
  <2> QED
    BY <1>1, <2>1 DEF IInv, VoulteInv, IngestionAttestee
<1> QED
  BY <1>4, <1>5, <1>6, <1>7 DEF IInv, VoulteInv

-----------------------------------------------------------------------------
(* The environment                                                          *)

(* The producers add to the folder; they never take or replace a wav.       *)
LEMMA DepotAjoute ==
  ASSUME IInv, UNCHANGED <<balayage, coffre, provisoire, lignes, attestes>>,
         \A q \in Radicaux : \A x \in Extensions : depot[q][x] # Nul => depot'[q][x] # Nul,
         \A q \in Radicaux : depot[q].wav # Nul => depot'[q].wav = depot[q].wav
  PROVE  VusInv' /\ CouranteInv' /\ VoulteInv'
<1>1. VusInv'
  BY DEF IInv, TypeOK, Balayage, VusInv, EnCours
<1>2. ASSUME NEW p \in Radicaux, EnCours, balayage.cible = p
      PROVE  CibleInv(p)'
  <2>1. CibleInv(p)
    BY <1>2 DEF IInv, CouranteInv
  <2>2. AvantDepart => depot'[p].wav = depot[p].wav
    BY <2>1, FichierType DEF CibleInv
  <2> QED
    BY <2>1, <2>2 DEF CibleInv, AvantDepart, EnSceau, Absente
<1>3. CouranteInv'
  BY <1>2 DEF CouranteInv, EnCours
<1> QED
  BY <1>1, <1>3, VoulteStable DEF IInv

LEMMA DeposerStep ==
  ASSUME IInv, NEW p \in Radicaux,
         \/ \E s \in Sons : DeposerWav(p, s)
         \/ \E j \in {"bon", "mauvais"} : DeposerJson(p, j),
         UNCHANGED <<lignes, provisoire, attestes, balayage, incidents>>
  PROVE  IInv'
<1>1. PICK x \in Extensions, v \in Fichier \cup {"bon", "mauvais"} :
        /\ depot' = Avec(depot, p, x, v)
        /\ x = "wav" => v \in Fichier /\ depot[p] = Vide
        /\ x = "json" => v \in {"bon", "mauvais"}
        /\ v # Nul
        /\ producteurs' \in SUBSET Radicaux /\ vieux' \in SUBSET Radicaux
        /\ UNCHANGED <<coffre, quarantaine>>
  <2>1. CASE \E s \in Sons : DeposerWav(p, s)
    <3>1. PICK s \in Sons : DeposerWav(p, s)
      BY <2>1
    <3>2. "wav" \in Extensions /\ Clair(s) \in Fichier /\ Clair(s) # Nul
      BY FichierType DEF Extensions
    <3>3. /\ depot' = Avec(depot, p, "wav", Clair(s)) /\ depot[p] = Vide
          /\ producteurs' \in SUBSET Radicaux /\ vieux' \in SUBSET Radicaux
          /\ UNCHANGED <<coffre, quarantaine>>
      BY <3>1 DEF DeposerWav, IInv, TypeOK
    <3> QED
      BY <3>2, <3>3
  <2>2. CASE \E j \in {"bon", "mauvais"} : DeposerJson(p, j)
    <3>1. PICK j \in {"bon", "mauvais"} : DeposerJson(p, j)
      BY <2>2
    <3>2. "json" \in Extensions /\ j # Nul
      BY IngestionAssumption DEF Extensions
    <3>3. /\ depot' = Avec(depot, p, "json", j)
          /\ producteurs' \in SUBSET Radicaux /\ vieux' \in SUBSET Radicaux
          /\ UNCHANGED <<coffre, quarantaine>>
      BY <3>1 DEF DeposerJson, dossiers, IInv, TypeOK
    <3> QED
      BY <3>2, <3>3
  <2> QED
    BY <2>1, <2>2
<1>2. /\ depot' \in [Radicaux -> Dossier]
      /\ depot'[p][x] = v
      /\ \A q \in Radicaux : q # p => depot'[q] = depot[q]
      /\ \A y \in Extensions : y # x => depot'[p][y] = depot[p][y]
  BY <1>1, DossierEcrit DEF IInv, TypeOK
<1>3. TypeOK'
  BY <1>1, <1>2 DEF IInv, TypeOK
<1>4. \A q \in Radicaux : \A y \in Extensions : depot[q][y] # Nul => depot'[q][y] # Nul
  BY <1>1, <1>2
<1>5. \A q \in Radicaux : depot[q].wav # Nul => depot'[q].wav = depot[q].wav
  <2>1. CASE x = "wav"
    BY <1>1, <1>2, <2>1 DEF Vide
  <2>2. CASE x = "json"
    BY <1>2, <2>2 DEF Extensions
  <2> QED
    BY <2>1, <2>2 DEF Extensions
<1> QED
  BY <1>1, <1>3, <1>4, <1>5, DepotAjoute DEF IInv

LEMMA VieillirStep ==
  ASSUME IInv, NEW p \in Radicaux, Renoncer(p) \/ Vieillir(p),
         UNCHANGED <<lignes, provisoire, attestes, balayage, incidents>>
  PROVE  IInv'
<1>1. /\ UNCHANGED <<depot, coffre, quarantaine>>
      /\ producteurs' \in SUBSET Radicaux /\ vieux' \in SUBSET Radicaux
  BY DEF Renoncer, Vieillir, dossiers, IInv, TypeOK
<1>2. TypeOK'
  BY <1>1 DEF IInv, TypeOK
<1> QED
  BY <1>1, <1>2, DepotAjoute DEF IInv

LEMMA PurgerStep ==
  ASSUME IInv, NEW p \in Radicaux, Purger(p),
         UNCHANGED <<provisoire, attestes, balayage, incidents>>
  PROVE  IInv'
<1>1. /\ ~EnRangement(p) /\ lignes[p].statut = "stored"
      /\ coffre' = Avec(coffre, p, "wav", Nul)
      /\ lignes' = [lignes EXCEPT ![p].statut = "purged"]
      /\ UNCHANGED <<depot, quarantaine, vieux, producteurs>>
      /\ TypeOK
  BY DEF Purger, IInv
<1>2. /\ coffre' \in [Radicaux -> Dossier]
      /\ coffre'[p].wav = Nul
      /\ \A q \in Radicaux : q # p => coffre'[q] = coffre[q]
  BY <1>1, DossierEcrit DEF TypeOK, Extensions
<1>3. /\ lignes' \in [Radicaux -> LigneRecording]
      /\ lignes'[p].statut = "purged"
      /\ \A q \in Radicaux : q # p => lignes'[q] = lignes[q]
  BY <1>1 DEF TypeOK, LigneRecording
<1>4. TypeOK'
  BY <1>1, <1>2, <1>3 DEF TypeOK
<1>5. VusInv'
  BY <1>1 DEF IInv, VusInv, EnCours
<1>6. ASSUME NEW q \in Radicaux, EnCours, balayage.cible = q
      PROVE  CibleInv(q)'
  <2>1. CibleInv(q)
    BY <1>6 DEF IInv, CouranteInv
  <2>2. CASE q = p
    BY <1>1, <1>6, <2>1, <2>2 DEF CibleInv, AvantDepart, EnSceau, Absente, EnRangement
  <2>3. CASE q # p
    BY <1>1, <1>2, <1>3, <2>1, <2>3 DEF CibleInv, AvantDepart, EnSceau, Absente
  <2> QED
    BY <2>2, <2>3
<1>7. CouranteInv'
  BY <1>6 DEF CouranteInv, EnCours
<1>8. VoulteInv'
  <2>1. PreuveIntacte' /\ PurgeSansRetour'
    BY <1>1, <1>2, <1>3 DEF IInv, VoulteInv, PreuveIntacte, PurgeSansRetour
  <2>2. IngestionAttestee'
    BY <1>1, <1>2, <1>3 DEF IInv, VoulteInv, IngestionAttestee, TypeOK
  <2> QED
    BY <2>1, <2>2 DEF VoulteInv
<1> QED
  BY <1>4, <1>5, <1>7, <1>8 DEF IInv

-----------------------------------------------------------------------------

LEMMA StutterInv ==
  ASSUME IInv, UNCHANGED vars
  PROVE  IInv'
<1>1. UNCHANGED <<depot, vieux, producteurs, coffre, provisoire, quarantaine, lignes,
                  attestes, balayage, incidents>>
  BY DEF vars
<1>2. TypeOK'
  BY <1>1 DEF IInv, TypeOK
<1> QED
  BY <1>1, <1>2, DepotAjoute DEF IInv

LEMMA NextInv ==
  ASSUME IInv, Next
  PROVE  IInv'
<1>1. ASSUME Balayer PROVE IInv'
  <2>1. UNCHANGED <<vieux, producteurs, incidents>> /\ incidents' \in Nat
    BY <1>1 DEF Balayer, IInv, TypeOK
  <2>2. CASE Lister
    BY <2>1, <2>2, ListerStep
  <2>3. CASE Finir \/ \E p \in Radicaux : Attendre(p)
    BY <2>1, <2>3, FinirStep
  <2>4. CASE \E p \in Radicaux : TrouverOrphelin(p) \/ Verifier(p)
    BY <2>1, <2>4, TrouverStep, VerifierStep
  <2>5. ASSUME NEW p \in Radicaux, TraiterCible(p) PROVE IInv'
    <3>1. balayage.cible = p
      BY <2>5 DEF TraiterCible
    <3>2. CASE Chercher(p) \/ Creer(p) \/ EcrireConteneur(p) \/ Basculer(p)
      BY <2>1, <3>1, <3>2, ChercherStep, CreerStep, EcrireStep, BasculerStep
    <3>3. CASE Inscrire(p) \/ Auditer(p) \/ Clore(p)
      BY <2>1, <3>1, <3>3, InscrireStep, AuditerStep, CloreStep
    <3>4. ASSUME NEW x \in Extensions,
                 \/ DeplacerPiece(p, x) \/ RemettrePiece(p, x)
                 \/ RetirerPiece(p, x) \/ EcarterPiece(p, x)
          PROVE  IInv'
      BY <2>1, <3>1, <3>4, DeplacerStep, RemettreStep, RetirerStep
    <3> QED
      BY <2>5, <3>2, <3>3, <3>4 DEF TraiterCible
  <2> QED
    BY <1>1, <2>2, <2>3, <2>4, <2>5 DEF Balayer
<1>2. ASSUME Panne PROVE IInv'
  <2>1. UNCHANGED <<vieux, producteurs>>
    BY <1>2 DEF Panne
  <2>2. CASE Echouer
    BY <2>1, <2>2, EchouerStep
  <2>3. CASE Interrompre
    <3>1. incidents' \in Nat
      BY <2>3 DEF Interrompre, IInv, TypeOK
    <3> QED
      BY <2>1, <2>3, <3>1, FinirStep
  <2> QED
    BY <1>2, <2>2, <2>3 DEF Panne
<1>3. ASSUME Environnement PROVE IInv'
  <2>1. UNCHANGED <<provisoire, attestes, balayage, incidents>>
    BY <1>3 DEF Environnement
  <2>2. ASSUME NEW p \in Radicaux, UNCHANGED lignes,
               \/ \E s \in Sons : DeposerWav(p, s)
               \/ \E j \in {"bon", "mauvais"} : DeposerJson(p, j)
        PROVE  IInv'
    BY <2>1, <2>2, DeposerStep
  <2>3. ASSUME NEW p \in Radicaux, UNCHANGED lignes, Renoncer(p) \/ Vieillir(p)
        PROVE  IInv'
    BY <2>1, <2>3, VieillirStep
  <2>4. ASSUME NEW p \in Radicaux, Purger(p)
        PROVE  IInv'
    BY <2>1, <2>4, PurgerStep
  <2> QED
    BY <1>3, <2>2, <2>3, <2>4 DEF Environnement
<1> QED
  BY <1>1, <1>2, <1>3 DEF Next

LEMMA ToujoursIInv == Spec => []IInv
<1>1. IInv /\ [Next]_vars => IInv'
  BY NextInv, StutterInv
<1> QED
  BY InitInv, <1>1, PTL DEF Spec

(* Every reachable state is of its type.                                    *)
THEOREM IngestionType == Spec => []TypeOK
<1>1. IInv => TypeOK
  BY DEF IInv
<1> QED
  BY ToujoursIInv, <1>1, PTL

(* The evidence of a row is never overwritten, failures after the creation  *)
(* of the row included.                                                     *)
THEOREM PreuveToujoursIntacte == Spec => []PreuveIntacte
<1>1. IInv => PreuveIntacte
  BY DEF IInv, VoulteInv
<1> QED
  BY ToujoursIInv, <1>1, PTL

(* A purged call never comes back by the drop folder.                       *)
THEOREM PurgeToujoursSansRetour == Spec => []PurgeSansRetour
<1>1. IInv => PurgeSansRetour
  BY DEF IInv, VoulteInv
<1> QED
  BY ToujoursIInv, <1>1, PTL

-----------------------------------------------------------------------------
(* Without a failure after the creation of the row                          *)

(* No row loses its file: the catch only ever undoes a call without a row.  *)
RangeInv ==
  \A p \in Radicaux :
     /\ lignes[p].statut = "stored" => coffre[p].wav # Nul
     /\ balayage.pc = "remettre" /\ balayage.cible = p => Absente(p)

(* The three ways a step can change what the other services see.            *)
Stable(p) ==
  /\ lignes'[p].statut = lignes[p].statut
  /\ ~Absente(p) => (coffre'[p].wav = Nul <=> coffre[p].wav = Nul)

Arrivee(p) ==
  /\ Absente(p)
  /\ lignes'[p].statut = "stored"
  /\ coffre'[p].wav # Nul
  /\ \A q \in Radicaux : q # p => Stable(q)

Depart(p) ==
  /\ lignes[p].statut = "stored"
  /\ lignes'[p].statut = "purged"
  /\ coffre'[p].wav = Nul
  /\ \A q \in Radicaux : q # p => Stable(q)

PasDeRemise == balayage'.pc # "remettre"

LEMMA EtapePc == ASSUME TypeOK, NEW pc \in Pas, Etape(pc) PROVE balayage'.pc = pc
BY EtapeType DEF TypeOK

(* A step of the pass on its current call, but for the creation of the row. *)
LEMMA CibleStable ==
  ASSUME IInv, RangeInv, NEW p \in Radicaux, TraiterCible(p), ~Creer(p)
  PROVE  (\A q \in Radicaux : Stable(q)) /\ (PasDeRemise \/ Absente(p)')
         /\ (PasDeRemise \/ balayage'.cible = p)
<1>1. TypeOK /\ balayage.cible = p
  BY DEF IInv, TraiterCible
<1>2. CASE Chercher(p)
  <2>1. balayage'.pc \in {"deplacer", "retirer", "ecarter"}
    BY <1>1, <1>2 DEF Chercher, Etape, TypeOK, Balayage
  <2> QED
    BY <1>2, <2>1 DEF Chercher, dossiers, Stable, PasDeRemise
<1>3. CASE EcrireConteneur(p)
  <2>1. balayage'.pc = "basculer"
    BY <1>1, <1>3, EtapePc DEF EcrireConteneur, Pas
  <2> QED
    BY <1>3, <2>1 DEF EcrireConteneur, dossiers, Stable, PasDeRemise
<1>4. CASE Basculer(p)
  <2>1. balayage'.pc = "inscrire"
    BY <1>1, <1>4, EtapePc DEF Basculer, Pas
  <2>2. CibleInv(p) /\ EnSceau /\ balayage.pc = "basculer"
    BY <1>1, <1>4 DEF Basculer, IInv, CouranteInv, EnCours, EnSceau
  <2>3. provisoire[p] # Nul /\ provisoire[p] \in Fichier /\ coffre[p].wav # Nul
    BY <2>2, FichierType DEF CibleInv
  <2>4. /\ coffre'[p].wav = provisoire[p]
        /\ \A q \in Radicaux : q # p => coffre'[q] = coffre[q]
    <3>1. coffre' = Avec(coffre, p, "wav", provisoire[p])
      BY <1>4 DEF Basculer
    <3> QED
      BY <1>1, <2>3, <3>1, DossierEcrit DEF TypeOK, Extensions
  <2>5. UNCHANGED lignes
    BY <1>4 DEF Basculer
  <2> QED
    BY <2>1, <2>3, <2>4, <2>5 DEF Stable, PasDeRemise
<1>5. CASE Inscrire(p)
  <2>1. balayage'.pc = "auditer"
    BY <1>1, <1>5, EtapePc DEF Inscrire, Pas
  <2>2. \A q \in Radicaux : lignes'[q].statut = lignes[q].statut
    BY <1>1, <1>5 DEF Inscrire, TypeOK, LigneRecording
  <2> QED
    BY <1>5, <2>1, <2>2 DEF Inscrire, dossiers, Stable, PasDeRemise
<1>6. CASE Auditer(p) \/ Clore(p)
  <2>1. balayage'.pc = "parcours"
    BY <1>6 DEF Auditer, Clore, Suivant, Repos
  <2> QED
    BY <1>6, <2>1 DEF Auditer, Clore, dossiers, Stable, PasDeRemise
<1>7. ASSUME NEW x \in Extensions,
             DeplacerPiece(p, x) \/ RetirerPiece(p, x) \/ EcarterPiece(p, x)
      PROVE  (\A q \in Radicaux : Stable(q)) /\ PasDeRemise
  <2>1. balayage'.pc = balayage.pc /\ balayage.pc # "remettre" /\ UNCHANGED lignes
    BY <1>1, <1>7, PasseType DEF DeplacerPiece, RetirerPiece, EcarterPiece, TypeOK
  <2>2. CASE DeplacerPiece(p, x)
    <3>1. Absente(p)
      BY <1>1, <2>2 DEF DeplacerPiece, IInv, CouranteInv, CibleInv, EnCours
    <3>2. \A q \in Radicaux : q # p => coffre'[q] = coffre[q]
      BY <1>1, <2>2 DEF DeplacerPiece, Avec, TypeOK
    <3> QED
      BY <2>1, <3>1, <3>2 DEF Stable, PasDeRemise
  <2>3. CASE RetirerPiece(p, x) \/ EcarterPiece(p, x)
    BY <2>1, <2>3 DEF RetirerPiece, EcarterPiece, Stable, PasDeRemise
  <2> QED
    BY <1>7, <2>2, <2>3
<1>8. ASSUME NEW x \in Extensions, RemettrePiece(p, x)
      PROVE  (\A q \in Radicaux : Stable(q)) /\ Absente(p)' /\ balayage'.cible = p
  <2>1. Absente(p) /\ UNCHANGED lignes
    BY <1>1, <1>8 DEF RemettrePiece, RangeInv
  <2>2. \A q \in Radicaux : q # p => coffre'[q] = coffre[q]
    BY <1>1, <1>8 DEF RemettrePiece, Avec, TypeOK
  <2>3. balayage'.cible = p
    BY <1>1, <1>8, PasseType DEF RemettrePiece, TypeOK
  <2> QED
    BY <2>1, <2>2, <2>3 DEF Stable, Absente
<1> QED
  BY <1>2, <1>3, <1>4, <1>5, <1>6, <1>7, <1>8 DEF TraiterCible

Vu ==
  \/ \A q \in Radicaux : Stable(q)
  \/ \E p \in Radicaux : Arrivee(p) \/ Depart(p)

Remise ==
  PasDeRemise \/ \E p \in Radicaux : balayage'.cible = p /\ Absente(p)'

LEMMA CreerVue ==
  ASSUME IInv, IInv', NEW p \in Radicaux, balayage.cible = p, Creer(p)
  PROVE  Arrivee(p) /\ PasDeRemise
<1>1. /\ Absente(p) /\ UNCHANGED coffre /\ TypeOK
      /\ Etape(IF Chiffrement THEN "sceller" ELSE "auditer")
      /\ lignes'[p].statut = "stored"
      /\ \A q \in Radicaux : q # p => lignes'[q] = lignes[q]
  BY DEF Creer, Absente, dossiers, IInv, TypeOK
<1>2. balayage' = [balayage EXCEPT !.pc = balayage'.pc] /\ balayage'.pc \in {"sceller", "auditer"}
  BY <1>1, EtapeType DEF Etape, TypeOK, Balayage
<1>3. balayage'.cible = p
  BY <1>1, <1>2 DEF TypeOK, Balayage
<1>4. coffre'[p].wav # Nul
  BY <1>2, <1>3 DEF IInv, CouranteInv, CibleInv, EnCours, EnSceau
<1> QED
  BY <1>1, <1>2, <1>4 DEF Arrivee, Stable, PasDeRemise

LEMMA PurgerVue ==
  ASSUME IInv, NEW p \in Radicaux, Purger(p)
  PROVE  Depart(p)
<1>1. TypeOK /\ coffre' = Avec(coffre, p, "wav", Nul)
  BY DEF Purger, IInv
<1>2. coffre'[p].wav = Nul /\ \A q \in Radicaux : q # p => coffre'[q] = coffre[q]
  BY <1>1, DossierEcrit DEF TypeOK, Extensions
<1>3. /\ lignes[p].statut = "stored" /\ lignes'[p].statut = "purged"
      /\ \A q \in Radicaux : q # p => lignes'[q] = lignes[q]
  BY <1>1 DEF Purger, TypeOK, LigneRecording
<1> QED
  BY <1>2, <1>3 DEF Depart, Stable

LEMMA VueStep ==
  ASSUME IInv, IInv', RangeInv, ~PanneApresCreation, [Next]_vars
  PROVE  /\ RangeInv'
         /\ Vu
<1>1. ASSUME UNCHANGED <<lignes, coffre>>
      PROVE  Vu
  BY <1>1 DEF Stable, Vu
<1>2. ASSUME Balayer PROVE Vu /\ Remise
  <2>1. CASE \/ Lister \/ Finir
             \/ \E p \in Radicaux : Attendre(p) \/ TrouverOrphelin(p) \/ Verifier(p)
    <3>1. balayage'.pc \in {"parcours", "repos", "ecarter", "chercher"}
      <4>1. ASSUME NEW p \in Radicaux, Attendre(p) PROVE balayage'.pc = "parcours"
        BY <4>1 DEF Attendre, IInv, TypeOK, Balayage
      <4>2. ASSUME NEW p \in Radicaux, TrouverOrphelin(p) \/ Verifier(p)
            PROVE  balayage'.pc \in {"ecarter", "chercher"}
        BY <4>2 DEF TrouverOrphelin, Verifier, Traiter
      <4>3. Lister => balayage'.pc = "parcours"
        BY DEF Lister, Repos
      <4>4. Finir => balayage'.pc = "repos"
        BY DEF Finir, Repos
      <4> QED
        BY <2>1, <4>1, <4>2, <4>3, <4>4
    <3>2. UNCHANGED <<lignes, coffre>>
      BY <2>1 DEF Lister, Finir, Attendre, TrouverOrphelin, Verifier, dossiers
    <3> QED
      BY <1>1, <3>1, <3>2 DEF Remise, PasDeRemise
  <2>2. ASSUME NEW p \in Radicaux, TraiterCible(p) PROVE Vu /\ Remise
    <3>1. CASE Creer(p)
      <4>1. balayage.cible = p
        BY <2>2 DEF TraiterCible
      <4> QED
        BY <3>1, <4>1, CreerVue DEF Vu, Remise
    <3>2. CASE ~Creer(p)
      BY <2>2, <3>2, CibleStable DEF Vu, Remise
    <3> QED
      BY <3>1, <3>2
  <2> QED
    BY <1>2, <2>1, <2>2 DEF Balayer
<1>3. ASSUME Panne PROVE Vu /\ Remise
  <2>1. UNCHANGED <<lignes, coffre>>
    BY <1>3 DEF Panne, Echouer, Interrompre, dossiers
  <2>2. Remise
    <3>1. CASE Echouer
      <4>1. balayage.pc = "deplacer"
        BY <3>1, Zenon DEF Echouer, EchecRattrape
      <4>2. balayage'.cible = balayage.cible
        BY <3>1 DEF Echouer, IInv, TypeOK, Balayage
      <4> QED
        BY <2>1, <4>1, <4>2 DEF IInv, VusInv, CouranteInv, CibleInv, EnCours, Absente, Remise
    <3>2. CASE Interrompre
      BY <3>2 DEF Interrompre, Repos, Remise, PasDeRemise
    <3> QED
      BY <1>3, <3>1, <3>2 DEF Panne
  <2> QED
    BY <1>1, <2>1, <2>2
<1>4. ASSUME Environnement PROVE Vu /\ Remise
  <2>1. UNCHANGED balayage
    BY <1>4 DEF Environnement
  <2>2. CASE \E p \in Radicaux : Purger(p)
    <3>1. PICK p \in Radicaux : Purger(p)
      BY <2>2
    <3>2. Depart(p)
      BY <3>1, PurgerVue
    <3>3. Remise
      BY <2>1, <3>2 DEF IInv, VusInv, EnCours, RangeInv, Depart, Stable, Absente, Remise, PasDeRemise
    <3> QED
      BY <3>2, <3>3 DEF Vu
  <2>3. CASE UNCHANGED <<lignes, coffre>>
    BY <1>1, <2>1, <2>3 DEF IInv, VusInv, EnCours, RangeInv, Absente, Remise, PasDeRemise
  <2>4. (\E p \in Radicaux : Purger(p)) \/ UNCHANGED <<lignes, coffre>>
    BY <1>4 DEF Environnement, DeposerWav, DeposerJson, Renoncer, Vieillir, dossiers
  <2> QED
    BY <2>2, <2>3, <2>4
<1>5. ASSUME UNCHANGED vars PROVE Vu /\ Remise
  BY <1>1, <1>5 DEF vars, IInv, VusInv, EnCours, RangeInv, Absente, Remise, PasDeRemise
<1>6. Vu /\ Remise
  BY <1>2, <1>3, <1>4, <1>5 DEF Next
<1>7. \A p \in Radicaux : lignes'[p].statut = "stored" => coffre'[p].wav # Nul
  <2>1. ASSUME NEW p \in Radicaux, lignes'[p].statut = "stored"
        PROVE  coffre'[p].wav # Nul
    <3>1. Stable(p) \/ Arrivee(p)
      BY <1>6, <2>1 DEF Vu, Arrivee, Depart
    <3> QED
      BY <2>1, <3>1 DEF Stable, Arrivee, RangeInv, Absente
  <2> QED
    BY <2>1
<1> QED
  BY <1>6, <1>7 DEF RangeInv, Remise, PasDeRemise

LEMMA ToujoursRange ==
  ASSUME ~PanneApresCreation
  PROVE  Spec => [](IInv /\ RangeInv)
<1>1. Init => IInv /\ RangeInv
  BY InitInv DEF Init, RangeInv, PasDeLigne, Repos
<1>2. IInv /\ RangeInv /\ [Next]_vars => (IInv /\ RangeInv)'
  <2>1. IInv /\ [Next]_vars => IInv'
    BY NextInv, StutterInv
  <2> QED
    BY <2>1, VueStep
<1> QED
  BY <1>1, <1>2, PTL DEF Spec

(* If nothing fails once its row is created, the audio a row was created for *)
(* is kept until it is purged, whatever the stops and the repeated drops.    *)
THEOREM RangeToujoursConserve ==
  ASSUME ~PanneApresCreation
  PROVE  Spec => []RangeConserve
<1>1. IInv /\ RangeInv => RangeConserve
  BY DEF IInv, VoulteInv, PreuveIntacte, RangeInv, RangeConserve
<1> QED
  BY ToujoursRange, <1>1, PTL

(* A repeated drop is only attested of a row that exists.                   *)
RedepotConnu == \A p \in Radicaux : <<p, "redepot">> \in attestes => ~Absente(p)

LEMMA RedepotStep ==
  ASSUME IInv, IInv', RedepotConnu, [Next]_vars
  PROVE  RedepotConnu'
<1>1. \A p \in Radicaux : ~Absente(p) => ~Absente(p)'
  <2>1. CASE UNCHANGED lignes
    BY <2>1 DEF Absente
  <2>2. ASSUME NEW p \in Radicaux, Creer(p) \/ Inscrire(p) \/ Purger(p)
        PROVE  \A q \in Radicaux : ~Absente(q) => ~Absente(q)'
    <3>1. lignes \in [Radicaux -> LigneRecording]
      BY DEF IInv, TypeOK
    <3> QED
      BY <2>2, <3>1 DEF Creer, Inscrire, Purger, Absente, LigneRecording
  <2>3. UNCHANGED lignes \/ \E p \in Radicaux : Creer(p) \/ Inscrire(p) \/ Purger(p)
    <3>1. CASE Balayer
      <4>1. ASSUME NEW p \in Radicaux, TraiterCible(p)
            PROVE  UNCHANGED lignes \/ Creer(p) \/ Inscrire(p)
        BY <4>1 DEF TraiterCible, Chercher, EcrireConteneur, Basculer, Auditer, Clore,
             DeplacerPiece, RemettrePiece, RetirerPiece, EcarterPiece
      <4> QED
        BY <3>1, <4>1 DEF Balayer, Lister, Finir, Attendre, TrouverOrphelin, Verifier
    <3>2. CASE Panne \/ UNCHANGED vars
      BY <3>2 DEF Panne, Echouer, Interrompre, vars
    <3>3. CASE Environnement
      BY <3>3 DEF Environnement
    <3> QED
      BY <3>1, <3>2, <3>3 DEF Next
  <2> QED
    BY <2>1, <2>2, <2>3
<1>2. ASSUME NEW p \in Radicaux, <<p, "redepot">> \in attestes', <<p, "redepot">> \notin attestes
      PROVE  ~Absente(p)
  <2>1. attestes' # attestes
    BY <1>2
  <2>2. \E q \in Radicaux : balayage.cible = q /\ (Auditer(q) \/ Clore(q))
    <3>1. CASE Balayer
      <4>1. ASSUME NEW q \in Radicaux, TraiterCible(q)
            PROVE  balayage.cible = q /\ (Auditer(q) \/ Clore(q))
        BY <2>1, <4>1 DEF TraiterCible, Chercher, Creer, EcrireConteneur, Basculer, Inscrire,
             DeplacerPiece, RemettrePiece, RetirerPiece, EcarterPiece
      <4> QED
        BY <2>1, <3>1, <4>1 DEF Balayer, Lister, Finir, Attendre, TrouverOrphelin, Verifier
    <3>2. CASE Panne \/ UNCHANGED vars
      BY <2>1, <3>2 DEF Panne, Echouer, Interrompre, vars
    <3>3. CASE Environnement
      BY <2>1, <3>3 DEF Environnement
    <3> QED
      BY <3>1, <3>2, <3>3 DEF Next
  <2>3. PICK q \in Radicaux : balayage.cible = q /\ (Auditer(q) \/ Clore(q))
    BY <2>2
  <2>4. balayage.pc = "retirer" /\ p = q
    BY <1>2, <2>1, <2>3 DEF Auditer, Clore
  <2> QED
    BY <2>3, <2>4 DEF IInv, CouranteInv, CibleInv, EnCours
<1> QED
  BY <1>1, <1>2 DEF RedepotConnu

(* An INGEST event vouches for what the journal says it does: an ingestion,  *)
(* for a file in place that reads as its row says; a repeated drop, for a    *)
(* row whose audio is in the vault, if nothing fails once a row is created.  *)
THEOREM AttestationToujoursFidele == Spec => []AttestationFidele
<1>1. Init => RedepotConnu
  BY DEF Init, RedepotConnu
<1>2. RedepotConnu /\ IInv /\ IInv' /\ [Next]_vars => RedepotConnu'
  BY RedepotStep
<1>3. Spec => []RedepotConnu
  BY <1>1, <1>2, ToujoursIInv, PTL DEF Spec
<1>4. CASE PanneApresCreation
  <2>1. IInv /\ RedepotConnu => AttestationFidele
    BY <1>4 DEF IInv, VoulteInv, RedepotConnu, AttestationFidele, RedepotAtteste, Absente
  <2> QED
    BY <1>3, <2>1, ToujoursIInv, PTL
<1>5. CASE ~PanneApresCreation
  <2>1. IInv /\ RangeInv /\ RedepotConnu => AttestationFidele
    BY DEF IInv, VoulteInv, PreuveIntacte, RangeInv, RedepotConnu, AttestationFidele,
         RedepotAtteste, Absente
  <2>2. Spec => [](IInv /\ RangeInv)
    BY <1>5, ToujoursRange
  <2> QED
    BY <1>3, <2>1, <2>2, PTL
<1> QED
  BY <1>4, <1>5

LEMMA VueArrivee ==
  ASSUME IInv, IInv', NEW p \in Radicaux, Arrivee(p)
  PROVE  Conservation!Ingerer(p)
<1>1. \A q \in Radicaux : q # p =>
        /\ Statuts'[q] = Statuts[q]
        /\ q \in Ranges' <=> q \in Ranges
  BY DEF Arrivee, Stable, Statuts, Ranges, Absente
<1>2. Statuts[p] = "absente" /\ Statuts'[p] = "stored" /\ p \in Ranges'
  BY DEF Arrivee, Statuts, Ranges, Absente
<1>3. Statuts' = [Statuts EXCEPT ![p] = "stored"]
  BY <1>1, <1>2 DEF Statuts
<1>4. Ranges' = Ranges \cup {p}
  BY <1>1, <1>2 DEF Ranges
<1> QED
  BY <1>2, <1>3, <1>4 DEF Conservation!Ingerer

LEMMA VueDepart ==
  ASSUME IInv, IInv', NEW p \in Radicaux, Depart(p)
  PROVE  Retrait(p)
<1>1. \A q \in Radicaux : q # p =>
        /\ Statuts'[q] = Statuts[q]
        /\ q \in Ranges' <=> q \in Ranges
  BY DEF Depart, Stable, Statuts, Ranges, Absente
<1>2. Statuts[p] = "stored" /\ Statuts'[p] = "purged" /\ p \notin Ranges'
  BY DEF Depart, Statuts, Ranges
<1>3. Statuts' = [Statuts EXCEPT ![p] = "purged"]
  BY <1>1, <1>2 DEF Statuts
<1>4. Ranges' = Ranges \ {p}
  BY <1>1, <1>2 DEF Ranges
<1> QED
  BY <1>2, <1>3, <1>4 DEF Retrait

(* The refinement: ingestion is, for the services that read its rows, the    *)
(* single step that module Registre takes it for.                            *)
THEOREM RegistreToujoursTenu ==
  ASSUME ~PanneApresCreation
  PROVE  Spec => RegistreTenu
<1>1. Init => Conservation!RegistreInit
  BY DEF Init, Conservation!RegistreInit, Statuts, Ranges, PasDeLigne
<1>2. ASSUME IInv, IInv', RangeInv, [Next]_vars
      PROVE  [\E p \in Radicaux : Conservation!Ingerer(p) \/ Retrait(p)]_<<Statuts, Ranges>>
  <2>1. CASE \A q \in Radicaux : Stable(q)
    <3>1. Statuts' = Statuts
      BY <2>1 DEF Stable, Statuts
    <3>2. Ranges' = Ranges
      BY <2>1 DEF Stable, Ranges, Absente
    <3> QED
      BY <3>1, <3>2
  <2>2. CASE \E p \in Radicaux : Arrivee(p) \/ Depart(p)
    BY <1>2, <2>2, VueArrivee, VueDepart
  <2> QED
    BY <1>2, <2>1, <2>2, VueStep DEF Vu
<1> QED
  BY <1>1, <1>2, ToujoursRange, PTL DEF Spec, RegistreTenu
=============================================================================
