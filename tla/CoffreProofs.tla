---------------------------- MODULE CoffreProofs ----------------------------
(***************************************************************************)
(* What the vault keeps, for any number of calls and keys, while ingestion, *)
(* storage:sceller and the purge all work on it; and what a reader of the   *)
(* vault receives, for every size of call and of frame and every header,    *)
(* while the writers work between its reading of the row and that of the    *)
(* file.  The invariant of the vault says what each writer may count on     *)
(* between two of its steps: whatever crosses, that a provisional file is a *)
(* container and that no file is in clear whose row says sealed; and, of a  *)
(* call that tool and ingestion did not both take, that the container it    *)
(* wrote is still the one it will rename.  Last, what a backup and its two  *)
(* verifications are worth while the writers go on: rows only go forward,   *)
(* and a file that was damaged when the vault was listed never becomes good *)
(* again unseen.                                                            *)
(***************************************************************************)
EXTENDS Voute, FiniteSetTheorems, TLAPS

USE DEF histoire

(* Typing.  A call being sealed has its file, a tool at work has a key and, *)
(* but for when it looks for one, a call.                                   *)
EnPlace ==
  \A p \in Pieces :
    rangement[p] \in {"sceller", "ecrire", "basculer", "inscrire"} => disque[p] # Nul
AuTravail ==
  /\ outil.pc # "repos" => outil.cle \in Cles /\ outil.ref \in Refs
  /\ outil.pc \in {"ecrire", "basculer", "inscrire"} => outil.cible \in Pieces
  /\ outil.pc = "ecrire" => outil.copie \in Fichier

TypeInv == CoffreTypeOK /\ EnPlace /\ AuTravail

LEMMA ClairFichier ==
  /\ Clair \in Fichier /\ Clair # Nul
  /\ Clair.son = "intact" /\ Clair.sceau = "aucun"
BY FichierAssumption DEF Clair, Fichier, FichierAssumption

LEMMA ScellerType ==
  ASSUME NEW f \in Fichier, NEW k \in Cles
  PROVE  Sceller(f, k) \in Fichier /\ Sceller(f, k) # Nul /\ Sceller(f, k).sceau = "ouvrable"
BY FichierAssumption DEF Sceller, Fichier, FichierAssumption

LEMMA ScellerClair ==
  ASSUME NEW k \in Cles
  PROVE  /\ Sceller(Clair, k) \in Fichier /\ Sceller(Clair, k) # Nul
         /\ Sceller(Clair, k).son = "intact" /\ Sceller(Clair, k).sceau = "ouvrable"
         /\ Sceller(Clair, k).cle = k
<1>1. Sceller(Clair, k) \in Fichier /\ Sceller(Clair, k) # Nul
  BY ClairFichier, ScellerType
<1>2. Sceller(Clair, k) = [son |-> "intact", sceau |-> "ouvrable", cle |-> k]
  BY DEF Sceller, Clair
<1> QED
  BY <1>1, <1>2

LEMMA AbimerType ==
  ASSUME NEW f \in Fichier
  PROVE  /\ Abimer(f) \in Fichier /\ Abimer(f) # Nul /\ Abimer(f).cle = f.cle
         /\ f.sceau = "aucun" => Abimer(f).sceau = "aucun"
         /\ f.sceau # "aucun" => Abimer(f).sceau = "rompu"
BY FichierAssumption DEF Abimer, Fichier, FichierAssumption

LEMMA LigneType ==
  /\ PasDeLigne \in Ligne
  /\ \A l \in Ligne :
       /\ [l EXCEPT !.statut = "stored"] \in Ligne /\ [l EXCEPT !.statut = "purged"] \in Ligne
       /\ \A r \in Refs : [l EXCEPT !.chiffre = TRUE, !.ref = r] \in Ligne
BY DEF PasDeLigne, Ligne

LEMMA OutilType ==
  /\ OutilAuRepos \in Outil /\ OutilAuRepos.pc = "repos" /\ OutilAuRepos.reste = {}
  /\ outil \in Outil => /\ Suivante \in Outil /\ Suivante.pc = "lire"
                        /\ Suivante.cle = outil.cle /\ Suivante.ref = outil.ref
                        /\ Suivante.reste = outil.reste
BY DEF OutilAuRepos, Outil, Suivante, PasOutil

LEMMA TypeInitial == CoffreInit => TypeInv
<1> SUFFICES ASSUME CoffreInit
             PROVE  TypeInv
  OBVIOUS
<1>1. lignes \in [Pieces -> Ligne]
  BY LigneType DEF CoffreInit
<1>2. /\ disque \in [Pieces -> Fichier \cup {Nul}] /\ provisoire \in [Pieces -> Fichier \cup {Nul}]
      /\ copies \in [Pieces -> Fichier \cup {Nul}]
  BY DEF CoffreInit
<1>3. outil \in Outil /\ AuTravail
  BY OutilType DEF CoffreInit, AuTravail
<1>4. incidents \in 0..MaxIncidents
  BY CoffreAssumption DEF CoffreInit, CoffreAssumption
<1>5. /\ rangement \in [Pieces -> {"hors", "sceller", "ecrire", "basculer", "inscrire", "fini"}]
      /\ EnPlace
  BY DEF CoffreInit, EnPlace
<1> QED
  BY <1>1, <1>2, <1>3, <1>4, <1>5 DEF TypeInv, CoffreTypeOK, CoffreInit

LEMMA TypeStable == TypeInv /\ [CoffreNext]_coffreVars => TypeInv'
<1> SUFFICES ASSUME TypeInv, [CoffreNext]_coffreVars
             PROVE  TypeInv'
  OBVIOUS
<1> USE DEF TypeInv, CoffreTypeOK, EnPlace, AuTravail, Avec
<1>1. ASSUME NEW p \in Pieces, NEW c \in BOOLEAN, Creer(p, c)
      PROVE  TypeInv'
  <2>1. lignes' \in [Pieces -> Ligne]
    BY <1>1, LigneType DEF Creer
  <2>2. disque' \in [Pieces -> Fichier \cup {Nul}] /\ EnPlace'
    BY <1>1, ClairFichier DEF Creer
  <2> QED
    BY <1>1, <2>1, <2>2 DEF Creer
<1>2. ASSUME NEW p \in Pieces, RangerLire(p)
      PROVE  TypeInv'
  <2>1. Sceller(disque[p], CleApi) \in Fichier
    BY <1>2, ScellerType, CoffreAssumption DEF RangerLire, CoffreAssumption
  <2> QED
    BY <1>2, <2>1 DEF RangerLire
<1>3. ASSUME NEW p \in Pieces, RangerEcrire(p) \/ RangerBasculer(p) \/ RangerEchouer(p)
      PROVE  TypeInv'
  BY <1>3 DEF RangerEcrire, RangerBasculer, RangerEchouer
<1>4. ASSUME NEW p \in Pieces, RangerInscrire(p)
      PROVE  TypeInv'
  <2>1. lignes' \in [Pieces -> Ligne]
    BY <1>4, LigneType, CoffreAssumption DEF RangerInscrire, CoffreAssumption
  <2> QED
    BY <1>4, <2>1 DEF RangerInscrire
<1>5. ASSUME NEW p \in Pieces, RangerArreter(p)
      PROVE  TypeInv'
  <2>1. incidents' \in 0..MaxIncidents
    BY <1>5, CoffreAssumption DEF RangerArreter, Incident, CoffreAssumption
  <2> QED
    BY <1>5, <2>1 DEF RangerArreter
<1>6. ASSUME NEW p \in Pieces, EffacerFichier(p)
      PROVE  TypeInv'
  BY <1>6 DEF EffacerFichier
<1>7. ASSUME NEW p \in Pieces, MarquerPurgee(p)
      PROVE  TypeInv'
  <2>1. lignes' \in [Pieces -> Ligne]
    BY <1>7, LigneType DEF MarquerPurgee
  <2> QED
    BY <1>7, <2>1 DEF MarquerPurgee
<1>8. ASSUME NEW p \in Pieces, Alterer(p)
      PROVE  TypeInv'
  <2>1. Abimer(disque[p]) \in Fichier /\ Abimer(disque[p]) # Nul
    BY <1>8, AbimerType DEF Alterer
  <2>2. disque' \in [Pieces -> Fichier \cup {Nul}] /\ EnPlace'
    BY <1>8, <2>1 DEF Alterer
  <2>3. incidents' \in 0..MaxIncidents
    BY <1>8, CoffreAssumption DEF Alterer, Incident, CoffreAssumption
  <2> QED
    BY <1>8, <2>2, <2>3 DEF Alterer
<1>9. ASSUME NEW p \in Pieces, OutilLire(p)
      PROVE  TypeInv'
  <2>1. CASE Scellable(disque[p])
    <3>1. Sceller(disque[p], outil.cle) \in Fichier
      BY <1>9, <2>1, ScellerType DEF OutilLire, Scellable
    <3>2. outil' = [outil EXCEPT !.pc = "ecrire", !.cible = p, !.reste = @ \ {p},
                                 !.copie = Sceller(disque[p], outil.cle)]
      BY <1>9, <2>1 DEF OutilLire
    <3>3. outil' \in Outil
      BY <3>1, <3>2 DEF Outil, PasOutil
    <3>4. /\ outil'.pc = "ecrire" /\ outil'.cible = p
          /\ outil'.cle = outil.cle /\ outil'.ref = outil.ref
          /\ outil'.copie = Sceller(disque[p], outil.cle)
      BY <3>2 DEF Outil
    <3>5. /\ outil.pc = "lire" /\ croisees' \subseteq Pieces
          /\ UNCHANGED <<lignes, disque, provisoire, rangement, copies, effacees, incidents,
                         alterees, devancees, delaissees>>
      BY <1>9 DEF OutilLire
    <3> QED
      BY <3>1, <3>3, <3>4, <3>5
  <2>2. CASE ~Scellable(disque[p])
    <3>1. outil' \in Outil /\ AuTravail'
      BY <1>9, <2>2 DEF OutilLire, Outil
    <3> QED
      BY <1>9, <3>1 DEF OutilLire
  <2> QED
    BY <2>1, <2>2
<1>10. ASSUME NEW k \in Cles, NEW r \in Refs, OutilLancer(k, r)
      PROVE  TypeInv'
  <2>1. outil' \in Outil /\ AuTravail'
    BY <1>10 DEF OutilLancer, OutilAuRepos, Outil, PasOutil
  <2> QED
    BY <1>10, <2>1 DEF OutilLancer
<1>11. CASE OutilEcrire
  <2>1. outil' \in Outil /\ AuTravail'
    BY <1>11 DEF OutilEcrire, Outil, PasOutil
  <2> QED
    BY <1>11, <2>1 DEF OutilEcrire
<1>12. CASE OutilBasculer
  <2>1. outil' \in Outil /\ AuTravail'
    BY <1>12, OutilType DEF OutilBasculer, Outil, PasOutil
  <2> QED
    BY <1>12, <2>1 DEF OutilBasculer
<1>13. CASE OutilInscrire
  <2>1. lignes' \in [Pieces -> Ligne]
    BY <1>13, LigneType DEF OutilInscrire
  <2>2. outil' \in Outil /\ AuTravail'
    BY <1>13, OutilType DEF OutilInscrire
  <2> QED
    BY <1>13, <2>1, <2>2 DEF OutilInscrire
<1>14. CASE OutilEchouer \/ OutilArreter \/ OutilFinir
  <2>1. outil' \in Outil /\ AuTravail'
    BY <1>14, OutilType DEF OutilEchouer, OutilArreter, OutilFinir
  <2>2. incidents' \in 0..MaxIncidents
    BY <1>14, CoffreAssumption
       DEF OutilEchouer, OutilArreter, OutilFinir, Incident, CoffreAssumption
  <2>3. delaissees' \subseteq Pieces
    BY <1>14 DEF OutilEchouer, OutilArreter, OutilFinir, Delaisser
  <2> QED
    BY <1>14, <2>1, <2>2, <2>3 DEF OutilEchouer, OutilArreter, OutilFinir
<1>15. CASE UNCHANGED coffreVars
  BY <1>15 DEF coffreVars
<1> QED
  BY <1>1, <1>2, <1>3, <1>4, <1>5, <1>6, <1>7, <1>8, <1>9, <1>10, <1>11, <1>12, <1>13, <1>14, <1>15
     DEF CoffreNext
-----------------------------------------------------------------------------
(* The tool has read a call and not yet done with it.                       *)
Tient(p) == outil.pc \in {"ecrire", "basculer", "inscrire"} /\ outil.cible = p

(* Whatever crosses: what stands beside a wav, or will, is a container, and *)
(* a writer that has renamed one finds it in place or nothing.              *)
SceauxTenus ==
  /\ \A p \in Pieces :
       /\ provisoire[p] # Nul => provisoire[p].sceau = "ouvrable"
       /\ rangement[p] = "ecrire" => copies[p] # Nul /\ copies[p].sceau = "ouvrable"
       /\ rangement[p] = "inscrire" => disque[p].sceau # "aucun"
  /\ outil.pc = "ecrire" => outil.copie.sceau = "ouvrable"
  /\ outil.pc = "inscrire" /\ disque[outil.cible] # Nul => disque[outil.cible].sceau # "aucun"

(* How far a call is on its way in tells what stands on the disk and in the *)
(* table: nobody but its own ingestion and a tool that crosses it touches   *)
(* either before it is over.                                                *)
RangementTenu ==
  \A p \in Pieces :
    /\ rangement[p] = "hors" => lignes[p] = PasDeLigne /\ disque[p] = Nul /\ ~Tient(p)
    /\ rangement[p] # "hors" => lignes[p].statut # "absente"
    /\ rangement[p] # "fini" => p \notin effacees \cup alterees /\ lignes[p].statut # "purged"
    /\ p \notin croisees =>
         /\ rangement[p] # "fini" => ~Tient(p)
         /\ rangement[p] \in {"sceller", "ecrire", "basculer"} => disque[p] = Clair
         /\ rangement[p] = "ecrire" => copies[p] = Sceller(Clair, CleApi)
         /\ rangement[p] = "basculer" => provisoire[p] = Sceller(Clair, CleApi)
         /\ rangement[p] = "inscrire" => disque[p] = Sceller(Clair, CleApi)

(* A file that no accident touched holds the audio and opens; a container   *)
(* that opens holds the audio; a stored call has its file.                  *)
FichiersTenus ==
  \A p \in Pieces \ croisees :
    /\ disque[p] # Nul /\ p \notin alterees => disque[p].son = "intact" /\ disque[p].sceau # "rompu"
    /\ disque[p] # Nul /\ disque[p].sceau = "ouvrable" => disque[p].son = "intact"
    /\ lignes[p].statut = "stored" /\ p \notin effacees => disque[p] # Nul

(* The container the tool holds, in memory or beside the file, is that of   *)
(* the audio of its call under its key.                                     *)
OutilTenu ==
  \A p \in Pieces : Tient(p) =>
    /\ p \notin outil.reste
    /\ p \notin croisees =>
         /\ outil.pc = "ecrire" => outil.copie = Sceller(Clair, outil.cle)
         /\ outil.pc = "basculer" => provisoire[p] = Sceller(Clair, outil.cle)

(* Once its row says sealed, a call has at most one writer left.            *)
UneEcriture ==
  \A p \in Pieces :
    lignes[p].chiffre /\ rangement[p] # "fini" => p \notin outil.reste /\ ~Tient(p)

CoffreInv ==
  /\ TypeInv /\ SceauxTenus /\ RangementTenu /\ FichiersTenus /\ OutilTenu
  /\ UneEcriture /\ LigneScelleeVraie

(* A purge the tool did not overtake leaves nothing for it to bring back.   *)
HorsDAtteinte(p) ==
  disque[p] = Nul /\ ~(outil.pc \in {"ecrire", "basculer"} /\ outil.cible = p)
PurgeTenue ==
  \A p \in Pieces \ devancees : p \in effacees \/ lignes[p].statut = "purged" => HorsDAtteinte(p)

LEMMA CoffreStable ==
  ASSUME CoffreInv, TypeInv', [CoffreNext]_coffreVars
  PROVE  CoffreInv'
<1> USE CoffreAssumption DEF CoffreInv, TypeInv, CoffreTypeOK, EnPlace, AuTravail, CoffreAssumption,
           SceauxTenus, RangementTenu, FichiersTenus, OutilTenu, UneEcriture, LigneScelleeVraie,
           Tient, Avec
<1>1. ASSUME NEW p \in Pieces, NEW c \in BOOLEAN, Creer(p, c)
      PROVE  CoffreInv'
  <2>1. SceauxTenus'
    BY <1>1, ClairFichier, ScellerClair DEF Creer, PasDeLigne
  <2>2. RangementTenu'
    BY <1>1, ClairFichier, ScellerClair DEF Creer, PasDeLigne
  <2>3. FichiersTenus'
    BY <1>1, ClairFichier, ScellerClair DEF Creer, PasDeLigne
  <2>4. OutilTenu'
    BY <1>1, ClairFichier, ScellerClair DEF Creer, PasDeLigne
  <2>5. UneEcriture'
    BY <1>1, ClairFichier, ScellerClair DEF Creer, PasDeLigne
  <2>6. LigneScelleeVraie'
    BY <1>1, ClairFichier, ScellerClair DEF Creer, PasDeLigne
  <2> QED
    BY <2>1, <2>2, <2>3, <2>4, <2>5, <2>6
<1>2. ASSUME NEW p \in Pieces, RangerLire(p)
      PROVE  CoffreInv'
  <2>1. SceauxTenus'
    BY <1>2, ClairFichier, ScellerClair, ScellerType DEF RangerLire
  <2>2. RangementTenu'
    BY <1>2, ClairFichier, ScellerClair, ScellerType DEF RangerLire
  <2>3. FichiersTenus'
    BY <1>2, ClairFichier, ScellerClair, ScellerType DEF RangerLire
  <2>4. OutilTenu'
    BY <1>2, ClairFichier, ScellerClair, ScellerType DEF RangerLire
  <2>5. UneEcriture'
    BY <1>2, ClairFichier, ScellerClair, ScellerType DEF RangerLire
  <2>6. LigneScelleeVraie'
    BY <1>2, ClairFichier, ScellerClair, ScellerType DEF RangerLire
  <2> QED
    BY <2>1, <2>2, <2>3, <2>4, <2>5, <2>6
<1>3. ASSUME NEW p \in Pieces, RangerEcrire(p)
      PROVE  CoffreInv'
  <2>1. SceauxTenus'
    BY <1>3, ClairFichier, ScellerClair DEF RangerEcrire
  <2>2. RangementTenu'
    BY <1>3, ClairFichier, ScellerClair DEF RangerEcrire
  <2>3. FichiersTenus'
    BY <1>3, ClairFichier, ScellerClair DEF RangerEcrire
  <2>4. OutilTenu'
    BY <1>3, ClairFichier, ScellerClair DEF RangerEcrire
  <2>5. UneEcriture'
    BY <1>3, ClairFichier, ScellerClair DEF RangerEcrire
  <2>6. LigneScelleeVraie'
    BY <1>3, ClairFichier, ScellerClair DEF RangerEcrire
  <2> QED
    BY <2>1, <2>2, <2>3, <2>4, <2>5, <2>6
<1>4. ASSUME NEW p \in Pieces, RangerBasculer(p)
      PROVE  CoffreInv'
  <2>1. SceauxTenus'
    BY <1>4, ClairFichier, ScellerClair DEF RangerBasculer
  <2>2. RangementTenu'
    BY <1>4, ClairFichier, ScellerClair DEF RangerBasculer
  <2>3. FichiersTenus'
    BY <1>4, ClairFichier, ScellerClair DEF RangerBasculer
  <2>4. OutilTenu'
    BY <1>4, ClairFichier, ScellerClair DEF RangerBasculer
  <2>5. UneEcriture'
    BY <1>4, ClairFichier, ScellerClair DEF RangerBasculer
  <2>6. LigneScelleeVraie'
    BY <1>4, ClairFichier, ScellerClair DEF RangerBasculer
  <2> QED
    BY <2>1, <2>2, <2>3, <2>4, <2>5, <2>6
<1>5. ASSUME NEW p \in Pieces, RangerEchouer(p)
      PROVE  CoffreInv'
  <2>1. SceauxTenus'
    BY <1>5, ClairFichier, ScellerClair DEF RangerEchouer
  <2>2. RangementTenu'
    BY <1>5, ClairFichier, ScellerClair DEF RangerEchouer
  <2>3. FichiersTenus'
    BY <1>5, ClairFichier, ScellerClair DEF RangerEchouer
  <2>4. OutilTenu'
    BY <1>5, ClairFichier, ScellerClair DEF RangerEchouer
  <2>5. UneEcriture'
    BY <1>5, ClairFichier, ScellerClair DEF RangerEchouer
  <2>6. LigneScelleeVraie'
    BY <1>5, ClairFichier, ScellerClair DEF RangerEchouer
  <2> QED
    BY <2>1, <2>2, <2>3, <2>4, <2>5, <2>6
<1>6. ASSUME NEW p \in Pieces, RangerInscrire(p)
      PROVE  CoffreInv'
  <2>1. SceauxTenus'
    BY <1>6, ClairFichier, ScellerClair DEF RangerInscrire, Ligne
  <2>2. RangementTenu'
    BY <1>6, ClairFichier, ScellerClair DEF RangerInscrire, Ligne
  <2>3. FichiersTenus'
    BY <1>6, ClairFichier, ScellerClair DEF RangerInscrire, Ligne
  <2>4. OutilTenu'
    BY <1>6, ClairFichier, ScellerClair DEF RangerInscrire, Ligne
  <2>5. UneEcriture'
    BY <1>6, ClairFichier, ScellerClair DEF RangerInscrire, Ligne
  <2>6. LigneScelleeVraie'
    BY <1>6, ClairFichier, ScellerClair DEF RangerInscrire, Ligne
  <2> QED
    BY <2>1, <2>2, <2>3, <2>4, <2>5, <2>6
<1>7. ASSUME NEW p \in Pieces, RangerArreter(p)
      PROVE  CoffreInv'
  <2>1. SceauxTenus'
    BY <1>7, ClairFichier, ScellerClair DEF RangerArreter
  <2>2. RangementTenu'
    BY <1>7, ClairFichier, ScellerClair DEF RangerArreter
  <2>3. FichiersTenus'
    BY <1>7, ClairFichier, ScellerClair DEF RangerArreter
  <2>4. OutilTenu'
    BY <1>7, ClairFichier, ScellerClair DEF RangerArreter
  <2>5. UneEcriture'
    BY <1>7, ClairFichier, ScellerClair DEF RangerArreter
  <2>6. LigneScelleeVraie'
    BY <1>7, ClairFichier, ScellerClair DEF RangerArreter
  <2> QED
    BY <2>1, <2>2, <2>3, <2>4, <2>5, <2>6
<1>8. ASSUME NEW p \in Pieces, EffacerFichier(p)
      PROVE  CoffreInv'
  <2>1. SceauxTenus'
    BY <1>8, ClairFichier, ScellerClair DEF EffacerFichier, PasDeLigne
  <2>2. RangementTenu'
    BY <1>8, ClairFichier, ScellerClair DEF EffacerFichier, PasDeLigne
  <2>3. FichiersTenus'
    BY <1>8, ClairFichier, ScellerClair DEF EffacerFichier, PasDeLigne
  <2>4. OutilTenu'
    BY <1>8, ClairFichier, ScellerClair DEF EffacerFichier, PasDeLigne
  <2>5. UneEcriture'
    BY <1>8, ClairFichier, ScellerClair DEF EffacerFichier, PasDeLigne
  <2>6. LigneScelleeVraie'
    BY <1>8, ClairFichier, ScellerClair DEF EffacerFichier, PasDeLigne
  <2> QED
    BY <2>1, <2>2, <2>3, <2>4, <2>5, <2>6
<1>9. ASSUME NEW p \in Pieces, MarquerPurgee(p)
      PROVE  CoffreInv'
  <2>1. SceauxTenus'
    BY <1>9, ClairFichier, ScellerClair DEF MarquerPurgee
  <2>2. RangementTenu'
    BY <1>9, ClairFichier, ScellerClair DEF MarquerPurgee
  <2>3. FichiersTenus'
    BY <1>9, ClairFichier, ScellerClair DEF MarquerPurgee
  <2>4. OutilTenu'
    BY <1>9, ClairFichier, ScellerClair DEF MarquerPurgee
  <2>5. UneEcriture'
    BY <1>9, ClairFichier, ScellerClair DEF MarquerPurgee
  <2>6. LigneScelleeVraie'
    BY <1>9, ClairFichier, ScellerClair DEF MarquerPurgee
  <2> QED
    BY <2>1, <2>2, <2>3, <2>4, <2>5, <2>6
<1>10. ASSUME NEW p \in Pieces, Alterer(p)
      PROVE  CoffreInv'
  <2>1. SceauxTenus'
    BY <1>10, ClairFichier, ScellerClair, AbimerType DEF Alterer
  <2>2. RangementTenu'
    BY <1>10, ClairFichier, ScellerClair, AbimerType DEF Alterer
  <2>3. FichiersTenus'
    BY <1>10, ClairFichier, ScellerClair, AbimerType DEF Alterer
  <2>4. OutilTenu'
    BY <1>10, ClairFichier, ScellerClair, AbimerType DEF Alterer
  <2>5. UneEcriture'
    BY <1>10, ClairFichier, ScellerClair, AbimerType DEF Alterer
  <2>6. LigneScelleeVraie'
    BY <1>10, ClairFichier, ScellerClair, AbimerType DEF Alterer
  <2> QED
    BY <2>1, <2>2, <2>3, <2>4, <2>5, <2>6
<1>11. ASSUME NEW p \in Pieces, OutilLire(p)
      PROVE  CoffreInv'
  <2>1. SceauxTenus'
    BY <1>11, ClairFichier, ScellerClair DEF OutilLire, Scellable, Outil
  <2>2. RangementTenu'
    BY <1>11, ClairFichier, ScellerClair DEF OutilLire, Scellable, Outil
  <2>3. FichiersTenus'
    BY <1>11, ClairFichier, ScellerClair DEF OutilLire, Scellable, Outil
  <2>4. OutilTenu'
    BY <1>11, ClairFichier, ScellerClair DEF OutilLire, Scellable, Outil
  <2>5. UneEcriture'
    BY <1>11, ClairFichier, ScellerClair DEF OutilLire, Scellable, Outil
  <2>6. LigneScelleeVraie'
    BY <1>11, ClairFichier, ScellerClair DEF OutilLire, Scellable, Outil
  <2> QED
    BY <2>1, <2>2, <2>3, <2>4, <2>5, <2>6
<1>12. ASSUME NEW k \in Cles, NEW r \in Refs, OutilLancer(k, r)
      PROVE  CoffreInv'
  <2>1. SceauxTenus'
    BY <1>12, ClairFichier, ScellerClair DEF OutilLancer, OutilAuRepos
  <2>2. RangementTenu'
    BY <1>12, ClairFichier, ScellerClair DEF OutilLancer, OutilAuRepos
  <2>3. FichiersTenus'
    BY <1>12, ClairFichier, ScellerClair DEF OutilLancer, OutilAuRepos
  <2>4. OutilTenu'
    BY <1>12, ClairFichier, ScellerClair DEF OutilLancer, OutilAuRepos
  <2>5. UneEcriture'
    BY <1>12, ClairFichier, ScellerClair DEF OutilLancer, OutilAuRepos
  <2>6. LigneScelleeVraie'
    BY <1>12, ClairFichier, ScellerClair DEF OutilLancer, OutilAuRepos
  <2> QED
    BY <2>1, <2>2, <2>3, <2>4, <2>5, <2>6
<1>13. ASSUME OutilEcrire
      PROVE  CoffreInv'
  <2>1. SceauxTenus'
    BY <1>13, ClairFichier, ScellerClair DEF OutilEcrire, Outil
  <2>2. RangementTenu'
    BY <1>13, ClairFichier, ScellerClair DEF OutilEcrire, Outil
  <2>3. FichiersTenus'
    BY <1>13, ClairFichier, ScellerClair DEF OutilEcrire, Outil
  <2>4. OutilTenu'
    BY <1>13, ClairFichier, ScellerClair DEF OutilEcrire, Outil
  <2>5. UneEcriture'
    BY <1>13, ClairFichier, ScellerClair DEF OutilEcrire, Outil
  <2>6. LigneScelleeVraie'
    BY <1>13, ClairFichier, ScellerClair DEF OutilEcrire, Outil
  <2> QED
    BY <2>1, <2>2, <2>3, <2>4, <2>5, <2>6
<1>14. ASSUME OutilBasculer
      PROVE  CoffreInv'
  <2>1. SceauxTenus'
    BY <1>14, ClairFichier, ScellerClair, OutilType DEF OutilBasculer, Outil
  <2>2. RangementTenu'
    BY <1>14, ClairFichier, ScellerClair, OutilType DEF OutilBasculer, Outil
  <2>3. FichiersTenus'
    BY <1>14, ClairFichier, ScellerClair, OutilType DEF OutilBasculer, Outil
  <2>4. OutilTenu'
    BY <1>14, ClairFichier, ScellerClair, OutilType DEF OutilBasculer, Outil
  <2>5. UneEcriture'
    BY <1>14, ClairFichier, ScellerClair, OutilType DEF OutilBasculer, Outil
  <2>6. LigneScelleeVraie'
    BY <1>14, ClairFichier, ScellerClair, OutilType DEF OutilBasculer, Outil
  <2> QED
    BY <2>1, <2>2, <2>3, <2>4, <2>5, <2>6
<1>15. ASSUME OutilInscrire
      PROVE  CoffreInv'
  <2>1. SceauxTenus'
    BY <1>15, ClairFichier, ScellerClair, OutilType DEF OutilInscrire, Outil
  <2>2. RangementTenu'
    BY <1>15, ClairFichier, ScellerClair, OutilType DEF OutilInscrire, Outil
  <2>3. FichiersTenus'
    BY <1>15, ClairFichier, ScellerClair, OutilType DEF OutilInscrire, Outil
  <2>4. OutilTenu'
    BY <1>15, ClairFichier, ScellerClair, OutilType DEF OutilInscrire, Outil
  <2>5. UneEcriture'
    BY <1>15, ClairFichier, ScellerClair, OutilType DEF OutilInscrire, Outil
  <2>6. LigneScelleeVraie'
    BY <1>15, ClairFichier, ScellerClair, OutilType DEF OutilInscrire, Outil
  <2> QED
    BY <2>1, <2>2, <2>3, <2>4, <2>5, <2>6
<1>16. ASSUME OutilEchouer
      PROVE  CoffreInv'
  <2>1. SceauxTenus'
    BY <1>16, ClairFichier, ScellerClair, OutilType DEF OutilEchouer, Delaisser
  <2>2. RangementTenu'
    BY <1>16, ClairFichier, ScellerClair, OutilType DEF OutilEchouer, Delaisser
  <2>3. FichiersTenus'
    BY <1>16, ClairFichier, ScellerClair, OutilType DEF OutilEchouer, Delaisser
  <2>4. OutilTenu'
    BY <1>16, ClairFichier, ScellerClair, OutilType DEF OutilEchouer, Delaisser
  <2>5. UneEcriture'
    BY <1>16, ClairFichier, ScellerClair, OutilType DEF OutilEchouer, Delaisser
  <2>6. LigneScelleeVraie'
    BY <1>16, ClairFichier, ScellerClair, OutilType DEF OutilEchouer, Delaisser
  <2> QED
    BY <2>1, <2>2, <2>3, <2>4, <2>5, <2>6
<1>17. ASSUME OutilFinir \/ OutilArreter
      PROVE  CoffreInv'
  <2>1. SceauxTenus'
    BY <1>17, ClairFichier, ScellerClair, OutilType DEF OutilArreter, OutilFinir, Delaisser
  <2>2. RangementTenu'
    BY <1>17, ClairFichier, ScellerClair, OutilType DEF OutilArreter, OutilFinir, Delaisser
  <2>3. FichiersTenus'
    BY <1>17, ClairFichier, ScellerClair, OutilType DEF OutilArreter, OutilFinir, Delaisser
  <2>4. OutilTenu'
    BY <1>17, ClairFichier, ScellerClair, OutilType DEF OutilArreter, OutilFinir, Delaisser
  <2>5. UneEcriture'
    BY <1>17, ClairFichier, ScellerClair, OutilType DEF OutilArreter, OutilFinir, Delaisser
  <2>6. LigneScelleeVraie'
    BY <1>17, ClairFichier, ScellerClair, OutilType DEF OutilArreter, OutilFinir, Delaisser
  <2> QED
    BY <2>1, <2>2, <2>3, <2>4, <2>5, <2>6
<1>18. ASSUME UNCHANGED coffreVars
      PROVE  CoffreInv'
  <2>1. SceauxTenus'
    BY <1>18, ClairFichier, ScellerClair DEF coffreVars
  <2>2. RangementTenu'
    BY <1>18, ClairFichier, ScellerClair DEF coffreVars
  <2>3. FichiersTenus'
    BY <1>18, ClairFichier, ScellerClair DEF coffreVars
  <2>4. OutilTenu'
    BY <1>18, ClairFichier, ScellerClair DEF coffreVars
  <2>5. UneEcriture'
    BY <1>18, ClairFichier, ScellerClair DEF coffreVars
  <2>6. LigneScelleeVraie'
    BY <1>18, ClairFichier, ScellerClair DEF coffreVars
  <2> QED
    BY <2>1, <2>2, <2>3, <2>4, <2>5, <2>6
<1> HIDE DEF CoffreInv
<1> QED
  BY <1>1, <1>2, <1>3, <1>4, <1>5, <1>6, <1>7, <1>8, <1>9,
     <1>10, <1>11, <1>12, <1>13, <1>14, <1>15, <1>16, <1>17, <1>18
     DEF CoffreNext

LEMMA CoffreInitial == CoffreInit => CoffreInv
<1> SUFFICES ASSUME CoffreInit
             PROVE  CoffreInv
  OBVIOUS
<1>1. TypeInv
  BY TypeInitial
<1>2. /\ outil.pc = "repos" /\ outil.reste = {}
      /\ \A p \in Pieces : /\ lignes[p] = PasDeLigne /\ disque[p] = Nul /\ provisoire[p] = Nul
                           /\ rangement[p] = "hors"
  BY OutilType DEF CoffreInit
<1>3. SceauxTenus /\ OutilTenu /\ UneEcriture /\ LigneScelleeVraie
  BY <1>2 DEF SceauxTenus, OutilTenu, UneEcriture, LigneScelleeVraie, Tient
<1>4. RangementTenu /\ FichiersTenus
  BY <1>2 DEF CoffreInit, RangementTenu, FichiersTenus, PasDeLigne, Tient
<1> QED
  BY <1>1, <1>3, <1>4 DEF CoffreInv

LEMMA CoffreInvariant == CoffreSpec => []CoffreInv
<1>1. CoffreInit => CoffreInv
  BY CoffreInitial
<1>2. CoffreInv /\ [CoffreNext]_coffreVars => CoffreInv'
  BY TypeStable, CoffreStable DEF CoffreInv
<1> QED
  BY <1>1, <1>2, PTL DEF CoffreSpec

(* What happened is not forgotten.                                          *)
LEMMA HistoireCroit ==
  ASSUME [CoffreNext]_coffreVars
  PROVE  croisees \subseteq croisees' /\ devancees \subseteq devancees'
BY DEF CoffreNext, coffreVars, Avec, Creer, RangerLire, RangerEcrire, RangerBasculer, RangerEchouer,
       RangerInscrire, RangerArreter, EffacerFichier, MarquerPurgee, Alterer, OutilLire,
       OutilLancer, OutilEcrire, OutilBasculer, OutilInscrire, OutilEchouer, OutilFinir,
       OutilArreter

-----------------------------------------------------------------------------
(* What a purge removed is neither held by the tool, unless it overtook its *)
(* rename, nor sealed again.                                                *)
LEMMA PurgeStable ==
  ASSUME CoffreInv, CoffreInv', PurgeTenue, [CoffreNext]_coffreVars
  PROVE  PurgeTenue'
<1> USE DEF CoffreInv, TypeInv, CoffreTypeOK, PurgeTenue, HorsDAtteinte
<1> SUFFICES ASSUME NEW q \in Pieces, q \notin devancees',
                    q \in effacees' \/ lignes'[q].statut = "purged"
             PROVE  HorsDAtteinte(q)'
  OBVIOUS
<1>0. q \notin devancees
  BY HistoireCroit
<1>1. ASSUME NEW p \in Pieces, NEW c \in BOOLEAN, Creer(p, c)
      PROVE  HorsDAtteinte(q)'
  BY <1>0, <1>1 DEF Creer, RangementTenu
<1>2. ASSUME NEW p \in Pieces, RangerLire(p) \/ RangerEcrire(p) \/ RangerArreter(p)
      PROVE  HorsDAtteinte(q)'
  BY <1>0, <1>2 DEF RangerLire, RangerEcrire, RangerArreter, RangementTenu
<1>3. ASSUME NEW p \in Pieces, RangerBasculer(p) \/ RangerEchouer(p)
      PROVE  HorsDAtteinte(q)'
  BY <1>0, <1>3 DEF RangerBasculer, RangerEchouer, RangementTenu
<1>4. ASSUME NEW p \in Pieces, RangerInscrire(p)
      PROVE  HorsDAtteinte(q)'
  BY <1>0, <1>4 DEF RangerInscrire, RangementTenu
<1>5. ASSUME NEW p \in Pieces, EffacerFichier(p)
      PROVE  HorsDAtteinte(q)'
  BY <1>0, <1>5 DEF EffacerFichier, Avec
<1>6. ASSUME NEW p \in Pieces, MarquerPurgee(p)
      PROVE  HorsDAtteinte(q)'
  BY <1>0, <1>6 DEF MarquerPurgee
<1>7. ASSUME NEW p \in Pieces, Alterer(p)
      PROVE  HorsDAtteinte(q)'
  BY <1>0, <1>7 DEF Alterer
<1>8. ASSUME NEW p \in Pieces, OutilLire(p)
      PROVE  HorsDAtteinte(q)'
  BY <1>0, <1>8 DEF OutilLire, Scellable
<1>9. ASSUME NEW k \in Cles, NEW r \in Refs, OutilLancer(k, r)
      PROVE  HorsDAtteinte(q)'
  BY <1>0, <1>9 DEF OutilLancer, OutilAuRepos
<1>10. ASSUME OutilEcrire
      PROVE  HorsDAtteinte(q)'
  BY <1>0, <1>10 DEF OutilEcrire, Outil
<1>11. ASSUME OutilBasculer
      PROVE  HorsDAtteinte(q)'
  <2>1. outil.cible # q /\ outil.cible \in Pieces
    BY <1>0, <1>11 DEF OutilBasculer, AuTravail
  <2>2. disque'[q] = disque[q] /\ UNCHANGED <<lignes, effacees>>
    BY <1>11, <2>1 DEF OutilBasculer
  <2>3. outil'.pc = "lire" \/ outil'.cible = outil.cible
    BY <1>11, OutilType DEF OutilBasculer, Outil
  <2> QED
    BY <1>0, <2>1, <2>2, <2>3
<1>12. ASSUME OutilInscrire
      PROVE  HorsDAtteinte(q)'
  <2>1. outil'.pc = "lire" /\ outil.cible \in Pieces /\ UNCHANGED <<disque, effacees>>
    BY <1>12, OutilType DEF OutilInscrire, AuTravail
  <2>2. lignes'[q].statut = lignes[q].statut
    BY <1>12 DEF OutilInscrire, Ligne
  <2> QED
    BY <1>0, <2>1, <2>2
<1>13. ASSUME OutilEchouer \/ OutilArreter \/ OutilFinir
      PROVE  HorsDAtteinte(q)'
  BY <1>0, <1>13, OutilType DEF OutilEchouer, OutilArreter, OutilFinir
<1>14. ASSUME UNCHANGED coffreVars
      PROVE  HorsDAtteinte(q)'
  BY <1>0, <1>14 DEF coffreVars
<1> HIDE DEF CoffreInv, TypeInv, CoffreTypeOK, PurgeTenue, HorsDAtteinte
<1> QED
  BY <1>1, <1>2, <1>3, <1>4, <1>5, <1>6, <1>7, <1>8, <1>9, <1>10, <1>11, <1>12, <1>13, <1>14
     DEF CoffreNext

LEMMA PurgeInvariant == CoffreSpec => [](CoffreInv /\ PurgeTenue)
<1>1. CoffreInit => CoffreInv /\ PurgeTenue
  BY CoffreInitial DEF CoffreInit, PurgeTenue, PasDeLigne
<1>2. CoffreInv /\ PurgeTenue /\ [CoffreNext]_coffreVars => (CoffreInv /\ PurgeTenue)'
  BY TypeStable, CoffreStable, PurgeStable DEF CoffreInv
<1> QED
  BY <1>1, <1>2, PTL DEF CoffreSpec

-----------------------------------------------------------------------------
(* Every state of the vault is well typed, whoever works on it              *)
(* (the rows of prisma/schema.prisma, the locals of sceller-existants.ts).  *)
THEOREM CoffreType == CoffreSpec => []CoffreTypeOK
<1>1. CoffreInit => TypeInv
  BY TypeInitial
<1>2. TypeInv /\ [CoffreNext]_coffreVars => TypeInv'
  BY TypeStable
<1>3. TypeInv => CoffreTypeOK
  BY DEF TypeInv
<1> QED
  BY <1>1, <1>2, <1>3, PTL DEF CoffreSpec

(* Whatever the tool and the service were doing when they stopped, and      *)
(* whatever the purge does beside them, a call that was neither purged nor  *)
(* damaged can be read back, unless both were sealing that very call        *)
(* (sceller-existants.ts:74-106, StorageService.ranger).                    *)
THEOREM Recouvrement == CoffreSpec => []PieceRecouvrable
<1>1. CoffreInv => PieceRecouvrable
  BY DEF CoffreInv, FichiersTenus, PieceRecouvrable
<1> QED
  BY <1>1, CoffreInvariant, PTL

(* No damage is ever put under a seal that opens: the tool compares the     *)
(* fingerprint before it seals (sceller-existants.ts:87-97); only of a call *)
(* both seal at once does the seal tell nothing.                            *)
THEOREM Preuve == CoffreSpec => []SceauProbant
<1>1. CoffreInv => SceauProbant
  BY DEF CoffreInv, FichiersTenus, SceauProbant
<1> QED
  BY <1>1, CoffreInvariant, PTL

(* A row that says sealed is never ahead of its file, and is behind it only *)
(* while a writer is between rename and update or since one stopped there,  *)
(* which playback and export depend on (storage.service.ts:84-94); of every *)
(* call, those the tool and ingestion both seal included.                   *)
THEOREM LigneVraie == CoffreSpec => []LigneScelleeVraie
<1>1. CoffreInv => LigneScelleeVraie
  BY DEF CoffreInv
<1> QED
  BY <1>1, CoffreInvariant, PTL

(* While the tool and ingestion work, no purged call ever gets its audio    *)
(* back, but one the purge removed between the tool's reading and rename    *)
(* (recordings.service.ts:135, the certificate).                            *)
THEOREM PurgeSansRetour == CoffreSpec => []PurgeDefinitive
<1>1. CoffreInv /\ PurgeTenue => PurgeDefinitive
  BY DEF PurgeTenue, HorsDAtteinte, PurgeDefinitive
<1> QED
  BY <1>1, PurgeInvariant, PTL

-----------------------------------------------------------------------------
(* The arithmetic of the frames.                                            *)

LEMMA Quotient ==
  ASSUME NEW x \in Nat, NEW t \in Nat \ {0}
  PROVE  x \div t \in Nat /\ (x \div t) * t <= x /\ x < (x \div t) * t + t
OBVIOUS

LEMMA ProduitSuivant ==
  ASSUME NEW i \in Int, NEW t \in Nat
  PROVE  (i + 1) * t = i * t + t /\ (i - 1) * t = i * t - t /\ i * t \in Int
OBVIOUS

LEMMA ProduitCroissant ==
  ASSUME NEW i \in Int, NEW j \in Int, NEW t \in Nat, i <= j
  PROVE  i * t <= j * t
OBVIOUS

LEMMA TailleConteneurType ==
  ASSUME NEW n \in Nat, NEW t \in Nat \ {0}
  PROVE  TailleConteneur(n, t) \in Nat
<1>1. NombreDeTrames(n, t) \in Nat
  BY Quotient DEF NombreDeTrames
<1> QED
  BY <1>1 DEF TailleConteneur, TailleEntete, TailleTrameChiffree

(* Frame i yields the part of d..f that lies in the slice it holds.         *)
LEMMA TrancheBornee ==
  ASSUME NEW n \in Nat, NEW t \in Nat \ {0}, NEW d \in Nat, NEW f \in Nat, d <= f, f < n,
         NEW i \in Int
  PROVE  /\ Tranche(i, d, f, n, t).de = PlusGrand(i * t, d)
         /\ Tranche(i, d, f, n, t).a = PlusPetit(i * t + t - 1, f)
<1>1. i * t \in Int
  BY ProduitSuivant
<1>2. \A m \in Int : /\ m + PlusGrand(0, d - m) = PlusGrand(m, d)
                     /\ m + PlusPetit(PlusPetit(t, n - m), f - m + 1) - 1 = PlusPetit(m + t - 1, f)
  BY DEF PlusGrand, PlusPetit
<1> QED
  BY <1>1, <1>2 DEF Tranche, ClairDeTrame

(* With u, v and m the first bytes of the first frame, the last one and one *)
(* in between.                                                              *)
LEMMA Bornes ==
  ASSUME NEW t \in Nat \ {0}, NEW d \in Nat, NEW f \in Nat, d <= f,
         NEW u \in Int, NEW v \in Int, NEW m \in Int,
         u <= d, d < u + t, v <= f, f < v + t, u <= m, m <= v
  PROVE  /\ m = u => PlusGrand(m, d) = d
         /\ u + t <= m => PlusGrand(m, d) = m
         /\ m = v => PlusPetit(m + t - 1, f) = f
         /\ m + t <= v => PlusPetit(m + t - 1, f) = m + t - 1
         /\ PlusGrand(m, d) <= PlusPetit(m + t - 1, f)
         /\ m <= f
BY DEF PlusGrand, PlusPetit

(* The frames that the reading of d..f opens cover it, in order, without a  *)
(* gap and without an overlap.                                              *)
LEMMA TramesCouvrent ==
  ASSUME NEW n \in Nat, NEW t \in Nat \ {0}, NEW d \in Nat, NEW f \in Nat, d <= f, f < n
  PROVE  Couvre(Trames(d, f, n, t), d, f) /\ DOMAIN Trames(d, f, n, t) # {}
<1> DEFINE P == d \div t
           D == f \div t
           T == Trames(d, f, n, t)
<1>1. P \in Nat /\ P * t <= d /\ d < P * t + t
  BY Quotient
<1>2. D \in Nat /\ D * t <= f /\ f < D * t + t
  BY Quotient
<1>3. P <= D
  <2>1. SUFFICES ASSUME D + 1 <= P
                 PROVE  FALSE
    BY <1>1, <1>2
  <2>2. (D + 1) * t <= P * t /\ (D + 1) * t = D * t + t
    BY <2>1, <1>1, <1>2, ProduitCroissant, ProduitSuivant
  <2>3. D * t \in Int /\ P * t \in Int
    BY <1>1, <1>2, ProduitSuivant
  <2> QED
    BY <1>1, <1>2, <2>2, <2>3
<1>4. T = [i \in P..D |-> Tranche(i, d, f, n, t)]
  BY DEF Trames, PremiereTrame, DerniereTrame
<1>5. DOMAIN T = P..D /\ P \in DOMAIN T
  BY <1>1, <1>2, <1>3, <1>4
<1>6. ASSUME NEW i \in P..D
      PROVE  T[i].de = PlusGrand(i * t, d) /\ T[i].a = PlusPetit(i * t + t - 1, f)
  <2>1. i \in Int
    BY <1>1, <1>2
  <2>2. T[i] = Tranche(i, d, f, n, t)
    BY <1>4
  <2> HIDE DEF P, D, T
  <2> QED
    BY <2>1, <2>2, TrancheBornee
<1> HIDE DEF P, D, T
<1>7. ASSUME NEW i \in P..D
      PROVE  /\ i \in Int /\ i * t \in Int /\ i * t <= f
             /\ i = P => T[i].de = d
             /\ i # P => T[i].de = i * t
             /\ i = D => T[i].a = f
             /\ i # D => T[i].a = i * t + t - 1
             /\ T[i].de <= T[i].a
  <2>1. i \in Int /\ P <= i /\ i <= D /\ i * t \in Int /\ P * t \in Int /\ D * t \in Int
    BY <1>1, <1>2, ProduitSuivant
  <2>2. i * t <= D * t
    BY <2>1, <1>2, ProduitCroissant
  <2>3. i # P => P * t + t <= i * t
    BY <2>1, <1>1, ProduitCroissant, ProduitSuivant
  <2>4. i # D => i * t + t <= D * t
    BY <2>1, <1>2, ProduitCroissant, ProduitSuivant
  <2>5. P * t <= i * t
    BY <2>1, <1>1, ProduitCroissant
  <2> DEFINE m == i * t
             u == P * t
             v == D * t
  <2>6. m \in Int /\ u \in Int /\ v \in Int /\ u <= m /\ m <= v
    BY <2>1, <2>2, <2>5
  <2>7. u <= d /\ d < u + t /\ v <= f /\ f < v + t
    BY <1>1, <1>2
  <2>8. /\ i = P => m = u
        /\ i # P => u + t <= m
        /\ i = D => m = v
        /\ i # D => m + t <= v
    BY <2>3, <2>4
  <2>9. T[i].de = PlusGrand(m, d) /\ T[i].a = PlusPetit(m + t - 1, f)
    BY <1>6
  <2> HIDE DEF m, u, v
  <2>10. /\ m = u => PlusGrand(m, d) = d
         /\ u + t <= m => PlusGrand(m, d) = m
         /\ m = v => PlusPetit(m + t - 1, f) = f
         /\ m + t <= v => PlusPetit(m + t - 1, f) = m + t - 1
         /\ PlusGrand(m, d) <= PlusPetit(m + t - 1, f)
         /\ m <= f
    BY <2>6, <2>7, Bornes
  <2>11. /\ i \in Int /\ m \in Int /\ m <= f
         /\ i = P => T[i].de = d
         /\ i # P => T[i].de = m
         /\ i = D => T[i].a = f
         /\ i # D => T[i].a = m + t - 1
         /\ T[i].de <= T[i].a
    BY <2>1, <2>6, <2>8, <2>9, <2>10
  <2> QED
    BY <2>11 DEF m
<1>8. ASSUME NEW i \in P..D
      PROVE  IF i - 1 \in P..D THEN T[i].de = T[i - 1].a + 1 ELSE T[i].de = d
  <2>1. CASE i - 1 \in P..D
    <3>1. i # P /\ i - 1 # D
      BY <1>1, <1>2, <2>1
    <3>2. T[i].de = i * t /\ T[i - 1].a = (i - 1) * t + t - 1
      BY <1>7, <2>1, <3>1
    <3> QED
      BY <2>1, <3>2, <1>7, ProduitSuivant
  <2>2. CASE i - 1 \notin P..D
    BY <1>1, <1>2, <1>7, <2>2
  <2> QED
    BY <2>1, <2>2
<1>9. ASSUME NEW i \in P..D
      PROVE  i + 1 \in P..D \/ T[i].a = f
  BY <1>1, <1>2, <1>7
<1>10. Couvre(T, d, f)
  BY <1>5, <1>7, <1>8, <1>9 DEF Couvre
<1> QED
  BY <1>5, <1>10 DEF T

(* A clear file yields d..f in one piece.                                   *)
LEMMA FluxBrutCouvre ==
  ASSUME NEW n \in Nat, NEW d \in Nat, NEW f \in Nat, d <= f, f < n
  PROVE  Couvre(FluxBrut(d, f, n), d, f) /\ DOMAIN FluxBrut(d, f, n) # {}
<1>1. FluxBrut(d, f, n) = [i \in {0} |-> [de |-> d, a |-> f]]
  BY DEF FluxBrut, PlusPetit
<1> QED
  BY <1>1 DEF Couvre

(* analyserRange serves exactly the bytes the header designates.            *)
LEMMA PlageAnalysee ==
  ASSUME NEW e \in TousEntetes, NEW n \in Nat, n # 0,
         AnalyserRange(e, n).type # "insatisfiable"
  PROVE  LET r == AnalyserRange(e, n)
             d == r.debut
             f == IF r.type = "complet" THEN PlusGrand(0, n - 1) ELSE r.fin
         IN  d \in Nat /\ f \in Nat /\ d <= f /\ f < n /\ Designes(e, n) = d..f
<1> USE DEF TousEntetes, Vide
<1>1. CASE e = SansPlage
  <2>1. e.debut = Vide /\ e.fin = Vide
    BY <1>1 DEF SansPlage
  <2>2. AnalyserRange(e, n) = Complet
    BY <1>1, <2>1 DEF AnalyserRange
  <2>3. Designes(e, n) = 0..(n - 1)
    BY <2>1 DEF Designes
  <2> QED
    BY <2>2, <2>3 DEF Complet, PlusGrand
<1>2. CASE e.debut = Vide /\ e.fin # Vide
  <2>1. e # SansPlage /\ e.fin \in Nat
    BY <1>2 DEF SansPlage
  <2>2. AnalyserRange(e, n) = Suffixe(e.fin, n)
    BY <1>2, <2>1 DEF AnalyserRange
  <2>3. e.fin # 0 /\ AnalyserRange(e, n) = Partiel(PlusGrand(0, n - e.fin), n - 1)
    BY <2>2 DEF Suffixe, Insatisfiable
  <2>4. Designes(e, n) = PlusGrand(0, n - e.fin)..(n - 1)
    BY <1>2, <2>1 DEF Designes, PlusGrand
  <2> QED
    BY <2>1, <2>3, <2>4 DEF Partiel, PlusGrand
<1>3. CASE e.debut # Vide
  <2>1. e # SansPlage /\ e.debut \in Nat /\ (e.fin = Vide \/ e.fin \in Nat)
    BY <1>3 DEF SansPlage
  <2>2. AnalyserRange(e, n) = Intervalle(e, n)
    BY <1>3, <2>1 DEF AnalyserRange
  <2>3. /\ e.debut < n /\ e.debut <= FinServie(e, n)
        /\ FinServie(e, n) \in Int /\ FinServie(e, n) < n
        /\ AnalyserRange(e, n) = Partiel(e.debut, FinServie(e, n))
    BY <2>1, <2>2 DEF Intervalle, Insatisfiable, FinServie, PlusPetit
  <2>4. Designes(e, n) = e.debut..FinServie(e, n)
    BY <1>3, <2>1 DEF Designes, FinServie, PlusPetit
  <2> QED
    BY <2>1, <2>3, <2>4 DEF Partiel
<1>4. e = SansPlage \/ e.debut # Vide \/ e.fin # Vide
  BY DEF SansPlage
<1> QED
  BY <1>1, <1>2, <1>3, <1>4

-----------------------------------------------------------------------------
(* What the writers may do to a file under a reader: a call on its way in   *)
(* never goes back to unknown, and no file becomes clear that was not.      *)
LEMMA EcrivainsTenus ==
  ASSUME CoffreInv, [CoffreNext]_coffreVars, NEW q \in Pieces, rangement[q] # "hors"
  PROVE  /\ rangement'[q] # "hors"
         /\ disque'[q] # Nul /\ disque'[q].sceau = "aucun" =>
              disque[q] # Nul /\ disque[q].sceau = "aucun"
<1> DEFINE Tenu == /\ rangement'[q] # "hors"
                   /\ disque'[q] # Nul /\ disque'[q].sceau = "aucun" =>
                        disque[q] # Nul /\ disque[q].sceau = "aucun"
<1> USE DEF CoffreInv, TypeInv, CoffreTypeOK
<1>1. ASSUME NEW p \in Pieces, NEW c \in BOOLEAN, Creer(p, c)
      PROVE  Tenu
  BY <1>1 DEF Creer
<1>2. ASSUME NEW p \in Pieces,
             \/ RangerLire(p) \/ RangerEcrire(p) \/ RangerInscrire(p) \/ RangerArreter(p)
             \/ RangerEchouer(p) \/ MarquerPurgee(p)
      PROVE  Tenu
  BY <1>2
     DEF RangerLire, RangerEcrire, RangerInscrire, RangerArreter, RangerEchouer, MarquerPurgee
<1>3. ASSUME NEW p \in Pieces, RangerBasculer(p)
      PROVE  Tenu
  <2>1. provisoire[p].sceau = "ouvrable"
    BY <1>3 DEF RangerBasculer, SceauxTenus
  <2> QED
    BY <1>3, <2>1 DEF RangerBasculer
<1>4. ASSUME NEW p \in Pieces, EffacerFichier(p)
      PROVE  Tenu
  BY <1>4 DEF EffacerFichier
<1>5. ASSUME NEW p \in Pieces, Alterer(p)
      PROVE  Tenu
  BY <1>5, AbimerType DEF Alterer
<1>6. ASSUME NEW p \in Pieces, OutilLire(p)
      PROVE  Tenu
  BY <1>6 DEF OutilLire
<1>7. ASSUME NEW k \in Cles, NEW r \in Refs, OutilLancer(k, r)
      PROVE  Tenu
  BY <1>7 DEF OutilLancer
<1>8. ASSUME OutilBasculer
      PROVE  Tenu
  BY <1>8 DEF OutilBasculer, AuTravail, SceauxTenus
<1>9. ASSUME OutilEcrire \/ OutilInscrire \/ OutilEchouer \/ OutilFinir \/ OutilArreter
      PROVE  Tenu
  BY <1>9 DEF OutilEcrire, OutilInscrire, OutilEchouer, OutilFinir, OutilArreter
<1>10. ASSUME UNCHANGED coffreVars
      PROVE  Tenu
  BY <1>10 DEF coffreVars
<1> HIDE DEF Tenu
<1> HIDE DEF CoffreInv, TypeInv, CoffreTypeOK
<1>11. Tenu
  BY <1>1, <1>2, <1>3, <1>4, <1>5, <1>6, <1>7, <1>8, <1>9, <1>10 DEF CoffreNext
<1> QED
  BY <1>11 DEF Tenu

-----------------------------------------------------------------------------
(* Typing of the locals of a reader.                                        *)
LectureFormee ==
  /\ lecture = [pc |-> lecture.pc, piece |-> lecture.piece, vu |-> lecture.vu,
                entete |-> lecture.entete, taille |-> lecture.taille,
                recu |-> lecture.recu, integrite |-> lecture.integrite]
  /\ lecture.entete \in TousEntetes
  /\ lecture.pc # "repos" => lecture.piece \in Pieces

EcouteTypeInv == EcouteTypeOK /\ LectureFormee

EcouteEtape ==
  \/ CoffreNext /\ UNCHANGED ecouteVars
  \/ EcouteNext(TousEntetes) /\ UNCHANGED coffreVars

LEMMA LectureType ==
  ASSUME NEW pc, NEW p, NEW l
  PROVE  Lecture(pc, p, l) =
           [pc |-> pc, piece |-> p, vu |-> l, entete |-> SansPlage, taille |-> 0,
            recu |-> RienRecu, integrite |-> Nul]
BY DEF Lecture

LEMMA PasDeLigneType == PasDeLigne \in Ligne
BY LigneType

LEMMA EntetesType == SansPlage \in TousEntetes /\ RienRecu.forme = "rien"
BY DEF SansPlage, TousEntetes, RienRecu, Recu

LEMMA FluxType ==
  ASSUME NEW p, NEW c, NEW d, NEW f
  PROVE  /\ Flux(p, c, d, f).forme \in {"rien", "clair", "conteneur"}
         /\ Entier(p, c).forme \in {"rien", "clair", "conteneur"}
BY DEF Flux, Entier, RienRecu, Recu

LEMMA TailleType ==
  ASSUME NEW p \in Pieces
  PROVE  Octets[p] \in Nat /\ TailleFichier(p) \in Nat
BY EcouteAssumption, TailleConteneurType DEF TailleFichier, EcouteAssumption

LEMMA LectureInitiale == EcouteInit => EcouteTypeInv
<1> SUFFICES ASSUME EcouteInit
             PROVE  EcouteTypeInv
  OBVIOUS
<1>1. lecture = [pc |-> "repos", piece |-> Nul, vu |-> PasDeLigne, entete |-> SansPlage,
                 taille |-> 0, recu |-> RienRecu, integrite |-> Nul]
  BY LectureType DEF EcouteInit, AucuneLecture
<1> QED
  BY <1>1, EntetesType, PasDeLigneType
     DEF EcouteInit, EcouteTypeInv, EcouteTypeOK, LectureFormee, PasLecture

(* What each step of a reader leaves in its locals.                         *)
LEMMA LectureVide ==
  ASSUME lecture' = AucuneLecture, billets' \subseteq Pieces, journal' \subseteq (Actes \X Pieces)
  PROVE  EcouteTypeInv' /\ lecture'.pc = "repos"
<1>1. lecture' = [pc |-> "repos", piece |-> Nul, vu |-> PasDeLigne, entete |-> SansPlage,
                  taille |-> 0, recu |-> RienRecu, integrite |-> Nul]
  BY LectureType DEF AucuneLecture
<1>2. lecture'.pc = "repos" /\ lecture'.pc \in PasLecture
  BY <1>1 DEF PasLecture
<1>3. lecture'.piece \in Pieces \cup {Nul} /\ lecture'.vu \in Ligne
  BY <1>1, PasDeLigneType
<1>4. lecture'.taille \in Nat /\ lecture'.recu.forme \in {"rien", "clair", "conteneur"}
  BY <1>1, EntetesType
<1>5. lecture'.integrite \in {Nul, "concordante", "divergente"}
  BY <1>1
<1>6. lecture'.entete \in TousEntetes
  BY <1>1, EntetesType
<1>7. LectureFormee'
  BY <1>1, <1>2, <1>6 DEF LectureFormee
<1>8. EcouteTypeOK'
  BY <1>2, <1>3, <1>4, <1>5 DEF EcouteTypeOK
<1> QED
  BY <1>2, <1>7, <1>8 DEF EcouteTypeInv

LEMMA LectureTypeStable ==
  ASSUME CoffreTypeOK, EcouteTypeInv, EcouteEtape \/ UNCHANGED <<coffreVars, ecouteVars>>
  PROVE  EcouteTypeInv'
<1>1. ASSUME UNCHANGED ecouteVars
      PROVE  EcouteTypeInv'
  BY <1>1 DEF ecouteVars, EcouteTypeInv, EcouteTypeOK, LectureFormee
<1> DEFINE Reste == /\ billets \subseteq Pieces /\ journal \subseteq (Actes \X Pieces)
                    /\ lecture.vu \in Ligne /\ lecture.entete \in TousEntetes
                    /\ lecture.taille \in Nat
                    /\ lecture.recu.forme \in {"rien", "clair", "conteneur"}
                    /\ lecture.integrite \in {Nul, "concordante", "divergente"}
                    /\ lecture.pc # "repos" => lecture.piece \in Pieces
<1>2. Reste
  BY DEF EcouteTypeInv, EcouteTypeOK, LectureFormee
<1>3. lecture = [pc |-> lecture.pc, piece |-> lecture.piece, vu |-> lecture.vu,
                 entete |-> lecture.entete, taille |-> lecture.taille,
                 recu |-> lecture.recu, integrite |-> lecture.integrite]
  BY DEF EcouteTypeInv, LectureFormee
<1>4. ASSUME NEW p \in Pieces, OuvrirEcoute(p) \/ Exporter(p)
      PROVE  EcouteTypeInv'
  <2>1. PICK pc \in PasLecture : lecture' = Lecture(pc, p, lignes[p])
    BY <1>4 DEF OuvrirEcoute, Exporter, PasLecture
  <2>2. lignes[p] \in Ligne
    BY DEF CoffreTypeOK
  <2>3. UNCHANGED <<billets, journal>>
    BY <1>4 DEF OuvrirEcoute, Exporter
  <2> QED
    BY <1>2, <2>1, <2>2, <2>3, LectureType, EntetesType
       DEF EcouteTypeInv, EcouteTypeOK, LectureFormee
<1>5. ASSUME NEW b \in Pieces, NEW p \in Pieces, NEW e \in TousEntetes, DemanderAudio(b, p, e)
      PROVE  EcouteTypeInv'
  <2>1. lecture' = [pc |-> "mesurer", piece |-> p, vu |-> lignes[p], entete |-> e,
                    taille |-> 0, recu |-> RienRecu, integrite |-> Nul]
    BY <1>5, LectureType DEF DemanderAudio
  <2>2. lignes[p] \in Ligne /\ "mesurer" \in PasLecture
    BY DEF CoffreTypeOK, PasLecture
  <2>3. UNCHANGED <<billets, journal>>
    BY <1>5 DEF DemanderAudio
  <2> QED
    BY <1>2, <2>1, <2>2, <2>3, EntetesType
       DEF EcouteTypeInv, EcouteTypeOK, LectureFormee
<1>6. CASE TracerEcoute
  <2>1. lecture.piece \in Pieces /\ lecture' = AucuneLecture
    BY <1>2, <1>6 DEF TracerEcoute
  <2>2. billets' \subseteq Pieces /\ journal' \subseteq (Actes \X Pieces)
    BY <1>2, <1>6, <2>1 DEF TracerEcoute, Actes
  <2> QED
    BY <2>1, <2>2, LectureVide
<1>7. CASE Clore
  BY <1>2, <1>7, LectureVide DEF Clore
<1>8. CASE Mesurer
  <2>1. lecture.piece \in Pieces /\ UNCHANGED <<billets, journal>>
    BY <1>2, <1>8 DEF Mesurer
  <2>2. CASE disque[lecture.piece] = Nul
    BY <1>2, <1>8, <2>1, <2>2, LectureVide DEF Mesurer
  <2>3. CASE disque[lecture.piece] # Nul
    <3>1. PICK n \in Nat : lecture' = [lecture EXCEPT !.pc = "servir", !.taille = n]
      BY <1>8, <2>1, <2>3, TailleType DEF Mesurer
    <3>2. lecture' = [pc |-> "servir", piece |-> lecture.piece, vu |-> lecture.vu,
                      entete |-> lecture.entete, taille |-> n,
                      recu |-> lecture.recu, integrite |-> lecture.integrite]
      BY <1>3, <3>1
    <3>3. "servir" \in PasLecture
      BY DEF PasLecture
    <3> QED
      BY <1>2, <2>1, <3>2, <3>3
       DEF EcouteTypeInv, EcouteTypeOK, LectureFormee
  <2> QED
    BY <2>2, <2>3
<1>9. CASE Servir
  <2>1. lecture.piece \in Pieces /\ UNCHANGED <<billets, journal>>
    BY <1>2, <1>9 DEF Servir
  <2> DEFINE R == IF Demande.type = "insatisfiable" \/ lecture.taille = 0 THEN RienRecu
                  ELSE Flux(lecture.piece, lecture.vu.chiffre, PremierOctet, DernierOctet)
  <2>5. R.forme \in {"rien", "clair", "conteneur"}
    BY FluxType, EntetesType
  <2>6. lecture' = [lecture EXCEPT !.pc = "servi", !.recu = R]
    BY <1>9 DEF Servir
  <2> HIDE DEF R
  <2>3. lecture' = [pc |-> "servi", piece |-> lecture.piece, vu |-> lecture.vu,
                    entete |-> lecture.entete, taille |-> lecture.taille,
                    recu |-> R, integrite |-> lecture.integrite]
    BY <1>3, <2>6
  <2>4. "servi" \in PasLecture
    BY DEF PasLecture
  <2> QED
    BY <1>2, <2>1, <2>3, <2>4, <2>5
       DEF EcouteTypeInv, EcouteTypeOK, LectureFormee
<1>10. CASE LireEntier
  <2> DEFINE r == Entier(lecture.piece, lecture.vu.chiffre)
  <2>1. lecture.piece \in Pieces /\ UNCHANGED <<billets, journal>>
    BY <1>2, <1>10 DEF LireEntier
  <2>2. r.forme \in {"rien", "clair", "conteneur"}
    BY FluxType
  <2>3. lecture' = AucuneLecture
        \/ \E i \in {"concordante", "divergente"} :
             lecture' = [lecture EXCEPT !.pc = "tracerExport", !.recu = r, !.integrite = i]
    BY <1>10 DEF LireEntier
  <2> HIDE DEF r
  <2>4. ASSUME NEW i \in {"concordante", "divergente"},
               lecture' = [lecture EXCEPT !.pc = "tracerExport", !.recu = r, !.integrite = i]
        PROVE  EcouteTypeInv'
    <3>1. lecture' = [pc |-> "tracerExport", piece |-> lecture.piece, vu |-> lecture.vu,
                      entete |-> lecture.entete, taille |-> lecture.taille,
                      recu |-> r, integrite |-> i]
      BY <1>3, <2>4
    <3>2. "tracerExport" \in PasLecture
      BY DEF PasLecture
    <3> QED
      BY <1>2, <2>1, <2>2, <3>1, <3>2
       DEF EcouteTypeInv, EcouteTypeOK, LectureFormee
  <2> QED
    BY <1>2, <2>1, <2>3, <2>4, LectureVide
<1>11. CASE TracerExport
  <2>1. lecture.piece \in Pieces /\ UNCHANGED billets
    BY <1>2, <1>11 DEF TracerExport
  <2>2. journal' \subseteq (Actes \X Pieces)
    BY <1>2, <1>11, <2>1 DEF TracerExport, Actes
  <2>3. lecture' = [pc |-> "exporte", piece |-> lecture.piece, vu |-> lecture.vu,
                    entete |-> lecture.entete, taille |-> lecture.taille,
                    recu |-> lecture.recu, integrite |-> lecture.integrite]
    BY <1>3, <1>11 DEF TracerExport
  <2>4. "exporte" \in PasLecture
    BY DEF PasLecture
  <2> QED
    BY <1>2, <2>1, <2>2, <2>3, <2>4
       DEF EcouteTypeInv, EcouteTypeOK, LectureFormee
<1> QED
  BY <1>1, <1>4, <1>5, <1>6, <1>7, <1>8, <1>9, <1>10, <1>11 DEF EcouteEtape, EcouteNext, ecouteVars

-----------------------------------------------------------------------------
(* What a reader may count on between its reading of the row and that of    *)
(* the file: the call it reads exists; the size it was given, where the     *)
(* audio can still be served, is that of the wav; its act is in the         *)
(* journal; and the fingerprint of an export was compared.                  *)
Servable(p, l) == l.chiffre = TRUE \/ (disque[p] # Nul /\ disque[p].sceau = "aucun")

Connue == lecture.pc # "repos" => rangement[lecture.piece] # "hors"
TailleTenue ==
  lecture.pc = "servir" /\ Servable(lecture.piece, lecture.vu) =>
    lecture.taille = Octets[lecture.piece]
EcouteTracee ==
  /\ \A b \in billets : <<"LISTEN", b>> \in journal
  /\ lecture.pc \in {"mesurer", "servir", "servi"} => <<"LISTEN", lecture.piece>> \in journal
ExportTenu ==
  /\ lecture.pc = "exporte" => <<"EXPORT", lecture.piece>> \in journal
  /\ lecture.pc \in {"tracerExport", "exporte"} =>
       /\ lecture.integrite = "concordante" => lecture.recu.forme = "clair" /\ lecture.recu.son = "intact"
       /\ lecture.integrite = "divergente" /\ lecture.vu.chiffre => lecture.piece \in croisees

LectureInv == Connue /\ TailleTenue /\ EcouteTracee /\ ExportTenu /\ PlageExacte

LEMMA ConnueSiLisible ==
  ASSUME CoffreInv, NEW p \in Pieces, Lisible(p)
  PROVE  rangement[p] # "hors"
BY DEF CoffreInv, RangementTenu, Lisible, PasDeLigne

LEMMA LectureInvInitiale == EcouteInit => LectureInv
<1> SUFFICES ASSUME EcouteInit
             PROVE  LectureInv
  OBVIOUS
<1>1. lecture.pc = "repos" /\ billets = {}
  BY LectureType DEF EcouteInit, AucuneLecture
<1> QED
  BY <1>1 DEF LectureInv, Connue, TailleTenue, EcouteTracee, ExportTenu, PlageExacte

LEMMA LectureRendue ==
  ASSUME lecture'.pc = "repos", EcouteTracee,
         billets' = billets /\ journal' = journal
  PROVE  LectureInv'
BY DEF LectureInv, Connue, TailleTenue, EcouteTracee, ExportTenu, PlageExacte

(* The writers work under the reader.                                       *)
LEMMA LectureSousEcriture ==
  ASSUME CoffreInv, EcouteTypeInv, LectureInv, [CoffreNext]_coffreVars, UNCHANGED ecouteVars
  PROVE  LectureInv'
<1> USE DEF ecouteVars
<1>1. EcouteTracee' /\ ExportTenu' /\ PlageExacte'
  <2>1. UNCHANGED <<billets, journal, lecture>> /\ croisees \subseteq croisees'
    BY HistoireCroit
  <2>2. EcouteTracee' /\ ExportTenu'
    BY <2>1 DEF LectureInv, EcouteTracee, ExportTenu
  <2>3. PlageExacte'
    BY <2>1 DEF LectureInv, PlageExacte
  <2> QED
    BY <2>2, <2>3
<1>2. CASE lecture.pc = "repos"
  BY <1>1, <1>2 DEF LectureInv, Connue, TailleTenue
<1>3. CASE lecture.pc # "repos"
  <2>1. lecture.piece \in Pieces /\ rangement[lecture.piece] # "hors"
    BY <1>3 DEF EcouteTypeInv, LectureFormee, LectureInv, Connue
  <2>2. /\ rangement'[lecture.piece] # "hors"
        /\ Servable(lecture.piece, lecture.vu)' => Servable(lecture.piece, lecture.vu)
    BY <2>1, EcrivainsTenus DEF Servable
  <2>3. Connue' /\ TailleTenue'
    BY <2>2 DEF LectureInv, Connue, TailleTenue
  <2> QED
    BY <1>1, <2>3 DEF LectureInv
<1> QED
  BY <1>2, <1>3

(* Mesurer: where the audio can be served, the size is that of the wav.     *)
LEMMA TailleMesuree ==
  ASSUME NEW p \in Pieces, NEW l \in Ligne, Servable(p, l)
  PROVE  (IF l.chiffre THEN Octets[p] ELSE TailleFichier(p)) = Octets[p]
BY DEF Servable, TailleFichier, Ligne

(* Servir: the audio received is the one that was measured.                 *)
LEMMA FluxExact ==
  ASSUME NEW p \in Pieces, NEW l \in Ligne, NEW d \in Nat, NEW f \in Nat, d <= f, f < Octets[p],
         Flux(p, l.chiffre, d, f).forme = "clair"
  PROVE  /\ Servable(p, l)
         /\ DOMAIN Flux(p, l.chiffre, d, f).tranches # {}
         /\ Couvre(Flux(p, l.chiffre, d, f).tranches, d, f)
<1>1. Octets[p] \in Nat /\ TailleTrame \in Nat \ {0}
  BY EcouteAssumption DEF EcouteAssumption
<1>2. l.chiffre = TRUE \/ l.chiffre = FALSE
  BY DEF Ligne
<1>3. CASE l.chiffre = FALSE
  <2>1. disque[p] # Nul /\ disque[p].sceau = "aucun"
    BY <1>3 DEF Flux, RienRecu, Recu
  <2>2. Flux(p, l.chiffre, d, f).tranches = FluxBrut(d, f, Octets[p])
    BY <1>3, <2>1 DEF Flux, Recu
  <2> QED
    BY <1>1, <2>1, <2>2, FluxBrutCouvre DEF Servable
<1>4. CASE l.chiffre = TRUE
  <2>1. disque[p] # Nul /\ disque[p].sceau = "ouvrable" /\ disque[p].cle = CleApi
    BY <1>4 DEF Flux, RienRecu, Recu
  <2>2. Flux(p, l.chiffre, d, f).tranches = Trames(d, f, Octets[p], TailleTrame)
    BY <1>4, <2>1 DEF Flux, Recu
  <2> QED
    BY <1>1, <1>4, <2>2, TramesCouvrent DEF Servable
<1> QED
  BY <1>2, <1>3, <1>4

(* LireEntier: what a sealed row yields is the audio of the ingestion.      *)
LEMMA EntierAuthentique ==
  ASSUME CoffreInv, NEW p \in Pieces \ croisees, NEW l \in Ligne, Entier(p, l.chiffre) # RienRecu,
         l.chiffre = TRUE
  PROVE  Concorde(Entier(p, l.chiffre))
<1>1. disque[p] # Nul /\ disque[p].sceau = "ouvrable" /\ disque[p].cle = CleApi
  BY DEF Entier
<1>2. disque[p].son = "intact"
  BY <1>1 DEF CoffreInv, FichiersTenus
<1> QED
  BY <1>1, <1>2 DEF Entier, Concorde, Recu

-----------------------------------------------------------------------------
LEMMA LectureStable ==
  ASSUME CoffreInv, EcouteTypeInv, LectureInv, EcouteNext(TousEntetes), UNCHANGED coffreVars
  PROVE  LectureInv'
<1>1. /\ lecture.vu \in Ligne /\ lecture.entete \in TousEntetes /\ lecture.taille \in Nat
      /\ lecture.pc # "repos" => lecture.piece \in Pieces
  BY DEF EcouteTypeInv, EcouteTypeOK, LectureFormee
<1>2. lecture = [pc |-> lecture.pc, piece |-> lecture.piece, vu |-> lecture.vu,
                 entete |-> lecture.entete, taille |-> lecture.taille,
                 recu |-> lecture.recu, integrite |-> lecture.integrite]
  BY DEF EcouteTypeInv, LectureFormee
<1>3. UNCHANGED <<disque, rangement, croisees>>
  BY DEF coffreVars
<1>4. AucuneLecture.pc = "repos"
  BY LectureType DEF AucuneLecture
<1> USE DEF LectureInv, Connue, EcouteTracee
<1>5. ASSUME NEW p \in Pieces, OuvrirEcoute(p) \/ Exporter(p)
      PROVE  LectureInv'
  <2>1. Lisible(p) /\ UNCHANGED <<billets, journal>>
    BY <1>5 DEF OuvrirEcoute, Exporter
  <2>2. lecture'.piece = p /\ lecture'.pc \in {"tracer", "lireEntier"}
    BY <1>5, LectureType DEF OuvrirEcoute, Exporter
  <2>3. Connue' /\ EcouteTracee'
    BY <1>3, <2>1, <2>2, ConnueSiLisible
  <2> QED
    BY <2>2, <2>3 DEF TailleTenue, ExportTenu, PlageExacte
<1>6. ASSUME NEW b \in Pieces, NEW p \in Pieces, NEW e \in TousEntetes, DemanderAudio(b, p, e)
      PROVE  LectureInv'
  <2>1. Lisible(p) /\ <<"LISTEN", p>> \in journal /\ UNCHANGED <<billets, journal>>
    BY <1>6 DEF DemanderAudio, BilletVaut
  <2>2. lecture'.piece = p /\ lecture'.pc = "mesurer"
    BY <1>6, LectureType DEF DemanderAudio
  <2>3. Connue' /\ EcouteTracee'
    BY <1>3, <2>1, <2>2, ConnueSiLisible
  <2> QED
    BY <2>2, <2>3 DEF TailleTenue, ExportTenu, PlageExacte
<1>7. CASE TracerEcoute
  <2>1. lecture'.pc = "repos" /\ EcouteTracee'
    BY <1>4, <1>7 DEF TracerEcoute
  <2> QED
    BY <2>1 DEF TailleTenue, ExportTenu, PlageExacte
<1>8. CASE Clore
  BY <1>4, <1>8, LectureRendue DEF Clore
<1>9. CASE Mesurer
  <2>1. lecture.pc = "mesurer" /\ lecture.piece \in Pieces /\ UNCHANGED <<billets, journal>>
    BY <1>1, <1>9 DEF Mesurer
  <2>2. CASE disque[lecture.piece] = Nul
    BY <1>4, <1>9, <2>1, <2>2, LectureRendue DEF Mesurer
  <2>3. CASE disque[lecture.piece] # Nul
    <3> DEFINE n == IF lecture.vu.chiffre THEN Octets[lecture.piece]
                    ELSE TailleFichier(lecture.piece)
    <3>1. lecture' = [lecture EXCEPT !.pc = "servir", !.taille = n]
      BY <1>9, <2>3 DEF Mesurer
    <3>2. Servable(lecture.piece, lecture.vu) => n = Octets[lecture.piece]
      BY <1>1, <2>1, TailleMesuree
    <3> HIDE DEF n
    <3>3. /\ lecture'.pc = "servir" /\ lecture'.piece = lecture.piece
          /\ lecture'.vu = lecture.vu /\ lecture'.taille = n
      BY <1>2, <3>1
    <3>4. Connue' /\ EcouteTracee'
      BY <1>3, <2>1, <3>3
    <3>5. TailleTenue'
      BY <1>3, <3>2, <3>3 DEF TailleTenue, Servable
    <3> QED
      BY <3>3, <3>4, <3>5 DEF ExportTenu, PlageExacte
  <2> QED
    BY <2>2, <2>3
<1>10. CASE Servir
  <2> DEFINE p == lecture.piece
             F == Flux(p, lecture.vu.chiffre, PremierOctet, DernierOctet)
             R == IF Demande.type = "insatisfiable" \/ lecture.taille = 0 THEN RienRecu ELSE F
  <2>1. lecture.pc = "servir" /\ p \in Pieces /\ UNCHANGED <<billets, journal>>
    BY <1>1, <1>10 DEF Servir
  <2>2. lecture' = [lecture EXCEPT !.pc = "servi", !.recu = R]
    BY <1>10 DEF Servir
  <2>3. R.forme = "clair" => Demande.type # "insatisfiable" /\ lecture.taille # 0 /\ R = F
    BY EntetesType
  <2>4. R.forme = "clair" =>
          /\ PremierOctet \in Nat /\ DernierOctet \in Nat /\ PremierOctet <= DernierOctet
          /\ DernierOctet < lecture.taille
          /\ Designes(lecture.entete, lecture.taille) = PremierOctet..DernierOctet
    BY <1>1, <2>3, PlageAnalysee DEF Demande, PremierOctet, DernierOctet
  <2>5. ASSUME R.forme = "clair"
        PROVE  LET d == Designes(lecture.entete, Octets[p])
               IN /\ d # {} => DOMAIN R.tranches # {}
                               /\ \E a, z \in d : Couvre(R.tranches, a, z) /\ d = a..z
                  /\ d = {} => DOMAIN R.tranches = {}
    <3>1. R = F /\ F.forme = "clair"
      BY <2>3, <2>5
    <3>2. Servable(p, lecture.vu)
      BY <3>1 DEF Servable, Flux, RienRecu, Recu
    <3>3. lecture.taille = Octets[p]
      BY <2>1, <3>2 DEF TailleTenue
    <3>4. DOMAIN F.tranches # {} /\ Couvre(F.tranches, PremierOctet, DernierOctet)
      BY <1>1, <2>1, <2>4, <2>5, <3>1, <3>3, FluxExact
    <3>5. /\ Designes(lecture.entete, Octets[p]) = PremierOctet..DernierOctet
          /\ PremierOctet \in PremierOctet..DernierOctet
          /\ DernierOctet \in PremierOctet..DernierOctet
      BY <2>4, <2>5, <3>3
    <3> HIDE DEF R, F, p
    <3> QED
      BY <3>1, <3>4, <3>5
  <2> HIDE DEF R, F, p
  <2>6. /\ lecture'.pc = "servi" /\ lecture'.piece = p /\ lecture'.recu = R
        /\ lecture'.entete = lecture.entete
    BY <1>2, <2>2 DEF p
  <2>7. Connue' /\ EcouteTracee'
    BY <1>3, <2>1, <2>6 DEF p
  <2>8. <<"LISTEN", p>> \in journal'
    BY <2>6, <2>7
  <2>9. PlageExacte'
    BY <2>5, <2>6, <2>8 DEF PlageExacte
  <2> QED
    BY <2>6, <2>7, <2>9 DEF TailleTenue, ExportTenu
<1>11. CASE LireEntier
  <2> DEFINE r == Entier(lecture.piece, lecture.vu.chiffre)
  <2>1. lecture.pc = "lireEntier" /\ lecture.piece \in Pieces /\ UNCHANGED <<billets, journal>>
    BY <1>1, <1>11 DEF LireEntier
  <2>2. CASE r = RienRecu
    BY <1>4, <1>11, <2>1, <2>2, LectureRendue DEF LireEntier
  <2>3. CASE r # RienRecu
    <3> DEFINE i == IF Concorde(r) THEN "concordante" ELSE "divergente"
    <3>1. lecture' = [lecture EXCEPT !.pc = "tracerExport", !.recu = r, !.integrite = i]
      BY <1>11, <2>3 DEF LireEntier
    <3>2. i = "concordante" => r.forme = "clair" /\ r.son = "intact"
      BY DEF Concorde
    <3>3. i = "divergente" /\ lecture.vu.chiffre => lecture.piece \in croisees
      BY <1>1, <2>1, <2>3, EntierAuthentique DEF Ligne
    <3> HIDE DEF r, i
    <3>4. /\ lecture'.pc = "tracerExport" /\ lecture'.piece = lecture.piece
          /\ lecture'.vu = lecture.vu /\ lecture'.recu = r /\ lecture'.integrite = i
      BY <1>2, <3>1
    <3>5. Connue' /\ EcouteTracee'
      BY <1>3, <2>1, <3>4
    <3>6. ExportTenu'
      BY <1>3, <3>2, <3>3, <3>4 DEF ExportTenu
    <3> QED
      BY <3>4, <3>5, <3>6 DEF TailleTenue, PlageExacte
  <2> QED
    BY <2>2, <2>3
<1>12. CASE TracerExport
  <2>1. lecture.pc = "tracerExport" /\ UNCHANGED billets
    BY <1>12 DEF TracerExport
  <2>2. journal' = journal \cup {<<"EXPORT", lecture.piece>>}
    BY <1>12 DEF TracerExport
  <2>3. /\ lecture'.pc = "exporte" /\ lecture'.piece = lecture.piece
        /\ lecture'.vu = lecture.vu /\ lecture'.recu = lecture.recu
        /\ lecture'.integrite = lecture.integrite
    BY <1>2, <1>12 DEF TracerExport
  <2>4. Connue' /\ EcouteTracee'
    BY <1>3, <2>1, <2>2, <2>3
  <2>5. ExportTenu'
    BY <1>3, <2>1, <2>2, <2>3 DEF ExportTenu
  <2> QED
    BY <2>3, <2>4, <2>5 DEF TailleTenue, PlageExacte
<1> HIDE DEF LectureInv
<1> QED
  BY <1>5, <1>6, <1>7, <1>8, <1>9, <1>10, <1>11, <1>12 DEF EcouteNext

EcouteInv == CoffreInv /\ EcouteTypeInv /\ LectureInv

LEMMA EcouteEtapeTenue ==
  ASSUME EcouteInv, [EcouteEtape]_<<coffreVars, ecouteVars>>
  PROVE  EcouteInv'
<1>1. [CoffreNext]_coffreVars
  BY DEF EcouteEtape
<1>2. CoffreInv'
  BY <1>1, TypeStable, CoffreStable DEF EcouteInv, CoffreInv
<1>3. EcouteTypeInv'
  BY LectureTypeStable DEF EcouteInv, CoffreInv, TypeInv
<1>4. LectureInv'
  <2>1. CASE UNCHANGED ecouteVars
    BY <1>1, <2>1, LectureSousEcriture DEF EcouteInv
  <2>2. CASE EcouteNext(TousEntetes) /\ UNCHANGED coffreVars
    BY <2>2, LectureStable DEF EcouteInv
  <2> QED
    BY <2>1, <2>2 DEF EcouteEtape
<1> QED
  BY <1>2, <1>3, <1>4 DEF EcouteInv

LEMMA EcouteInvariant == EcouteSpec => []EcouteInv
<1>1. CoffreInit /\ EcouteInit => EcouteInv
  BY CoffreInitial, LectureInitiale, LectureInvInitiale DEF EcouteInv
<1>2. EcouteInv /\ [EcouteEtape]_<<coffreVars, ecouteVars>> => EcouteInv'
  BY EcouteEtapeTenue
<1> QED
  BY <1>1, <1>2, PTL DEF EcouteSpec, EcouteEtape

-----------------------------------------------------------------------------
(* Every state of a reader beside the writers is well typed.                *)
THEOREM EcouteType == EcouteSpec => []EcouteTypeOK
<1> DEFINE I == TypeInv /\ EcouteTypeInv
<1>1. CoffreInit /\ EcouteInit => I
  BY TypeInitial, LectureInitiale
<1>2. I /\ [EcouteEtape]_<<coffreVars, ecouteVars>> => I'
  BY TypeStable, LectureTypeStable DEF EcouteEtape, TypeInv
<1>3. I => EcouteTypeOK
  BY DEF EcouteTypeInv
<1> HIDE DEF I
<1> QED
  BY <1>1, <1>2, <1>3, PTL DEF EcouteSpec, EcouteEtape

(* For every size of call and of frame, every header, and whatever          *)
(* ingestion, the tool and the purge do between the reading of the row and  *)
(* that of the file, a listener who receives audio receives exactly the     *)
(* bytes designated, of a call whose listening is in the journal (range.ts, *)
(* coffre.ts:192-240, recordings.service.ts:115-121), unless that call was  *)
(* being sealed by the tool and ingestion at once.                          *)
THEOREM Audition == EcouteSpec => []PlageExacte
<1>1. EcouteInv => PlageExacte
  BY DEF EcouteInv, LectureInv
<1> QED
  BY <1>1, EcouteInvariant, PTL

(* Under the same writers, an export certified concordant is the audio of   *)
(* the ingestion, and one certified divergent of a row that said sealed can *)
(* only be of a call sealed twice (export.service.ts:91-102).               *)
THEOREM Exportation == EcouteSpec => []ExportFidele
<1>1. EcouteInv => ExportFidele
  BY DEF EcouteInv, LectureInv, ExportTenu, ExportFidele
<1> QED
  BY <1>1, EcouteInvariant, PTL

-----------------------------------------------------------------------------
(* The backup                                                               *)

EcrivainsInchanges ==
  UNCHANGED <<lignes, disque, provisoire, rangement, copies, effacees, outil, histoire>>

SauvegardeEtape ==
  \/ CoffreNext /\ UNCHANGED sauvegardeVars
  \/ SauvegardeNext /\ EcrivainsInchanges

(* The observers change nothing the writers read.                           *)
LEMMA TypeObserve ==
  ASSUME TypeInv, SauvegardeNext, EcrivainsInchanges
  PROVE  TypeInv'
<1>1. incidents' \in 0..MaxIncidents
  BY CoffreAssumption
     DEF SauvegardeNext, ArreterPrise, AbimerPrise, Incident, TypeInv, CoffreTypeOK,
         CoffreAssumption
<1> QED
  BY <1>1 DEF TypeInv, CoffreTypeOK, EnPlace, AuTravail, EcrivainsInchanges

LEMMA CoffreObserve ==
  ASSUME CoffreInv, SauvegardeNext, EcrivainsInchanges
  PROVE  CoffreInv'
<1>1. TypeInv'
  BY TypeObserve DEF CoffreInv
<1>2. SceauxTenus' /\ RangementTenu' /\ FichiersTenus'
  BY DEF CoffreInv, SceauxTenus, RangementTenu, FichiersTenus, Tient, EcrivainsInchanges
<1>3. OutilTenu' /\ UneEcriture' /\ LigneScelleeVraie'
  BY DEF CoffreInv, OutilTenu, UneEcriture, LigneScelleeVraie, Tient, EcrivainsInchanges
<1> QED
  BY <1>1, <1>2, <1>3 DEF CoffreInv

(* Typing of the backup, of its verification and of the restored base.      *)
PriseType == prise \in Prise
VerifType == verif \in Verif
BaseType ==
  /\ base.existe \in BOOLEAN /\ base.table \in Table /\ base.migrations \in Migrations
  /\ constat \in {Nul, "fidele", "infidele"}
SauvegardeTypeInv == PriseType /\ VerifType /\ BaseType

LEMMA TableVideType == TableVide \in Table
BY LigneType DEF TableVide, Table

LEMMA AucunePriseType ==
  /\ AucunePrise \in Prise
  /\ AucunePrise.pc = "aucune" /\ AucunePrise.dump = TableVide
  /\ AucunePrise.inventaire = TableVide /\ ~AucunePrise.calme
BY TableVideType DEF AucunePrise, Prise

LEMMA AucuneVerifType ==
  /\ AucuneVerif \in Verif /\ AucuneVerif.pc = "repos" /\ ~AucuneVerif.stockage
  /\ AucuneVerif.trouvees = {}
BY DEF AucuneVerif, AucunFichier, Verif

LEMMA MigrationsType ==
  MigrationsDeLaPrise \in Migrations /\ MigrationsTrouvees \subseteq Migrations
BY DEF MigrationsDeLaPrise, Migrations, MigrationsTrouvees

LEMMA SauvegardeTypeInitiale == SauvegardeInit => SauvegardeTypeInv
BY AucunePriseType, AucuneVerifType, TableVideType, MigrationsType
   DEF SauvegardeInit, SauvegardeTypeInv, PriseType, VerifType, BaseType, PasDeBase

LEMMA ConstatPriseType ==
  ASSUME NEW c, NEW k
  PROVE  ConstatPrise(c, k) \subseteq Anomalies
<1>1. ConstatCle(k) \subseteq Anomalies
  BY DEF ConstatCle, Anomalies
<1> QED
  BY <1>1 DEF ConstatPrise, Anomalies

LEMMA ConstatPieceType ==
  ASSUME NEW p
  PROVE  ConstatPiece(p) \subseteq Anomalies
<1>1. ConstatFichier(disque[p]) \subseteq Anomalies
  BY DEF ConstatFichier, Anomalies
<1>2. {"purgees avec fichier", "manquantes", "cles inconnues"} \subseteq Anomalies
  BY DEF Anomalies
<1> QED
  BY <1>1, <1>2 DEF ConstatPiece

(* What a backup under way becomes.                                         *)
LEMMA DumpPris ==
  ASSUME SauvegardeTypeInv, CoffreTypeOK, NEW k \in {CleApi, Nul}, Dumper(k)
  PROVE  /\ prise' \in Prise /\ prise'.pc = "dump" /\ prise'.dump = lignes
         /\ prise'.inventaire = TableVide /\ ~prise'.calme
<1>1. k \in Cles \cup {Nul} /\ lignes \in Table
  BY CoffreAssumption DEF CoffreAssumption, CoffreTypeOK, Table
<1>2. prise' = [AucunePrise EXCEPT !.pc = "dump", !.dump = lignes, !.cle = k]
  BY DEF Dumper
<1> QED
  BY <1>1, <1>2, AucunePriseType, TableVideType DEF AucunePrise, Prise

LEMMA LigneInventoriee ==
  ASSUME SauvegardeTypeInv, CoffreTypeOK, NEW p \in Pieces, Inventorier(p)
  PROVE  /\ prise' \in Prise /\ prise'.pc = "dump" /\ prise'.dump = prise.dump
         /\ prise'.inventaire = [prise.inventaire EXCEPT ![p] = lignes[p]]
         /\ prise'.calme = prise.calme
<1>1. prise \in Prise /\ prise.pc = "dump"
  BY DEF SauvegardeTypeInv, PriseType, Inventorier
<1> DEFINE t == [prise.inventaire EXCEPT ![p] = lignes[p]]
<1>2. t \in Table
  BY <1>1 DEF Prise, Table, CoffreTypeOK
<1>3. prise' = [prise EXCEPT !.inventaire = t]
  BY <1>1 DEF Inventorier, Prise
<1> HIDE DEF t
<1>4. /\ prise' \in Prise /\ prise'.pc = "dump" /\ prise'.dump = prise.dump
      /\ prise'.inventaire = t /\ prise'.calme = prise.calme
  BY <1>1, <1>2, <1>3 DEF Prise
<1> QED
  BY <1>4 DEF t

LEMMA ManifesteEcrit ==
  ASSUME SauvegardeTypeInv, EcrireManifeste
  PROVE  /\ prise' \in Prise /\ prise'.pc = "manifeste" /\ prise'.dump = prise.dump
         /\ prise'.inventaire = prise.inventaire
         /\ prise'.calme <=> prise.dump = lignes
<1> DEFINE b == prise.dump = lignes
<1>1. prise \in Prise /\ b \in BOOLEAN
  BY DEF SauvegardeTypeInv, PriseType
<1>2. prise' = [prise EXCEPT !.pc = "manifeste", !.calme = b]
  BY DEF EcrireManifeste
<1> HIDE DEF b
<1>3. /\ prise' \in Prise /\ prise'.pc = "manifeste" /\ prise'.dump = prise.dump
      /\ prise'.inventaire = prise.inventaire /\ prise'.calme = b
  BY <1>1, <1>2 DEF Prise
<1> QED
  BY <1>3 DEF b

LEMMA PriseAbimee ==
  ASSUME SauvegardeTypeInv, NEW quoi \in {"dump", "inventaire", "manifeste"},
         NEW perdu \in BOOLEAN, AbimerPrise(quoi, perdu)
  PROVE  /\ prise' \in Prise /\ prise'.pc = prise.pc /\ prise'.dump = prise.dump
         /\ prise'.inventaire = prise.inventaire /\ prise'.calme = prise.calme
<1>1. prise \in Prise
  BY DEF SauvegardeTypeInv, PriseType
<1>2. \/ quoi # "manifeste" /\ prise' = [prise EXCEPT !.perdus = @ \cup {quoi}]
      \/ prise' = [prise EXCEPT !.changes = @ \cup {quoi}]
  BY DEF AbimerPrise
<1> QED
  BY <1>1, <1>2 DEF Prise

(* The steps that make or damage a backup, or leave it as it is.            *)
LEMMA PriseTypeStable ==
  ASSUME SauvegardeTypeInv, CoffreTypeOK, SauvegardeNext
  PROVE  prise' \in Prise
<1>1. prise \in Prise
  BY DEF SauvegardeTypeInv, PriseType
<1>2. ASSUME NEW k \in {CleApi, Nul}, Dumper(k) PROVE prise' \in Prise
  BY <1>2, DumpPris
<1>3. ASSUME NEW p \in Pieces, Inventorier(p) PROVE prise' \in Prise
  BY <1>3, LigneInventoriee
<1>4. CASE EcrireManifeste
  BY <1>4, ManifesteEcrit
<1>5. CASE ArreterPrise
  BY <1>5, AucunePriseType DEF ArreterPrise
<1>6. ASSUME NEW quoi \in {"dump", "inventaire", "manifeste"}, NEW perdu \in BOOLEAN,
             AbimerPrise(quoi, perdu)
      PROVE  prise' \in Prise
  BY <1>6, PriseAbimee
<1>7. CASE UNCHANGED prise
  BY <1>1, <1>7
<1> QED
  BY <1>2, <1>3, <1>4, <1>5, <1>6, <1>7
     DEF SauvegardeNext, ConfronterPiece, RendreRapport, Constater, Verifier, Restaurer

Deposes == {p \in Pieces : disque[p] # Nul}
Flottants == IF \E p \in Pieces : provisoire[p] # Nul THEN {"orphelins"} ELSE {}

LEMMA VerificationLancee ==
  ASSUME SauvegardeTypeInv, CoffreTypeOK, NEW c \in BOOLEAN, NEW k \in Cles \cup {Nul},
         NEW s \in BOOLEAN, Verifier(c, k, s)
  PROVE  /\ verif' \in Verif /\ verif'.consignee = c
         /\ ConstatPrise(c, k) \subseteq verif'.trouvees
         /\ \/ verif'.pc = "rendu" /\ ~verif'.stockage
            \/ /\ verif'.pc = "confronter" /\ verif'.stockage
               /\ verif'.surDisque = Deposes
               /\ verif'.reste = Presentes(prise.inventaire) /\ verif'.disque0 = disque
<1> DEFINE t == ConstatPrise(c, k)
           cle == IF k = prise.cle THEN k ELSE Nul
<1>0. t \subseteq Anomalies /\ Flottants \subseteq Anomalies /\ cle \in Cles \cup {Nul}
  BY ConstatPriseType DEF Flottants, Anomalies
<1>1. CASE s /\ "inventaire" \notin prise.perdus
  <2>1. verif' = [pc |-> "confronter", stockage |-> TRUE, consignee |-> c, cle |-> cle,
                  surDisque |-> Deposes, reste |-> Presentes(prise.inventaire),
                  trouvees |-> t \cup Flottants, disque0 |-> disque]
    BY <1>1 DEF Verifier, Deposes, Flottants
  <2>2. Deposes \subseteq Pieces /\ Presentes(prise.inventaire) \subseteq Pieces
    BY DEF Deposes, Presentes
  <2>3. t \cup Flottants \subseteq Anomalies
    BY <1>0
  <2> HIDE DEF t, cle
  <2>4. verif' \in Verif
    BY <1>0, <2>1, <2>2, <2>3 DEF Verif, CoffreTypeOK
  <2>5. /\ verif'.consignee = c /\ verif'.trouvees = t \cup Flottants
        /\ verif'.pc = "confronter" /\ verif'.stockage /\ verif'.surDisque = Deposes
        /\ verif'.reste = Presentes(prise.inventaire) /\ verif'.disque0 = disque
    BY <2>1
  <2> QED
    BY <2>4, <2>5 DEF t
<1>2. CASE ~(s /\ "inventaire" \notin prise.perdus)
  <2>1. verif' = [AucuneVerif EXCEPT !.pc = "rendu", !.consignee = c, !.trouvees = t]
    BY <1>2 DEF Verifier
  <2> HIDE DEF t
  <2>2. /\ verif' \in Verif /\ verif'.consignee = c /\ verif'.trouvees = t
        /\ verif'.pc = "rendu" /\ verif'.stockage = AucuneVerif.stockage
    BY <1>0, <2>1, AucuneVerifType DEF Verif
  <2> QED
    BY <2>2, AucuneVerifType DEF t
<1> QED
  BY <1>1, <1>2

LEMMA PieceConfrontee ==
  ASSUME SauvegardeTypeInv, NEW p \in Pieces, ConfronterPiece(p)
  PROVE  /\ verif' \in Verif /\ verif.pc = "confronter" /\ verif'.pc = "confronter"
         /\ verif'.consignee = verif.consignee
         /\ verif'.cle = verif.cle /\ verif'.stockage = verif.stockage
         /\ verif'.disque0 = verif.disque0 /\ verif'.reste = verif.reste \ {p}
         /\ verif'.surDisque = verif.surDisque \ {p}
         /\ verif'.trouvees = verif.trouvees \cup ConstatPiece(p)
<1> DEFINE t == ConstatPiece(p)
<1>1. verif \in Verif /\ verif.pc = "confronter" /\ t \subseteq Anomalies
  BY ConstatPieceType DEF SauvegardeTypeInv, VerifType, ConfronterPiece
<1>2. verif' = [verif EXCEPT !.reste = @ \ {p}, !.surDisque = @ \ {p}, !.trouvees = @ \cup t]
  BY DEF ConfronterPiece
<1> HIDE DEF t
<1>3. /\ verif' \in Verif /\ verif'.pc = "confronter" /\ verif'.consignee = verif.consignee
      /\ verif'.cle = verif.cle /\ verif'.stockage = verif.stockage
      /\ verif'.disque0 = verif.disque0 /\ verif'.reste = verif.reste \ {p}
      /\ verif'.surDisque = verif.surDisque \ {p}
      /\ verif'.trouvees = verif.trouvees \cup t
  BY <1>1, <1>2 DEF Verif
<1> QED
  BY <1>1, <1>3 DEF t

LEMMA RapportRendu ==
  ASSUME SauvegardeTypeInv, RendreRapport
  PROVE  /\ verif' \in Verif /\ verif.pc = "confronter" /\ verif'.pc = "rendu"
         /\ verif.reste = {} /\ verif'.reste = {}
         /\ verif'.consignee = verif.consignee
         /\ verif'.cle = verif.cle /\ verif'.stockage = verif.stockage
         /\ verif'.disque0 = verif.disque0 /\ verif'.surDisque = verif.surDisque
         /\ verif.trouvees \subseteq verif'.trouvees
         /\ verif'.trouvees = {} => verif.surDisque = {}
<1> DEFINE t == IF verif.surDisque # {} THEN {"orphelins"} ELSE {}
<1>1. verif \in Verif /\ verif.pc = "confronter" /\ verif.reste = {} /\ t \subseteq Anomalies
  BY DEF SauvegardeTypeInv, VerifType, RendreRapport, Anomalies
<1>2. verif' = [verif EXCEPT !.pc = "rendu", !.trouvees = @ \cup t]
  BY DEF RendreRapport
<1>4. t = {} => verif.surDisque = {}
  OBVIOUS
<1> HIDE DEF t
<1>3. /\ verif' \in Verif /\ verif'.pc = "rendu" /\ verif'.consignee = verif.consignee
      /\ verif'.cle = verif.cle /\ verif'.stockage = verif.stockage
      /\ verif'.disque0 = verif.disque0 /\ verif'.reste = verif.reste
      /\ verif'.surDisque = verif.surDisque
      /\ verif'.trouvees = verif.trouvees \cup t
  BY <1>1, <1>2 DEF Verif
<1> QED
  BY <1>1, <1>3, <1>4

LEMMA VerifTypeStable ==
  ASSUME SauvegardeTypeInv, CoffreTypeOK, SauvegardeNext
  PROVE  verif' \in Verif
<1>1. verif \in Verif
  BY DEF SauvegardeTypeInv, VerifType
<1>2. ASSUME NEW c \in BOOLEAN, NEW s \in BOOLEAN, NEW k \in Cles \cup {Nul}, Verifier(c, k, s)
      PROVE  verif' \in Verif
  BY <1>2, VerificationLancee
<1>3. ASSUME NEW p \in Pieces, ConfronterPiece(p) PROVE verif' \in Verif
  BY <1>3, PieceConfrontee
<1>4. CASE RendreRapport
  BY <1>4, RapportRendu
<1>5. CASE UNCHANGED verif
  BY <1>1, <1>5
<1> QED
  BY <1>2, <1>3, <1>4, <1>5
     DEF SauvegardeNext, Dumper, Inventorier, EcrireManifeste, ArreterPrise, AbimerPrise,
         Constater, Restaurer

LEMMA LignesDeBaseType == LignesDeBase \subseteq Ligne
<1>1. [statut : {"stored", "purged"}, chiffre : {FALSE}, ref : {Nul}] \subseteq Ligne
  BY DEF Ligne
<1> QED
  BY <1>1, LigneType DEF LignesDeBase

LEMMA RestaurationsType ==
  ASSUME prise.dump \in Table, NEW t \in Restaurations
  PROVE  t \in Table /\ \A p \in Pieces : t[p] = prise.dump[p] \/ t[p] \in LignesDeBase
BY LignesDeBaseType DEF Restaurations, Table

LEMMA BaseTypeStable ==
  ASSUME SauvegardeTypeInv, SauvegardeNext
  PROVE  BaseType'
<1>1. prise.dump \in Table /\ prise.dump \in Restaurations
  BY DEF SauvegardeTypeInv, PriseType, Prise, Restaurations
<1>2. ASSUME NEW t \in Restaurations, NEW mig \in MigrationsTrouvees, Restaurer(t, mig)
      PROVE  BaseType'
  BY <1>1, <1>2, RestaurationsType, MigrationsType
     DEF Restaurer, BaseType, SauvegardeTypeInv
<1>3. CASE Constater
  BY <1>3 DEF Constater, BaseType, SauvegardeTypeInv
<1>4. CASE UNCHANGED <<base, constat>>
  BY <1>4 DEF BaseType, SauvegardeTypeInv
<1>5. MigrationsDeLaPrise \in MigrationsTrouvees
  BY DEF MigrationsTrouvees
<1> QED
  BY <1>1, <1>2, <1>3, <1>4, <1>5
     DEF SauvegardeNext, Dumper, Inventorier, EcrireManifeste, ArreterPrise, AbimerPrise,
         Verifier, ConfronterPiece, RendreRapport

LEMMA SauvegardeTypeStable ==
  ASSUME SauvegardeTypeInv, CoffreTypeOK, SauvegardeEtape \/ UNCHANGED sauvegardeVars
  PROVE  SauvegardeTypeInv'
<1>1. CASE UNCHANGED sauvegardeVars
  BY <1>1 DEF sauvegardeVars, SauvegardeTypeInv, PriseType, VerifType, BaseType
<1>2. CASE SauvegardeNext
  BY <1>2, PriseTypeStable, VerifTypeStable, BaseTypeStable
     DEF SauvegardeTypeInv, PriseType, VerifType
<1> QED
  BY <1>1, <1>2 DEF SauvegardeEtape

-----------------------------------------------------------------------------
(* A row only goes forward: it comes in, is sealed, is purged.  The name of *)
(* the key may be written again, over a name already there, when the tool   *)
(* and ingestion both seal the call; then nobody writes it any more.        *)

StatutAvant(s, t) == s = t \/ s = "absente" \/ t = "purged"
LigneAvant(l, m) ==
  /\ StatutAvant(l.statut, m.statut)
  /\ l.chiffre => m.chiffre

Renommee(l, m) == l.chiffre /\ m.ref # l.ref
Close(p) == rangement[p] = "fini" /\ p \notin outil.reste /\ ~Tient(p)

(* A row that is absent says nothing, and one in clear names no key.        *)
LigneDite(l) ==
  /\ l \in Ligne
  /\ l.statut = "absente" => l = PasDeLigne
  /\ ~l.chiffre => l.ref = Nul

LEMMA LigneAvantOrdre ==
  ASSUME NEW l \in Ligne, NEW m \in Ligne, NEW n \in Ligne
  PROVE  /\ LigneAvant(l, l)
         /\ LigneAvant(l, m) /\ LigneAvant(m, n) => LigneAvant(l, n)
         /\ (/\ LigneDite(l) /\ LigneDite(m) /\ LigneAvant(l, m) /\ LigneAvant(m, l)
             /\ ~Renommee(l, m)) => l = m
BY DEF LigneAvant, StatutAvant, Ligne, LigneDite, Renommee

LEMMA PasDeLigneAvant ==
  /\ LigneDite(PasDeLigne)
  /\ \A l \in Ligne : LigneAvant(PasDeLigne, l) /\ ~Renommee(PasDeLigne, l)
  /\ \A l : LigneDite(l) /\ LigneAvant(l, PasDeLigne) => l = PasDeLigne
BY LigneType DEF LigneAvant, StatutAvant, Ligne, LigneDite, PasDeLigne, Renommee

(* The three ways a row is written.                                         *)
LEMMA LigneEcrite ==
  ASSUME NEW l \in Ligne, LigneDite(l), NEW m, NEW r \in Refs,
         \/ l.statut = "absente" /\ m = [l EXCEPT !.statut = "stored"]
         \/ m = [l EXCEPT !.statut = "purged"]
         \/ l.statut # "absente" /\ m = [l EXCEPT !.chiffre = TRUE, !.ref = r]
  PROVE  LigneDite(m) /\ LigneAvant(l, m)
BY DEF LigneAvant, StatutAvant, Ligne, LigneDite, PasDeLigne

(* A row that names a key is closed and stays so, or has one writer left.   *)
Ecrite(p) ==
  /\ LigneDite(lignes'[p]) /\ LigneAvant(lignes[p], lignes'[p])
  /\ lignes[p].chiffre /\ Close(p) => Close(p)' /\ lignes'[p].ref = lignes[p].ref
  /\ Renommee(lignes[p], lignes'[p]) => Close(p)'

LEMMA CloseStable ==
  ASSUME CoffreInv, CoffreNext, NEW q \in Pieces, lignes[q].chiffre, Close(q)
  PROVE  Close(q)' /\ lignes'[q].ref = lignes[q].ref
<1> USE DEF CoffreInv, TypeInv, CoffreTypeOK, Close, Tient
<1>1. ASSUME NEW p \in Pieces,
             \/ \E c \in BOOLEAN : Creer(p, c)
             \/ RangerLire(p) \/ RangerEcrire(p) \/ RangerBasculer(p) \/ RangerInscrire(p)
             \/ RangerEchouer(p) \/ RangerArreter(p)
             \/ EffacerFichier(p) \/ Alterer(p)
      PROVE  Close(q)' /\ lignes'[q].ref = lignes[q].ref
  BY <1>1
     DEF Creer, RangerLire, RangerEcrire, RangerBasculer, RangerInscrire, RangerEchouer,
         RangerArreter, EffacerFichier, Alterer
<1>2. ASSUME NEW p \in Pieces, MarquerPurgee(p)
      PROVE  Close(q)' /\ lignes'[q].ref = lignes[q].ref
  BY <1>2 DEF MarquerPurgee, Ligne
<1>3. ASSUME NEW p \in Pieces, OutilLire(p)
      PROVE  Close(q)' /\ lignes'[q].ref = lignes[q].ref
  BY <1>3 DEF OutilLire, Outil
<1>4. ASSUME NEW k \in Cles, NEW r \in Refs, OutilLancer(k, r)
      PROVE  Close(q)' /\ lignes'[q].ref = lignes[q].ref
  BY <1>4 DEF OutilLancer, OutilAuRepos
<1>5. CASE OutilEcrire
  BY <1>5 DEF OutilEcrire, Outil
<1>6. CASE OutilBasculer
  BY <1>6, OutilType DEF OutilBasculer, Outil
<1>7. CASE OutilInscrire
  <2>1. outil.cible # q /\ outil' = Suivante /\ UNCHANGED rangement
    BY <1>7 DEF OutilInscrire
  <2> QED
    BY <1>7, <2>1, OutilType DEF OutilInscrire
<1>8. CASE OutilEchouer \/ OutilFinir \/ OutilArreter
  BY <1>8, OutilType DEF OutilEchouer, OutilFinir, OutilArreter
<1> HIDE DEF CoffreInv, TypeInv, CoffreTypeOK, Close, Tient
<1> QED
  BY <1>1, <1>2, <1>3, <1>4, <1>5, <1>6, <1>7, <1>8 DEF CoffreNext

LEMMA LignesSuivies ==
  ASSUME CoffreInv, CoffreNext, \A p \in Pieces : LigneDite(lignes[p])
  PROVE  \A p \in Pieces : Ecrite(p)
<1>1. ASSUME NEW p \in Pieces, lignes'[p] = lignes[p]
      PROVE  Ecrite(p)
  <2>1. LigneDite(lignes'[p]) /\ LigneAvant(lignes[p], lignes'[p])
    BY <1>1, LigneAvantOrdre, Zenon DEF LigneDite
  <2> QED
    BY <1>1, <2>1, CloseStable DEF Ecrite, Renommee
<1>2. lignes \in [Pieces -> Ligne] /\ RefApi \in Refs
  BY CoffreAssumption DEF CoffreInv, TypeInv, CoffreTypeOK, CoffreAssumption
<1>3. ASSUME NEW p \in Pieces, NEW c \in BOOLEAN, Creer(p, c)
      PROVE  \A q \in Pieces : Ecrite(q)
  <2>1. lignes[p].statut = "absente" /\ ~lignes[p].chiffre
    BY <1>3 DEF Creer, CoffreInv, RangementTenu, PasDeLigne
  <2>2. /\ lignes'[p] = [lignes[p] EXCEPT !.statut = "stored"]
        /\ \A q \in Pieces \ {p} : lignes'[q] = lignes[q]
    BY <1>2, <1>3 DEF Creer
  <2>3. LigneDite(lignes'[p]) /\ LigneAvant(lignes[p], lignes'[p])
    BY <1>2, <2>1, <2>2, LigneEcrite
  <2>4. Ecrite(p)
    BY <2>1, <2>3 DEF Ecrite, Renommee
  <2> QED
    BY <1>1, <2>2, <2>4
<1>4. ASSUME NEW p \in Pieces, RangerInscrire(p)
      PROVE  \A q \in Pieces : Ecrite(q)
  <2>1. lignes[p].statut # "absente" /\ rangement[p] = "inscrire"
    BY <1>4 DEF RangerInscrire, CoffreInv, RangementTenu
  <2>2. /\ lignes'[p] = [lignes[p] EXCEPT !.chiffre = TRUE, !.ref = RefApi]
        /\ \A q \in Pieces \ {p} : lignes'[q] = lignes[q]
    BY <1>2, <1>4 DEF RangerInscrire
  <2>3. LigneDite(lignes'[p]) /\ LigneAvant(lignes[p], lignes'[p])
    BY <1>2, <2>1, <2>2, LigneEcrite
  <2>4. lignes[p].chiffre => Close(p)'
    BY <1>4 DEF RangerInscrire, CoffreInv, TypeInv, CoffreTypeOK, UneEcriture, Close, Tient
  <2>5. Ecrite(p)
    BY <2>1, <2>3, <2>4 DEF Ecrite, Renommee, Close
  <2> QED
    BY <1>1, <2>2, <2>5
<1>5. ASSUME NEW p \in Pieces, MarquerPurgee(p)
      PROVE  \A q \in Pieces : Ecrite(q)
  <2>1. /\ lignes'[p] = [lignes[p] EXCEPT !.statut = "purged"]
        /\ \A q \in Pieces \ {p} : lignes'[q] = lignes[q]
    BY <1>2, <1>5 DEF MarquerPurgee
  <2>2. LigneDite(lignes'[p]) /\ LigneAvant(lignes[p], lignes'[p])
    BY <1>2, <2>1, LigneEcrite
  <2>3. lignes'[p].ref = lignes[p].ref
    BY <1>2, <2>1 DEF Ligne
  <2>4. Ecrite(p)
    BY <2>2, <2>3, CloseStable DEF Ecrite, Renommee
  <2> QED
    BY <1>1, <2>1, <2>4
<1>6. ASSUME OutilInscrire
      PROVE  \A q \in Pieces : Ecrite(q)
  <2> DEFINE r == outil.ref
  <2>0. PICK p \in Pieces : p = outil.cible
    BY <1>6 DEF OutilInscrire, CoffreInv, TypeInv, AuTravail
  <2>1. p \in Pieces /\ r \in Refs /\ lignes[p].statut # "absente" /\ Tient(p)
    BY <1>6, <2>0 DEF OutilInscrire, CoffreInv, TypeInv, AuTravail, RangementTenu, Tient
  <2>2. /\ lignes'[p] = [lignes[p] EXCEPT !.chiffre = TRUE, !.ref = r]
        /\ \A q \in Pieces \ {p} : lignes'[q] = lignes[q]
    BY <1>2, <1>6, <2>0, <2>1 DEF OutilInscrire
  <2>4. lignes[p].chiffre => Close(p)'
    <3>1. lignes[p].chiffre => rangement[p] = "fini"
      BY <2>1 DEF CoffreInv, UneEcriture
    <3>2. p \notin outil.reste
      BY <2>1 DEF CoffreInv, OutilTenu
    <3>3. outil' = Suivante /\ UNCHANGED rangement
      BY <1>6 DEF OutilInscrire
    <3>4. outil'.pc = "lire" /\ outil'.reste = outil.reste
      BY <3>3, OutilType DEF CoffreInv, TypeInv, CoffreTypeOK
    <3> QED
      BY <3>1, <3>2, <3>3, <3>4 DEF Close, Tient
  <2> HIDE DEF r
  <2>3. LigneDite(lignes'[p]) /\ LigneAvant(lignes[p], lignes'[p])
    BY <1>2, <2>1, <2>2, LigneEcrite
  <2>5. Ecrite(p)
    BY <2>1, <2>3, <2>4 DEF Ecrite, Renommee, Close
  <2> QED
    BY <1>1, <2>2, <2>5
<1>7. CASE UNCHANGED lignes
  BY <1>1, <1>7
<1> QED
  BY <1>3, <1>4, <1>5, <1>6, <1>7
     DEF CoffreNext, RangerLire, RangerEcrire, RangerBasculer, RangerEchouer, RangerArreter,
         EffacerFichier, Alterer, OutilLire, OutilLancer, OutilEcrire, OutilBasculer,
         OutilEchouer, OutilFinir, OutilArreter

-----------------------------------------------------------------------------
(* The dump and the inventory                                               *)

Inventoriees == Presentes(prise.inventaire)

LignesDites ==
  \A p \in Pieces : /\ LigneDite(lignes[p]) /\ LigneDite(prise.dump[p])
                     /\ LigneDite(prise.inventaire[p]) /\ LigneDite(base.table[p])

(* While the inventory is made, its rows stand between those of the dump    *)
(* and those of the table, and it holds every call of the dump its cursor   *)
(* has passed.  A name written over another is the last one.                *)
DerniereInventoriee(p) == p \in Inventoriees /\ \A q \in Inventoriees : Rang[q] <= Rang[p]
DumpSuivi ==
  prise.pc = "dump" =>
    /\ ~prise.calme
    /\ \A p \in Pieces :
         /\ LigneAvant(prise.dump[p], lignes[p]) /\ LigneAvant(prise.inventaire[p], lignes[p])
         /\ p \in Inventoriees => LigneAvant(prise.dump[p], prise.inventaire[p])
         /\ p \in Presentes(prise.dump) /\ Rang[p] <= Curseur => p \in Inventoriees
         /\ Renommee(prise.dump[p], lignes[p]) => Close(p)
         /\ p \in Inventoriees /\ Renommee(prise.dump[p], prise.inventaire[p]) =>
              prise.inventaire[p].ref = lignes[p].ref
    /\ Inventoriees = {} \/ \E p \in Inventoriees : DerniereInventoriee(p)

BaseTenue ==
  /\ prise.pc = "aucune" => ~prise.calme
  /\ prise.calme => prise.dump = prise.inventaire
  /\ base.existe => prise.pc = "manifeste" /\ base.migrations \in MigrationsTrouvees
  /\ constat # Nul => base.existe

PriseInv == SauvegardeTypeInv /\ LignesDites /\ DumpSuivi /\ BaseTenue

LEMMA CurseurTenu ==
  /\ Inventoriees = {} => Curseur = -1
  /\ \A p \in Inventoriees : DerniereInventoriee(p) => Curseur = Rang[p]
<1>1. ASSUME NEW p \in Inventoriees, DerniereInventoriee(p) PROVE Curseur = Rang[p]
  <2> DEFINE S == {Rang[q] : q \in Inventoriees}
             Plafond(r) == \A q \in Inventoriees : Rang[q] <= r
  <2>1. \A q \in Inventoriees : Rang[q] \in Nat
    BY SauvegardeAssumption DEF SauvegardeAssumption, Presentes, Inventoriees
  <2>2. Rang[p] \in S /\ Plafond(Rang[p])
    BY <1>1 DEF DerniereInventoriee
  <2>3. Curseur = CHOOSE r \in S : Plafond(r)
    BY <1>1 DEF Curseur, Inventoriees
  <2>4. \A r \in S : Plafond(r) => r = Rang[p]
    BY <2>1, <2>2
  <2> HIDE DEF S, Plafond
  <2> QED
    BY <2>2, <2>3, <2>4
<1> QED
  BY <1>1 DEF Curseur, Inventoriees

LEMMA PriseInitiale == CoffreInit /\ SauvegardeInit => PriseInv
<1> SUFFICES ASSUME CoffreInit, SauvegardeInit PROVE PriseInv
  OBVIOUS
<1>1. /\ prise = AucunePrise /\ base.table = TableVide /\ ~base.existe /\ constat = Nul
      /\ \A p \in Pieces : lignes[p] = PasDeLigne /\ TableVide[p] = PasDeLigne
  BY DEF SauvegardeInit, CoffreInit, PasDeBase, TableVide
<1>2. LignesDites
  BY <1>1, PasDeLigneAvant, AucunePriseType DEF LignesDites
<1>3. DumpSuivi /\ BaseTenue
  BY <1>1, AucunePriseType DEF DumpSuivi, BaseTenue
<1> QED
  BY <1>2, <1>3, SauvegardeTypeInitiale DEF PriseInv

(* The writers move the table forward under the backup.                     *)
LEMMA PriseSousEcriture ==
  ASSUME PriseInv, CoffreInv, CoffreNext, UNCHANGED sauvegardeVars
  PROVE  PriseInv'
<1>1. /\ UNCHANGED <<prise, base, constat>> /\ SauvegardeTypeInv' /\ CoffreTypeOK
      /\ \A p \in Pieces : Ecrite(p)
  BY LignesSuivies, SauvegardeTypeStable
     DEF sauvegardeVars, PriseInv, LignesDites, CoffreInv, TypeInv, SauvegardeEtape
<1>2. LignesDites' /\ BaseTenue'
  BY <1>1 DEF PriseInv, LignesDites, BaseTenue, Ecrite
<1>3. ASSUME prise.pc = "dump", NEW p \in Pieces
      PROVE  /\ LigneAvant(prise.dump[p], lignes'[p]) /\ LigneAvant(prise.inventaire[p], lignes'[p])
             /\ Renommee(prise.dump[p], lignes'[p]) => Close(p)'
             /\ p \in Inventoriees /\ Renommee(prise.dump[p], prise.inventaire[p]) =>
                  prise.inventaire[p].ref = lignes'[p].ref
  <2>1. /\ LigneAvant(prise.dump[p], lignes[p]) /\ LigneAvant(prise.inventaire[p], lignes[p])
        /\ prise.dump[p] \in Ligne /\ prise.inventaire[p] \in Ligne
        /\ lignes[p] \in Ligne /\ lignes'[p] \in Ligne
    BY <1>1, <1>3 DEF PriseInv, DumpSuivi, LignesDites, LigneDite, Ecrite
  <2>2. /\ LigneAvant(lignes[p], lignes'[p])
        /\ lignes[p].chiffre /\ Close(p) => Close(p)' /\ lignes'[p].ref = lignes[p].ref
        /\ Renommee(lignes[p], lignes'[p]) => Close(p)'
    BY <1>1 DEF Ecrite
  <2>3. /\ Renommee(prise.dump[p], lignes[p]) => Close(p)
        /\ p \in Inventoriees /\ Renommee(prise.dump[p], prise.inventaire[p]) =>
             prise.inventaire[p].ref = lignes[p].ref
    BY <1>3 DEF PriseInv, DumpSuivi
  <2>4. LigneAvant(prise.dump[p], lignes'[p]) /\ LigneAvant(prise.inventaire[p], lignes'[p])
    BY <2>1, <2>2, LigneAvantOrdre
  <2>5. prise.dump[p].chiffre => lignes[p].chiffre
    BY <2>1 DEF LigneAvant
  <2> QED
    BY <2>2, <2>3, <2>4, <2>5 DEF Renommee
<1>4. DumpSuivi'
  BY <1>1, <1>3
     DEF PriseInv, DumpSuivi, Inventoriees, DerniereInventoriee, Curseur, Presentes
<1> QED
  BY <1>1, <1>2, <1>4 DEF PriseInv

LEMMA DumperTenu ==
  ASSUME PriseInv, CoffreInv, NEW k \in {CleApi, Nul}, Dumper(k), SauvegardeTypeInv',
         UNCHANGED lignes
  PROVE  PriseInv'
<1>1. /\ prise'.pc = "dump" /\ prise'.dump = lignes /\ prise'.inventaire = TableVide
      /\ ~prise'.calme /\ UNCHANGED <<base, constat>> /\ prise.pc = "aucune"
  BY DumpPris DEF PriseInv, CoffreInv, TypeInv, Dumper
<1>2. \A p \in Pieces : TableVide[p] = PasDeLigne /\ lignes[p] \in Ligne
  BY DEF TableVide, CoffreInv, TypeInv, CoffreTypeOK
<1>3. Inventoriees' = {}
  BY <1>1, <1>2 DEF Inventoriees, Presentes, PasDeLigne
<1>4. Curseur' = -1
  BY <1>3 DEF Curseur, Inventoriees
<1>5. \A p \in Pieces : ~(Rang[p] <= -1)
  BY SauvegardeAssumption DEF SauvegardeAssumption
<1>6. LignesDites'
  BY <1>1, <1>2, PasDeLigneAvant DEF PriseInv, LignesDites
<1>7. DumpSuivi'
  BY <1>1, <1>2, <1>3, <1>4, <1>5, PasDeLigneAvant, LigneAvantOrdre DEF DumpSuivi, Renommee
<1>8. BaseTenue'
  BY <1>1 DEF PriseInv, BaseTenue
<1> QED
  BY <1>6, <1>7, <1>8 DEF PriseInv

LEMMA InventorierTenu ==
  ASSUME PriseInv, CoffreInv, NEW p \in Pieces, Inventorier(p), SauvegardeTypeInv',
         UNCHANGED <<lignes, rangement, outil>>
  PROVE  PriseInv'
<1> DEFINE inv == prise.inventaire
<1>1. /\ prise.pc = "dump" /\ prise'.pc = "dump" /\ prise'.dump = prise.dump
      /\ prise'.inventaire = [inv EXCEPT ![p] = lignes[p]]
      /\ prise'.calme = prise.calme /\ UNCHANGED <<base, constat>>
      /\ p \in Apres(Curseur) /\ \A q \in Apres(Curseur) : Rang[p] <= Rang[q]
  BY LigneInventoriee DEF PriseInv, CoffreInv, TypeInv, Inventorier
<1>2. inv \in [Pieces -> Ligne]
  BY DEF PriseInv, SauvegardeTypeInv, PriseType, Prise, Table
<1>3. /\ prise'.inventaire[p] = lignes[p]
      /\ \A q \in Pieces \ {p} : prise'.inventaire[q] = inv[q]
      /\ lignes[p].statut # "absente" /\ Rang[p] > Curseur
  BY <1>1, <1>2 DEF Apres, Presentes
<1>4. Inventoriees' = Inventoriees \cup {p}
  BY <1>1, <1>3 DEF Inventoriees, Presentes
<1>5. \A q \in Pieces : Rang[q] \in Nat
  BY SauvegardeAssumption DEF SauvegardeAssumption
<1>6. \A q \in Inventoriees : Rang[q] <= Curseur
  BY <1>1, CurseurTenu DEF PriseInv, DumpSuivi, DerniereInventoriee
<1>7. Curseur \in Int /\ Inventoriees \subseteq Pieces
  BY <1>1, <1>5, CurseurTenu DEF PriseInv, DumpSuivi, Inventoriees, Presentes
<1>8. \A q \in Inventoriees' : Rang[q] <= Rang[p]
  BY <1>3, <1>4, <1>5, <1>6, <1>7
<1>9. Curseur' = Rang[p]
  <2> DEFINE S == {Rang[q] : q \in Inventoriees'}
             Plafond(r) == \A q \in Inventoriees' : Rang[q] <= r
  <2>1. Curseur' = CHOOSE r \in S : Plafond(r)
    BY <1>4 DEF Curseur, Inventoriees
  <2>2. Rang[p] \in S /\ Plafond(Rang[p]) /\ \A r \in S : Plafond(r) => r = Rang[p]
    BY <1>4, <1>5, <1>7, <1>8
  <2> HIDE DEF S, Plafond
  <2> QED
    BY <2>1, <2>2
<1>10. LignesDites'
  BY <1>1, <1>3 DEF PriseInv, LignesDites
<1>11. ASSUME NEW q \in Pieces
       PROVE  /\ LigneAvant(prise'.dump[q], lignes'[q])
              /\ LigneAvant(prise'.inventaire[q], lignes'[q])
              /\ q \in Inventoriees' => LigneAvant(prise'.dump[q], prise'.inventaire[q])
              /\ q \in Presentes(prise'.dump) /\ Rang[q] <= Rang[p] => q \in Inventoriees'
              /\ Renommee(prise'.dump[q], lignes'[q]) => Close(q)'
              /\ q \in Inventoriees' /\ Renommee(prise'.dump[q], prise'.inventaire[q]) =>
                   prise'.inventaire[q].ref = lignes'[q].ref
  <2>1. /\ LigneAvant(prise.dump[q], lignes[q]) /\ LigneAvant(inv[q], lignes[q])
        /\ q \in Inventoriees => LigneAvant(prise.dump[q], inv[q])
        /\ q \in Presentes(prise.dump) /\ Rang[q] <= Curseur => q \in Inventoriees
        /\ Renommee(prise.dump[q], lignes[q]) => Close(q)
        /\ q \in Inventoriees /\ Renommee(prise.dump[q], inv[q]) => inv[q].ref = lignes[q].ref
    BY <1>1 DEF PriseInv, DumpSuivi
  <2>6. Close(q)' = Close(q)
    BY DEF Close, Tient
  <2>2. LigneAvant(lignes[q], lignes[q]) /\ lignes[q] \in Ligne
    BY LigneAvantOrdre DEF CoffreInv, TypeInv, CoffreTypeOK
  <2>3. ASSUME q \in Presentes(prise.dump), Rang[q] <= Rang[p], Rang[q] > Curseur
        PROVE  q = p
    <3>1. lignes[q].statut # "absente"
      BY <2>1, <2>3, <2>2 DEF Presentes, LigneAvant, StatutAvant
    <3>2. q \in Apres(Curseur)
      BY <2>3, <3>1 DEF Apres, Presentes
    <3>3. Rang[q] = Rang[p]
      BY <1>1, <1>5, <2>3, <3>2
    <3> QED
      BY <3>3, SauvegardeAssumption DEF SauvegardeAssumption
  <2>4. CASE q = p
    BY <1>1, <1>3, <1>4, <2>1, <2>2, <2>4, <2>6
  <2>5. CASE q # p
    BY <1>1, <1>3, <1>4, <1>5, <1>7, <2>1, <2>3, <2>5, <2>6
  <2> QED
    BY <2>4, <2>5
<1>12. DumpSuivi'
  BY <1>1, <1>4, <1>8, <1>9, <1>11 DEF PriseInv, DumpSuivi, DerniereInventoriee
<1>13. BaseTenue'
  BY <1>1 DEF PriseInv, BaseTenue, DumpSuivi
<1> QED
  BY <1>10, <1>12, <1>13 DEF PriseInv

LEMMA ManifesteTenu ==
  ASSUME PriseInv, CoffreInv, EcrireManifeste, SauvegardeTypeInv', UNCHANGED lignes
  PROVE  PriseInv'
<1>1. /\ prise.pc = "dump" /\ prise'.pc = "manifeste" /\ prise'.dump = prise.dump
      /\ prise'.inventaire = prise.inventaire /\ UNCHANGED <<base, constat>>
      /\ prise'.calme <=> prise.dump = lignes
      /\ Apres(Curseur) = {}
  BY ManifesteEcrit DEF PriseInv, EcrireManifeste
<1>2. ASSUME prise.dump = lignes, NEW p \in Pieces
      PROVE  prise.inventaire[p] = lignes[p]
  <2>1. /\ LigneAvant(prise.inventaire[p], lignes[p])
        /\ p \in Inventoriees => LigneAvant(lignes[p], prise.inventaire[p])
        /\ p \in Presentes(lignes) /\ Rang[p] <= Curseur => p \in Inventoriees
        /\ p \in Inventoriees => ~Renommee(lignes[p], prise.inventaire[p])
        /\ LigneDite(lignes[p]) /\ LigneDite(prise.inventaire[p])
        /\ lignes[p] \in Ligne /\ prise.inventaire[p] \in Ligne
    BY <1>1, <1>2 DEF PriseInv, DumpSuivi, LignesDites, LigneDite, Renommee
  <2>2. CASE p \in Presentes(lignes)
    <3>1. Rang[p] \in Nat /\ Curseur \in Int
      BY <1>1, SauvegardeAssumption, CurseurTenu
         DEF SauvegardeAssumption, PriseInv, DumpSuivi, Inventoriees, Presentes
    <3>2. Rang[p] <= Curseur
      BY <1>1, <2>2, <3>1 DEF Apres
    <3> QED
      BY <2>1, <2>2, <3>2, LigneAvantOrdre
  <2>3. CASE p \notin Presentes(lignes)
    <3>1. lignes[p] = PasDeLigne
      BY <2>1, <2>3 DEF Presentes, LigneDite
    <3> QED
      BY <2>1, <3>1, PasDeLigneAvant
  <2> QED
    BY <2>2, <2>3
<1>3. prise.dump = lignes => prise.inventaire = prise.dump
  BY <1>2 DEF PriseInv, SauvegardeTypeInv, PriseType, Prise, Table
<1>4. LignesDites' /\ DumpSuivi' /\ BaseTenue'
  BY <1>1, <1>3 DEF PriseInv, LignesDites, DumpSuivi, BaseTenue
<1> QED
  BY <1>4 DEF PriseInv

LEMMA ArreterTenu ==
  ASSUME PriseInv, ArreterPrise, SauvegardeTypeInv', UNCHANGED lignes
  PROVE  PriseInv'
<1>1. prise' = AucunePrise /\ UNCHANGED <<base, constat>> /\ prise.pc = "dump"
  BY DEF ArreterPrise
<1>2. \A p \in Pieces : TableVide[p] = PasDeLigne
  BY DEF TableVide
<1>3. LignesDites'
  BY <1>1, <1>2, PasDeLigneAvant, AucunePriseType DEF PriseInv, LignesDites
<1>4. DumpSuivi' /\ BaseTenue'
  BY <1>1, AucunePriseType DEF PriseInv, DumpSuivi, BaseTenue
<1> QED
  BY <1>3, <1>4 DEF PriseInv

LEMMA RestaurerTenu ==
  ASSUME PriseInv, NEW t \in Restaurations, NEW mig \in MigrationsTrouvees,
         Restaurer(t, mig), SauvegardeTypeInv', UNCHANGED lignes
  PROVE  PriseInv'
<1>1. /\ prise.pc = "manifeste" /\ UNCHANGED <<prise, constat>>
      /\ base'.existe /\ base'.table = t /\ base'.migrations = mig
  BY DEF Restaurer
<1>2. \A p \in Pieces : t[p] = prise.dump[p] \/ t[p] \in LignesDeBase
  BY RestaurationsType DEF PriseInv, SauvegardeTypeInv, PriseType, Prise
<1>3. \A l \in LignesDeBase : LigneDite(l)
  BY LignesDeBaseType, PasDeLigneAvant DEF LignesDeBase, LigneDite
<1>4. LignesDites'
  BY <1>1, <1>2, <1>3 DEF PriseInv, LignesDites
<1>5. DumpSuivi' /\ BaseTenue'
  BY <1>1 DEF PriseInv, DumpSuivi, BaseTenue
<1> QED
  BY <1>4, <1>5 DEF PriseInv

LEMMA PriseStable ==
  ASSUME PriseInv, CoffreInv, SauvegardeNext, EcrivainsInchanges
  PROVE  PriseInv'
<1>1. SauvegardeTypeInv' /\ UNCHANGED <<lignes, rangement, outil>>
  BY SauvegardeTypeStable
     DEF PriseInv, CoffreInv, TypeInv, SauvegardeEtape, EcrivainsInchanges
<1>2. ASSUME NEW k \in {CleApi, Nul}, Dumper(k) PROVE PriseInv'
  BY <1>1, <1>2, DumperTenu
<1>3. ASSUME NEW p \in Pieces, Inventorier(p) PROVE PriseInv'
  BY <1>1, <1>3, InventorierTenu
<1>4. CASE EcrireManifeste
  BY <1>1, <1>4, ManifesteTenu
<1>5. CASE ArreterPrise
  BY <1>1, <1>5, ArreterTenu
<1>6. ASSUME NEW quoi \in {"dump", "inventaire", "manifeste"}, NEW perdu \in BOOLEAN,
             AbimerPrise(quoi, perdu)
      PROVE  PriseInv'
  <2>1. /\ prise'.pc = prise.pc /\ prise'.dump = prise.dump /\ prise.pc = "manifeste"
        /\ prise'.inventaire = prise.inventaire /\ prise'.calme = prise.calme
        /\ UNCHANGED <<base, constat>>
    BY <1>6, PriseAbimee DEF PriseInv, AbimerPrise
  <2>2. LignesDites' /\ DumpSuivi' /\ BaseTenue'
    BY <1>1, <2>1 DEF PriseInv, LignesDites, DumpSuivi, BaseTenue
  <2> QED
    BY <1>1, <2>2 DEF PriseInv
<1>7. ASSUME NEW t \in Restaurations, NEW mig \in MigrationsTrouvees, Restaurer(t, mig)
      PROVE  PriseInv'
  BY <1>1, <1>7, RestaurerTenu
<1>8. CASE UNCHANGED prise /\ UNCHANGED base /\ (constat' = constat \/ base.existe)
  BY <1>1, <1>8
     DEF PriseInv, LignesDites, DumpSuivi, BaseTenue, Inventoriees, DerniereInventoriee,
         Curseur, Presentes, Close, Tient
<1>9. prise.dump \in Restaurations /\ MigrationsDeLaPrise \in MigrationsTrouvees
  BY DEF Restaurations, MigrationsTrouvees
<1> QED
  BY <1>2, <1>3, <1>4, <1>5, <1>6, <1>7, <1>8, <1>9
     DEF SauvegardeNext, Verifier, ConfronterPiece, RendreRapport, Constater

-----------------------------------------------------------------------------
(* The confrontation of a restored base                                     *)

LEMMA PresentesFinies ==
  ASSUME NEW t
  PROVE  IsFiniteSet(Presentes(t)) /\ Cardinality(Presentes(t)) \in Nat
<1>1. Presentes(t) \in SUBSET Pieces /\ IsFiniteSet(Pieces)
  BY SauvegardeAssumption DEF Presentes, SauvegardeAssumption
<1>2. IsFiniteSet(Presentes(t))
  BY <1>1, FS_Subset
<1> QED
  BY <1>2, FS_CardinalityType

(* No line missing and no more rows than lines: the base is the inventory.  *)
LEMMA ComptageSuffit ==
  ASSUME PriseInv, Absentes = {}, Divergentes = {}, ~EnTrop
  PROVE  base.table = prise.inventaire
<1> DEFINE B == Presentes(base.table)
           I == Presentes(prise.inventaire)
<1>1. I \subseteq B
  BY DEF Absentes
<1>2. Cardinality(B) <= Cardinality(I)
  BY PresentesFinies, FS_EmptySet DEF EnTrop
<1>3. Cardinality(I) <= Cardinality(B) /\ (Cardinality(B) = Cardinality(I) => B = I)
  <2>1. IsFiniteSet(B) /\ I \in SUBSET B
    BY <1>1, PresentesFinies
  <2> HIDE DEF B, I
  <2> QED
    BY <2>1, FS_Subset
<1>4. B = I
  <2>1. Cardinality(B) \in Nat /\ Cardinality(I) \in Nat
    BY PresentesFinies
  <2> HIDE DEF B, I
  <2> QED
    BY <1>2, <1>3, <2>1
<1>5. ASSUME NEW p \in Pieces PROVE base.table[p] = prise.inventaire[p]
  <2>1. CASE p \in I
    BY <1>4, <2>1 DEF Divergentes
  <2>2. CASE p \notin I
    <3>1. base.table[p] = PasDeLigne
      BY <1>4, <2>2 DEF Presentes, PriseInv, LignesDites, LigneDite
    <3>2. prise.inventaire[p] = PasDeLigne
      BY <2>2 DEF Presentes, PriseInv, LignesDites, LigneDite
    <3> QED
      BY <3>1, <3>2
  <2> QED
    BY <2>1, <2>2
<1> QED
  BY <1>5 DEF PriseInv, SauvegardeTypeInv, PriseType, BaseType, Prise, Table

(* A base that is the inventory, under migrations it can be read with, is   *)
(* declared faithful.                                                       *)
LEMMA SansFausseAlarme ==
  ASSUME PriseInv, base.table = prise.inventaire, base.existe,
         base.migrations.total >= 1, base.migrations.derniere # "autre"
  PROVE  /\ EtatDeMigration(base.migrations, MigrationsDeLaPrise)
              \in {"conforme", "base plus avancee"}
         /\ \A loc \in Locataires : NombreDe(base.table, loc) = NombreDe(prise.inventaire, loc)
         /\ Absentes = {} /\ Divergentes = {} /\ ~EnTrop
<1>1. base.migrations \in MigrationsTrouvees
  BY DEF PriseInv, BaseTenue
<1>2. EtatDeMigration(base.migrations, MigrationsDeLaPrise) \in {"conforme", "base plus avancee"}
  <2>1. \/ base.migrations = MigrationsDeLaPrise
        \/ base.migrations = [total |-> 2, derniere |-> "m2"]
    BY <1>1 DEF MigrationsTrouvees
  <2>2. MigrationsDeLaPrise.total = 1
    BY DEF MigrationsDeLaPrise
  <2>3. CASE base.migrations = MigrationsDeLaPrise
    BY <2>3 DEF EtatDeMigration
  <2>4. CASE base.migrations = [total |-> 2, derniere |-> "m2"]
    <3>1. base.migrations.total = 2 /\ base.migrations # MigrationsDeLaPrise
      BY <2>2, <2>4
    <3> QED
      BY <2>2, <3>1 DEF EtatDeMigration
  <2> QED
    BY <2>1, <2>3, <2>4
<1>3. Absentes = {} /\ Divergentes = {}
  BY DEF Absentes, Divergentes
<1>4. ~EnTrop
  BY <1>3, PresentesFinies, FS_EmptySet DEF EnTrop
<1> QED
  BY <1>2, <1>3, <1>4

LEMMA ConstatStable ==
  ASSUME PriseInv, ConstatJuste, SauvegardeNext
  PROVE  ConstatJuste'
<1>1. CASE Constater
  <2>1. UNCHANGED <<prise, base>> /\ base.existe
    BY <1>1 DEF Constater
  <2>2. constat' = "fidele" => base.table = prise.inventaire
    BY <1>1, ComptageSuffit, SauvegardeAssumption DEF Constater, SauvegardeAssumption
  <2>3. ASSUME constat' = "infidele", prise.calme, base.table = prise.dump,
               base.migrations.total >= 1, base.migrations.derniere # "autre"
        PROVE  FALSE
    <3>1. base.table = prise.inventaire
      BY <2>3 DEF PriseInv, BaseTenue
    <3> QED
      BY <1>1, <2>1, <2>3, <3>1, SansFausseAlarme DEF Constater
  <2>4. base.migrations.total \in Nat
    BY DEF PriseInv, SauvegardeTypeInv, BaseType, Migrations
  <2> QED
    BY <2>1, <2>2, <2>3, <2>4 DEF ConstatJuste
<1>2. CASE constat' = constat
  <2>1. CASE constat = Nul
    BY <1>2, <2>1, SauvegardeAssumption DEF ConstatJuste, SauvegardeAssumption
  <2>2. CASE constat # Nul
    <3>1. base.existe /\ prise.pc = "manifeste"
      BY <2>2 DEF PriseInv, BaseTenue
    <3>2. /\ UNCHANGED base /\ prise'.dump = prise.dump
          /\ prise'.inventaire = prise.inventaire /\ prise'.calme = prise.calme
      <4>1. ASSUME NEW quoi \in {"dump", "inventaire", "manifeste"}, NEW perdu \in BOOLEAN,
                   AbimerPrise(quoi, perdu)
            PROVE  /\ UNCHANGED base /\ prise'.dump = prise.dump
                   /\ prise'.inventaire = prise.inventaire /\ prise'.calme = prise.calme
        BY <4>1, PriseAbimee DEF PriseInv, AbimerPrise
      <4>2. CASE UNCHANGED <<prise, base>>
        BY <4>2
      <4> QED
        BY <2>2, <3>1, <4>1, <4>2
           DEF SauvegardeNext, Dumper, Inventorier, EcrireManifeste, ArreterPrise, Restaurer,
               Verifier, ConfronterPiece, RendreRapport, Constater
    <3> QED
      BY <1>2, <3>2 DEF ConstatJuste
  <2> QED
    BY <2>1, <2>2
<1> QED
  BY <1>1, <1>2
     DEF SauvegardeNext, Dumper, Inventorier, EcrireManifeste, ArreterPrise, AbimerPrise,
         Restaurer, Verifier, ConfronterPiece, RendreRapport

-----------------------------------------------------------------------------
(* The verification of a backup beside its vault                            *)

(* The tool holds the container of a call whose file is still in clear,     *)
(* unless ingestion is sealing that call too.                               *)
Vise(p) == outil.pc \in {"ecrire", "basculer"} /\ outil.cible = p
ClairVise ==
  \A p \in Pieces \ croisees : Vise(p) => disque[p] = Nul \/ disque[p].sceau = "aucun"

Demandee == verif.pc # "repos" /\ verif.stockage
Confrontees == Inventoriees \ verif.reste
Trouvee(p) == verif.disque0[p]

Bon(f, k) ==
  f.son = "intact" /\ (f.sceau = "aucun" \/ (f.sceau = "ouvrable" /\ f.cle = k))

(* The file found in clear at the start has gone or has been sealed since:  *)
(* it never comes back.                                                     *)
Passe(p) == Trouvee(p).sceau = "aucun" /\ (disque[p] = Nul \/ disque[p].sceau # "aucun")

(* What a file found at the start can have become: one that was damaged     *)
(* never becomes good again, but by the container of the tool.              *)
Suit(p) ==
  /\ Trouvee(p).sceau = "aucun" /\ Trouvee(p).son = "altere" =>
       /\ rangement[p] = "fini"
       /\ disque[p] \in {Nul, Trouvee(p)} \/ disque[p].sceau # "aucun"
  /\ Trouvee(p).sceau # "aucun" =>
       /\ rangement[p] \in {"inscrire", "fini"} /\ ~Vise(p)
       /\ disque[p] \in {Nul, Trouvee(p), Abimer(Trouvee(p))}

Fidelite ==
  /\ prise.perdus = {}
  /\ verif.consignee \/ "manifeste" \notin prise.changes => prise.changes = {}

Jugee(p) ==
  IF prise.inventaire[p].statut = "purged" THEN Trouvee(p) = Nul
  ELSE Trouvee(p) # Nul /\ (Bon(Trouvee(p), verif.cle) \/ Passe(p))

VerifTenue ==
  /\ verif.pc # "repos" => prise.pc = "manifeste" /\ (Restaurable => Fidelite)
  /\ Demandee =>
       /\ verif.surDisque = {p \in Pieces : Trouvee(p) # Nul} \ Confrontees
       /\ verif.reste \subseteq Inventoriees
       /\ Restaurable => \A p \in Confrontees \ croisees : Jugee(p)
       /\ \A p \in Pieces \ croisees : Trouvee(p) # Nul => Suit(p)
  /\ verif.pc = "confronter" => verif.stockage
  /\ verif.pc = "rendu" /\ verif.stockage =>
       verif.reste = {} /\ (Restaurable => verif.surDisque = {})

VerifInv == ClairVise /\ VerifTenue

LEMMA VerifInitiale == CoffreInit /\ SauvegardeInit => VerifInv
BY AucuneVerifType DEF CoffreInit, SauvegardeInit, VerifInv, ClairVise, VerifTenue, Vise,
                       OutilAuRepos, Demandee

(* A purge, damage or the tool, between two readings of the vault.          *)
LEMMA ClairViseStable ==
  ASSUME CoffreInv, ClairVise, CoffreNext
  PROVE  ClairVise'
<1> USE DEF CoffreInv, TypeInv, CoffreTypeOK, ClairVise, Vise
<1>0. croisees \subseteq croisees'
  BY HistoireCroit
<1>1. ASSUME NEW p \in Pieces,
             \/ \E c \in BOOLEAN : Creer(p, c)
             \/ RangerLire(p) \/ RangerEcrire(p) \/ RangerBasculer(p) \/ RangerInscrire(p)
             \/ RangerEchouer(p) \/ RangerArreter(p)
             \/ EffacerFichier(p) \/ MarquerPurgee(p)
      PROVE  ClairVise'
  BY <1>0, <1>1, ClairFichier
     DEF Creer, RangerLire, RangerEcrire, RangerBasculer, RangerInscrire, RangerEchouer,
         RangerArreter, EffacerFichier, MarquerPurgee, RangementTenu, Tient
<1>2. ASSUME NEW p \in Pieces, Alterer(p) PROVE ClairVise'
  BY <1>2, AbimerType DEF Alterer
<1>3. ASSUME NEW p \in Pieces, OutilLire(p) PROVE ClairVise'
  BY <1>0, <1>3, ClairFichier DEF OutilLire, Scellable, Outil
<1>4. CASE \E k \in Cles, r \in Refs : OutilLancer(k, r)
  BY <1>4 DEF OutilLancer, OutilAuRepos
<1>5. CASE OutilEcrire
  BY <1>5 DEF OutilEcrire, Outil
<1>6. CASE OutilBasculer \/ OutilInscrire \/ OutilEchouer \/ OutilFinir \/ OutilArreter
  BY <1>0, <1>6, OutilType
     DEF OutilBasculer, OutilInscrire, OutilEchouer, OutilFinir, OutilArreter, Outil
<1> HIDE DEF CoffreInv, TypeInv, CoffreTypeOK, ClairVise, Vise
<1> QED
  BY <1>1, <1>2, <1>3, <1>4, <1>5, <1>6 DEF CoffreNext

(* What one step of the writers does of the file and of the tool's aim.     *)
LEMMA FichierSuivi ==
  ASSUME CoffreInv, ClairVise, CoffreNext, NEW p \in Pieces,
         rangement[p] \in {"inscrire", "fini"}
  PROVE  /\ rangement'[p] \in {rangement[p], "fini"}
         /\ \/ disque'[p] \in {disque[p], Nul}
            \/ disque[p] # Nul /\ disque'[p] = Abimer(disque[p])
            \/ /\ Vise(p) /\ disque'[p] # Nul /\ disque'[p].sceau # "aucun"
         /\ Vise(p)' => Vise(p) \/ disque[p] = Clair
<1> DEFINE Suivi == /\ rangement'[p] \in {rangement[p], "fini"}
                    /\ \/ disque'[p] \in {disque[p], Nul}
                       \/ disque[p] # Nul /\ disque'[p] = Abimer(disque[p])
                       \/ /\ Vise(p) /\ disque'[p] # Nul /\ disque'[p].sceau # "aucun"
                    /\ Vise(p)' => Vise(p) \/ disque[p] = Clair
<1> USE DEF CoffreInv, TypeInv, CoffreTypeOK, Vise
<1>1. ASSUME NEW q \in Pieces,
             \/ \E c \in BOOLEAN : Creer(q, c)
             \/ RangerLire(q) \/ RangerEcrire(q) \/ RangerBasculer(q) \/ RangerInscrire(q)
             \/ RangerEchouer(q) \/ RangerArreter(q)
             \/ EffacerFichier(q) \/ MarquerPurgee(q) \/ Alterer(q)
      PROVE  Suivi
  BY <1>1
     DEF Creer, RangerLire, RangerEcrire, RangerBasculer, RangerInscrire, RangerEchouer,
         RangerArreter, EffacerFichier, MarquerPurgee, Alterer
<1>2. ASSUME NEW q \in Pieces, OutilLire(q)
      PROVE  Suivi
  BY <1>2 DEF OutilLire, Scellable, Outil
<1>3. ASSUME NEW k \in Cles, NEW r \in Refs, OutilLancer(k, r)
      PROVE  Suivi
  BY <1>3 DEF OutilLancer, OutilAuRepos
<1>4. ASSUME OutilEcrire
      PROVE  Suivi
  BY <1>4 DEF OutilEcrire, Outil
<1>5. ASSUME OutilBasculer
      PROVE  Suivi
  <2>1. CASE provisoire[outil.cible] = Nul
    BY <1>5, <2>1, OutilType DEF OutilBasculer
  <2>2. CASE provisoire[outil.cible] # Nul
    <3>1. /\ outil.cible \in Pieces /\ outil.pc = "basculer"
          /\ provisoire[outil.cible].sceau # "aucun"
      BY <1>5, <2>2 DEF OutilBasculer, AuTravail, SceauxTenus
    <3>2. /\ disque' = [disque EXCEPT ![outil.cible] = provisoire[outil.cible]]
          /\ outil'.pc = "inscrire" /\ UNCHANGED rangement
      BY <1>5, <2>2 DEF OutilBasculer, Outil
    <3> QED
      BY <2>2, <3>1, <3>2
  <2> QED
    BY <2>1, <2>2
<1>6. ASSUME OutilInscrire \/ OutilEchouer \/ OutilFinir \/ OutilArreter
      PROVE  Suivi
  BY <1>6, OutilType
     DEF OutilInscrire, OutilEchouer, OutilFinir, OutilArreter, OutilAuRepos
<1> HIDE DEF Suivi, CoffreInv, TypeInv, CoffreTypeOK, Vise
<1>7. Suivi
  BY <1>1, <1>2, <1>3, <1>4, <1>5, <1>6 DEF CoffreNext
<1> QED
  BY <1>7 DEF Suivi

LEMMA VerifSousEcriture ==
  ASSUME SauvegardeTypeInv, CoffreInv, VerifInv, CoffreNext, UNCHANGED sauvegardeVars
  PROVE  VerifInv'
<1>1. UNCHANGED <<prise, verif>> /\ disque \in [Pieces -> Fichier \cup {Nul}]
      /\ verif.disque0 \in [Pieces -> Fichier \cup {Nul}]
  BY DEF sauvegardeVars, CoffreInv, TypeInv, CoffreTypeOK, SauvegardeTypeInv, VerifType, Verif
<1>2. ASSUME NEW p \in Pieces, Trouvee(p) # Nul, Suit(p)
      PROVE  Suit(p)'
  <2>1. Trouvee(p) \in Fichier /\ Trouvee(p)' = Trouvee(p)
        /\ (disque[p] # Nul => disque[p] \in Fichier)
    BY <1>1, <1>2 DEF Trouvee
  <2>2. rangement[p] \in {"inscrire", "fini"} =>
          /\ rangement'[p] \in {rangement[p], "fini"}
          /\ \/ disque'[p] \in {disque[p], Nul}
             \/ disque[p] # Nul /\ disque'[p] = Abimer(disque[p])
             \/ /\ Vise(p) /\ disque'[p] # Nul /\ disque'[p].sceau # "aucun"
          /\ Vise(p)' => Vise(p) \/ disque[p] = Clair
    BY FichierSuivi DEF VerifInv
  <2>3. CASE Trouvee(p).sceau = "aucun"
    <3>1. Trouvee(p).son = "altere" => Abimer(Trouvee(p)) = Trouvee(p)
      BY <2>1, <2>3 DEF Abimer, Fichier
    <3>2. disque[p] # Nul /\ disque[p].sceau # "aucun" => Abimer(disque[p]).sceau # "aucun"
      BY <2>1, AbimerType
    <3>3. Nul \notin Fichier
      BY FichierAssumption DEF FichierAssumption
    <3> QED
      BY <1>2, <2>1, <2>2, <2>3, <3>1, <3>2, <3>3 DEF Suit
  <2>4. CASE Trouvee(p).sceau # "aucun"
    <3>1. /\ Abimer(Trouvee(p)) \in Fichier /\ Abimer(Trouvee(p)).sceau # "aucun"
          /\ Abimer(Abimer(Trouvee(p))) = Abimer(Trouvee(p))
      BY <2>1, <2>4 DEF Abimer, Fichier
    <3>2. disque[p] # Clair
      BY <1>2, <2>4, <3>1, ClairFichier DEF Suit
    <3> QED
      BY <1>2, <2>1, <2>2, <2>4, <3>1, <3>2 DEF Suit
  <2> QED
    BY <2>3, <2>4
<1>3. ASSUME NEW p \in Pieces, Trouvee(p) # Nul, Suit(p), Passe(p), Trouvee(p).son = "altere"
      PROVE  Passe(p)'
  <2>1. /\ rangement[p] = "fini" /\ Trouvee(p)' = Trouvee(p)
        /\ (disque[p] # Nul => disque[p] \in Fichier)
    BY <1>1, <1>3 DEF Suit, Passe, Trouvee
  <2>2. \/ disque'[p] \in {disque[p], Nul}
        \/ disque[p] # Nul /\ disque'[p] = Abimer(disque[p])
        \/ /\ Vise(p) /\ disque'[p] # Nul /\ disque'[p].sceau # "aucun"
    BY <2>1, FichierSuivi DEF VerifInv
  <2>3. disque[p] # Nul /\ disque[p].sceau # "aucun" => Abimer(disque[p]).sceau # "aucun"
    BY <2>1, AbimerType
  <2> QED
    BY <1>3, <2>1, <2>2, <2>3 DEF Passe
<1>4. ASSUME NEW p \in Pieces, Trouvee(p) # Nul => Suit(p), Jugee(p)
      PROVE  Jugee(p)'
  <2>1. Trouvee(p)' = Trouvee(p) /\ (Trouvee(p) # Nul => Trouvee(p) \in Fichier)
    BY <1>1 DEF Trouvee
  <2>2. Passe(p) /\ Trouvee(p) # Nul /\ Trouvee(p).son = "intact" => Bon(Trouvee(p), verif.cle)
    BY DEF Passe, Bon
  <2>3. Trouvee(p) # Nul => Trouvee(p).son \in {"intact", "altere"}
    BY <2>1 DEF Fichier
  <2>4. Bon(Trouvee(p), verif.cle)' = Bon(Trouvee(p), verif.cle)
    BY <1>1, <2>1 DEF Bon
  <2> QED
    BY <1>1, <1>3, <1>4, <2>1, <2>2, <2>3, <2>4 DEF Jugee
<1>9. croisees \subseteq croisees'
  BY HistoireCroit
<1>5. UNCHANGED <<prise, verif>> => /\ Inventoriees' = Inventoriees /\ Confrontees' = Confrontees
                                    /\ Fidelite' = Fidelite /\ Restaurable' = Restaurable
                                    /\ Demandee' = Demandee
  BY DEF Inventoriees, Presentes, Confrontees, Fidelite, Restaurable, Demandee
<1>6. \A p \in Pieces : Trouvee(p)' = Trouvee(p)
  BY <1>1 DEF Trouvee
<1>7. Confrontees \subseteq Pieces
  BY DEF Confrontees, Inventoriees, Presentes
<1>8. VerifTenue'
  BY <1>1, <1>2, <1>4, <1>5, <1>6, <1>7, <1>9 DEF VerifInv, VerifTenue
<1> QED
  BY <1>8, ClairViseStable DEF VerifInv

LEMMA PriseCredible ==
  ASSUME SauvegardeTypeInv, NEW c, NEW k, ConstatPrise(c, k) = {}
  PROVE  /\ prise.perdus = {}
         /\ c \/ "manifeste" \notin prise.changes => prise.changes = {}
<1>1. /\ prise.perdus \subseteq {"dump", "inventaire"}
      /\ prise.changes \subseteq {"dump", "inventaire", "manifeste"}
  BY DEF SauvegardeTypeInv, PriseType, Prise
<1>2. prise.perdus = {}
  BY <1>1 DEF ConstatPrise
<1>3. c => "manifeste" \notin prise.changes
  BY DEF ConstatPrise
<1>4. "manifeste" \notin prise.changes =>
        "dump" \notin prise.changes /\ "inventaire" \notin prise.changes
  BY <1>2 DEF ConstatPrise, Dementi
<1> QED
  BY <1>1, <1>2, <1>3, <1>4

LEMMA VerifierTenu ==
  ASSUME SauvegardeTypeInv, CoffreInv, VerifInv, EcrivainsInchanges, NEW c \in BOOLEAN,
         NEW k \in Cles \cup {Nul}, NEW s \in BOOLEAN, Verifier(c, k, s)
  PROVE  VerifTenue'
<1>1. /\ prise.pc = "manifeste" /\ UNCHANGED prise /\ disque' = disque
      /\ UNCHANGED <<outil, rangement, croisees>>
  BY DEF Verifier, EcrivainsInchanges
<1>2. verif'.consignee = c /\ ConstatPrise(c, k) \subseteq verif'.trouvees
  BY VerificationLancee DEF CoffreInv, TypeInv
<1>3. Restaurable' => Fidelite'
  BY <1>1, <1>2, PriseCredible DEF Restaurable, Fidelite
<1>4. CASE verif'.pc = "rendu" /\ ~verif'.stockage
  BY <1>1, <1>3, <1>4 DEF VerifTenue, Demandee
<1>5. CASE /\ verif'.pc = "confronter" /\ verif'.stockage
           /\ verif'.surDisque = Deposes
           /\ verif'.reste = Presentes(prise.inventaire) /\ verif'.disque0 = disque
  <2>1. Confrontees' = {} /\ Inventoriees' = Inventoriees /\ verif'.reste = Inventoriees
    BY <1>1, <1>5 DEF Confrontees, Inventoriees, Presentes
  <2>2. \A p \in Pieces : Trouvee(p)' = disque[p]
    BY <1>5 DEF Trouvee
  <2>3. verif'.surDisque = {p \in Pieces : Trouvee(p)' # Nul}
    BY <1>5, <2>2 DEF Deposes
  <2>4. ASSUME NEW p \in Pieces \ croisees, Trouvee(p)' # Nul PROVE Suit(p)'
    <3>1. disque[p] # Nul /\ disque[p] \in Fichier
      BY <2>2, <2>4 DEF CoffreInv, TypeInv, CoffreTypeOK
    <3>2. disque[p].sceau = "aucun" /\ disque[p].son = "altere" => rangement[p] = "fini"
      BY <3>1, ClairFichier, ScellerClair, CoffreAssumption
         DEF CoffreInv, RangementTenu, CoffreAssumption, TypeInv, CoffreTypeOK
    <3>3. disque[p].sceau # "aucun" => rangement[p] \in {"inscrire", "fini"}
      BY <3>1, ClairFichier DEF CoffreInv, RangementTenu, TypeInv, CoffreTypeOK
    <3>4. disque[p].sceau # "aucun" => ~Vise(p)
      BY <3>1 DEF VerifInv, ClairVise
    <3> QED
      BY <1>1, <2>2, <3>1, <3>2, <3>3, <3>4 DEF Suit, Vise
  <2> QED
    BY <1>1, <1>3, <1>5, <2>1, <2>3, <2>4 DEF VerifTenue
<1> QED
  BY <1>4, <1>5, VerificationLancee DEF CoffreInv, TypeInv

LEMMA ConfronterTenu ==
  ASSUME SauvegardeTypeInv, CoffreInv, VerifInv, EcrivainsInchanges, NEW p \in Pieces,
         ConfronterPiece(p)
  PROVE  VerifTenue'
<1>1. /\ verif.pc = "confronter" /\ verif'.pc = "confronter"
      /\ verif'.consignee = verif.consignee /\ verif'.cle = verif.cle
      /\ verif'.stockage = verif.stockage /\ verif'.disque0 = verif.disque0
      /\ verif'.reste = verif.reste \ {p} /\ verif'.surDisque = verif.surDisque \ {p}
      /\ verif'.trouvees = verif.trouvees \cup ConstatPiece(p)
      /\ p \in verif.reste /\ UNCHANGED prise
  BY PieceConfrontee DEF ConfronterPiece
<1>2. UNCHANGED <<disque, rangement, outil, croisees>>
  BY DEF EcrivainsInchanges
<1>3. /\ verif.stockage /\ Demandee
      /\ verif.surDisque = {q \in Pieces : Trouvee(q) # Nul} \ Confrontees
      /\ verif.reste \subseteq Inventoriees
      /\ Restaurable => Fidelite /\ \A q \in Confrontees \ croisees : Jugee(q)
      /\ \A q \in Pieces \ croisees : Trouvee(q) # Nul => Suit(q)
      /\ prise.pc = "manifeste"
  BY <1>1 DEF VerifInv, VerifTenue, Demandee
<1>4. /\ Restaurable' => Restaurable /\ ConstatPiece(p) = {}
      /\ Fidelite' = Fidelite /\ Inventoriees' = Inventoriees
      /\ Confrontees' = Confrontees \cup {p} /\ p \notin Confrontees
  BY <1>1, <1>3 DEF Restaurable, Fidelite, Inventoriees, Presentes, Confrontees
<1>5. \A q : /\ Trouvee(q)' = Trouvee(q) /\ Suit(q)' = Suit(q) /\ Jugee(q)' = Jugee(q)
  BY <1>1, <1>2 DEF Trouvee, Suit, Vise, Jugee, Bon, Passe
<1>6. ASSUME ConstatPiece(p) = {}, p \notin croisees PROVE Jugee(p)
  <2>1. CASE prise.inventaire[p].statut = "purged"
    <3>1. p \notin verif.surDisque
      BY <1>6, <2>1 DEF ConstatPiece
    <3> QED
      BY <1>3, <1>4, <2>1, <3>1 DEF Jugee
  <2>2. CASE prise.inventaire[p].statut # "purged"
    <3>1. p \in verif.surDisque /\ ConstatFichier(disque[p]) = {}
      BY <1>6, <2>2 DEF ConstatPiece
    <3>2. Trouvee(p) # Nul /\ Suit(p)
      BY <1>3, <1>6, <3>1
    <3>3. Trouvee(p) \in Fichier /\ (disque[p] # Nul => disque[p] \in Fichier)
      BY <3>2
         DEF Trouvee, SauvegardeTypeInv, VerifType, Verif, CoffreInv, TypeInv, CoffreTypeOK
    <3>4. disque[p] # Nul /\ Bon(disque[p], verif.cle)
      BY <3>1 DEF ConstatFichier, Bon
    <3>5. CASE Trouvee(p).sceau # "aucun"
      <4>1. Abimer(Trouvee(p)).sceau = "rompu"
        BY <3>3, <3>5, AbimerType
      <4>2. disque[p] = Trouvee(p)
        BY <3>2, <3>4, <3>5, <4>1 DEF Suit, Bon
      <4> QED
        BY <2>2, <3>2, <3>4, <4>2 DEF Jugee
    <3>6. CASE Trouvee(p).sceau = "aucun"
      <4>1. CASE Trouvee(p).son = "intact"
        BY <2>2, <3>2, <3>6, <4>1 DEF Jugee, Bon
      <4>2. CASE Trouvee(p).son = "altere"
        <5>1. disque[p].sceau # "aucun"
          BY <3>2, <3>4, <3>6, <4>2 DEF Suit, Bon
        <5> QED
          BY <2>2, <3>2, <3>6, <5>1 DEF Jugee, Passe
      <4> QED
        BY <3>3, <4>1, <4>2 DEF Fichier
    <3> QED
      BY <3>5, <3>6
  <2> QED
    BY <2>1, <2>2
<1>7. Restaurable' => \A q \in Confrontees' \ croisees' : Jugee(q)'
  BY <1>2, <1>3, <1>4, <1>5, <1>6
<1>8. verif'.surDisque = {q \in Pieces : Trouvee(q)' # Nul} \ Confrontees'
  BY <1>1, <1>3, <1>4, <1>5
<1>9. verif'.reste \subseteq Inventoriees'
  BY <1>1, <1>3, <1>4
<1>10. \A q \in Pieces \ croisees' : Trouvee(q)' # Nul => Suit(q)'
  BY <1>2, <1>3, <1>5
<1> QED
  BY <1>1, <1>3, <1>4, <1>7, <1>8, <1>9, <1>10 DEF VerifTenue

LEMMA RapportTenu ==
  ASSUME SauvegardeTypeInv, VerifInv, EcrivainsInchanges, RendreRapport
  PROVE  VerifTenue'
<1>1. /\ verif.pc = "confronter" /\ verif'.pc = "rendu"
      /\ verif.reste = {} /\ verif'.reste = {} /\ verif'.consignee = verif.consignee
      /\ verif'.cle = verif.cle /\ verif'.stockage = verif.stockage
      /\ verif'.disque0 = verif.disque0 /\ verif'.surDisque = verif.surDisque
      /\ verif.trouvees \subseteq verif'.trouvees
      /\ verif'.trouvees = {} => verif.surDisque = {}
      /\ UNCHANGED prise
  BY RapportRendu DEF RendreRapport
<1>2. UNCHANGED <<disque, rangement, outil, croisees>>
  BY DEF EcrivainsInchanges
<1>3. verif.stockage /\ Demandee
  BY <1>1 DEF VerifInv, VerifTenue, Demandee
<1>4. /\ Restaurable' => Restaurable /\ verif'.surDisque = {}
      /\ Fidelite' = Fidelite /\ Inventoriees' = Inventoriees /\ Confrontees' = Confrontees
  BY <1>1 DEF Restaurable, Fidelite, Inventoriees, Presentes, Confrontees
<1>5. \A q : /\ Trouvee(q)' = Trouvee(q) /\ Suit(q)' = Suit(q) /\ Jugee(q)' = Jugee(q)
  BY <1>1, <1>2 DEF Trouvee, Suit, Vise, Jugee, Bon, Passe
<1> QED
  BY <1>1, <1>2, <1>3, <1>4, <1>5 DEF VerifInv, VerifTenue

LEMMA VerifStable ==
  ASSUME SauvegardeTypeInv, CoffreInv, VerifInv, SauvegardeNext, EcrivainsInchanges
  PROVE  VerifInv'
<1>1. ClairVise'
  BY DEF VerifInv, ClairVise, Vise, EcrivainsInchanges
<1>2. ASSUME NEW c \in BOOLEAN, NEW s \in BOOLEAN, NEW k \in Cles \cup {Nul}, Verifier(c, k, s)
      PROVE  VerifTenue'
  BY <1>2, VerifierTenu
<1>3. ASSUME NEW p \in Pieces, ConfronterPiece(p) PROVE VerifTenue'
  BY <1>3, ConfronterTenu
<1>4. ASSUME RendreRapport PROVE VerifTenue'
  BY <1>4, RapportTenu
<1>5. ASSUME verif.pc = "repos", UNCHANGED verif PROVE VerifTenue'
  BY <1>5 DEF VerifTenue, Demandee
<1>6. ASSUME UNCHANGED <<prise, verif>> PROVE VerifTenue'
  BY <1>6
     DEF VerifInv, VerifTenue, Demandee, Restaurable, Fidelite, Inventoriees, Presentes,
         Confrontees, Trouvee, Suit, Vise, Jugee, Bon, Passe, EcrivainsInchanges
<1>7. ASSUME \/ \E k \in {CleApi, Nul} : Dumper(k)
             \/ \E p \in Pieces : Inventorier(p)
             \/ EcrireManifeste \/ ArreterPrise
             \/ \E quoi \in {"dump", "inventaire", "manifeste"}, perdu \in BOOLEAN :
                  AbimerPrise(quoi, perdu)
      PROVE  verif.pc = "repos" /\ UNCHANGED verif
  BY <1>7
     DEF Dumper, Inventorier, EcrireManifeste, ArreterPrise, AbimerPrise, VerifInv, VerifTenue,
         SauvegardeTypeInv, VerifType, Verif
<1> QED
  BY <1>1, <1>2, <1>3, <1>4, <1>5, <1>6, <1>7
     DEF SauvegardeNext, VerifInv, Constater, Restaurer

LEMMA RapportFonde ==
  ASSUME SauvegardeTypeInv, VerifInv
  PROVE  RestaurableFondee
<1> SUFFICES ASSUME verif.pc = "rendu", Restaurable
             PROVE  /\ Fidelite
                    /\ verif.stockage /\ verif.disque0 = disque =>
                         \A p \in Pieces \ croisees :
                           IF prise.inventaire[p].statut = "stored"
                           THEN /\ disque[p] # Nul /\ disque[p].son = "intact"
                                /\ \/ disque[p].sceau = "aucun"
                                   \/ disque[p].sceau = "ouvrable" /\ disque[p].cle = verif.cle
                           ELSE disque[p] = Nul
  BY DEF RestaurableFondee, Fidelite
<1>1. Fidelite
  BY DEF VerifInv, VerifTenue
<1>2. ASSUME verif.stockage, verif.disque0 = disque, NEW p \in Pieces \ croisees
      PROVE  IF prise.inventaire[p].statut = "stored"
             THEN disque[p] # Nul /\ Bon(disque[p], verif.cle)
             ELSE disque[p] = Nul
  <2>1. /\ Demandee /\ verif.reste = {} /\ verif.surDisque = {}
        /\ Trouvee(p) = disque[p]
    BY <1>2 DEF VerifInv, VerifTenue, Demandee, Trouvee
  <2>2. p \in Inventoriees => Jugee(p)
    BY <2>1 DEF VerifInv, VerifTenue, Confrontees
  <2>3. p \notin Inventoriees => Trouvee(p) = Nul
    BY <2>1 DEF VerifInv, VerifTenue, Confrontees
  <2>4. ~(Trouvee(p) # Nul /\ Passe(p))
    BY <2>1 DEF Passe
  <2>5. prise.inventaire[p].statut \in {"absente", "stored", "purged"}
    BY DEF SauvegardeTypeInv, PriseType, Prise, Table, Ligne
  <2>6. CASE prise.inventaire[p].statut = "stored"
    <3>1. p \in Inventoriees
      BY <2>6 DEF Inventoriees, Presentes
    <3> QED
      BY <2>1, <2>2, <2>4, <2>6, <3>1 DEF Jugee
  <2>7. CASE prise.inventaire[p].statut # "stored"
    <3>1. p \in Inventoriees => prise.inventaire[p].statut = "purged"
      BY <2>5, <2>7 DEF Inventoriees, Presentes
    <3> QED
      BY <2>1, <2>2, <2>3, <2>7, <3>1 DEF Jugee
  <2> QED
    BY <2>6, <2>7
<1> QED
  BY <1>1, <1>2 DEF Bon

-----------------------------------------------------------------------------
SauvegardeInv == CoffreInv /\ PriseInv /\ VerifInv /\ ConstatJuste

LEMMA SauvegardeInitiale == CoffreInit /\ SauvegardeInit => SauvegardeInv
<1> SUFFICES ASSUME CoffreInit, SauvegardeInit PROVE SauvegardeInv
  OBVIOUS
<1>1. ConstatJuste
  BY SauvegardeAssumption DEF SauvegardeInit, ConstatJuste, SauvegardeAssumption
<1> QED
  BY <1>1, CoffreInitial, PriseInitiale, VerifInitiale DEF SauvegardeInv

LEMMA SauvegardeEtapeTenue ==
  ASSUME SauvegardeInv, [SauvegardeEtape]_<<coffreVars, sauvegardeVars>>
  PROVE  SauvegardeInv'
<1> USE DEF SauvegardeInv
<1>1. CASE CoffreNext /\ UNCHANGED sauvegardeVars
  <2>1. CoffreInv'
    BY <1>1, TypeStable, CoffreStable DEF CoffreInv
  <2>2. PriseInv' /\ VerifInv'
    BY <1>1, PriseSousEcriture, VerifSousEcriture DEF PriseInv
  <2>3. ConstatJuste'
    BY <1>1 DEF ConstatJuste, sauvegardeVars
  <2> QED
    BY <2>1, <2>2, <2>3
<1>2. CASE SauvegardeNext /\ EcrivainsInchanges
  BY <1>2, CoffreObserve, PriseStable, VerifStable, ConstatStable DEF PriseInv
<1>3. CASE UNCHANGED <<coffreVars, sauvegardeVars>>
  <2>1. CoffreInv'
    BY <1>3, TypeStable, CoffreStable DEF CoffreInv
  <2>2. PriseInv'
    BY <1>3
       DEF PriseInv, SauvegardeTypeInv, PriseType, VerifType, BaseType, LignesDites, DumpSuivi,
           BaseTenue, Inventoriees, DerniereInventoriee, Curseur, Presentes, Close, Tient,
           coffreVars, sauvegardeVars
  <2>3. VerifInv'
    BY <1>3
       DEF VerifInv, ClairVise, VerifTenue, Demandee, Restaurable, Fidelite, Inventoriees,
           Presentes, Confrontees, Trouvee, Suit, Vise, Jugee, Bon, Passe, coffreVars,
           sauvegardeVars
  <2>4. ConstatJuste'
    BY <1>3 DEF ConstatJuste, sauvegardeVars
  <2> QED
    BY <2>1, <2>2, <2>3, <2>4
<1> QED
  BY <1>1, <1>2, <1>3 DEF SauvegardeEtape

LEMMA SauvegardeInvariant == SauvegardeSpec => []SauvegardeInv
<1>1. SauvegardeInv /\ [SauvegardeEtape]_<<coffreVars, sauvegardeVars>> => SauvegardeInv'
  BY SauvegardeEtapeTenue
<1> QED
  BY <1>1, SauvegardeInitiale, PTL DEF SauvegardeSpec, SauvegardeEtape, EcrivainsInchanges

(* verification.service.ts:62: whatever ingestion, the tool, the purge and  *)
(* accidents do while the report is made, a backup declared restorable has  *)
(* its dump and its inventory, and a vault found as it was when the reading *)
(* began holds every call of the inventory, opens, and holds nothing else,  *)
(* but for the calls the tool and ingestion sealed at once.                 *)
THEOREM RapportDigneDeFoi == SauvegardeSpec => []RestaurableFondee
<1>1. SauvegardeInv => RestaurableFondee
  BY RapportFonde DEF SauvegardeInv, PriseInv
<1> QED
  BY <1>1, SauvegardeInvariant, PTL

(* base-restauree.ts:34-38, 230-235: a base declared faithful is the        *)
(* inventory row for row, although the rows in excess are only counted; and *)
(* the dump of a backup under which nothing changed is declared faithful.   *)
THEOREM ConstatSansErreur == SauvegardeSpec => []ConstatJuste
<1>1. SauvegardeInv => ConstatJuste
  BY DEF SauvegardeInv
<1> QED
  BY <1>1, SauvegardeInvariant, PTL

-----------------------------------------------------------------------------
(* Everybody at once                                                        *)

(* A backup, its verification and its restoration show nothing to a reader. *)
LEMMA LectureSousSauvegarde ==
  ASSUME EcouteInv, CoffreInv', EcrivainsInchanges, UNCHANGED ecouteVars
  PROVE  EcouteInv'
<1>1. EcouteTypeInv'
  BY DEF EcouteInv, EcouteTypeInv, EcouteTypeOK, LectureFormee, ecouteVars
<1>2. LectureInv'
  BY DEF EcouteInv, LectureInv, Connue, TailleTenue, Servable, EcouteTracee, ExportTenu, PlageExacte,
         EcrivainsInchanges, ecouteVars
<1> QED
  BY <1>1, <1>2 DEF EcouteInv

VouteInv == EcouteInv /\ SauvegardeInv /\ PurgeTenue

LEMMA VouteInvariant == VouteSpec => []VouteInv
<1>1. VouteInit => VouteInv
  <2> SUFFICES ASSUME VouteInit PROVE VouteInv
    OBVIOUS
  <2>1. PurgeTenue
    BY DEF VouteInit, CoffreInit, PurgeTenue, PasDeLigne
  <2> QED
    BY <2>1, CoffreInitial, LectureInitiale, LectureInvInitiale, SauvegardeInitiale
       DEF VouteInit, VouteInv, EcouteInv
<1>2. VouteInv /\ [Ecrire \/ Ecouter(TousEntetes) \/ Sauvegarder]_vouteVars => VouteInv'
  <2> SUFFICES ASSUME VouteInv, [Ecrire \/ Ecouter(TousEntetes) \/ Sauvegarder]_vouteVars
               PROVE  VouteInv'
    OBVIOUS
  <2> USE DEF VouteInv
  <2>1. CASE Ecrire
    <3>1. EcouteInv'
      BY <2>1, EcouteEtapeTenue DEF Ecrire, EcouteEtape
    <3>2. SauvegardeInv'
      BY <2>1, SauvegardeEtapeTenue DEF Ecrire, SauvegardeEtape
    <3>3. PurgeTenue'
      BY <2>1, <3>1, PurgeStable DEF Ecrire, EcouteInv
    <3> QED
      BY <3>1, <3>2, <3>3
  <2>2. CASE Ecouter(TousEntetes)
    <3>1. EcouteInv'
      BY <2>2, EcouteEtapeTenue DEF Ecouter, EcouteEtape
    <3>2. SauvegardeInv'
      BY <2>2, SauvegardeEtapeTenue DEF Ecouter
    <3>3. PurgeTenue'
      BY <2>2 DEF Ecouter, coffreVars, PurgeTenue, HorsDAtteinte
    <3> QED
      BY <3>1, <3>2, <3>3
  <2>3. CASE Sauvegarder
    <3>1. SauvegardeInv'
      BY <2>3, SauvegardeEtapeTenue DEF Sauvegarder, SauvegardeEtape, EcrivainsInchanges
    <3>2. EcouteInv'
      BY <2>3, <3>1, LectureSousSauvegarde DEF Sauvegarder, SauvegardeInv, EcrivainsInchanges
    <3>3. PurgeTenue'
      BY <2>3 DEF Sauvegarder, PurgeTenue, HorsDAtteinte
    <3> QED
      BY <3>1, <3>2, <3>3
  <2>4. CASE UNCHANGED vouteVars
    <3>1. EcouteInv' /\ SauvegardeInv'
      BY <2>4, EcouteEtapeTenue, SauvegardeEtapeTenue DEF vouteVars
    <3>2. PurgeTenue'
      BY <2>4 DEF vouteVars, coffreVars, PurgeTenue, HorsDAtteinte
    <3> QED
      BY <3>1, <3>2
  <2> QED
    BY <2>1, <2>2, <2>3, <2>4
<1> QED
  BY <1>1, <1>2, PTL DEF VouteSpec

(* Writers, readers and operator together keep every state well typed.      *)
THEOREM VouteBienTypee == VouteSpec => []VouteTypeOK
<1> DEFINE I == TypeInv /\ EcouteTypeInv /\ SauvegardeTypeInv
<1>1. VouteInit => I
  BY TypeInitial, LectureInitiale, SauvegardeTypeInitiale DEF VouteInit
<1>2. I /\ [Ecrire \/ Ecouter(TousEntetes) \/ Sauvegarder]_vouteVars => I'
  <2> SUFFICES ASSUME I, [Ecrire \/ Ecouter(TousEntetes) \/ Sauvegarder]_vouteVars PROVE I'
    OBVIOUS
  <2>0. CoffreTypeOK
    BY DEF TypeInv
  <2>1. CASE Ecrire
    BY <2>0, <2>1, TypeStable, LectureTypeStable, SauvegardeTypeStable
       DEF Ecrire, EcouteEtape, SauvegardeEtape
  <2>2. CASE Ecouter(TousEntetes)
    BY <2>0, <2>2, TypeStable, LectureTypeStable, SauvegardeTypeStable DEF Ecouter, EcouteEtape
  <2>3. CASE Sauvegarder
    <3>1. TypeInv'
      BY <2>3, TypeObserve DEF Sauvegarder, EcrivainsInchanges
    <3>2. EcouteTypeInv'
      BY <2>3 DEF Sauvegarder, EcouteTypeInv, EcouteTypeOK, LectureFormee, ecouteVars
    <3>3. SauvegardeTypeInv'
      BY <2>0, <2>3, SauvegardeTypeStable DEF Sauvegarder, SauvegardeEtape, EcrivainsInchanges
    <3> QED
      BY <3>1, <3>2, <3>3
  <2>4. CASE UNCHANGED vouteVars
    BY <2>0, <2>4, TypeStable, LectureTypeStable, SauvegardeTypeStable DEF vouteVars
  <2> QED
    BY <2>1, <2>2, <2>3, <2>4
<1>3. I => VouteTypeOK
  BY DEF VouteTypeOK, TypeInv, EcouteTypeInv, SauvegardeTypeInv, SauvegardeTypeOK, PriseType,
         VerifType, BaseType
<1> HIDE DEF I
<1> QED
  BY <1>1, <1>2, <1>3, PTL DEF VouteSpec

(* Nothing that holds of the writers with one reader is lost when all work  *)
(* at once: what the vault keeps and what it no longer has, what a listener *)
(* and an export receive, and what the backup reports are worth.            *)
THEOREM VouteTenue ==
  VouteSpec =>
    []( /\ PieceRecouvrable /\ SceauProbant /\ LigneScelleeVraie /\ PurgeDefinitive
       /\ PlageExacte /\ ExportFidele
       /\ RestaurableFondee /\ ConstatJuste )
<1>1. CoffreInv => PieceRecouvrable /\ SceauProbant /\ LigneScelleeVraie
  BY DEF CoffreInv, FichiersTenus, PieceRecouvrable, SceauProbant
<1>2. EcouteInv => PlageExacte /\ ExportFidele
  BY DEF EcouteInv, LectureInv, ExportTenu, ExportFidele
<1>3. SauvegardeInv => RestaurableFondee /\ ConstatJuste
  BY RapportFonde DEF SauvegardeInv, PriseInv
<1>4. PurgeTenue => PurgeDefinitive
  BY DEF PurgeTenue, HorsDAtteinte, PurgeDefinitive
<1>5. VouteInv => /\ PieceRecouvrable /\ SceauProbant /\ LigneScelleeVraie /\ PurgeDefinitive
                  /\ PlageExacte /\ ExportFidele
                  /\ RestaurableFondee /\ ConstatJuste
  BY <1>1, <1>2, <1>3, <1>4 DEF VouteInv, EcouteInv
<1> QED
  BY <1>5, VouteInvariant, PTL
=============================================================================
