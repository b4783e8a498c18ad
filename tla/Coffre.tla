------------------------------- MODULE Coffre -------------------------------
(***************************************************************************)
(* The vault as its writers see it: the rows of the calls and their audio   *)
(* files, which ingestion seals as they come in, which the tool             *)
(* storage:sceller seals afterwards for calls kept in clear, and which the  *)
(* purge removes.  The tool is a process of its own beside the service,     *)
(* which it never interrupts: it takes the list of the calls to seal once   *)
(* and works through it, while ingestion and purge go on.                   *)
(*                                                                         *)
(* Module Ingestion has the whole of a pass and its failures, and module    *)
(* Purge the whole of an execution; here both are reduced to what they do   *)
(* to one file and its row.  A call is purged once its ingestion is over:   *)
(* a request, its census and an approval lie between.                       *)
(***************************************************************************)
EXTENDS Naturals

CONSTANTS
  Pieces,          \* the calls
  Cles,            \* generations of the master key
  CleApi,          \* STORAGE_MASTER_KEY of the service
  Refs,            \* what STORAGE_KEY_REF may hold: a name, bound to no key
  RefApi,          \* STORAGE_KEY_REF of the service
  Nul,             \* no file, no key, no name, no call
  Chiffrement,     \* STORAGE_ENCRYPTION_ENABLED
  MaxIncidents     \* bound on alterations, stops and failures

ASSUME CoffreAssumption ==
  /\ CleApi \in Cles
  /\ Chiffrement \in BOOLEAN
  /\ RefApi \in Refs
  /\ MaxIncidents \in Nat
  /\ Nul \notin Cles \cup Refs \cup Pieces

VARIABLES
  lignes,       \* the table recordings
  disque,       \* STORAGE_DIR
  provisoire,   \* the file "<wav>.coffre" beside each wav
  rangement,    \* how far the ingestion of each call is
  copies,       \* the container the ingestion of each call holds in memory
  effacees,     \* calls whose file an execution removed, row not yet marked
  outil,        \* the locals of storage:sceller
  incidents,    \* how many of the bounded events so far
  (* What happened, for the properties alone; no action reads it:           *)
  alterees,     \* calls whose file was damaged on the disk
  croisees,     \* calls the tool read in clear while ingestion sealed them
  devancees,    \* calls purged between the tool's reading and its rename
  delaissees    \* calls whose row a writer that stopped left behind its file

histoire == <<alterees, croisees, devancees, delaissees>>
coffreVars ==
  <<lignes, disque, provisoire, rangement, copies, effacees, outil, incidents, histoire>>

(* An audio file: the audio of the call or something else, in clear or in a *)
(* container that opens with a key, or in one that no longer opens.         *)
Fichier ==
  [son : {"intact", "altere"}, sceau : {"aucun", "ouvrable", "rompu"}, cle : Cles \cup {Nul}]
Clair == [son |-> "intact", sceau |-> "aucun", cle |-> Nul]

ASSUME FichierAssumption == Nul \notin Fichier

(* sceller: a container sealed again opens on a container, not on the audio. *)
Sceller(f, k) ==
  [son |-> IF f.sceau = "aucun" THEN f.son ELSE "altere", sceau |-> "ouvrable", cle |-> k]

(* A byte of the file changes on the disk.                                  *)
Abimer(f) ==
  IF f.sceau = "aucun" THEN [f EXCEPT !.son = "altere"] ELSE [f EXCEPT !.sceau = "rompu"]

Ligne ==
  [statut : {"absente", "stored", "purged"}, chiffre : BOOLEAN, ref : Refs \cup {Nul}]
PasDeLigne == [statut |-> "absente", chiffre |-> FALSE, ref |-> Nul]

PasOutil == {"repos", "lire", "ecrire", "basculer", "inscrire"}
Outil ==
  [pc : PasOutil, reste : SUBSET Pieces, cible : Pieces \cup {Nul},
   copie : Fichier \cup {Nul}, cle : Cles \cup {Nul}, ref : Refs \cup {Nul}]
OutilAuRepos ==
  [pc |-> "repos", reste |-> {}, cible |-> Nul, copie |-> Nul, cle |-> Nul, ref |-> Nul]

CoffreTypeOK ==
  /\ lignes \in [Pieces -> Ligne]
  /\ disque \in [Pieces -> Fichier \cup {Nul}]
  /\ provisoire \in [Pieces -> Fichier \cup {Nul}]
  /\ rangement \in [Pieces -> {"hors", "sceller", "ecrire", "basculer", "inscrire", "fini"}]
  /\ copies \in [Pieces -> Fichier \cup {Nul}]
  /\ effacees \subseteq Pieces
  /\ outil \in Outil
  /\ alterees \cup croisees \cup devancees \cup delaissees \subseteq Pieces
  /\ incidents \in 0..MaxIncidents

CoffreInit ==
  /\ lignes = [p \in Pieces |-> PasDeLigne]
  /\ disque = [p \in Pieces |-> Nul]
  /\ provisoire = [p \in Pieces |-> Nul]
  /\ rangement = [p \in Pieces |-> "hors"]
  /\ copies = [p \in Pieces |-> Nul]
  /\ effacees = {}
  /\ outil = OutilAuRepos
  /\ alterees = {} /\ croisees = {} /\ devancees = {} /\ delaissees = {}
  /\ incidents = 0

Incident == incidents < MaxIncidents /\ incidents' = incidents + 1

Avec(marques, p, condition) == IF condition THEN marques \cup {p} ELSE marques

-----------------------------------------------------------------------------
(* Ingestion: traiterPaire moves the wav and creates the row; then          *)
(* StorageService.ranger, and the update of the row.  A call received while *)
(* the vault was not encrypted stays in clear.                              *)

Creer(p, chiffrer) ==
  /\ rangement[p] = "hors"
  /\ chiffrer => Chiffrement
  /\ disque' = [disque EXCEPT ![p] = Clair]
  /\ lignes' = [lignes EXCEPT ![p].statut = "stored"]
  /\ rangement' = [rangement EXCEPT ![p] = IF chiffrer THEN "sceller" ELSE "fini"]
  /\ UNCHANGED <<provisoire, copies, effacees, outil, incidents, histoire>>

(* ranger reads the file without looking whether it is a container.         *)
RangerLire(p) ==
  /\ rangement[p] = "sceller"
  /\ copies' = [copies EXCEPT ![p] = Sceller(disque[p], CleApi)]
  /\ rangement' = [rangement EXCEPT ![p] = "ecrire"]
  /\ UNCHANGED <<lignes, disque, provisoire, effacees, outil, incidents, histoire>>

RangerEcrire(p) ==
  /\ rangement[p] = "ecrire"
  /\ provisoire' = [provisoire EXCEPT ![p] = copies[p]]
  /\ copies' = [copies EXCEPT ![p] = Nul]
  /\ rangement' = [rangement EXCEPT ![p] = "basculer"]
  /\ UNCHANGED <<lignes, disque, effacees, outil, incidents, histoire>>

RangerBasculer(p) ==
  /\ rangement[p] = "basculer"
  /\ provisoire[p] # Nul
  /\ disque' = [disque EXCEPT ![p] = provisoire[p]]
  /\ provisoire' = [provisoire EXCEPT ![p] = Nul]
  /\ rangement' = [rangement EXCEPT ![p] = "inscrire"]
  /\ UNCHANGED <<lignes, copies, effacees, outil, incidents, histoire>>

(* The tool renamed the provisional file first: the rename fails, and the   *)
(* catch of traiterPaire moves the pair back to the drop folder.  Whatever  *)
(* else fails there is in module Ingestion.                                 *)
RangerEchouer(p) ==
  /\ rangement[p] = "basculer"
  /\ provisoire[p] = Nul
  /\ disque' = [disque EXCEPT ![p] = Nul]
  /\ rangement' = [rangement EXCEPT ![p] = "fini"]
  /\ UNCHANGED <<lignes, provisoire, copies, effacees, outil, incidents, histoire>>

RangerInscrire(p) ==
  /\ rangement[p] = "inscrire"
  /\ lignes' = [lignes EXCEPT ![p].chiffre = TRUE, ![p].ref = RefApi]
  /\ rangement' = [rangement EXCEPT ![p] = "fini"]
  /\ UNCHANGED <<disque, provisoire, copies, effacees, outil, incidents, histoire>>

(* The service stops: the row exists, and no pass goes on with its sealing. *)
RangerArreter(p) ==
  /\ Incident
  /\ rangement[p] \in {"sceller", "ecrire", "basculer", "inscrire"}
  /\ rangement' = [rangement EXCEPT ![p] = "fini"]
  /\ copies' = [copies EXCEPT ![p] = Nul]
  /\ delaissees' = Avec(delaissees, p, rangement[p] = "inscrire")
  /\ UNCHANGED <<lignes, disque, provisoire, effacees, outil, alterees, croisees, devancees>>

-----------------------------------------------------------------------------
(* The purge of one call: its file, then its row (PurgeService.detruire).   *)
(* An execution that stops in between leaves the row to a later one.        *)

(* Mutant: of a sealed call, it is the file ".coffre" that is removed.      *)
MutantEffacerProvisoire(p) ==
  /\ lignes[p].statut = "stored" /\ rangement[p] = "fini"
  /\ IF lignes[p].chiffre
     THEN provisoire' = [provisoire EXCEPT ![p] = Nul] /\ UNCHANGED disque
     ELSE disque' = [disque EXCEPT ![p] = Nul] /\ UNCHANGED provisoire
  /\ effacees' = effacees \cup {p}
  /\ devancees' = Avec(devancees, p, outil.pc \in {"ecrire", "basculer"} /\ outil.cible = p)
  /\ UNCHANGED <<lignes, rangement, copies, outil, incidents, alterees, croisees, delaissees>>

EffacerFichier(p) ==
  /\ lignes[p].statut = "stored" /\ rangement[p] = "fini"
  /\ disque' = [disque EXCEPT ![p] = Nul]
  /\ effacees' = effacees \cup {p}
  /\ devancees' = Avec(devancees, p, outil.pc \in {"ecrire", "basculer"} /\ outil.cible = p)
  /\ UNCHANGED <<lignes, provisoire, rangement, copies, outil, incidents, alterees, croisees,
                 delaissees>>

(* Mutant: the row is marked archived.                                      *)
MutantMarquerArchive(p) ==
  /\ p \in effacees
  /\ lignes' = [lignes EXCEPT ![p].statut = "archived"]
  /\ effacees' = effacees \ {p}
  /\ UNCHANGED <<disque, provisoire, rangement, copies, outil, incidents, histoire>>

MarquerPurgee(p) ==
  /\ p \in effacees
  /\ lignes' = [lignes EXCEPT ![p].statut = "purged"]
  /\ effacees' = effacees \ {p}
  /\ UNCHANGED <<disque, provisoire, rangement, copies, outil, incidents, histoire>>

(* A file in place is damaged on the disk.                                  *)
Alterer(p) ==
  /\ Incident
  /\ disque[p] # Nul /\ rangement[p] = "fini"
  /\ disque' = [disque EXCEPT ![p] = Abimer(@)]
  /\ alterees' = alterees \cup {p}
  /\ UNCHANGED <<lignes, provisoire, rangement, copies, effacees, outil, croisees, devancees,
                 delaissees>>

-----------------------------------------------------------------------------
(* storage:sceller --appliquer, with the master key and the name of a key   *)
(* of its own environment.                                                  *)

OutilLancer(k, ref) ==
  /\ outil.pc = "repos"
  /\ outil' =
       [OutilAuRepos EXCEPT
          !.pc = "lire", !.cle = k, !.ref = ref,
          !.reste = {p \in Pieces : lignes[p].statut = "stored" /\ ~lignes[p].chiffre}]
  /\ UNCHANGED <<lignes, disque, provisoire, rangement, copies, effacees, incidents, histoire>>

(* Mutant: the file is not tried for a container before it is sealed.       *)
MutantScellableToujours(f) == f # Nul /\ f.son = "intact"

(* Mutant: the fingerprint is not compared.                                 *)
MutantScellableSansEmpreinte(f) == f # Nul /\ f.sceau = "aucun"

(* What the tool seals: a clear file whose fingerprint is that of the row.  *)
Scellable(f) == f # Nul /\ f = Clair

(* A call whose file is missing, sealed already or altered is an incident   *)
(* of the report, and the tool goes on with the next one.                   *)
OutilLire(p) ==
  /\ outil.pc = "lire" /\ p \in outil.reste
  /\ outil' =
       IF Scellable(disque[p])
       THEN [outil EXCEPT !.pc = "ecrire", !.cible = p, !.reste = @ \ {p},
                          !.copie = Sceller(disque[p], outil.cle)]
       ELSE [outil EXCEPT !.reste = @ \ {p}]
  /\ croisees' = Avec(croisees, p, Scellable(disque[p]) /\ rangement[p] # "fini")
  /\ UNCHANGED <<lignes, disque, provisoire, rangement, copies, effacees, incidents, alterees,
                 devancees, delaissees>>

OutilEcrire ==
  /\ outil.pc = "ecrire"
  /\ provisoire' = [provisoire EXCEPT ![outil.cible] = outil.copie]
  /\ outil' = [outil EXCEPT !.pc = "basculer", !.copie = Nul]
  /\ UNCHANGED <<lignes, disque, rangement, copies, effacees, incidents, histoire>>

Suivante == [outil EXCEPT !.pc = "lire", !.cible = Nul, !.copie = Nul]

(* The rename fails when ingestion took the provisional file.               *)
OutilBasculer ==
  /\ outil.pc = "basculer"
  /\ IF provisoire[outil.cible] = Nul
     THEN outil' = Suivante /\ UNCHANGED <<disque, provisoire>>
     ELSE /\ disque' = [disque EXCEPT ![outil.cible] = provisoire[outil.cible]]
          /\ provisoire' = [provisoire EXCEPT ![outil.cible] = Nul]
          /\ outil' = [outil EXCEPT !.pc = "inscrire"]
  /\ UNCHANGED <<lignes, rangement, copies, effacees, incidents, histoire>>

(* Mutant: the row is updated as soon as the container is written beside.   *)
MutantInscrireTot ==
  /\ outil.pc \in {"basculer", "inscrire"}
  /\ lignes' = [lignes EXCEPT ![outil.cible].chiffre = TRUE, ![outil.cible].ref = outil.ref]
  /\ outil' = IF outil.pc = "inscrire" THEN Suivante ELSE outil
  /\ UNCHANGED <<disque, provisoire, rangement, copies, effacees, incidents, histoire>>

OutilInscrire ==
  /\ outil.pc = "inscrire"
  /\ lignes' = [lignes EXCEPT ![outil.cible].chiffre = TRUE, ![outil.cible].ref = outil.ref]
  /\ outil' = Suivante
  /\ UNCHANGED <<disque, provisoire, rangement, copies, effacees, incidents, histoire>>

(* A write, a rename or an update that fails is an incident of the report.  *)
Delaisser == delaissees' = Avec(delaissees, outil.cible, outil.pc = "inscrire")

OutilEchouer ==
  /\ Incident
  /\ outil.pc \in {"ecrire", "basculer", "inscrire"}
  /\ outil' = Suivante
  /\ Delaisser
  /\ UNCHANGED <<lignes, disque, provisoire, rangement, copies, effacees, alterees, croisees,
                 devancees>>

OutilFinir ==
  /\ outil.pc = "lire" /\ outil.reste = {}
  /\ outil' = OutilAuRepos
  /\ UNCHANGED <<lignes, disque, provisoire, rangement, copies, effacees, incidents, histoire>>

OutilArreter ==
  /\ Incident
  /\ outil.pc # "repos"
  /\ outil' = OutilAuRepos
  /\ Delaisser
  /\ UNCHANGED <<lignes, disque, provisoire, rangement, copies, effacees, alterees, croisees,
                 devancees>>

CoffreNext ==
  \/ \E p \in Pieces :
       \/ \E chiffrer \in BOOLEAN : Creer(p, chiffrer)
       \/ RangerLire(p) \/ RangerEcrire(p) \/ RangerBasculer(p) \/ RangerInscrire(p)
       \/ RangerEchouer(p) \/ RangerArreter(p)
       \/ EffacerFichier(p) \/ MarquerPurgee(p)
       \/ Alterer(p)
       \/ OutilLire(p)
  \/ \E k \in Cles, ref \in Refs : OutilLancer(k, ref)
  \/ OutilEcrire \/ OutilBasculer \/ OutilInscrire
  \/ OutilEchouer \/ OutilFinir \/ OutilArreter

CoffreSpec == CoffreInit /\ [][CoffreNext]_coffreVars

-----------------------------------------------------------------------------
(* The audio of a call that no purge has reached and no accident damaged    *)
(* can always be read back, in clear or from a container, whatever the tool *)
(* and the service were doing when they stopped (sceller-existants.ts:      *)
(* 74-106, storage.service ranger).  A call both seal at once may come out  *)
(* sealed twice, or be put back in the drop folder by the pass.             *)
PieceRecouvrable ==
  \A p \in Pieces \ (alterees \cup croisees) :
    lignes[p].statut = "stored" /\ p \notin effacees =>
      /\ disque[p] # Nul
      /\ disque[p].son = "intact"
      /\ disque[p].sceau # "rompu"

(* No damage is ever put under a valid seal: what opens is authentic        *)
(* (sceller-existants.ts:87-97), but for a call two writers seal at once.   *)
SceauProbant ==
  \A p \in Pieces \ croisees :
    disque[p] # Nul /\ disque[p].sceau = "ouvrable" => disque[p].son = "intact"

(* Row and file agree on the seal, which playback and export take from the  *)
(* row alone (storage.service.ts:84-94).  A row is never ahead of its file; *)
(* it is behind only while a writer is between the rename and the update,   *)
(* or since one stopped there, even when tool and ingestion seal one call.  *)
LigneScelleeVraie ==
  \A p \in Pieces :
    disque[p] # Nul =>
      /\ lignes[p].chiffre => disque[p].sceau # "aucun"
      /\ disque[p].sceau # "aucun" /\ ~lignes[p].chiffre =>
           \/ rangement[p] = "inscrire"
           \/ outil.pc = "inscrire" /\ outil.cible = p
           \/ p \in delaissees

(* The audio of a purged call no longer exists: recordings.service.ts:135   *)
(* answers so, and the certificate says so; unless the purge came between   *)
(* the tool's reading of that call and its rename, and only then.           *)
PurgeDefinitive ==
  \A p \in Pieces \ devancees : lignes[p].statut = "purged" => disque[p] = Nul
=============================================================================
