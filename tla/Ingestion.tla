------------------------------ MODULE Ingestion ------------------------------
(***************************************************************************)
(* IngestionService: pairs of files dropped by the producers of calls in    *)
(* the folder of one tenant are checked, moved to the vault, given a row,   *)
(* sealed if the vault is encrypted, and written to the journal.  Whatever  *)
(* is wrong with a pair sends it to quarantine.                             *)
(*                                                                         *)
(* A pass over the folder is one process ("enCours" excludes a second one); *)
(* it works file by file between awaits, while the producers drop, and the  *)
(* process may stop anywhere.  Nothing but the folders and the tables       *)
(* survives a stop.                                                         *)
(***************************************************************************)
EXTENDS Naturals

CONSTANTS
  Radicaux,            \* the names of calls a producer may drop
  Sons,                \* audio contents; equal contents have equal SHA-256
  Nul,                 \* no file, or a null local of the pass
  Chiffrement,         \* STORAGE_ENCRYPTION_ENABLED
  PanneApresCreation,  \* whether a step may fail once the row is created
  MaxIncidents         \* bound on the stops and failures of one behaviour

(* A wav file is the audio itself or a sealed container of it.              *)
Fichier == [son : Sons, scelle : BOOLEAN]
Clair(s) == [son |-> s, scelle |-> FALSE]
Conteneur(s) == [son |-> s, scelle |-> TRUE]

ASSUME IngestionAssumption ==
  /\ Chiffrement \in BOOLEAN
  /\ PanneApresCreation \in BOOLEAN
  /\ MaxIncidents \in Nat
  /\ Nul \notin Sons \cup Radicaux \cup Fichier \cup {"bon", "mauvais"}

VARIABLES
  depot,        \* INGEST_DIR/<slug>
  vieux,        \* the calls whose wav is older than INGEST_ORPHAN_MIN
  producteurs,  \* the calls whose producer still owes the json
  coffre,       \* STORAGE_DIR/<tenant>
  provisoire,   \* the sealed container being written beside each wav
  quarantaine,  \* QUARANTINE_DIR/<slug>
  lignes,       \* the table recordings
  attestes,     \* the INGEST events of the journal: a call, and whether stored or dropped again
  balayage,     \* the locals of the pass
  incidents     \* how many stops and failures so far

dossiers == <<depot, coffre, quarantaine>>
vars == <<depot, vieux, producteurs, coffre, provisoire, quarantaine, lignes,
          attestes, balayage, incidents>>

(* The two files of a call in one folder.  A json is "bon" when every check *)
(* of the pair passes but that of the wav's own header: it parses, follows  *)
(* the contract, agrees with the name and with the audio.                   *)
Dossier == [wav : Fichier \cup {Nul}, json : {"bon", "mauvais", Nul}]
Vide == [wav |-> Nul, json |-> Nul]

(* Folder d with f, a file or none, as file x of call p.                    *)
Avec(d, p, x, f) == [d EXCEPT ![p][x] = f]

LigneRecording ==
  [statut : {"absente", "stored", "purged"}, sha : Sons \cup {Nul}, chiffre : BOOLEAN]
PasDeLigne == [statut |-> "absente", sha |-> Nul, chiffre |-> FALSE]

Extensions == {"wav", "json"}

Pas ==
  {"repos", "parcours", "chercher", "ecarter", "retirer", "deplacer",
   "sceller", "basculer", "inscrire", "auditer", "remettre"}

(* "vus" is what the listing saw and the pass has not treated yet, "pieces" *)
(* the files of the current call that are still to be moved or removed.     *)
Balayage ==
  [pc : Pas, vus : [Radicaux -> SUBSET Extensions], cible : Radicaux \cup {Nul},
   pieces : SUBSET Extensions, sha : Sons \cup {Nul}]

RienVu == [p \in Radicaux |-> {}]
Repos == [pc |-> "repos", vus |-> RienVu, cible |-> Nul, pieces |-> {}, sha |-> Nul]

TypeOK ==
  /\ depot \in [Radicaux -> Dossier]
  /\ coffre \in [Radicaux -> Dossier]
  /\ quarantaine \in [Radicaux -> Dossier]
  /\ provisoire \in [Radicaux -> Fichier \cup {Nul}]
  /\ vieux \in SUBSET Radicaux
  /\ producteurs \in SUBSET Radicaux
  /\ lignes \in [Radicaux -> LigneRecording]
  /\ attestes \in SUBSET (Radicaux \X {"ingestion", "redepot"})
  /\ balayage \in Balayage
  /\ incidents \in Nat

Init ==
  /\ depot = [p \in Radicaux |-> Vide]
  /\ coffre = [p \in Radicaux |-> Vide]
  /\ quarantaine = [p \in Radicaux |-> Vide]
  /\ provisoire = [p \in Radicaux |-> Nul]
  /\ vieux = {}
  /\ producteurs = {}
  /\ lignes = [p \in Radicaux |-> PasDeLigne]
  /\ attestes = {}
  /\ balayage = Repos
  /\ incidents = 0

-----------------------------------------------------------------------------
(* The producers: post-enregistrement.sh, which drops nothing under a name  *)
(* that is waiting, puts the wav first and closes the pair with the json.   *)

DeposerWav(p, s) ==
  /\ p \notin producteurs
  /\ depot[p] = Vide
  /\ depot' = Avec(depot, p, "wav", Clair(s))
  /\ vieux' = vieux \ {p}
  /\ producteurs' = producteurs \cup {p}
  /\ UNCHANGED <<coffre, quarantaine>>

DeposerJson(p, j) ==
  /\ p \in producteurs
  /\ depot' = Avec(depot, p, "json", j)
  /\ producteurs' = producteurs \ {p}
  /\ UNCHANGED <<vieux, coffre, quarantaine>>

(* The producer stops before the json.                                      *)
Renoncer(p) ==
  /\ p \in producteurs
  /\ producteurs' = producteurs \ {p}
  /\ UNCHANGED <<vieux, dossiers>>

Vieillir(p) ==
  /\ depot[p].wav # Nul
  /\ p \notin vieux
  /\ vieux' = vieux \cup {p}
  /\ UNCHANGED <<producteurs, dossiers>>

(* Call p has its row and is being sealed, attested or put back.            *)
EnRangement(p) ==
  /\ balayage.cible = p
  /\ balayage.pc \in {"sceller", "basculer", "inscrire", "auditer", "remettre"}

(* Mutant: a purged call is marked archived.                                *)
MutantPurgerArchive(p) ==
  /\ ~EnRangement(p)
  /\ lignes[p].statut = "stored"
  /\ coffre' = Avec(coffre, p, "wav", Nul)
  /\ lignes' = [lignes EXCEPT ![p].statut = "archived"]
  /\ UNCHANGED <<depot, quarantaine, vieux, producteurs>>

(* purge.detruire on a call of the vault; the json stays there.  A purge is *)
(* two requests of an administrator after the row exists: it is taken not   *)
(* to overtake the end of the ingestion that created the row.               *)
Purger(p) ==
  /\ ~EnRangement(p)
  /\ lignes[p].statut = "stored"
  /\ coffre' = Avec(coffre, p, "wav", Nul)
  /\ lignes' = [lignes EXCEPT ![p].statut = "purged"]
  /\ UNCHANGED <<depot, quarantaine, vieux, producteurs>>

-----------------------------------------------------------------------------
(* scan, scanTenant                                                         *)

Etape(pc) == balayage' = [balayage EXCEPT !.pc = pc]

(* The rest of the pass, once the current call is settled.                  *)
Suivant == balayage' = [Repos EXCEPT !.pc = "parcours", !.vus = balayage.vus]

(* Takes call p out of what the listing saw, to work on it.                 *)
Traiter(p, pc, pieces, sha) ==
  balayage' = [pc |-> pc, vus |-> [balayage.vus EXCEPT ![p] = {}], cible |-> p,
               pieces |-> pieces, sha |-> sha]

Lister ==
  /\ balayage.pc = "repos"
  /\ balayage' = [Repos EXCEPT
       !.pc = "parcours",
       !.vus = [p \in Radicaux |-> {x \in Extensions : depot[p][x] # Nul}]]
  /\ UNCHANGED <<dossiers, provisoire, lignes, attestes>>

Finir ==
  /\ balayage.pc = "parcours"
  /\ balayage.vus = RienVu
  /\ balayage' = Repos
  /\ UNCHANGED <<dossiers, provisoire, lignes, attestes>>

(* Mutant: a wav without its json is left to wait, however old.             *)
MutantAttendreToujours(p) ==
  /\ balayage.pc = "parcours"
  /\ balayage.vus[p] = {"wav"}
  /\ balayage' = [balayage EXCEPT !.vus[p] = {}]
  /\ UNCHANGED <<dossiers, provisoire, lignes, attestes>>

(* A wav whose json is awaited.                                             *)
Attendre(p) ==
  /\ balayage.pc = "parcours"
  /\ balayage.vus[p] = {"wav"}
  /\ p \notin vieux
  /\ balayage' = [balayage EXCEPT !.vus[p] = {}]
  /\ UNCHANGED <<dossiers, provisoire, lignes, attestes>>

(* A json without its wav, or a wav whose json never came when the folder   *)
(* was listed.                                                              *)
TrouverOrphelin(p) ==
  /\ balayage.pc = "parcours"
  /\ \/ balayage.vus[p] = {"json"}
     \/ balayage.vus[p] = {"wav"} /\ p \in vieux
  /\ Traiter(p, "ecarter", balayage.vus[p], Nul)
  /\ UNCHANGED <<dossiers, provisoire, lignes, attestes>>

-----------------------------------------------------------------------------
(* traiterPaire                                                             *)

(* parseRadical, parseIngestMetadata, coherenceNomMetadonnees, and what the  *)
(* json says of the audio.                                                   *)
JsonConforme(p) == depot[p].json = "bon"

(* readWavHeader: a container does not start with RIFF.                      *)
EnteteLisible(p) == ~depot[p].wav.scelle

Conforme(p) == JsonConforme(p) /\ EnteteLisible(p)

(* Every check up to the SHA-256: the producers leave a complete pair alone, *)
(* so the reads see one state of it.                                         *)
Verifier(p) ==
  /\ balayage.pc = "parcours"
  /\ balayage.vus[p] = Extensions
  /\ IF Conforme(p) THEN Traiter(p, "chercher", Extensions, depot[p].wav.son)
                    ELSE Traiter(p, "ecarter", Extensions, Nul)
  /\ UNCHANGED <<dossiers, provisoire, lignes, attestes>>

(* Mutant: the row of a call already stored is not looked for.              *)
MutantChercherRien(p) ==
  /\ balayage.pc = "chercher"
  /\ Etape("deplacer")
  /\ UNCHANGED <<dossiers, provisoire, lignes, attestes>>

(* Mutant: the row of a purged call is not looked for.                      *)
MutantChercherPurgee(p) ==
  /\ balayage.pc = "chercher"
  /\ Etape(IF lignes[p].statut # "stored" THEN "deplacer"
           ELSE IF lignes[p].sha = balayage.sha THEN "retirer" ELSE "ecarter")
  /\ UNCHANGED <<dossiers, provisoire, lignes, attestes>>

(* findUnique on the path, then traiterRedepot: a purged call still has its *)
(* row.                                                                     *)
Chercher(p) ==
  /\ balayage.pc = "chercher"
  /\ Etape(IF lignes[p].statut = "absente" THEN "deplacer"
           ELSE IF lignes[p].sha = balayage.sha THEN "retirer" ELSE "ecarter")
  /\ UNCHANGED <<dossiers, provisoire, lignes, attestes>>

(* The wav goes before the json.                                            *)
EnTete(x) == x \in balayage.pieces /\ (x = "json" => "wav" \notin balayage.pieces)

Passe(x) == balayage' = [balayage EXCEPT !.pieces = balayage.pieces \ {x}]

(* deplacer, towards the vault: what is already there is replaced.  The copy *)
(* between two volumes is taken as one step, like the rename.                *)
DeplacerPiece(p, x) ==
  /\ balayage.pc = "deplacer"
  /\ EnTete(x)
  /\ coffre' = Avec(coffre, p, x, depot[p][x])
  /\ depot' = Avec(depot, p, x, Nul)
  /\ Passe(x)
  /\ UNCHANGED <<quarantaine, provisoire, lignes, attestes>>

(* Mutant: the row is created before the file is in place.                  *)
MutantCreerAvant(p) ==
  /\ balayage.pc = "deplacer"
  /\ balayage.pieces = Extensions
  /\ lignes[p].statut = "absente"
  /\ lignes' = [lignes EXCEPT
       ![p] = [statut |-> "stored", sha |-> balayage.sha, chiffre |-> FALSE]]
  /\ UNCHANGED <<dossiers, provisoire, attestes, balayage>>

(* recording.create, with the SHA-256 computed before the move.             *)
Creer(p) ==
  /\ balayage.pc = "deplacer"
  /\ balayage.pieces = {}
  /\ lignes[p].statut = "absente"
  /\ lignes' = [lignes EXCEPT
       ![p] = [statut |-> "stored", sha |-> balayage.sha, chiffre |-> FALSE]]
  /\ Etape(IF Chiffrement THEN "sceller" ELSE "auditer")
  /\ UNCHANGED <<dossiers, provisoire, attestes>>

(* Mutant: the container is written over the wav, not beside it.            *)
MutantScellerSurPlace(p) ==
  /\ balayage.pc = "sceller"
  /\ provisoire' = [provisoire EXCEPT ![p] = Conteneur(coffre[p].wav.son)]
  /\ coffre' = Avec(coffre, p, "wav", Nul)
  /\ Etape("basculer")
  /\ UNCHANGED <<depot, quarantaine, lignes, attestes>>

(* storage.ranger: the wav is read, its container is written beside it...   *)
EcrireConteneur(p) ==
  /\ balayage.pc = "sceller"
  /\ provisoire' = [provisoire EXCEPT ![p] = Conteneur(coffre[p].wav.son)]
  /\ Etape("basculer")
  /\ UNCHANGED <<dossiers, lignes, attestes>>

(* ... and renamed over it.                                                 *)
Basculer(p) ==
  /\ balayage.pc = "basculer"
  /\ coffre' = Avec(coffre, p, "wav", provisoire[p])
  /\ provisoire' = [provisoire EXCEPT ![p] = Nul]
  /\ Etape("inscrire")
  /\ UNCHANGED <<depot, quarantaine, lignes, attestes>>

(* Mutant: the row does not learn that its file is sealed.                  *)
MutantInscrireRien(p) ==
  /\ balayage.pc = "inscrire"
  /\ Etape("auditer")
  /\ UNCHANGED <<dossiers, provisoire, lignes, attestes>>

Inscrire(p) ==
  /\ balayage.pc = "inscrire"
  /\ lignes' = [lignes EXCEPT ![p].chiffre = TRUE]
  /\ Etape("auditer")
  /\ UNCHANGED <<dossiers, provisoire, attestes>>

(* A write of the journal that fails is logged and ignored.                 *)
Auditer(p) ==
  /\ balayage.pc = "auditer"
  /\ attestes' \in {attestes, attestes \cup {<<p, "ingestion">>}}
  /\ Suivant
  /\ UNCHANGED <<dossiers, provisoire, lignes>>

(* The catch of traiterPaire: both files go back, the row stays.  A move    *)
(* that finds no file is ignored.                                           *)
RemettrePiece(p, x) ==
  /\ balayage.pc = "remettre"
  /\ EnTete(x)
  /\ IF coffre[p][x] = Nul
       THEN UNCHANGED <<depot, coffre>>
       ELSE /\ depot' = Avec(depot, p, x, coffre[p][x])
            /\ coffre' = Avec(coffre, p, x, Nul)
  /\ Passe(x)
  /\ UNCHANGED <<quarantaine, provisoire, lignes, attestes>>

(* traiterRedepot, same SHA-256: the drop is removed, whatever the vault    *)
(* holds; the INGEST event "idempotent" follows (Clore).                    *)
RetirerPiece(p, x) ==
  /\ balayage.pc = "retirer"
  /\ EnTete(x)
  /\ depot' = Avec(depot, p, x, Nul)
  /\ Passe(x)
  /\ UNCHANGED <<coffre, quarantaine, provisoire, lignes, attestes>>

(* quarantine: a file of the same name already there is replaced.           *)
EcarterPiece(p, x) ==
  /\ balayage.pc = "ecarter"
  /\ EnTete(x)
  /\ quarantaine' = Avec(quarantaine, p, x, depot[p][x])
  /\ depot' = Avec(depot, p, x, Nul)
  /\ Passe(x)
  /\ UNCHANGED <<coffre, provisoire, lignes, attestes>>

(* The event that closes a duplicate (INGEST, "idempotent", written at best *)
(* like any other) or a quarantine, or the end of the catch: on to the next *)
(* call.                                                                    *)
Clore(p) ==
  /\ balayage.pc \in {"ecarter", "retirer", "remettre"}
  /\ balayage.pieces = {}
  /\ \/ UNCHANGED attestes
     \/ balayage.pc = "retirer" /\ attestes' = attestes \cup {<<p, "redepot">>}
  /\ Suivant
  /\ UNCHANGED <<dossiers, provisoire, lignes>>

-----------------------------------------------------------------------------
(* Failures                                                                 *)

(* The steps inside the try of traiterPaire whose failure is caught.  The   *)
(* first of them is the creation of the row.                                *)
EchecRattrape ==
  \/ balayage.pc = "deplacer" /\ balayage.pieces = {}
  \/ PanneApresCreation /\ balayage.pc \in {"sceller", "basculer", "inscrire"}

Echouer ==
  /\ incidents < MaxIncidents
  /\ EchecRattrape
  /\ balayage' = [balayage EXCEPT !.pc = "remettre", !.pieces = Extensions]
  /\ incidents' = incidents + 1
  /\ UNCHANGED <<dossiers, provisoire, lignes, attestes>>

(* The process stops, or a step outside that try fails and the catch of     *)
(* scan gives up the pass: either way nothing is undone.                    *)
Interrompre ==
  /\ incidents < MaxIncidents
  /\ balayage.pc # "repos"
  /\ balayage' = Repos
  /\ incidents' = incidents + 1
  /\ UNCHANGED <<dossiers, provisoire, lignes, attestes>>

-----------------------------------------------------------------------------

(* The steps of the pass on its current call.                               *)
TraiterCible(p) ==
  /\ balayage.cible = p
  /\ \/ Chercher(p) \/ Creer(p) \/ EcrireConteneur(p) \/ Basculer(p)
     \/ Inscrire(p) \/ Auditer(p) \/ Clore(p)
     \/ \E x \in Extensions :
          \/ DeplacerPiece(p, x) \/ RemettrePiece(p, x)
          \/ RetirerPiece(p, x) \/ EcarterPiece(p, x)

Balayer ==
  /\ \/ Lister \/ Finir
     \/ \E p \in Radicaux :
          Attendre(p) \/ TrouverOrphelin(p) \/ Verifier(p) \/ TraiterCible(p)
  /\ UNCHANGED <<vieux, producteurs, incidents>>

Panne == (Echouer \/ Interrompre) /\ UNCHANGED <<vieux, producteurs>>

Environnement ==
  /\ \E p \in Radicaux :
       \/ /\ \/ \E s \in Sons : DeposerWav(p, s)
             \/ \E j \in {"bon", "mauvais"} : DeposerJson(p, j)
             \/ Renoncer(p)
             \/ Vieillir(p)
          /\ UNCHANGED lignes
       \/ Purger(p)
  /\ UNCHANGED <<provisoire, attestes, balayage, incidents>>

Next == Balayer \/ Panne \/ Environnement

Spec == Init /\ [][Next]_vars

(* The scheduler starts a pass every INGEST_POLL_MS and a pass goes on by    *)
(* itself; time goes by.  The producers owe nothing.                        *)
FairSpec ==
  /\ Spec
  /\ WF_vars(Balayer)
  /\ \A p \in Radicaux : WF_vars(Environnement /\ Vieillir(p))

-----------------------------------------------------------------------------
(* Properties                                                               *)

(* "la preuve en place n'est jamais ecrasee" (ingestion.service.ts:308-312): *)
(* the audio in the vault under the name of a row is the one its SHA-256     *)
(* was computed on, whatever is dropped under that name, before or after a   *)
(* stop.                                                                     *)
PreuveIntacte ==
  \A p \in Radicaux :
     lignes[p].statut # "absente" /\ coffre[p].wav # Nul
       => coffre[p].wav.son = lignes[p].sha

(* An INGEST event of an ingestion is worth the evidence: the row is there,  *)
(* its file is in the vault until it is purged, with the audio it attests,   *)
(* and sealed exactly when the row says so, since playback trusts the row    *)
(* and not the file (storage.service.ts:84-94).                              *)
IngestionAttestee ==
  \A p \in Radicaux : <<p, "ingestion">> \in attestes =>
     /\ lignes[p].statut # "absente"
     /\ lignes[p].statut = "stored" =>
          coffre[p].wav = [son |-> lignes[p].sha, scelle |-> lignes[p].chiffre]

(* An INGEST event of a repeated drop only had the row and its SHA-256 to go *)
(* by (ingestion.service.ts:322-338): that audio is in the vault, unless a   *)
(* step failed after the creation of the row, but after a stop between the   *)
(* rename and the update the row does not know that it is sealed.            *)
RedepotAtteste ==
  \A p \in Radicaux : <<p, "redepot">> \in attestes =>
     /\ lignes[p].statut # "absente"
     /\ lignes[p].statut = "stored" /\ ~PanneApresCreation =>
          coffre[p].wav # Nul /\ coffre[p].wav.son = lignes[p].sha

(* The journal attests no ingestion the vault does not hold, neither by the  *)
(* first drop of a call nor by a later one.                                  *)
AttestationFidele == IngestionAttestee /\ RedepotAtteste

(* A purged call does not come back to the vault, though its producer may    *)
(* drop it again.                                                            *)
PurgeSansRetour ==
  \A p \in Radicaux : lignes[p].statut = "purged" => coffre[p].wav = Nul

(* "Rien n'est jamais supprime silencieusement" (README.md:117-118): the     *)
(* audio a row was created for is in one of the three folders until it is    *)
(* purged.                                                                   *)
RangeConserve ==
  \A p \in Radicaux : lignes[p].statut = "stored" =>
     \E d \in {depot, coffre, quarantaine} :
        d[p].wav # Nul /\ d[p].wav.son = lignes[p].sha

(* A wav dropped does not stay in the folder for ever: it is stored, set     *)
(* aside or recognised as a duplicate, its json come or not.                 *)
DepotTraite == \A p \in Radicaux : depot[p].wav # Nul ~> depot[p].wav = Nul

(* What the conservation services see of ingestion: the status of each row,  *)
(* and the rows whose file is in the vault.                                  *)
Statuts == [p \in Radicaux |-> lignes[p].statut]
Ranges == {p \in Radicaux : lignes[p].statut # "absente" /\ coffre[p].wav # Nul}

Conservation ==
  INSTANCE Registre WITH
    Enregistrements <- Radicaux,
    Categories <- {"autre"},
    CategorieDe <- [p \in Radicaux |-> "autre"],
    Debut <- [p \in Radicaux |-> 0],
    DernierJour <- 0,
    statut <- Statuts,
    fichiers <- Ranges,
    jour <- 0

Retrait(p) ==
  /\ Statuts[p] = "stored"
  /\ Statuts' = [Statuts EXCEPT ![p] = "purged"]
  /\ Ranges' = Ranges \ {p}

(* Module Registre takes the whole of ingestion for one step, and the other  *)
(* services are checked against it: a row appears with its file in place,    *)
(* and only a purge takes the file away, whatever the pass, its stops and    *)
(* the repeated drops do in between.                                         *)
RegistreTenu ==
  /\ Conservation!RegistreInit
  /\ [][\E p \in Radicaux : Conservation!Ingerer(p) \/ Retrait(p)]_<<Statuts, Ranges>>
=============================================================================
