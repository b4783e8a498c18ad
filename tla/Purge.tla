-------------------------------- MODULE Purge --------------------------------
(***************************************************************************)
(* PurgeService: the only irreversible act of the product.  A report is     *)
(* simulated and stored with the list it proposes to destroy; an            *)
(* administrator has it executed; the execution destroys the files one by   *)
(* one and then seals the report and its certificate in one transaction.    *)
(*                                                                         *)
(* This module composes the purge with what it reads: the retention         *)
(* periods, the legal holds, the register.  Every await of the service is   *)
(* the boundary of an action, so any step of another request can fall       *)
(* between two of its reads, or between a read and the destruction.         *)
(***************************************************************************)
EXTENDS Retention, LegalHolds

CONSTANTS
  Rapports,     \* the rows purge_runs can come to hold (bound)
  Appels,       \* slots for the purge requests in flight (bound)
  PanneDisque,  \* whether rm may fail on a file that is there
  PanneAppel    \* whether a request may die in the middle of its work

ASSUME PurgeAssumption == PanneDisque \in BOOLEAN /\ PanneAppel \in BOOLEAN

VARIABLES
  rapports,  \* the tables purge_runs and purge_run_items
  appels,    \* the locals of each purge request in flight
  journal    \* number of PURGE_EXECUTED events of each report

purgeVars == <<rapports, appels, journal>>
vars == <<registreVars, politiques, holdsVars, purgeVars>>

(* PurgeRunItem.outcome, or "hors" for a call the report does not list.     *)
Issues == {"hors", "blocked", "candidate", "purged", "missing"}
Lignes == [Enregistrements -> Issues]

(* durees is policyDocument, the periods frozen with the report; certificat *)
(* is what certificateSha256 was computed from, when scelle.                *)
Rapport ==
  [statut : {"aucun", "simulated", "executed", "cancelled"}, durees : Durees,
   lignes : Lignes, scelle : BOOLEAN, certificat : Lignes]

Appel ==
  [pc : {"repos", "sim_recenser", "sim_holds", "sim_creer", "exe_politiques",
         "exe_recenser", "exe_holds", "boucle", "statut", "ligne", "annuler"},
   rapport : Rapports \cup {Nul}, durees : Durees,
   dus : SUBSET Enregistrements, reste : SUBSET Enregistrements,
   vus : SUBSET Holds, cible : Enregistrements \cup {Nul}, absent : BOOLEAN]

SansDuree == [p \in {Tous} |-> DureeParDefaut]
HorsListe == [r \in Enregistrements |-> "hors"]

PasDeRapport ==
  [statut |-> "aucun", durees |-> SansDuree, lignes |-> HorsListe,
   scelle |-> FALSE, certificat |-> HorsListe]

PasDAppel ==
  [pc |-> "repos", rapport |-> Nul, durees |-> SansDuree, dus |-> {},
   reste |-> {}, vus |-> {}, cible |-> Nul, absent |-> FALSE]

PurgeTypeOK ==
  /\ rapports \in [Rapports -> Rapport]
  /\ appels \in [Appels -> Appel]
  /\ journal \in [Rapports -> Nat]

TypeOK == RegistreTypeOK /\ RetentionTypeOK /\ HoldsTypeOK /\ PurgeTypeOK

PurgeInit ==
  /\ rapports = [k \in Rapports |-> PasDeRapport]
  /\ appels = [a \in Appels |-> PasDAppel]
  /\ journal = [k \in Rapports |-> 0]

Init == RegistreInit /\ RetentionInit /\ HoldsInit /\ PurgeInit

-----------------------------------------------------------------------------

(* Mutant: a call is taken one day before the end of its period.            *)
MutantDusUnJourTrop(durees) ==
  {r \in Enregistrements : statut[r] = "stored" /\ Debut[r] + JoursPour(r, durees) <= jour}

(* recenser, its first query: the purgeable calls that are due.             *)
Dus(durees) == {r \in Enregistrements : statut[r] = "stored" /\ Echu(r, durees)}

(* The list a report enumerates: each due call, held or not.                *)
ListeDe(dus, retenus) ==
  [r \in Enregistrements |->
     IF r \notin dus THEN "hors" ELSE IF r \in retenus THEN "blocked" ELSE "candidate"]

(* Mutant: the fingerprint bears on the held calls only.                    *)
MutantEmpreinteHolds(lignes) ==
  [r \in Enregistrements |-> IF lignes[r] = "blocked" THEN "blocked" ELSE "-"]

(* empreinte: the fingerprint forgets everything but which calls are        *)
(* listed and which of them are held.  SHA-256 is taken as injective.       *)
Empreinte(lignes) ==
  [r \in Enregistrements |->
     IF lignes[r] \in {"candidate", "purged", "missing"} THEN "-" ELSE lignes[r]]

Avance(a, pc) == appels' = [appels EXCEPT ![a].pc = pc]
Rend(a) == appels' = [appels EXCEPT ![a] = PasDAppel]

-----------------------------------------------------------------------------
(* simuler                                                                  *)

SimulerPolitiques(a) ==
  /\ appels[a].pc = "repos"
  /\ appels' = [appels EXCEPT
       ![a] = [PasDAppel EXCEPT !.pc = "sim_recenser", !.durees = DureesEnVigueur]]
  /\ UNCHANGED <<rapports, journal>>

(* The first query of recenser, on behalf of simuler or of executer.        *)
Recenser(a, avant, apres) ==
  /\ appels[a].pc = avant
  /\ appels' = [appels EXCEPT
       ![a] = [@ EXCEPT !.pc = apres, !.dus = Dus(appels[a].durees)]]
  /\ UNCHANGED <<rapports, journal>>

(* idsSousHold, then the report is built from the two reads.  "reste" is    *)
(* what they leave to destroy.                                              *)
SimulerHolds(a) ==
  /\ appels[a].pc = "sim_holds"
  /\ appels' = [appels EXCEPT
       ![a] = [@ EXCEPT !.pc = "sim_creer",
                        !.reste = appels[a].dus \ SousHold(appels[a].dus)]]
  /\ UNCHANGED <<rapports, journal>>

SimulerCree(a, k) ==
  LET appel == appels[a] IN
  /\ appel.pc = "sim_creer"
  /\ rapports[k].statut = "aucun"
  /\ rapports' = [rapports EXCEPT
       ![k] = [PasDeRapport EXCEPT
                 !.statut = "simulated",
                 !.durees = appel.durees,
                 !.lignes = ListeDe(appel.dus, appel.dus \ appel.reste)]]
  /\ Rend(a)
  /\ UNCHANGED journal

-----------------------------------------------------------------------------
(* executer                                                                 *)

(* exigerRapport and the test of its status: done once, never again.        *)
ExecuterLit(a, k) ==
  /\ appels[a].pc = "repos"
  /\ rapports[k].statut = "simulated"
  /\ appels' = [appels EXCEPT
       ![a] = [PasDAppel EXCEPT !.pc = "exe_politiques", !.rapport = k,
                                !.durees = rapports[k].durees]]
  /\ UNCHANGED <<rapports, journal>>

(* memesDurees: the frozen periods are still those in force.                *)
ExecuterPolitiques(a) ==
  /\ appels[a].pc = "exe_politiques"
  /\ appels[a].durees = DureesEnVigueur
  /\ Avance(a, "exe_recenser")
  /\ UNCHANGED <<rapports, journal>>

RefuserPolitiques(a) ==
  /\ appels[a].pc = "exe_politiques"
  /\ appels[a].durees # DureesEnVigueur
  /\ Rend(a)
  /\ UNCHANGED <<rapports, journal>>

(* The fingerprint recomputed from the two reads is that of the report.     *)
Concorde(a) ==
  Empreinte(ListeDe(appels[a].dus, SousHold(appels[a].dus)))
    = Empreinte(rapports[appels[a].rapport].lignes)

(* Mutant: the loop runs over every due call, the held ones included.       *)
MutantHoldsIgnores(a) ==
  /\ appels[a].pc = "exe_holds"
  /\ Concorde(a)
  /\ appels' = [appels EXCEPT
       ![a] = [PasDAppel EXCEPT !.pc = "boucle", !.rapport = appels[a].rapport,
                                !.reste = appels[a].dus, !.vus = {h \in Holds : Pose(h)}]]
  /\ UNCHANGED <<rapports, journal>>

(* From here on the request remembers only what is left to destroy.  "vus"  *)
(* is a history variable: the rows that existed when the holds were read.   *)
ExecuterHolds(a) ==
  /\ appels[a].pc = "exe_holds"
  /\ Concorde(a)
  /\ appels' = [appels EXCEPT
       ![a] = [PasDAppel EXCEPT
                 !.pc = "boucle",
                 !.rapport = appels[a].rapport,
                 !.reste = appels[a].dus \ SousHold(appels[a].dus),
                 !.vus = {h \in Holds : Pose(h)}]]
  /\ UNCHANGED <<rapports, journal>>

RefuserEmpreinte(a) ==
  /\ appels[a].pc = "exe_holds"
  /\ ~Concorde(a)
  /\ Rend(a)
  /\ UNCHANGED <<rapports, journal>>

(* Any failure of rm is taken for an absent file.                           *)
FichierAbsent(r, echec) == echec \/ r \notin fichiers

(* Mutant: the loop does not move on to the next call.                      *)
MutantEffacerSurPlace(a, r, echec) ==
  /\ appels[a].pc = "boucle"
  /\ r \in appels[a].reste
  /\ echec => PanneDisque
  /\ fichiers' = IF echec THEN fichiers ELSE fichiers \ {r}
  /\ appels' = [appels EXCEPT
       ![a] = [@ EXCEPT !.pc = "statut", !.cible = r, !.absent = FichierAbsent(r, echec)]]
  /\ UNCHANGED <<statut, jour, rapports, journal>>

(* detruire, up to rm.                                                      *)
Effacer(a, r, echec) ==
  /\ appels[a].pc = "boucle"
  /\ r \in appels[a].reste
  /\ echec => PanneDisque
  /\ fichiers' = IF echec THEN fichiers ELSE fichiers \ {r}
  /\ appels' = [appels EXCEPT
       ![a] = [@ EXCEPT !.pc = "statut",
                        !.reste = appels[a].reste \ {r},
                        !.cible = r,
                        !.absent = FichierAbsent(r, echec)]]
  /\ UNCHANGED <<statut, jour, rapports, journal>>

(* Mutant: a status the schema does not know.                               *)
MutantStatutInconnu(a) ==
  /\ appels[a].pc = "statut"
  /\ statut' = [statut EXCEPT ![appels[a].cible] = "destroyed"]
  /\ Avance(a, "ligne")
  /\ UNCHANGED <<fichiers, jour, rapports, journal>>

(* detruire, the row: the status of the call, read by nobody in between.    *)
MarquerPurge(a) ==
  /\ appels[a].pc = "statut"
  /\ statut' = [statut EXCEPT ![appels[a].cible] = "purged"]
  /\ Avance(a, "ligne")
  /\ UNCHANGED <<fichiers, jour, rapports, journal>>

(* The outcome of the item, after the best-effort PURGE event.              *)
NoterIssue(a) ==
  LET appel == appels[a] IN
  /\ appel.pc = "ligne"
  /\ rapports' = [rapports EXCEPT
       ![appel.rapport].lignes[appel.cible] = IF appel.absent THEN "missing" ELSE "purged"]
  /\ appels' = [appels EXCEPT
       ![a] = [@ EXCEPT !.pc = "boucle", !.cible = Nul, !.absent = FALSE]]
  /\ UNCHANGED journal

(* certificatService.construire: the destroyed and the spared calls of the   *)
(* report; a line still undecided would not be in it at all.                 *)
CertificatDe(k) ==
  [r \in Enregistrements |->
     IF rapports[k].lignes[r] = "candidate" THEN "hors" ELSE rapports[k].lignes[r]]

(* Mutant: the report is sealed before the end of its loop.                 *)
MutantScellerTot(a) ==
  LET k == appels[a].rapport IN
  /\ appels[a].pc = "boucle"
  /\ rapports' = [rapports EXCEPT
       ![k] = [@ EXCEPT !.statut = "executed", !.scelle = TRUE, !.certificat = CertificatDe(k)]]
  /\ journal' = [journal EXCEPT ![k] = @ + 1]
  /\ Rend(a)

(* Mutant: the seal without its event, as if outside the transaction.       *)
MutantScellerSansJournal(a) ==
  LET k == appels[a].rapport IN
  /\ appels[a].pc = "boucle"
  /\ appels[a].reste = {}
  /\ rapports' = [rapports EXCEPT
       ![k] = [@ EXCEPT !.statut = "executed", !.scelle = TRUE, !.certificat = CertificatDe(k)]]
  /\ UNCHANGED journal
  /\ Rend(a)

(* The transaction: status, certificate built from the items, event.        *)
Sceller(a) ==
  LET k == appels[a].rapport IN
  /\ appels[a].pc = "boucle"
  /\ appels[a].reste = {}
  /\ rapports' = [rapports EXCEPT
       ![k] = [@ EXCEPT !.statut = "executed", !.scelle = TRUE, !.certificat = CertificatDe(k)]]
  /\ journal' = [journal EXCEPT ![k] = @ + 1]
  /\ Rend(a)

-----------------------------------------------------------------------------
(* annuler                                                                  *)

AnnulerLit(a, k) ==
  /\ appels[a].pc = "repos"
  /\ rapports[k].statut = "simulated"
  /\ appels' = [appels EXCEPT
       ![a] = [PasDAppel EXCEPT !.pc = "annuler", !.rapport = k]]
  /\ UNCHANGED <<rapports, journal>>

AnnulerEcrit(a) ==
  /\ appels[a].pc = "annuler"
  /\ rapports' = [rapports EXCEPT ![appels[a].rapport].statut = "cancelled"]
  /\ Rend(a)
  /\ UNCHANGED journal

(* A request that fails on an error of the database or dies with the        *)
(* process.  Nothing is undone, nothing is resumed.                         *)
AppelRompu(a) ==
  /\ PanneAppel
  /\ appels[a].pc # "repos"
  /\ Rend(a)
  /\ UNCHANGED <<rapports, journal>>

-----------------------------------------------------------------------------

(* The steps of an execution that go on once it has been accepted.          *)
Detruire(a) ==
  \/ /\ \/ \E r \in Enregistrements, echec \in BOOLEAN : Effacer(a, r, echec)
        \/ MarquerPurge(a)
     /\ UNCHANGED <<politiques, holdsVars>>
  \/ /\ NoterIssue(a) \/ Sceller(a)
     /\ UNCHANGED <<registreVars, politiques, holdsVars>>

(* The steps that touch neither the register nor a hold nor a period.       *)
Demander(a) ==
  /\ \/ SimulerPolitiques(a)
     \/ Recenser(a, "sim_recenser", "sim_holds")
     \/ SimulerHolds(a)
     \/ ExecuterPolitiques(a)
     \/ Recenser(a, "exe_recenser", "exe_holds")
     \/ RefuserPolitiques(a)
     \/ ExecuterHolds(a)
     \/ RefuserEmpreinte(a)
     \/ AnnulerEcrit(a)
     \/ AppelRompu(a)
     \/ \E k \in Rapports : SimulerCree(a, k) \/ ExecuterLit(a, k) \/ AnnulerLit(a, k)
  /\ UNCHANGED <<registreVars, politiques, holdsVars>>

Next ==
  \/ \E a \in Appels : Demander(a) \/ Detruire(a)
  \/ RegistreNext /\ UNCHANGED <<politiques, holdsVars, purgeVars>>
  \/ RetentionNext /\ UNCHANGED <<registreVars, holdsVars, purgeVars>>
  \/ HoldsNext /\ UNCHANGED <<registreVars, politiques, purgeVars>>

Spec == Init /\ [][Next]_vars

(* Node runs every continuation whose query has been answered, so a request *)
(* that has started to destroy does not stop by itself.                     *)
FairSpec == Spec /\ \A a \in Appels : WF_vars(Detruire(a))

-----------------------------------------------------------------------------
(* Safety                                                                   *)

EnDestruction(a) == appels[a].pc \in {"boucle", "statut", "ligne"}

(* The calls an accepted execution is still going to destroy, or is         *)
(* destroying.                                                              *)
Vises(a) ==
  appels[a].reste \cup (IF appels[a].pc = "statut" THEN {appels[a].cible} ELSE {})

Detruit(r) == statut[r] = "purged" \/ (statut[r] = "stored" /\ r \notin fichiers)

(* A hold that existed when an execution took its census of the holds keeps *)
(* the call out of that execution, whatever is released, set or purged      *)
(* while its loop runs (purge.service.ts:244-251).                          *)
HoldAnterieurRespecte ==
  \A a \in Appels : EnDestruction(a) =>
     \A r \in Vises(a) : ActifsSur(r) \cap appels[a].vus = {}

(* Every call whose file or status is gone was proposed, unblocked, by a    *)
(* report whose frozen periods had run out for it: neither a race nor a     *)
(* broken request destroys a call nobody listed, or one still to be kept.   *)
DestructionFondee ==
  \A r \in Enregistrements : Detruit(r) =>
     \E k \in Rapports :
        /\ rapports[k].lignes[r] \in {"candidate", "purged", "missing"}
        /\ Echu(r, rapports[k].durees)

(* A sealed certificate accounts for the whole report: every call the report *)
(* lists is in it, every call it says destroyed is purged in the register,   *)
(* and the file of a call it does not declare "already absent" is gone.      *)
CertificatComplet ==
  \A k \in Rapports : rapports[k].scelle =>
     \A r \in Enregistrements :
        LET issue == rapports[k].certificat[r] IN
        /\ issue = "hors" => rapports[k].lignes[r] = "hors"
        /\ issue \in {"purged", "missing"} => statut[r] = "purged"
        /\ issue = "purged" => r \notin fichiers

(* A report is sealed if and only if the journal bears a PURGE_EXECUTED for *)
(* it (purge.service.ts:275-278), and a report marked executed is sealed.   *)
CertificatAuJournal ==
  \A k \in Rapports :
     /\ rapports[k].scelle <=> journal[k] > 0
     /\ rapports[k].statut = "executed" => rapports[k].scelle

-----------------------------------------------------------------------------
(* What the documentation says and the races break                          *)

(* "tant qu'il est actif, aucune purge ne touche cet appel"                 *)
(* (legal-holds.service.ts:31): no file disappears under an active hold.    *)
HoldInviolable ==
  [][\A r \in fichiers \ fichiers' : ActifsSur(r) = {}]_vars

(* "ne s'execute pas deux fois" (purge.spec.ts:475): one execution, hence   *)
(* one PURGE_EXECUTED, for each report.                                     *)
UneSeuleExecution == \A k \in Rapports : journal[k] <= 1

(* "Les enregistrements audio listes ci-dessus ont ete detruits"            *)
(* (certificat.service.ts:126): no call a certificate lists as destroyed    *)
(* still has its audio in the vault.                                        *)
CertificatVeridique ==
  \A k \in Rapports, r \in fichiers :
     rapports[k].scelle => rapports[k].certificat[r] \notin {"purged", "missing"}

-----------------------------------------------------------------------------
(* Liveness                                                                 *)

(* An execution that has passed its tests seals its report, whatever the    *)
(* other requests do to the holds, the periods and the report meanwhile:    *)
(* its loop waits for nobody.                                               *)
ExecutionAboutit ==
  \A a \in Appels, k \in Rapports :
     (EnDestruction(a) /\ appels[a].rapport = k) ~> rapports[k].scelle

-----------------------------------------------------------------------------
(* The purge implements the abstract promise of module Destruction: a call  *)
(* is kept while its file is in the vault, an authorisation is a report,    *)
(* its list the lines that are not blocked.                                 *)

Promesse ==
  INSTANCE Destruction WITH
    Pieces <- Enregistrements,
    Actes <- Rapports,
    etat <- [r \in Enregistrements |->
               IF statut[r] = "absente" THEN "inconnue"
               ELSE IF r \in fichiers THEN "conservee" ELSE "detruite"],
    autorises <- [k \in Rapports |->
                    {r \in Enregistrements :
                       rapports[k].lignes[r] \in {"candidate", "purged", "missing"}}],
    terme <- [k \in Rapports |->
                [r \in Enregistrements |->
                   Debut[r] + JoursPour(r, rapports[k].durees)]]

PromesseTenue == Promesse!Spec
=============================================================================
