----------------------------- MODULE PurgeProofs -----------------------------
(***************************************************************************)
(* Theorems about Purge, for any number of calls, categories, holds,        *)
(* accounts, reports and requests.                                          *)
(***************************************************************************)
EXTENDS Purge, ConservationProofs

-----------------------------------------------------------------------------
(* Lemmas on the operators the purge is built from                          *)

(* The list of a report decides every call.                                 *)
LEMMA ListeDeType ==
  ASSUME NEW dus, NEW retenus
  PROVE  ListeDe(dus, retenus) \in Lignes
BY DEF ListeDe, Lignes, Issues

LEMMA CertificatDeType ==
  ASSUME PurgeTypeOK, NEW k \in Rapports
  PROVE  CertificatDe(k) \in Lignes
<1>1. rapports[k].lignes \in Lignes
  BY DEF PurgeTypeOK, Rapport
<1> QED
  BY <1>1 DEF CertificatDe, Lignes, Issues

LEMMA SansDureeType == SansDuree \in Durees
<1>1. SansDuree \in [{Tous} \cup {} -> Jours]
  BY DEF SansDuree, Jours
<1> QED
  BY <1>1 DEF Durees

LEMMA VidesType == PasDeRapport \in Rapport /\ PasDAppel \in Appel
BY SansDureeType DEF PasDeRapport, PasDAppel, Rapport, Appel, Lignes, HorsListe, Issues

-----------------------------------------------------------------------------
(* Type correctness                                                         *)

LEMMA InitType == Init => TypeOK
<1> SUFFICES ASSUME Init PROVE TypeOK
  OBVIOUS
<1>1. RegistreTypeOK
  BY DEF Init, RegistreInit, RegistreTypeOK, StatutsEnregistrement
<1>2. RetentionTypeOK
  BY DEF Init, RetentionInit, RetentionTypeOK, Ligne, Jours
<1>3. HoldsTypeOK
  BY DEF Init, HoldsInit, HoldsTypeOK, LigneHold, Demande, PasDeHold, PasDeDemande
<1>4. PurgeTypeOK
  BY VidesType DEF Init, PurgeInit, PurgeTypeOK
<1> QED
  BY <1>1, <1>2, <1>3, <1>4 DEF TypeOK

(* The locals of a request and the row of a report are written whole.       *)
LEMMA EcritureType ==
  ASSUME PurgeTypeOK
  PROVE  /\ \A a \in Appels, x \in Appel :
              appels' = [appels EXCEPT ![a] = x] => appels' \in [Appels -> Appel]
         /\ \A k, y : (k \in Rapports => y \in Rapport) =>
              (rapports' = [rapports EXCEPT ![k] = y] => rapports' \in [Rapports -> Rapport])
         /\ \A a \in Appels : Rend(a) => appels' \in [Appels -> Appel]
<1> USE DEF PurgeTypeOK
<1>1. ASSUME NEW a \in Appels, NEW x \in Appel, appels' = [appels EXCEPT ![a] = x]
      PROVE  appels' \in [Appels -> Appel]
  BY <1>1
<1>2. ASSUME NEW k, NEW y, k \in Rapports => y \in Rapport,
             rapports' = [rapports EXCEPT ![k] = y]
      PROVE  rapports' \in [Rapports -> Rapport]
  BY <1>2
<1> QED
  BY <1>1, <1>2, VidesType DEF Rend

(* The steps before the destruction write locals and reports of their type. *)
LEMMA DemanderType ==
  ASSUME TypeOK, NEW a \in Appels, Demander(a)
  PROVE  PurgeTypeOK'
<1> USE DEF TypeOK, PurgeTypeOK
<1>1. appels[a] \in Appel
  OBVIOUS
<1>2. \A x \in Appel :
        appels' = [appels EXCEPT ![a] = x] => appels' \in [Appels -> Appel]
  BY EcritureType
<1>3. Rend(a) => appels' \in [Appels -> Appel]
  BY EcritureType
<1>4. CASE SimulerPolitiques(a)
  <2>1. [PasDAppel EXCEPT !.pc = "sim_recenser", !.durees = DureesEnVigueur] \in Appel
    BY VidesType, DureesEnVigueurType DEF Appel
  <2> QED
    BY <1>2, <1>4, <2>1 DEF SimulerPolitiques
<1>5. ASSUME NEW avant, NEW apres \in {"sim_holds", "exe_holds"}, Recenser(a, avant, apres)
      PROVE  PurgeTypeOK'
  <2>1. [appels[a] EXCEPT !.pc = apres, !.dus = Dus(appels[a].durees)] \in Appel
    BY <1>1 DEF Appel, Dus
  <2> QED
    BY <1>2, <1>5, <2>1 DEF Recenser
<1>6. CASE SimulerHolds(a)
  <2>1. [appels[a] EXCEPT !.pc = "sim_creer",
                          !.reste = appels[a].dus \ SousHold(appels[a].dus)] \in Appel
    BY <1>1 DEF Appel
  <2> QED
    BY <1>2, <1>6, <2>1 DEF SimulerHolds
<1>7. ASSUME NEW k \in Rapports, SimulerCree(a, k)
      PROVE  PurgeTypeOK'
  <2> DEFINE y == [PasDeRapport EXCEPT
                     !.statut = "simulated", !.durees = appels[a].durees,
                     !.lignes = ListeDe(appels[a].dus, appels[a].dus \ appels[a].reste)]
  <2>1. y \in Rapport
    BY <1>1, VidesType, ListeDeType DEF Rapport, Appel
  <2>2. rapports' = [rapports EXCEPT ![k] = y]
    BY <1>7 DEF SimulerCree
  <2> HIDE DEF y
  <2>3. rapports' \in [Rapports -> Rapport]
    BY <2>1, <2>2, EcritureType
  <2> QED
    BY <1>3, <1>7, <2>3 DEF SimulerCree
<1>8. ASSUME NEW k \in Rapports, ExecuterLit(a, k)
      PROVE  PurgeTypeOK'
  <2>1. rapports[k].durees \in Durees
    BY DEF Rapport
  <2>2. [PasDAppel EXCEPT !.pc = "exe_politiques", !.rapport = k,
                          !.durees = rapports[k].durees] \in Appel
    BY <2>1, VidesType DEF Appel
  <2> QED
    BY <1>2, <1>8, <2>2 DEF ExecuterLit
<1>9. CASE ExecuterPolitiques(a)
  <2>1. [appels[a] EXCEPT !.pc = "exe_recenser"] \in Appel
    BY <1>1 DEF Appel
  <2> QED
    BY <1>2, <1>9, <2>1 DEF ExecuterPolitiques, Avance
<1>10. CASE ExecuterHolds(a)
  <2>1. appels[a].rapport \in Rapports \cup {Nul} /\ appels[a].dus \in SUBSET Enregistrements
    BY <1>1 DEF Appel
  <2>2. [PasDAppel EXCEPT
           !.pc = "boucle",
           !.rapport = appels[a].rapport,
           !.reste = appels[a].dus \ SousHold(appels[a].dus),
           !.vus = {h \in Holds : Pose(h)}] \in Appel
    BY <2>1, VidesType DEF Appel
  <2> QED
    BY <1>2, <1>10, <2>2 DEF ExecuterHolds
<1>11. ASSUME NEW k \in Rapports, AnnulerLit(a, k)
       PROVE  PurgeTypeOK'
  <2>1. [PasDAppel EXCEPT !.pc = "annuler", !.rapport = k] \in Appel
    BY VidesType DEF Appel
  <2> QED
    BY <1>2, <1>11, <2>1 DEF AnnulerLit
<1>12. CASE AnnulerEcrit(a)
  <2> DEFINE k == appels[a].rapport
  <2>1. k \in Rapports => [rapports[k] EXCEPT !.statut = "cancelled"] \in Rapport
    BY DEF Rapport
  <2>2. rapports' = [rapports EXCEPT ![k] = [rapports[k] EXCEPT !.statut = "cancelled"]]
    BY <1>12 DEF AnnulerEcrit
  <2> HIDE DEF k
  <2>3. rapports' \in [Rapports -> Rapport]
    BY <2>1, <2>2, EcritureType
  <2> QED
    BY <1>3, <1>12, <2>3 DEF AnnulerEcrit
<1>13. CASE RefuserPolitiques(a) \/ RefuserEmpreinte(a) \/ AppelRompu(a)
  BY <1>3, <1>13 DEF RefuserPolitiques, RefuserEmpreinte, AppelRompu
<1> QED
  BY <1>4, <1>5, <1>6, <1>7, <1>8, <1>9, <1>10, <1>11, <1>12, <1>13 DEF Demander

(* The steps of the loop write locals, rows and files of their types.       *)
LEMMA DetruireType ==
  ASSUME TypeOK, NEW a \in Appels, Detruire(a)
  PROVE  PurgeTypeOK' /\ RegistreTypeOK'
<1> USE DEF TypeOK, PurgeTypeOK
<1>1. appels[a] \in Appel
  OBVIOUS
<1>2. \A x \in Appel :
        appels' = [appels EXCEPT ![a] = x] => appels' \in [Appels -> Appel]
  BY EcritureType
<1>3. ASSUME NEW r \in Enregistrements, NEW echec \in BOOLEAN, Effacer(a, r, echec)
      PROVE  PurgeTypeOK' /\ RegistreTypeOK'
  <2>1. FichierAbsent(r, echec) \in BOOLEAN
    BY DEF FichierAbsent
  <2>2. [appels[a] EXCEPT !.pc = "statut", !.reste = appels[a].reste \ {r}, !.cible = r,
                          !.absent = FichierAbsent(r, echec)] \in Appel
    BY <1>1, <2>1 DEF Appel
  <2>3. appels' \in [Appels -> Appel]
    BY <1>2, <1>3, <2>2 DEF Effacer
  <2>4. RegistreTypeOK'
    BY <1>3 DEF Effacer, RegistreTypeOK
  <2> QED
    BY <1>3, <2>3, <2>4 DEF Effacer
<1>4. CASE MarquerPurge(a)
  <2>1. [appels[a] EXCEPT !.pc = "ligne"] \in Appel
    BY <1>1 DEF Appel
  <2>2. appels' \in [Appels -> Appel]
    BY <1>2, <1>4, <2>1 DEF MarquerPurge, Avance
  <2>3. RegistreTypeOK'
    BY <1>4 DEF MarquerPurge, RegistreTypeOK, StatutsEnregistrement
  <2> QED
    BY <1>4, <2>2, <2>3 DEF MarquerPurge
<1>5. CASE NoterIssue(a) /\ UNCHANGED registreVars
  <2> DEFINE k == appels[a].rapport
             i == IF appels[a].absent THEN "missing" ELSE "purged"
             y == [rapports[k] EXCEPT !.lignes[appels[a].cible] = i]
  <2>1. i \in Issues
    BY DEF Issues
  <2>2. rapports' = [rapports EXCEPT ![k] = y]
    BY <1>5 DEF NoterIssue
  <2> HIDE DEF i
  <2>3. k \in Rapports => y \in Rapport
    BY <2>1 DEF Rapport, Lignes
  <2> HIDE DEF k, y
  <2>4. rapports' \in [Rapports -> Rapport]
    BY <2>2, <2>3, EcritureType
  <2>5. [appels[a] EXCEPT !.pc = "boucle", !.cible = Nul, !.absent = FALSE] \in Appel
    BY <1>1 DEF Appel
  <2>6. appels' \in [Appels -> Appel]
    BY <1>2, <1>5, <2>5 DEF NoterIssue
  <2> QED
    BY <1>5, <2>4, <2>6 DEF NoterIssue, RegistreTypeOK, registreVars
<1>6. CASE Sceller(a) /\ UNCHANGED registreVars
  <2> DEFINE k == appels[a].rapport
             y == [rapports[k] EXCEPT !.statut = "executed", !.scelle = TRUE,
                                      !.certificat = CertificatDe(k)]
  <2>1. rapports' = [rapports EXCEPT ![k] = y]
    BY <1>6 DEF Sceller
  <2>7. k \in Rapports => CertificatDe(k) \in Lignes
    BY CertificatDeType
  <2>2. k \in Rapports => y \in Rapport
    BY <2>7 DEF Rapport
  <2>6. journal' = [journal EXCEPT ![k] = @ + 1]
    BY <1>6 DEF Sceller
  <2> HIDE DEF k, y
  <2>3. journal' \in [Rapports -> Nat]
    <3>1. ASSUME NEW j \in Rapports PROVE journal'[j] \in Nat
      BY <2>6
    <3> QED
      BY <2>6, <3>1
  <2>4. rapports' \in [Rapports -> Rapport]
    BY <2>1, <2>2, EcritureType
  <2>5. appels' \in [Appels -> Appel]
    BY <1>6, EcritureType DEF Sceller
  <2> QED
    BY <1>6, <2>3, <2>4, <2>5 DEF Sceller, RegistreTypeOK, registreVars
<1> QED
  BY <1>3, <1>4, <1>5, <1>6 DEF Detruire

LEMMA NextType == TypeOK /\ [Next]_vars => TypeOK'
<1> SUFFICES ASSUME TypeOK, [Next]_vars PROVE TypeOK'
  OBVIOUS
<1> USE DEF TypeOK
<1>1. ASSUME UNCHANGED registreVars PROVE RegistreTypeOK'
  BY <1>1 DEF RegistreTypeOK, registreVars
<1>2. ASSUME UNCHANGED politiques PROVE RetentionTypeOK'
  BY <1>2 DEF RetentionTypeOK
<1>3. ASSUME UNCHANGED holdsVars PROVE HoldsTypeOK'
  BY <1>3 DEF HoldsTypeOK, holdsVars
<1>4. ASSUME UNCHANGED purgeVars PROVE PurgeTypeOK'
  BY <1>4 DEF PurgeTypeOK, purgeVars
<1>5. ASSUME NEW a \in Appels, Demander(a) PROVE TypeOK'
  BY <1>1, <1>2, <1>3, <1>5, DemanderType DEF Demander
<1>6. ASSUME NEW a \in Appels, Detruire(a) PROVE TypeOK'
  BY <1>2, <1>3, <1>6, DetruireType DEF Detruire
<1>7. CASE RegistreNext /\ UNCHANGED <<politiques, holdsVars, purgeVars>>
  BY <1>2, <1>3, <1>4, <1>7, RegistreType
<1>8. CASE RetentionNext /\ UNCHANGED <<registreVars, holdsVars, purgeVars>>
  BY <1>1, <1>3, <1>4, <1>8, RetentionType
<1>9. CASE HoldsNext /\ UNCHANGED <<registreVars, politiques, purgeVars>>
  BY <1>1, <1>2, <1>4, <1>9, HoldsType
<1>10. CASE UNCHANGED vars
  BY <1>1, <1>2, <1>3, <1>4, <1>10 DEF vars
<1> QED
  BY <1>5, <1>6, <1>7, <1>8, <1>9, <1>10 DEF Next

(* Every reachable state is of its type: no handler writes a row, a list or *)
(* a local the others could not read.                                       *)
THEOREM TypeCorrect == Spec => []TypeOK
BY InitType, NextType, PTL DEF Spec
-----------------------------------------------------------------------------
(* The periods and the holds, whatever the purge does                       *)

(* A step of the purge writes neither a hold nor a request on the holds.    *)
LEMMA HoldsDansPurge == [Next]_vars => HoldsNext \/ UNCHANGED holdsVars
BY DEF Next, Demander, Detruire, vars

LEMMA HoldsInvInvariant == Spec => []HoldsInv
<1>1. Init => HoldsInv
  BY HoldsInvInit DEF Init
<1>2. TypeOK /\ HoldsInv /\ [Next]_vars => HoldsInv'
  BY HoldsInvStep, HoldsDansPurge DEF TypeOK
<1> QED
  BY <1>1, <1>2, TypeCorrect, PTL DEF Spec

(* The term announced on the call sheet is the one the purge applies, in    *)
(* every state of the system and for any set of categories and periods.     *)
THEOREM EcheanceToujoursAnnoncee == Spec => []EcheanceAnnoncee
BY EcheanceConcorde, PTL

(* A released hold stays released, whatever the requests in flight.         *)
THEOREM LeveeToujoursDefinitive == Spec => LeveeDefinitive
<1> DEFINE Tenue == \A h \in Holds : Pose(h) /\ ~Actif(h) => Pose(h)' /\ ~Actif(h)'
<1>1. TypeOK /\ HoldsInv /\ [Next]_vars => [Tenue]_holds
  <2> SUFFICES ASSUME TypeOK, HoldsInv, [Next]_vars, holds' # holds
               PROVE  Tenue
    OBVIOUS
  <2>1. HoldsNext
    BY HoldsDansPurge DEF holdsVars
  <2> QED
    BY <2>1, LeveeStable DEF TypeOK, HoldsInv
<1> QED
  BY <1>1, TypeCorrect, HoldsInvInvariant, PTL DEF Spec, LeveeDefinitive

-----------------------------------------------------------------------------
(* What a step does to the locals of the requests                           *)

LEMMA AutresAppels ==
  ASSUME TypeOK, NEW a \in Appels, Demander(a) \/ Detruire(a), NEW e \in Appels \ {a}
  PROVE  appels'[e] = appels[e]
<1> USE DEF TypeOK, PurgeTypeOK
<1>1. ASSUME NEW x, appels' = [appels EXCEPT ![a] = x]
      PROVE  appels'[e] = appels[e]
  BY <1>1
<1>2. ASSUME NEW r \in Enregistrements, NEW echec \in BOOLEAN, Effacer(a, r, echec)
      PROVE  appels'[e] = appels[e]
  BY <1>1, <1>2 DEF Effacer
<1>3. CASE MarquerPurge(a) \/ NoterIssue(a) \/ Sceller(a)
  BY <1>1, <1>3 DEF MarquerPurge, NoterIssue, Sceller, Avance, Rend
<1>4. ASSUME NEW avant, NEW apres, Recenser(a, avant, apres)
      PROVE  appels'[e] = appels[e]
  BY <1>1, <1>4 DEF Recenser
<1>5. CASE SimulerPolitiques(a) \/ SimulerHolds(a) \/ ExecuterPolitiques(a) \/ ExecuterHolds(a)
  BY <1>1, <1>5 DEF SimulerPolitiques, SimulerHolds, ExecuterPolitiques, ExecuterHolds, Avance
<1>6. CASE RefuserPolitiques(a) \/ RefuserEmpreinte(a) \/ AnnulerEcrit(a) \/ AppelRompu(a)
  BY <1>1, <1>6 DEF RefuserPolitiques, RefuserEmpreinte, AnnulerEcrit, AppelRompu, Rend
<1>7. ASSUME NEW k \in Rapports, SimulerCree(a, k) \/ ExecuterLit(a, k) \/ AnnulerLit(a, k)
      PROVE  appels'[e] = appels[e]
  BY <1>1, <1>7 DEF SimulerCree, ExecuterLit, AnnulerLit, Rend
<1> QED
  BY <1>2, <1>3, <1>4, <1>5, <1>6, <1>7 DEF Demander, Detruire

(* Before the destruction: only ExecuterHolds enters the loop.              *)
LEMMA DemanderLocaux ==
  ASSUME TypeOK, NEW a \in Appels, Demander(a)
  PROVE  \/ ExecuterHolds(a)
         \/ /\ appels'[a].pc \notin {"boucle", "statut", "ligne"}
            /\ appels'[a].vus \in {appels[a].vus, {}}
<1> USE DEF TypeOK, PurgeTypeOK
<1>1. ASSUME NEW x, appels' = [appels EXCEPT ![a] = x]
      PROVE  appels'[a] = x
  BY <1>1
<1>2. appels[a] \in Appel
  OBVIOUS
<1>3. CASE Rend(a)
  BY <1>1, <1>3 DEF Rend, PasDAppel
<1>4. ASSUME NEW avant, NEW apres \in {"sim_holds", "exe_holds"}, Recenser(a, avant, apres)
      PROVE  /\ appels'[a].pc \notin {"boucle", "statut", "ligne"}
             /\ appels'[a].vus = appels[a].vus
  BY <1>1, <1>2, <1>4 DEF Recenser, Appel
<1>5. CASE SimulerHolds(a) \/ ExecuterPolitiques(a)
  BY <1>1, <1>2, <1>5 DEF SimulerHolds, ExecuterPolitiques, Avance, Appel
<1>6. CASE SimulerPolitiques(a)
  BY <1>1, <1>6 DEF SimulerPolitiques, PasDAppel
<1>7. ASSUME NEW k \in Rapports, ExecuterLit(a, k) \/ AnnulerLit(a, k)
      PROVE  /\ appels'[a].pc \notin {"boucle", "statut", "ligne"}
             /\ appels'[a].vus = {}
  BY <1>1, <1>7 DEF ExecuterLit, AnnulerLit, PasDAppel
<1> QED
  BY <1>3, <1>4, <1>5, <1>6, <1>7
     DEF Demander, RefuserPolitiques, RefuserEmpreinte, AnnulerEcrit, AppelRompu, SimulerCree

(* The loop goes on with the same report, the same memory of the holds, and *)
(* no call it had not to destroy already.                                   *)
LEMMA DetruireLocaux ==
  ASSUME TypeOK, NEW a \in Appels, Detruire(a)
  PROVE  /\ EnDestruction(a)
         /\ \/ appels'[a] = PasDAppel
            \/ /\ EnDestruction(a)'
               /\ appels'[a].rapport = appels[a].rapport
               /\ appels'[a].vus = appels[a].vus
               /\ Vises(a)' \subseteq Vises(a)
<1> USE DEF TypeOK, PurgeTypeOK, EnDestruction, Vises
<1>1. ASSUME NEW x, appels' = [appels EXCEPT ![a] = x]
      PROVE  appels'[a] = x
  BY <1>1
<1>2. appels[a] \in Appel
  OBVIOUS
<1>3. ASSUME NEW r \in Enregistrements, NEW echec \in BOOLEAN, Effacer(a, r, echec)
      PROVE  /\ appels[a].pc = "boucle" /\ r \in appels[a].reste
             /\ appels'[a].pc = "statut" /\ appels'[a].cible = r
             /\ appels'[a].reste = appels[a].reste \ {r}
             /\ appels'[a].rapport = appels[a].rapport
             /\ appels'[a].vus = appels[a].vus
  BY <1>1, <1>2, <1>3 DEF Effacer, Appel
<1>4. CASE MarquerPurge(a)
  BY <1>1, <1>2, <1>4 DEF MarquerPurge, Avance, Appel
<1>5. CASE NoterIssue(a)
  BY <1>1, <1>2, <1>5 DEF NoterIssue, Appel
<1>6. CASE Sceller(a)
  BY <1>1, <1>6 DEF Sceller, Rend
<1> QED
  BY <1>3, <1>4, <1>5, <1>6 DEF Detruire

-----------------------------------------------------------------------------
(* A hold that existed at the census is respected                           *)

(* The rows an execution saw when it read the holds are still there.        *)
VusPoses == \A a \in Appels : \A h \in appels[a].vus : Pose(h)

HoldInv == VusPoses /\ HoldAnterieurRespecte

LEMMA VisesEnregistrements ==
  ASSUME TypeOK, NEW a \in Appels
  PROVE  appels[a].vus \subseteq Holds /\ appels[a].reste \subseteq Enregistrements
BY DEF TypeOK, PurgeTypeOK, Appel

(* While the requests on the holds move, no seen hold becomes active again. *)
LEMMA HoldInvHolds ==
  ASSUME TypeOK, HoldsInv, HoldInv, HoldsNext \/ UNCHANGED holdsVars, UNCHANGED appels
  PROVE  HoldInv'
<1> USE DEF HoldInv
<1>1. ASSUME NEW h \in Holds, Pose(h)
      PROVE  /\ Pose(h)' /\ holds'[h].rec = holds[h].rec
             /\ Actif(h)' => Actif(h)
  <2>1. CASE HoldsNext
    BY <1>1, <2>1, HoldsStables DEF TypeOK, HoldsInv, Pose, Actif
  <2>2. CASE UNCHANGED holdsVars
    BY <1>1, <2>2 DEF holdsVars, Pose, Actif
  <2> QED
    BY <2>1, <2>2
<1>2. VusPoses'
  BY <1>1, VisesEnregistrements DEF VusPoses
<1>3. ASSUME NEW a \in Appels, EnDestruction(a)', NEW r \in Vises(a)',
             NEW h \in ActifsSur(r)' \cap appels'[a].vus
      PROVE  FALSE
  <2>1. EnDestruction(a) /\ r \in Vises(a) /\ h \in appels[a].vus
    BY <1>3 DEF EnDestruction, Vises
  <2>2. h \in Holds /\ Pose(h)
    BY <2>1, VisesEnregistrements DEF VusPoses
  <2>3. h \in ActifsSur(r)
    BY <1>1, <1>3, <2>2 DEF ActifsSur
  <2> QED
    BY <2>1, <2>3 DEF HoldAnterieurRespecte
<1> QED
  BY <1>2, <1>3 DEF HoldAnterieurRespecte

(* A step of a purge request keeps the invariant: the loop only loses       *)
(* calls, and the census that opens it leaves the held ones out.            *)
LEMMA HoldInvAppels ==
  ASSUME TypeOK, HoldInv, NEW a \in Appels, Demander(a) \/ Detruire(a)
  PROVE  HoldInv'
<1> USE DEF HoldInv
<1>1. UNCHANGED holds
  BY DEF Demander, Detruire, holdsVars
<1>2. ASSUME NEW x, appels' = [appels EXCEPT ![a] = x]
      PROVE  appels'[a] = x
  BY <1>2 DEF TypeOK, PurgeTypeOK
<1>3. ASSUME NEW e \in Appels, EnDestruction(e)
      PROVE  \A r \in Vises(e) : ActifsSur(r) \cap appels[e].vus = {}
  BY <1>3 DEF HoldAnterieurRespecte
<1>4. ASSUME NEW h, Pose(h) PROVE Pose(h)'
  BY <1>1, <1>4 DEF Pose
<1>5. ASSUME NEW r PROVE ActifsSur(r)' = ActifsSur(r)
  BY <1>1 DEF ActifsSur, Actif, Pose
<1>6. CASE ExecuterHolds(a)
  <2>1. /\ appels'[a].pc = "boucle"
        /\ appels'[a].reste = appels[a].dus \ SousHold(appels[a].dus)
        /\ appels'[a].vus = {h \in Holds : Pose(h)}
    BY <1>2, <1>6 DEF ExecuterHolds, PasDAppel
  <2>2. \A h \in appels'[a].vus : Pose(h)'
    BY <1>4, <2>1
  <2>3. \A r \in Vises(a)' : ActifsSur(r) = {}
    BY <2>1 DEF Vises, SousHold
  <2> QED
    BY <1>3, <1>4, <1>5, <2>2, <2>3, AutresAppels
       DEF VusPoses, HoldAnterieurRespecte, EnDestruction, Vises
<1>7. CASE /\ appels'[a].pc \notin {"boucle", "statut", "ligne"}
           /\ appels'[a].vus \in {appels[a].vus, {}}
  BY <1>3, <1>4, <1>5, <1>7, AutresAppels
     DEF VusPoses, HoldAnterieurRespecte, EnDestruction, Vises
<1>8. CASE Detruire(a)
  <2>1. \/ appels'[a].pc = "repos" /\ appels'[a].vus = {}
        \/ /\ EnDestruction(a)
           /\ appels'[a].vus = appels[a].vus
           /\ Vises(a)' \subseteq Vises(a)
    BY <1>8, DetruireLocaux DEF PasDAppel
  <2> QED
    BY <1>3, <1>4, <1>5, <2>1, AutresAppels
       DEF VusPoses, HoldAnterieurRespecte, EnDestruction, Vises
<1> QED
  BY <1>6, <1>7, <1>8, DemanderLocaux

(* A hold that existed when an execution took its census keeps its call out *)
(* of that execution: for any number of holds, of requests that set or      *)
(* release them, and of executions.                                         *)
THEOREM HoldAnterieurToujoursRespecte == Spec => []HoldAnterieurRespecte
<1>1. Init => HoldInv
  BY DEF Init, PurgeInit, PasDAppel, HoldInv, VusPoses, HoldAnterieurRespecte, EnDestruction
<1>2. TypeOK /\ HoldsInv /\ HoldInv /\ [Next]_vars => HoldInv'
  <2> SUFFICES ASSUME TypeOK, HoldsInv, HoldInv, [Next]_vars PROVE HoldInv'
    OBVIOUS
  <2>1. ASSUME NEW a \in Appels, Demander(a) \/ Detruire(a) PROVE HoldInv'
    BY <2>1, HoldInvAppels
  <2>2. CASE UNCHANGED appels
    BY <2>2, HoldInvHolds, HoldsDansPurge
  <2> QED
    BY <2>1, <2>2 DEF Next, vars, purgeVars
<1>3. HoldInv => HoldAnterieurRespecte
  BY DEF HoldInv
<1> QED
  BY <1>1, <1>2, <1>3, TypeCorrect, HoldsInvInvariant, PTL DEF Spec

-----------------------------------------------------------------------------
(* The inductive invariants                                                 *)

(* Between the decision and the row, a request knows its report and call.   *)
Situe(a) ==
  LET p == appels[a] IN
  /\ p.pc \in {"exe_politiques", "exe_recenser", "exe_holds",
               "boucle", "statut", "ligne", "annuler"} =>
        p.rapport \in Rapports /\ rapports[p.rapport].statut # "aucun"
  /\ p.pc \in {"statut", "ligne"} => p.cible \in Enregistrements

Localise == \A a \in Appels : Situe(a)

(* A row that was never created lists nothing and bears no seal.            *)
Vierge ==
  \A k \in Rapports : rapports[k].statut = "aucun" =>
     ~rapports[k].scelle /\ rapports[k].lignes = HorsListe

Proposees == {"candidate", "purged", "missing"}

(* Up to its census, an execution works with the frozen periods; what it    *)
(* lists exists and is due by them.                                         *)
Recense(a) ==
  LET p == appels[a] IN
  /\ p.pc \in {"exe_politiques", "exe_recenser", "exe_holds"} =>
        p.durees = rapports[p.rapport].durees
  /\ p.pc = "exe_holds" =>
        \A r \in p.dus : statut[r] # "absente" /\ Echu(r, p.durees)

(* The calls of an accepted execution, the one whose outcome is not noted   *)
(* yet included.                                                            *)
EnCours(a) ==
  appels[a].reste \cup (IF appels[a].pc = "boucle" THEN {} ELSE {appels[a].cible})

(* What an accepted execution destroys was proposed by its report, is due   *)
(* by the periods of that report, and exists; what its report still         *)
(* proposes, it has still to destroy.                                       *)
Fondee(a) ==
  LET k == appels[a].rapport IN
  EnDestruction(a) =>
     /\ \A r \in EnCours(a) :
           /\ rapports[k].lignes[r] \in Proposees
           /\ Echu(r, rapports[k].durees)
           /\ statut[r] # "absente"
     /\ \A r \in Enregistrements : rapports[k].lignes[r] = "candidate" => r \in EnCours(a)

(* What the locals say of the call being destroyed is true of the register. *)
CibleVraie(a) ==
  LET p == appels[a] IN
  /\ p.pc \in {"statut", "ligne"} /\ p.absent = FALSE => p.cible \notin fichiers
  /\ p.pc = "ligne" => statut[p.cible] = "purged"

(* What a line says of a destroyed call is true of the register.            *)
LigneVraie(k, r) ==
  /\ rapports[k].lignes[r] \in {"purged", "missing"} => statut[r] = "purged"
  /\ rapports[k].lignes[r] = "purged" => r \notin fichiers

AppelsInv == \A a \in Appels : Recense(a) /\ Fondee(a) /\ CibleVraie(a)

LignesInv == \A k \in Rapports, r \in Enregistrements : LigneVraie(k, r)

-----------------------------------------------------------------------------
(* What no step ever undoes in the register                                 *)

LEMMA RegistreStable ==
  ASSUME TypeOK, Localise, [Next]_vars, NEW r \in Enregistrements
  PROVE  /\ statut[r] # "absente" => statut'[r] # "absente"
         /\ statut[r] = "purged" => statut'[r] = "purged"
         /\ statut[r] # "absente" /\ r \notin fichiers => r \notin fichiers'
         /\ \A durees \in Durees : Echu(r, durees) => Echu(r, durees)'
<1> USE DEF TypeOK, RegistreTypeOK
<1>1. ASSUME NEW durees \in Durees, Echu(r, durees), UNCHANGED jour
      PROVE  Echu(r, durees)'
  BY <1>1 DEF Echu, JoursPour
<1>2. CASE RegistreNext
  <2>1. \A durees \in Durees : Echu(r, durees) => Echu(r, durees)'
    BY <1>2, EchuStable
  <2> QED
    BY <1>2, <2>1 DEF RegistreNext, Ingerer, PasserUnJour
<1>3. CASE UNCHANGED registreVars
  BY <1>1, <1>3 DEF registreVars
<1>4. ASSUME NEW a \in Appels, NEW p \in Enregistrements, NEW echec \in BOOLEAN,
             Effacer(a, p, echec)
      PROVE  UNCHANGED <<statut, jour>> /\ fichiers' \subseteq fichiers
  BY <1>4 DEF Effacer
<1>5. ASSUME NEW a \in Appels, MarquerPurge(a)
      PROVE  UNCHANGED <<fichiers, jour>> /\ statut'[r] \in {statut[r], "purged"}
  BY <1>5 DEF MarquerPurge
<1> QED
  BY <1>1, <1>2, <1>3, <1>4, <1>5 DEF Next, Demander, Detruire, vars

-----------------------------------------------------------------------------
(* What a step does to a report                                             *)

LEMMA RapportStep ==
  ASSUME TypeOK, [Next]_vars, NEW k \in Rapports
  PROVE  \/ rapports'[k] = rapports[k] /\ journal'[k] = journal[k]
         \/ \E a \in Appels : Demander(a) /\ SimulerCree(a, k)
         \/ \E a \in Appels :
               /\ appels[a].rapport = k
               /\ \/ Demander(a) /\ AnnulerEcrit(a)
                  \/ Detruire(a) /\ (NoterIssue(a) \/ Sceller(a))
<1> USE DEF TypeOK, PurgeTypeOK
<1>1. ASSUME NEW j, NEW y, k # j, rapports' = [rapports EXCEPT ![j] = y]
      PROVE  rapports'[k] = rapports[k]
  BY <1>1
<1>2. ASSUME NEW a \in Appels, Demander(a)
      PROVE  \/ UNCHANGED <<rapports, journal>>
             \/ \E j \in Rapports : SimulerCree(a, j)
             \/ AnnulerEcrit(a)
  BY <1>2
     DEF Demander, SimulerPolitiques, Recenser, SimulerHolds, ExecuterPolitiques,
         RefuserPolitiques, ExecuterHolds, RefuserEmpreinte, AppelRompu, ExecuterLit, AnnulerLit
<1>3. ASSUME NEW a \in Appels, Detruire(a)
      PROVE  UNCHANGED <<rapports, journal>> \/ NoterIssue(a) \/ Sceller(a)
  BY <1>3 DEF Detruire, Effacer, MarquerPurge
<1>4. ASSUME NEW a \in Appels, NEW j \in Rapports \ {k}, SimulerCree(a, j)
      PROVE  rapports'[k] = rapports[k] /\ journal'[k] = journal[k]
  BY <1>1, <1>4 DEF SimulerCree
<1>5. ASSUME NEW a \in Appels, appels[a].rapport # k,
             AnnulerEcrit(a) \/ NoterIssue(a) \/ Sceller(a)
      PROVE  rapports'[k] = rapports[k] /\ journal'[k] = journal[k]
  BY <1>1, <1>5 DEF AnnulerEcrit, NoterIssue, Sceller
<1>6. CASE UNCHANGED purgeVars
  BY <1>6 DEF purgeVars
<1> QED
  BY <1>2, <1>3, <1>4, <1>5, <1>6 DEF Next, vars

LEMMA SimulerCreeRapport ==
  ASSUME TypeOK, NEW a \in Appels, NEW k \in Rapports, SimulerCree(a, k)
  PROVE  /\ rapports[k].statut = "aucun"
         /\ rapports'[k].statut = "simulated"
         /\ rapports'[k].scelle = FALSE
         /\ rapports'[k].lignes = ListeDe(appels[a].dus, appels[a].dus \ appels[a].reste)
         /\ journal'[k] = journal[k]
BY DEF TypeOK, PurgeTypeOK, SimulerCree, PasDeRapport

LEMMA AnnulerEcritRapport ==
  ASSUME TypeOK, NEW a \in Appels, NEW k \in Rapports, appels[a].rapport = k, AnnulerEcrit(a)
  PROVE  /\ rapports'[k].statut = "cancelled"
         /\ rapports'[k].scelle = rapports[k].scelle
         /\ rapports'[k].lignes = rapports[k].lignes
         /\ rapports'[k].durees = rapports[k].durees
         /\ rapports'[k].certificat = rapports[k].certificat
         /\ journal'[k] = journal[k]
         /\ appels[a].pc = "annuler"
BY DEF TypeOK, PurgeTypeOK, AnnulerEcrit, Rapport

LEMMA NoterIssueRapport ==
  ASSUME TypeOK, NEW a \in Appels, NEW k \in Rapports, appels[a].rapport = k, NoterIssue(a)
  PROVE  /\ rapports'[k].statut = rapports[k].statut
         /\ rapports'[k].scelle = rapports[k].scelle
         /\ rapports'[k].durees = rapports[k].durees
         /\ rapports'[k].certificat = rapports[k].certificat
         /\ journal'[k] = journal[k]
         /\ appels[a].pc = "ligne"
         /\ \A r \in Enregistrements :
               rapports'[k].lignes[r] =
                  IF r # appels[a].cible THEN rapports[k].lignes[r]
                  ELSE IF appels[a].absent THEN "missing" ELSE "purged"
<1> DEFINE i == IF appels[a].absent THEN "missing" ELSE "purged"
<1>1. rapports' = [rapports EXCEPT ![k].lignes[appels[a].cible] = i] /\ UNCHANGED journal
  BY DEF NoterIssue
<1>2. rapports[k] \in Rapport
  BY DEF TypeOK, PurgeTypeOK
<1> HIDE DEF i
<1>3. rapports'[k] = [rapports[k] EXCEPT !.lignes[appels[a].cible] = i]
  BY <1>1 DEF TypeOK, PurgeTypeOK
<1>4. \A r \in Enregistrements :
        rapports'[k].lignes[r] = IF r # appels[a].cible THEN rapports[k].lignes[r] ELSE i
  BY <1>2, <1>3 DEF Rapport, Lignes
<1> QED
  BY <1>1, <1>2, <1>3, <1>4 DEF NoterIssue, Rapport, i

LEMMA ScellerRapport ==
  ASSUME TypeOK, NEW a \in Appels, NEW k \in Rapports, appels[a].rapport = k, Sceller(a)
  PROVE  /\ rapports'[k].statut = "executed"
         /\ rapports'[k].scelle
         /\ rapports'[k].lignes = rapports[k].lignes
         /\ rapports'[k].durees = rapports[k].durees
         /\ rapports'[k].certificat = CertificatDe(k)
         /\ journal'[k] = journal[k] + 1
         /\ appels[a].pc = "boucle" /\ appels[a].reste = {}
BY DEF TypeOK, PurgeTypeOK, Sceller, Rapport

-----------------------------------------------------------------------------
(* What a step does to the locals that name a report or a call              *)

LEMMA DemanderSuite ==
  ASSUME TypeOK, NEW a \in Appels, Demander(a)
  PROVE  \/ appels'[a].pc \in {"repos", "sim_recenser", "sim_holds", "sim_creer"}
         \/ \E k \in Rapports :
               /\ rapports[k].statut = "simulated"
               /\ appels'[a].rapport = k
               /\ \/ appels'[a].pc = "annuler"
                  \/ /\ appels'[a].pc = "exe_politiques"
                     /\ appels'[a].durees = rapports[k].durees
         \/ /\ appels[a].pc = "exe_politiques"
            /\ appels'[a].pc = "exe_recenser"
            /\ appels'[a].rapport = appels[a].rapport
            /\ appels'[a].durees = appels[a].durees
         \/ /\ appels[a].pc = "exe_recenser"
            /\ appels'[a].pc = "exe_holds"
            /\ appels'[a].rapport = appels[a].rapport
            /\ appels'[a].durees = appels[a].durees
            /\ appels'[a].dus = Dus(appels[a].durees)
         \/ /\ appels[a].pc = "exe_holds"
            /\ Concorde(a)
            /\ appels'[a].pc = "boucle"
            /\ appels'[a].rapport = appels[a].rapport
            /\ appels'[a].reste = appels[a].dus \ SousHold(appels[a].dus)
<1> USE DEF TypeOK, PurgeTypeOK
<1>1. ASSUME NEW x, appels' = [appels EXCEPT ![a] = x]
      PROVE  appels'[a] = x
  BY <1>1
<1>2. appels[a] \in Appel
  OBVIOUS
<1>3. Rend(a) => appels'[a].pc = "repos"
  BY <1>1 DEF Rend, PasDAppel
<1>4. CASE Recenser(a, "sim_recenser", "sim_holds")
  BY <1>1, <1>2, <1>4 DEF Recenser, Appel
<1>5. CASE Recenser(a, "exe_recenser", "exe_holds")
  BY <1>1, <1>2, <1>5 DEF Recenser, Appel
<1>6. CASE SimulerHolds(a) \/ SimulerPolitiques(a)
  BY <1>1, <1>2, <1>6 DEF SimulerHolds, SimulerPolitiques, PasDAppel, Appel
<1>7. CASE ExecuterPolitiques(a)
  BY <1>1, <1>2, <1>7 DEF ExecuterPolitiques, Avance, Appel
<1>8. CASE ExecuterHolds(a)
  BY <1>1, <1>8 DEF ExecuterHolds, PasDAppel
<1>9. ASSUME NEW k \in Rapports, ExecuterLit(a, k)
      PROVE  /\ rapports[k].statut = "simulated"
             /\ appels'[a].rapport = k
             /\ appels'[a].pc = "exe_politiques"
             /\ appels'[a].durees = rapports[k].durees
  BY <1>1, <1>9 DEF ExecuterLit, PasDAppel
<1>10. ASSUME NEW k \in Rapports, AnnulerLit(a, k)
       PROVE  /\ rapports[k].statut = "simulated"
              /\ appels'[a].rapport = k
              /\ appels'[a].pc = "annuler"
  BY <1>1, <1>10 DEF AnnulerLit, PasDAppel
<1>11. CASE RefuserPolitiques(a) \/ RefuserEmpreinte(a) \/ AnnulerEcrit(a) \/ AppelRompu(a)
            \/ \E k \in Rapports : SimulerCree(a, k)
  BY <1>3, <1>11 DEF RefuserPolitiques, RefuserEmpreinte, AnnulerEcrit, AppelRompu, SimulerCree
<1> QED
  BY <1>4, <1>5, <1>6, <1>7, <1>8, <1>9, <1>10, <1>11 DEF Demander

LEMMA DetruireSuite ==
  ASSUME TypeOK, NEW a \in Appels, Detruire(a)
  PROVE  \/ Sceller(a) /\ appels'[a].pc = "repos" /\ UNCHANGED registreVars
         \/ \E r \in appels[a].reste :
               /\ appels[a].pc = "boucle"
               /\ appels'[a].pc = "statut"
               /\ appels'[a].rapport = appels[a].rapport
               /\ appels'[a].reste = appels[a].reste \ {r}
               /\ appels'[a].cible = r
               /\ appels'[a].absent = FALSE => r \notin fichiers'
               /\ UNCHANGED <<rapports, journal, statut, jour>>
         \/ /\ appels[a].pc = "statut"
            /\ appels'[a].pc = "ligne"
            /\ appels'[a].rapport = appels[a].rapport
            /\ appels'[a].reste = appels[a].reste
            /\ appels'[a].cible = appels[a].cible
            /\ appels'[a].absent = appels[a].absent
            /\ statut' = [statut EXCEPT ![appels[a].cible] = "purged"]
            /\ UNCHANGED <<rapports, journal, fichiers, jour>>
         \/ /\ NoterIssue(a)
            /\ appels[a].pc = "ligne"
            /\ appels'[a].pc = "boucle"
            /\ appels'[a].rapport = appels[a].rapport
            /\ appels'[a].reste = appels[a].reste
            /\ UNCHANGED registreVars
<1> USE DEF TypeOK, PurgeTypeOK
<1>1. ASSUME NEW x, appels' = [appels EXCEPT ![a] = x]
      PROVE  appels'[a] = x
  BY <1>1
<1>2. appels[a] \in Appel
  OBVIOUS
<1>3. ASSUME NEW r \in Enregistrements, NEW echec \in BOOLEAN, Effacer(a, r, echec)
      PROVE  /\ appels[a].pc = "boucle" /\ r \in appels[a].reste
             /\ appels'[a].pc = "statut" /\ appels'[a].cible = r
             /\ appels'[a].rapport = appels[a].rapport
             /\ appels'[a].reste = appels[a].reste \ {r}
             /\ appels'[a].absent = FALSE => r \notin fichiers'
             /\ UNCHANGED <<rapports, journal, statut, jour>>
  <2>1. appels'[a].absent = FichierAbsent(r, echec)
    BY <1>1, <1>2, <1>3 DEF Effacer, Appel
  <2>2. FichierAbsent(r, echec) \/ r \notin fichiers'
    BY <1>3 DEF Effacer, FichierAbsent
  <2>3. /\ appels'[a].pc = "statut" /\ appels'[a].cible = r
        /\ appels'[a].rapport = appels[a].rapport
        /\ appels'[a].reste = appels[a].reste \ {r}
    BY <1>1, <1>2, <1>3 DEF Effacer, Appel
  <2>4. appels'[a].absent = FALSE => r \notin fichiers'
    BY <2>1, <2>2
  <2> QED
    BY <1>3, <2>3, <2>4 DEF Effacer
<1>4. CASE MarquerPurge(a)
  BY <1>1, <1>2, <1>4 DEF MarquerPurge, Avance, Appel
<1>5. CASE NoterIssue(a) /\ UNCHANGED registreVars
  BY <1>1, <1>2, <1>5 DEF NoterIssue, Appel
<1>6. CASE Sceller(a) /\ UNCHANGED registreVars
  BY <1>1, <1>6 DEF Sceller, Rend, PasDAppel
<1> QED
  BY <1>3, <1>4, <1>5, <1>6 DEF Detruire

-----------------------------------------------------------------------------
(* A report that exists keeps its periods, and its lines only move towards  *)
(* an outcome; its seal and the journal move together.                      *)

LEMMA RapportEcrit ==
  ASSUME TypeOK, [Next]_vars, NEW k \in Rapports, rapports[k].statut # "aucun"
  PROVE  /\ rapports'[k].statut # "aucun"
         /\ rapports'[k].durees = rapports[k].durees
         /\ \A r \in Enregistrements :
               rapports'[k].lignes[r] \in {rapports[k].lignes[r], "purged", "missing"}
<1>1. ASSUME NEW a \in Appels, SimulerCree(a, k) PROVE FALSE
  BY <1>1, SimulerCreeRapport
<1>2. ASSUME NEW a \in Appels, appels[a].rapport = k, NoterIssue(a)
      PROVE  /\ rapports'[k].statut = rapports[k].statut
             /\ rapports'[k].durees = rapports[k].durees
             /\ \A r \in Enregistrements :
                   rapports'[k].lignes[r] \in {rapports[k].lignes[r], "purged", "missing"}
  BY <1>2, NoterIssueRapport
<1>3. ASSUME NEW a \in Appels, appels[a].rapport = k, AnnulerEcrit(a) \/ Sceller(a)
      PROVE  /\ rapports'[k].statut \in {"cancelled", "executed"}
             /\ rapports'[k].durees = rapports[k].durees
             /\ rapports'[k].lignes = rapports[k].lignes
  BY <1>3, AnnulerEcritRapport, ScellerRapport
<1> QED
  BY <1>1, <1>2, <1>3, RapportStep

LEMMA LocaliseStep ==
  ASSUME TypeOK, Localise, [Next]_vars
  PROVE  Localise'
<1> SUFFICES ASSUME NEW e \in Appels PROVE Situe(e)'
  BY DEF Localise
<1>1. \A k \in Rapports : rapports[k].statut # "aucun" => rapports'[k].statut # "aucun"
  BY RapportEcrit
<1>2. Situe(e)
  BY DEF Localise
<1>3. CASE appels'[e] = appels[e]
  BY <1>1, <1>2, <1>3 DEF Situe
<1>4. CASE Demander(e)
  BY <1>1, <1>2, <1>4, DemanderSuite DEF Situe
<1>5. CASE Detruire(e)
  BY <1>1, <1>2, <1>5, DetruireSuite, VisesEnregistrements DEF Situe
<1> QED
  BY <1>3, <1>4, <1>5, AutresAppels DEF Next, vars, purgeVars

SceauInv == Vierge /\ CertificatAuJournal

LEMMA SceauInvStep ==
  ASSUME TypeOK, Localise, SceauInv, [Next]_vars
  PROVE  SceauInv'
<1> USE DEF SceauInv
<1> SUFFICES ASSUME NEW k \in Rapports
             PROVE  /\ rapports'[k].statut = "aucun" =>
                         ~rapports'[k].scelle /\ rapports'[k].lignes = HorsListe
                    /\ rapports'[k].scelle <=> journal'[k] > 0
                    /\ rapports'[k].statut = "executed" => rapports'[k].scelle
  BY DEF Vierge, CertificatAuJournal
<1>0. journal[k] \in Nat
  BY DEF TypeOK, PurgeTypeOK
<1>1. CASE rapports'[k] = rapports[k] /\ journal'[k] = journal[k]
  BY <1>1 DEF Vierge, CertificatAuJournal
<1>2. ASSUME NEW a \in Appels, SimulerCree(a, k)
      PROVE  /\ rapports'[k].statut \notin {"aucun", "executed"}
             /\ ~rapports'[k].scelle /\ ~(journal'[k] > 0)
  BY <1>2, SimulerCreeRapport DEF Vierge, CertificatAuJournal
<1>3. ASSUME NEW a \in Appels, appels[a].rapport = k, AnnulerEcrit(a)
      PROVE  /\ rapports'[k].statut \notin {"aucun", "executed"}
             /\ rapports'[k].scelle <=> journal'[k] > 0
  BY <1>3, AnnulerEcritRapport DEF CertificatAuJournal
<1>4. ASSUME NEW a \in Appels, appels[a].rapport = k, NoterIssue(a)
      PROVE  /\ rapports'[k].statut # "aucun"
             /\ rapports'[k].scelle <=> journal'[k] > 0
             /\ rapports'[k].statut = "executed" => rapports'[k].scelle
  <2>1. rapports[k].statut # "aucun"
    BY <1>4, NoterIssueRapport DEF Localise, Situe
  <2> QED
    BY <1>4, <2>1, NoterIssueRapport DEF CertificatAuJournal
<1>5. ASSUME NEW a \in Appels, appels[a].rapport = k, Sceller(a)
      PROVE  /\ rapports'[k].statut # "aucun"
             /\ rapports'[k].scelle /\ journal'[k] > 0
  BY <1>0, <1>5, ScellerRapport
<1> QED
  BY <1>1, <1>2, <1>3, <1>4, <1>5, RapportStep

(* A report is sealed exactly when the journal says it was executed.        *)
THEOREM CertificatToujoursAuJournal == Spec => []CertificatAuJournal
<1>1. Init => Localise /\ SceauInv
  BY DEF Init, PurgeInit, PasDAppel, PasDeRapport, Localise, Situe, SceauInv, Vierge, CertificatAuJournal
<1>2. TypeOK /\ Localise /\ SceauInv /\ [Next]_vars => Localise' /\ SceauInv'
  BY LocaliseStep, SceauInvStep
<1>3. SceauInv => CertificatAuJournal
  BY DEF SceauInv
<1> QED
  BY <1>1, <1>2, <1>3, TypeCorrect, PTL DEF Spec

-----------------------------------------------------------------------------
(* The loop destroys what its report proposed                               *)

LEMMA DureesRapport ==
  ASSUME TypeOK, NEW k \in Rapports
  PROVE  rapports[k].durees \in Durees /\ rapports[k].lignes \in Lignes
BY DEF TypeOK, PurgeTypeOK, Rapport

(* The calls in hand are calls, and their report is written.                *)
LEMMA EnCoursType ==
  ASSUME TypeOK, Localise, NEW a \in Appels, EnDestruction(a)
  PROVE  /\ EnCours(a) \subseteq Enregistrements
         /\ appels[a].rapport \in Rapports
         /\ rapports[appels[a].rapport].statut # "aucun"
BY VisesEnregistrements DEF Localise, Situe, EnDestruction, EnCours

(* The same fingerprint means the same proposed calls.                      *)
LEMMA EmpreinteDistingue ==
  ASSUME NEW lignes \in Lignes, NEW dus, NEW retenus,
         Empreinte(ListeDe(dus, retenus)) = Empreinte(lignes), NEW r \in Enregistrements
  PROVE  lignes[r] \in Proposees <=> r \in dus \ retenus
<1>1. Empreinte(ListeDe(dus, retenus))[r] = Empreinte(lignes)[r]
  OBVIOUS
<1> QED
  BY <1>1 DEF Empreinte, ListeDe, Lignes, Issues, Proposees

(* What was due by some periods is due by the same ones, named otherwise.   *)
LEMMA EchuSuivi ==
  ASSUME TypeOK, Localise, [Next]_vars, NEW r \in Enregistrements, NEW durees \in Durees,
         Echu(r, durees)
  PROVE  Debut[r] + JoursPour(r, durees) < jour'
BY RegistreStable DEF Echu, JoursPour

LEMMA RecenseStep ==
  ASSUME TypeOK, Localise, AppelsInv, [Next]_vars, NEW e \in Appels
  PROVE  Recense(e)'
<1>1. Situe(e) /\ Recense(e) /\ appels[e] \in Appel
  BY DEF Localise, AppelsInv, TypeOK, PurgeTypeOK
<1>2. \A k \in Rapports : rapports[k].statut # "aucun" =>
         rapports'[k].durees = rapports[k].durees
  BY RapportEcrit
<1>3. CASE appels'[e] = appels[e]
  <2>1. appels[e].durees \in Durees /\ appels[e].dus \subseteq Enregistrements
    BY <1>1 DEF Appel
  <2>2. ASSUME appels[e].pc = "exe_holds", NEW r \in appels[e].dus
        PROVE  statut'[r] # "absente" /\ Debut[r] + JoursPour(r, appels[e].durees) < jour'
    BY <1>1, <2>1, <2>2, RegistreStable, EchuSuivi DEF Recense
  <2>3. ASSUME appels'[e].pc = "exe_holds", NEW r \in appels'[e].dus
        PROVE  statut'[r] # "absente" /\ Echu(r, appels[e].durees)'
    BY <1>3, <2>2, <2>3 DEF Echu, JoursPour
  <2> QED
    BY <1>1, <1>2, <1>3, <2>3 DEF Recense, Situe
<1>4. CASE Demander(e)
  <2>1. UNCHANGED <<statut, jour>>
    BY <1>4 DEF Demander, registreVars
  <2>2. ASSUME appels'[e].dus = Dus(appels[e].durees), appels'[e].durees = appels[e].durees,
               NEW r \in appels'[e].dus
        PROVE  statut'[r] # "absente" /\ Echu(r, appels[e].durees)'
    BY <2>1, <2>2 DEF Dus, Echu, JoursPour
  <2>3. ASSUME NEW k \in Rapports, rapports[k].statut = "simulated"
        PROVE  rapports'[k].durees = rapports[k].durees
    BY <1>2, <2>3
  <2> QED
    BY <1>1, <1>2, <1>4, <2>2, <2>3, DemanderSuite DEF Recense, Situe
<1>5. CASE Detruire(e)
  BY <1>5, DetruireSuite DEF Recense
<1> QED
  BY <1>3, <1>4, <1>5, AutresAppels DEF Next, vars, purgeVars

(* A call in hand stays proposed, due and existing, whatever the step.      *)
LEMMA EnCoursStable ==
  ASSUME TypeOK, Localise, [Next]_vars, NEW k \in Rapports, rapports[k].statut # "aucun",
         NEW r \in Enregistrements, rapports[k].lignes[r] \in Proposees,
         Echu(r, rapports[k].durees), statut[r] # "absente"
  PROVE  /\ rapports'[k].lignes[r] \in Proposees
         /\ Echu(r, rapports[k].durees)'
         /\ statut'[r] # "absente"
<1>1. rapports'[k].durees = rapports[k].durees
  BY RapportEcrit
<1>2. rapports'[k].lignes[r] \in Proposees
  BY RapportEcrit DEF Proposees
<1>3. Debut[r] + JoursPour(r, rapports[k].durees) < jour'
  BY DureesRapport, EchuSuivi
<1>4. Echu(r, rapports[k].durees)'
  BY <1>1, <1>3 DEF Echu, JoursPour
<1> QED
  BY <1>2, <1>4, RegistreStable

(* A request already in its loop keeps its calls but those whose outcome is *)
(* noted by this very step.                                                 *)
LEMMA FondeeSuite ==
  ASSUME TypeOK, Localise, AppelsInv, [Next]_vars, NEW e \in Appels,
         EnDestruction(e), appels'[e].rapport = appels[e].rapport,
         EnCours(e)' \subseteq EnCours(e),
         \A r \in EnCours(e) \ EnCours(e)' :
            rapports'[appels[e].rapport].lignes[r] # "candidate"
  PROVE  Fondee(e)'
<1>1. PICK k \in Rapports : k = appels[e].rapport /\ rapports[k].statut # "aucun"
  BY EnCoursType
<1>2. ASSUME NEW r \in EnCours(e)
      PROVE  /\ rapports'[k].lignes[r] \in Proposees
             /\ Echu(r, rapports[k].durees)'
             /\ statut'[r] # "absente"
  <2>1. /\ rapports[k].lignes[r] \in Proposees
        /\ Echu(r, rapports[k].durees)
        /\ statut[r] # "absente"
    BY <1>1, <1>2 DEF AppelsInv, Fondee
  <2>2. r \in Enregistrements
    BY <1>2, EnCoursType
  <2> QED
    BY <1>1, <2>1, <2>2, EnCoursStable
<1>3. ASSUME NEW r \in Enregistrements, rapports'[k].lignes[r] = "candidate"
      PROVE  r \in EnCours(e)'
  <2>1. rapports[k].lignes[r] = "candidate"
    BY <1>1, <1>3, RapportEcrit
  <2>2. r \in EnCours(e)
    BY <1>1, <1>3, <2>1 DEF AppelsInv, Fondee
  <2> QED
    BY <1>1, <1>3, <2>2
<1>4. \A r \in EnCours(e)' :
         /\ rapports'[k].lignes[r] \in Proposees
         /\ Echu(r, rapports[k].durees)'
         /\ statut'[r] # "absente"
  BY <1>2
<1> QED
  BY <1>1, <1>3, <1>4 DEF Fondee, Echu, JoursPour

(* The census that opens the loop: the fingerprint ties the calls in hand   *)
(* to the lines of the report.                                              *)
LEMMA FondeeCensus ==
  ASSUME TypeOK, Localise, AppelsInv, [Next]_vars, NEW e \in Appels,
         appels[e].pc = "exe_holds", Concorde(e), appels'[e].pc = "boucle",
         appels'[e].rapport = appels[e].rapport,
         appels'[e].reste = appels[e].dus \ SousHold(appels[e].dus)
  PROVE  Fondee(e)'
<1>1. PICK k \in Rapports : k = appels[e].rapport /\ rapports[k].statut # "aucun"
  BY DEF Localise, Situe
<1>2. EnCours(e)' = appels[e].dus \ SousHold(appels[e].dus)
  BY DEF EnCours
<1>3. ASSUME NEW r \in Enregistrements
      PROVE  rapports[k].lignes[r] \in Proposees <=> r \in EnCours(e)'
  BY <1>1, <1>2, EmpreinteDistingue, DureesRapport DEF Concorde
<1>4. ASSUME NEW r \in EnCours(e)'
      PROVE  /\ rapports'[k].lignes[r] \in Proposees
             /\ Echu(r, rapports[k].durees)'
             /\ statut'[r] # "absente"
  <2>1. r \in Enregistrements /\ r \in appels[e].dus
    BY <1>2, <1>4 DEF TypeOK, PurgeTypeOK, Appel
  <2>2. statut[r] # "absente" /\ Echu(r, rapports[k].durees)
    BY <1>1, <2>1 DEF AppelsInv, Recense
  <2> QED
    BY <1>1, <1>3, <1>4, <2>1, <2>2, EnCoursStable
<1>5. ASSUME NEW r \in Enregistrements, rapports'[k].lignes[r] = "candidate"
      PROVE  r \in EnCours(e)'
  <2>1. rapports[k].lignes[r] = "candidate"
    BY <1>1, <1>5, RapportEcrit
  <2> QED
    BY <1>3, <2>1 DEF Proposees
<1> QED
  BY <1>1, <1>4, <1>5 DEF Fondee, Echu, JoursPour

LEMMA FondeeStep ==
  ASSUME TypeOK, Localise, AppelsInv, [Next]_vars, NEW e \in Appels
  PROVE  Fondee(e)'
<1> SUFFICES ASSUME EnDestruction(e)' PROVE Fondee(e)'
  BY DEF Fondee
<1>1. CASE appels'[e] = appels[e]
  <2>1. EnDestruction(e) /\ EnCours(e)' = EnCours(e)
    BY <1>1 DEF EnDestruction, EnCours
  <2> QED
    BY <1>1, <2>1, FondeeSuite
<1>2. CASE Demander(e)
  BY <1>2, DemanderSuite, FondeeCensus DEF EnDestruction
<1>3. CASE Detruire(e)
  <2>1. CASE NoterIssue(e) /\ appels[e].pc = "ligne" /\ appels'[e].pc = "boucle"
             /\ appels'[e].rapport = appels[e].rapport /\ appels'[e].reste = appels[e].reste
    <3>1. /\ EnDestruction(e) /\ EnCours(e)' \subseteq EnCours(e)
          /\ EnCours(e) \ EnCours(e)' \subseteq {appels[e].cible}
      BY <2>1 DEF EnDestruction, EnCours
    <3>2. appels[e].cible \in Enregistrements /\ appels[e].rapport \in Rapports
      BY <2>1 DEF Localise, Situe
    <3>3. rapports'[appels[e].rapport].lignes[appels[e].cible] # "candidate"
      BY <2>1, <3>2, NoterIssueRapport
    <3> QED
      BY <2>1, <3>1, <3>3, FondeeSuite
  <2>2. CASE \E r \in appels[e].reste :
               /\ appels[e].pc = "boucle"
               /\ appels'[e].pc = "statut"
               /\ appels'[e].rapport = appels[e].rapport
               /\ appels'[e].reste = appels[e].reste \ {r}
               /\ appels'[e].cible = r
    <3>1. EnDestruction(e) /\ EnCours(e)' = EnCours(e)
      BY <2>2 DEF EnDestruction, EnCours
    <3> QED
      BY <2>2, <3>1, FondeeSuite
  <2>3. CASE /\ appels[e].pc = "statut"
             /\ appels'[e].pc = "ligne"
             /\ appels'[e].rapport = appels[e].rapport
             /\ appels'[e].reste = appels[e].reste
             /\ appels'[e].cible = appels[e].cible
    <3>1. EnDestruction(e) /\ EnCours(e)' = EnCours(e)
      BY <2>3 DEF EnDestruction, EnCours
    <3> QED
      BY <2>3, <3>1, FondeeSuite
  <2> QED
    BY <1>3, <2>1, <2>2, <2>3, DetruireSuite DEF EnDestruction
<1> QED
  BY <1>1, <1>2, <1>3, AutresAppels DEF Next, vars, purgeVars

LEMMA CibleVraieStep ==
  ASSUME TypeOK, Localise, AppelsInv, [Next]_vars, NEW e \in Appels
  PROVE  CibleVraie(e)'
<1>1. CibleVraie(e)
  BY DEF AppelsInv
<1>2. ASSUME appels[e].pc \in {"statut", "ligne"}
      PROVE  appels[e].cible \in Enregistrements /\ statut[appels[e].cible] # "absente"
  <2>1. EnDestruction(e) /\ appels[e].cible \in EnCours(e)
    BY <1>2 DEF EnDestruction, EnCours
  <2> QED
    BY <1>2, <2>1 DEF AppelsInv, Fondee, Localise, Situe
<1>3. CASE appels'[e] = appels[e]
  <2>1. ASSUME appels[e].pc \in {"statut", "ligne"}
        PROVE  /\ appels[e].cible \notin fichiers => appels[e].cible \notin fichiers'
               /\ statut[appels[e].cible] = "purged" => statut'[appels[e].cible] = "purged"
    BY <1>2, <2>1, RegistreStable
  <2> QED
    BY <1>1, <1>3, <2>1 DEF CibleVraie
<1>4. CASE Demander(e)
  BY <1>4, DemanderSuite DEF CibleVraie
<1>5. CASE Detruire(e)
  <2>1. ASSUME appels[e].pc = "statut", statut' = [statut EXCEPT ![appels[e].cible] = "purged"]
        PROVE  statut'[appels[e].cible] = "purged"
    BY <1>2, <2>1 DEF TypeOK, RegistreTypeOK
  <2>2. CASE appels'[e].pc \in {"repos", "boucle"}
    BY <2>2 DEF CibleVraie
  <2>3. CASE appels'[e].pc = "statut" /\ (appels'[e].absent = FALSE => appels'[e].cible \notin fichiers')
    BY <2>3 DEF CibleVraie
  <2>4. CASE /\ appels[e].pc = "statut"
             /\ appels'[e].pc = "ligne"
             /\ appels'[e].cible = appels[e].cible
             /\ appels'[e].absent = appels[e].absent
             /\ statut' = [statut EXCEPT ![appels[e].cible] = "purged"]
             /\ UNCHANGED fichiers
    BY <1>1, <2>1, <2>4 DEF CibleVraie
  <2> QED
    BY <1>5, <2>2, <2>3, <2>4, DetruireSuite
<1> QED
  BY <1>3, <1>4, <1>5, AutresAppels DEF Next, vars, purgeVars

LEMMA AppelsInvStep ==
  ASSUME TypeOK, Localise, AppelsInv, [Next]_vars
  PROVE  AppelsInv'
BY RecenseStep, FondeeStep, CibleVraieStep DEF AppelsInv

LEMMA LignesInvStep ==
  ASSUME TypeOK, Localise, AppelsInv, LignesInv, [Next]_vars
  PROVE  LignesInv'
<1> SUFFICES ASSUME NEW k \in Rapports, NEW r \in Enregistrements
             PROVE  LigneVraie(k, r)'
  BY DEF LignesInv
<1>1. /\ statut[r] = "purged" => statut'[r] = "purged"
      /\ statut[r] = "purged" /\ r \notin fichiers => r \notin fichiers'
  BY RegistreStable
<1>2. ASSUME rapports'[k].lignes[r] = rapports[k].lignes[r]
      PROVE  LigneVraie(k, r)'
  BY <1>1, <1>2 DEF LignesInv, LigneVraie
<1>3. ASSUME NEW a \in Appels, SimulerCree(a, k)
      PROVE  LigneVraie(k, r)'
  <2>1. rapports'[k].lignes = ListeDe(appels[a].dus, appels[a].dus \ appels[a].reste)
    BY <1>3, SimulerCreeRapport
  <2>2. rapports'[k].lignes[r] \in {"hors", "blocked", "candidate"}
    BY <2>1 DEF ListeDe
  <2> QED
    BY <2>2 DEF LigneVraie
<1>4. ASSUME NEW a \in Appels, appels[a].rapport = k, NoterIssue(a)
      PROVE  LigneVraie(k, r)'
  <2>1. appels[a].pc = "ligne" /\ CibleVraie(a)
    BY <1>4, NoterIssueRapport DEF AppelsInv
  <2>2. CASE r # appels[a].cible
    BY <1>2, <1>4, <2>2, NoterIssueRapport
  <2>3. CASE r = appels[a].cible
    <3>1. rapports'[k].lignes[r] = IF appels[a].absent THEN "missing" ELSE "purged"
      BY <1>4, <2>3, NoterIssueRapport
    <3>2. appels[a].absent \in BOOLEAN
      BY DEF TypeOK, PurgeTypeOK, Appel
    <3>3. statut[r] = "purged" /\ (appels[a].absent = FALSE => r \notin fichiers)
      BY <2>1, <2>3 DEF CibleVraie
    <3> QED
      BY <1>1, <3>1, <3>2, <3>3 DEF LigneVraie
  <2> QED
    BY <2>2, <2>3
<1>5. ASSUME NEW a \in Appels, appels[a].rapport = k, AnnulerEcrit(a) \/ Sceller(a)
      PROVE  LigneVraie(k, r)'
  BY <1>2, <1>5, AnnulerEcritRapport, ScellerRapport
<1> QED
  BY <1>2, <1>3, <1>4, <1>5, RapportStep

-----------------------------------------------------------------------------
(* No destruction without a report that proposed it                         *)

FondeInv == Vierge /\ AppelsInv /\ LignesInv /\ DestructionFondee /\ CertificatComplet

LEMMA DestructionFondeeStep ==
  ASSUME TypeOK, Localise, FondeInv, [Next]_vars
  PROVE  DestructionFondee'
<1> USE DEF FondeInv
<1> DEFINE Fonde(r) ==
      \E k \in Rapports : rapports[k].lignes[r] \in Proposees /\ Echu(r, rapports[k].durees)
<1>1. SUFFICES ASSUME NEW r \in Enregistrements, Detruit(r)' PROVE Fonde(r)'
  BY DEF DestructionFondee, Proposees
<1>2. ASSUME NEW k \in Rapports, rapports[k].statut # "aucun", statut[r] # "absente",
             rapports[k].lignes[r] \in Proposees, Echu(r, rapports[k].durees)
      PROVE  Fonde(r)'
  BY <1>2, EnCoursStable
<1>3. CASE Detruit(r)
  <2>1. PICK k \in Rapports :
          rapports[k].lignes[r] \in Proposees /\ Echu(r, rapports[k].durees)
    BY <1>3 DEF DestructionFondee, Proposees
  <2>2. rapports[k].statut # "aucun"
    BY <2>1 DEF Vierge, HorsListe, Proposees
  <2>3. statut[r] # "absente"
    BY <1>3 DEF Detruit
  <2> QED
    BY <1>2, <2>1, <2>2, <2>3
<1>4. ASSUME NEW a \in Appels, EnDestruction(a), r \in EnCours(a)
      PROVE  Fonde(r)'
  <2>1. /\ appels[a].rapport \in Rapports
        /\ rapports[appels[a].rapport].statut # "aucun"
    BY <1>4, EnCoursType
  <2>2. /\ rapports[appels[a].rapport].lignes[r] \in Proposees
        /\ Echu(r, rapports[appels[a].rapport].durees)
        /\ statut[r] # "absente"
    BY <1>4 DEF AppelsInv, Fondee
  <2> QED
    BY <1>2, <2>1, <2>2
<1>5. ASSUME ~Detruit(r), NEW a \in Appels, Detruire(a)
      PROVE  EnDestruction(a) /\ r \in EnCours(a)
  <2>1. ASSUME NEW p \in Enregistrements, NEW echec \in BOOLEAN, Effacer(a, p, echec)
        PROVE  p = r /\ appels[a].pc = "boucle" /\ r \in appels[a].reste
    BY <1>1, <1>5, <2>1 DEF Effacer, Detruit
  <2>2. ASSUME MarquerPurge(a)
        PROVE  appels[a].cible = r /\ appels[a].pc = "statut"
    BY <1>1, <1>5, <2>2 DEF MarquerPurge, Detruit, TypeOK, RegistreTypeOK
  <2>3. CASE UNCHANGED registreVars
    BY <1>1, <1>5, <2>3 DEF Detruit, registreVars
  <2> QED
    BY <1>5, <2>1, <2>2, <2>3 DEF Detruire, EnDestruction, EnCours
<1>6. CASE UNCHANGED registreVars
  <2>1. Detruit(r)
    BY <1>1, <1>6 DEF Detruit, registreVars
  <2> QED
    BY <1>3, <2>1
<1>7. CASE RegistreNext
  <2>1. Detruit(r)
    BY <1>1, <1>7 DEF Detruit, RegistreNext, Ingerer, PasserUnJour, TypeOK, RegistreTypeOK
  <2> QED
    BY <1>3, <2>1
<1> QED
  BY <1>3, <1>4, <1>5, <1>6, <1>7 DEF Next, Demander, vars

(* A call a report does not list is never listed by it later.               *)
LEMMA HorsStable ==
  ASSUME TypeOK, Localise, FondeInv, [Next]_vars, NEW k \in Rapports,
         NEW r \in Enregistrements, rapports[k].statut # "aucun",
         rapports[k].lignes[r] = "hors"
  PROVE  rapports'[k].lignes[r] = "hors"
<1>1. ASSUME NEW a \in Appels, SimulerCree(a, k) PROVE FALSE
  BY <1>1, SimulerCreeRapport
<1>2. ASSUME NEW a \in Appels, appels[a].rapport = k, NoterIssue(a)
      PROVE  rapports'[k].lignes[r] = "hors"
  <2>1. appels[a].pc = "ligne" /\ appels[a].cible \in EnCours(a) /\ EnDestruction(a)
    BY <1>2, NoterIssueRapport DEF EnCours, EnDestruction
  <2>2. rapports[k].lignes[appels[a].cible] \in Proposees
    BY <1>2, <2>1 DEF FondeInv, AppelsInv, Fondee
  <2>3. r # appels[a].cible
    BY <2>2 DEF Proposees
  <2> QED
    BY <1>2, <2>3, NoterIssueRapport
<1>3. ASSUME NEW a \in Appels, appels[a].rapport = k, AnnulerEcrit(a) \/ Sceller(a)
      PROVE  rapports'[k].lignes = rapports[k].lignes
  BY <1>3, AnnulerEcritRapport, ScellerRapport
<1> QED
  BY <1>1, <1>2, <1>3, RapportStep

LEMMA CertificatCompletStep ==
  ASSUME TypeOK, Localise, FondeInv, [Next]_vars
  PROVE  CertificatComplet'
<1> USE DEF FondeInv
<1> SUFFICES ASSUME NEW k \in Rapports, rapports'[k].scelle, NEW r \in Enregistrements
             PROVE  LET issue == rapports'[k].certificat[r] IN
                    /\ issue = "hors" => rapports'[k].lignes[r] = "hors"
                    /\ issue \in {"purged", "missing"} => statut'[r] = "purged"
                    /\ issue = "purged" => r \notin fichiers'
  BY DEF CertificatComplet
<1>1. /\ statut[r] = "purged" => statut'[r] = "purged"
      /\ statut[r] = "purged" /\ r \notin fichiers => r \notin fichiers'
  BY RegistreStable
<1>2. CASE rapports'[k].scelle = rapports[k].scelle /\ rapports'[k].certificat = rapports[k].certificat
  <2>1. LET issue == rapports[k].certificat[r] IN
        /\ issue = "hors" => rapports[k].lignes[r] = "hors"
        /\ issue \in {"purged", "missing"} => statut[r] = "purged"
        /\ issue = "purged" => r \notin fichiers
    BY <1>2 DEF CertificatComplet
  <2>2. rapports[k].statut # "aucun"
    BY <1>2 DEF Vierge
  <2>3. rapports[k].lignes[r] = "hors" => rapports'[k].lignes[r] = "hors"
    BY <2>2, HorsStable
  <2> QED
    BY <1>1, <1>2, <2>1, <2>3
<1>3. ASSUME NEW a \in Appels, SimulerCree(a, k)
      PROVE  FALSE
  BY <1>3, SimulerCreeRapport
<1>4. ASSUME NEW a \in Appels, appels[a].rapport = k, Sceller(a)
      PROVE  LET issue == rapports'[k].certificat[r] IN
             /\ issue = "hors" => rapports'[k].lignes[r] = "hors"
             /\ issue \in {"purged", "missing"} => statut'[r] = "purged"
             /\ issue = "purged" => r \notin fichiers'
  <2>1. /\ appels[a].pc = "boucle" /\ appels[a].reste = {}
        /\ rapports'[k].certificat = CertificatDe(k)
        /\ rapports'[k].lignes = rapports[k].lignes
    BY <1>4, ScellerRapport
  <2>2. rapports[k].lignes[r] # "candidate"
    BY <1>4, <2>1 DEF AppelsInv, Fondee, EnDestruction, EnCours
  <2>3. rapports'[k].certificat[r] = rapports[k].lignes[r]
    BY <2>1, <2>2 DEF CertificatDe
  <2> QED
    BY <1>1, <2>1, <2>3 DEF LignesInv, LigneVraie
<1> QED
  BY <1>2, <1>3, <1>4, RapportStep, AnnulerEcritRapport, NoterIssueRapport

LEMMA FondeInvInvariant == Spec => []FondeInv
<1>1. Init => Localise /\ FondeInv
  <2> SUFFICES ASSUME Init PROVE Localise /\ FondeInv
    OBVIOUS
  <2>1. Localise /\ AppelsInv
    BY DEF Init, PurgeInit, PasDAppel, Localise, Situe, AppelsInv, Recense, Fondee,
           EnDestruction, CibleVraie
  <2>2. Vierge /\ LignesInv /\ CertificatComplet
    BY DEF Init, PurgeInit, PasDeRapport, HorsListe, Vierge, LignesInv, LigneVraie,
           CertificatComplet
  <2>3. DestructionFondee
    BY DEF Init, RegistreInit, DestructionFondee, Detruit
  <2> QED
    BY <2>1, <2>2, <2>3 DEF FondeInv
<1>2. TypeOK /\ Localise /\ SceauInv /\ FondeInv /\ [Next]_vars => FondeInv'
  BY SceauInvStep, AppelsInvStep, LignesInvStep, DestructionFondeeStep, CertificatCompletStep
     DEF FondeInv, SceauInv
<1>3. Init => SceauInv
  BY DEF Init, PurgeInit, PasDeRapport, SceauInv, Vierge, CertificatAuJournal
<1>4. TypeOK /\ Localise /\ SceauInv /\ [Next]_vars => Localise' /\ SceauInv'
  BY LocaliseStep, SceauInvStep
<1> QED
  BY <1>1, <1>2, <1>3, <1>4, TypeCorrect, PTL DEF Spec

(* Every destroyed call was proposed by a report whose frozen periods had   *)
(* run out for it: for any number of reports and of requests racing or      *)
(* dying on them.                                                           *)
THEOREM DestructionToujoursFondee == Spec => []DestructionFondee
<1>1. FondeInv => DestructionFondee
  BY DEF FondeInv
<1> QED
  BY <1>1, FondeInvInvariant, PTL

(* A sealed certificate accounts for every line of its report, and what it  *)
(* says of a destroyed call is true of the register.                        *)
THEOREM CertificatToujoursComplet == Spec => []CertificatComplet
<1>1. FondeInv => CertificatComplet
  BY DEF FondeInv
<1> QED
  BY <1>1, FondeInvInvariant, PTL

(* A request in flight always names a report that exists.                   *)
LEMMA LocaliseInvariant == Spec => []Localise
<1>1. Init => Localise
  BY DEF Init, PurgeInit, PasDAppel, Localise, Situe
<1>2. TypeOK /\ Localise /\ [Next]_vars => Localise'
  BY LocaliseStep
<1> QED
  BY <1>1, <1>2, TypeCorrect, PTL DEF Spec

-----------------------------------------------------------------------------
(* The purge implements the promise of module Destruction                   *)

(* What the promise sees of the state, each part a function of one call or  *)
(* of one report.                                                           *)
EtatDe(r) ==
  IF statut[r] = "absente" THEN "inconnue"
  ELSE IF r \in fichiers THEN "conservee" ELSE "detruite"

AutorisesDe(k) == {r \in Enregistrements : rapports[k].lignes[r] \in Proposees}

TermesDe(k) == [r \in Enregistrements |-> Debut[r] + JoursPour(r, rapports[k].durees)]

Etats == [r \in Enregistrements |-> EtatDe(r)]
Autorises == [k \in Rapports |-> AutorisesDe(k)]
Termes == [k \in Rapports |-> TermesDe(k)]

(* The step of the promise, in these terms.                                 *)
PromesseRecueillir(r) ==
  /\ Etats[r] = "inconnue"
  /\ Etats' = [Etats EXCEPT ![r] = "conservee"]
  /\ UNCHANGED <<Autorises, Termes, jour>>

PromesseDetruire(r) ==
  /\ Etats[r] = "conservee"
  /\ \E k \in Rapports : r \in Autorises[k] /\ Termes[k][r] < jour
  /\ Etats' = [Etats EXCEPT ![r] = "detruite"]
  /\ UNCHANGED <<Autorises, Termes, jour>>

LEMMA PeriodeType ==
  ASSUME NEW durees \in Durees, NEW r \in Enregistrements
  PROVE  Debut[r] + JoursPour(r, durees) \in Nat
<1>1. PICK S \in SUBSET Categories : durees \in [{Tous} \cup S -> Jours]
  BY DEF Durees
<1>2. JoursPour(r, durees) \in Jours
  BY <1>1 DEF JoursPour
<1>3. Jours \subseteq Nat
  BY RetentionAssumption DEF Jours
<1>4. Debut[r] \in Nat /\ JoursPour(r, durees) \in Nat
  BY <1>2, <1>3, RegistreAssumption
<1> QED
  BY <1>4

LEMMA TermesType == TypeOK => Termes \in [Rapports -> [Enregistrements -> Nat]]
<1> SUFFICES ASSUME TypeOK, NEW k \in Rapports PROVE TermesDe(k) \in [Enregistrements -> Nat]
  BY DEF Termes
<1> QED
  BY DureesRapport, PeriodeType DEF TermesDe

(* A step that keeps what each report proposes, and its periods, keeps what *)
(* is authorised and until when.                                            *)
LEMMA ActeStable ==
  ASSUME NEW k \in Rapports, rapports'[k].durees = rapports[k].durees,
         \A r \in Enregistrements :
            rapports'[k].lignes[r] \in Proposees <=> rapports[k].lignes[r] \in Proposees
  PROVE  AutorisesDe(k)' = AutorisesDe(k) /\ TermesDe(k)' = TermesDe(k)
BY DEF AutorisesDe, TermesDe, JoursPour

(* Once a report is written, what it authorises never changes: an outcome   *)
(* is noted for a call it proposed only.                                    *)
LEMMA ActeEcrit ==
  ASSUME TypeOK, Localise, FondeInv, [Next]_vars, NEW k \in Rapports,
         ~ \E a \in Appels : Demander(a) /\ SimulerCree(a, k)
  PROVE  AutorisesDe(k)' = AutorisesDe(k) /\ TermesDe(k)' = TermesDe(k)
<1>1. CASE rapports'[k] = rapports[k]
  BY <1>1, ActeStable
<1>2. ASSUME NEW a \in Appels, appels[a].rapport = k, AnnulerEcrit(a) \/ Sceller(a)
      PROVE  AutorisesDe(k)' = AutorisesDe(k) /\ TermesDe(k)' = TermesDe(k)
  BY <1>2, AnnulerEcritRapport, ScellerRapport, ActeStable
<1>3. ASSUME NEW a \in Appels, appels[a].rapport = k, NoterIssue(a)
      PROVE  AutorisesDe(k)' = AutorisesDe(k) /\ TermesDe(k)' = TermesDe(k)
  <2>1. appels[a].pc = "ligne" /\ appels[a].cible \in EnCours(a) /\ EnDestruction(a)
    BY <1>3, NoterIssueRapport DEF EnCours, EnDestruction
  <2>2. rapports[k].lignes[appels[a].cible] \in Proposees
    BY <1>3, <2>1 DEF FondeInv, AppelsInv, Fondee
  <2>3. \A r \in Enregistrements :
          rapports'[k].lignes[r] \in Proposees <=> rapports[k].lignes[r] \in Proposees
    BY <1>3, <2>2, NoterIssueRapport DEF Proposees
  <2> QED
    BY <1>3, <2>3, NoterIssueRapport, ActeStable
<1> QED
  BY <1>1, <1>2, <1>3, RapportStep

(* Only the creation of a report changes what is authorised.                *)
LEMMA ActesStables ==
  ASSUME TypeOK, Localise, FondeInv, [Next]_vars,
         ~ \E a \in Appels, k \in Rapports : Demander(a) /\ SimulerCree(a, k)
  PROVE  UNCHANGED <<Autorises, Termes>>
<1>1. \A k \in Rapports : AutorisesDe(k)' = AutorisesDe(k) /\ TermesDe(k)' = TermesDe(k)
  BY ActeEcrit
<1> QED
  BY <1>1 DEF Autorises, Termes

LEMMA EtatsStables ==
  ASSUME TypeOK, UNCHANGED fichiers,
         \A r \in Enregistrements : statut'[r] = "absente" <=> statut[r] = "absente"
  PROVE  UNCHANGED Etats
BY DEF Etats, EtatDe

(* The creation of a report is the writing of an act.                       *)
LEMMA VueSimulerCree ==
  ASSUME TypeOK, TypeOK', Localise, FondeInv, [Next]_vars,
         NEW a \in Appels, NEW k \in Rapports, Demander(a), SimulerCree(a, k)
  PROVE  /\ Autorises[k] = {}
         /\ \E liste \in SUBSET Enregistrements : Autorises' = [Autorises EXCEPT ![k] = liste]
         /\ Termes' \in [Rapports -> [Enregistrements -> Nat]]
         /\ \A j \in Rapports \ {k} : Termes'[j] = Termes[j]
         /\ UNCHANGED <<Etats, jour>>
<1>1. rapports[k].lignes = HorsListe
  BY SimulerCreeRapport DEF FondeInv, Vierge
<1>2. Autorises[k] = {}
  BY <1>1 DEF Autorises, AutorisesDe, HorsListe, Proposees
<1>3. \A j \in Rapports \ {k} : rapports'[j] = rapports[j]
  BY DEF SimulerCree, TypeOK, PurgeTypeOK
<1>4. \A j \in Rapports \ {k} : AutorisesDe(j)' = AutorisesDe(j) /\ TermesDe(j)' = TermesDe(j)
  BY <1>3, ActeStable
<1>5. Autorises' = [Autorises EXCEPT ![k] = AutorisesDe(k)']
  BY <1>4 DEF Autorises
<1>6. AutorisesDe(k)' \in SUBSET Enregistrements
  BY DEF AutorisesDe
<1>7. Termes' \in [Rapports -> [Enregistrements -> Nat]]
  <2>1. \A j \in Rapports : rapports'[j].durees \in Durees
    BY DEF TypeOK, PurgeTypeOK, Rapport
  <2>2. \A j \in Rapports, r \in Enregistrements :
          Debut[r] + JoursPour(r, rapports'[j].durees) \in Nat
    BY <2>1, PeriodeType
  <2> QED
    BY <2>2 DEF Termes, TermesDe, JoursPour
<1>8. \A j \in Rapports \ {k} : Termes'[j] = Termes[j]
  BY <1>4 DEF Termes
<1>9. UNCHANGED <<Etats, jour>>
  BY EtatsStables DEF Demander, registreVars
<1> QED
  BY <1>2, <1>5, <1>6, <1>7, <1>8, <1>9

(* The destruction of a file is one the promise allows.                     *)
LEMMA VueEffacer ==
  ASSUME TypeOK, Localise, FondeInv, [Next]_vars, UNCHANGED <<Autorises, Termes>>,
         NEW a \in Appels, NEW r \in Enregistrements, NEW echec \in BOOLEAN,
         Effacer(a, r, echec)
  PROVE  PromesseDetruire(r) \/ UNCHANGED <<Etats, Autorises, Termes, jour>>
<1>1. UNCHANGED <<statut, jour>> /\ EnDestruction(a) /\ r \in EnCours(a)
  BY DEF Effacer, EnDestruction, EnCours
<1>2. CASE fichiers' = fichiers
  BY <1>1, <1>2, EtatsStables
<1>3. CASE r \in fichiers /\ fichiers' = fichiers \ {r}
  <2>1. PICK k \in Rapports : k = appels[a].rapport
    BY <1>1, EnCoursType
  <2>2. /\ rapports[k].lignes[r] \in Proposees
        /\ Echu(r, rapports[k].durees)
        /\ statut[r] # "absente"
    BY <1>1, <2>1 DEF FondeInv, AppelsInv, Fondee
  <2>3. r \in Autorises[k] /\ Termes[k][r] < jour
    BY <2>2 DEF Autorises, AutorisesDe, Termes, TermesDe, Echu
  <2>4. Etats[r] = "conservee"
    BY <1>3, <2>2 DEF Etats, EtatDe
  <2>5. \A q \in Enregistrements :
           EtatDe(q)' = IF q = r THEN "detruite" ELSE EtatDe(q)
    BY <1>1, <1>3, <2>2 DEF EtatDe
  <2>6. Etats' = [Etats EXCEPT ![r] = "detruite"]
    BY <2>5 DEF Etats
  <2> QED
    BY <1>1, <2>3, <2>4, <2>6 DEF PromesseDetruire
<1>4. fichiers' = fichiers \/ (r \in fichiers /\ fichiers' = fichiers \ {r})
  BY DEF Effacer
<1> QED
  BY <1>2, <1>3, <1>4

LEMMA VueIngerer ==
  ASSUME TypeOK, UNCHANGED <<Autorises, Termes>>, NEW r \in Enregistrements, Ingerer(r)
  PROVE  PromesseRecueillir(r)
<1>1. statut[r] = "absente" /\ statut' = [statut EXCEPT ![r] = "stored"]
      /\ fichiers' = fichiers \cup {r} /\ jour' = jour
  BY DEF Ingerer
<1>2. \A q \in Enregistrements : EtatDe(q)' = IF q = r THEN "conservee" ELSE EtatDe(q)
  BY <1>1 DEF EtatDe, TypeOK, RegistreTypeOK
<1>3. Etats' = [Etats EXCEPT ![r] = "conservee"]
  BY <1>2 DEF Etats
<1>4. Etats[r] = "inconnue"
  BY <1>1 DEF Etats, EtatDe
<1> QED
  BY <1>1, <1>3, <1>4 DEF PromesseRecueillir

(* Every step is one of the promise, or none.                               *)
LEMMA VueStep ==
  ASSUME TypeOK, TypeOK', Localise, FondeInv, [Next]_vars,
         ~ \E a \in Appels, k \in Rapports : Demander(a) /\ SimulerCree(a, k)
  PROVE  \/ \E r \in Enregistrements : PromesseRecueillir(r) \/ PromesseDetruire(r)
         \/ UNCHANGED <<Etats, Autorises, Termes>> /\ jour' = jour + 1
         \/ UNCHANGED <<Etats, Autorises, Termes, jour>>
<1>1. UNCHANGED <<Autorises, Termes>>
  BY ActesStables
<1>2. CASE UNCHANGED registreVars
  BY <1>1, <1>2, EtatsStables DEF registreVars
<1>3. ASSUME NEW r \in Enregistrements, Ingerer(r) PROVE PromesseRecueillir(r)
  BY <1>1, <1>3, VueIngerer
<1>4. CASE PasserUnJour
  BY <1>1, <1>4, EtatsStables DEF PasserUnJour
<1>5. ASSUME NEW a \in Appels, NEW r \in Enregistrements, NEW echec \in BOOLEAN,
             Effacer(a, r, echec)
      PROVE  PromesseDetruire(r) \/ UNCHANGED <<Etats, Autorises, Termes, jour>>
  BY <1>1, <1>5, VueEffacer
<1>6. ASSUME NEW a \in Appels, MarquerPurge(a)
      PROVE  UNCHANGED <<Etats, Autorises, Termes, jour>>
  <2>1. EnDestruction(a) /\ appels[a].cible \in EnCours(a)
    BY <1>6 DEF MarquerPurge, EnDestruction, EnCours
  <2>2. appels[a].cible \in Enregistrements /\ statut[appels[a].cible] # "absente"
    BY <2>1, EnCoursType DEF FondeInv, AppelsInv, Fondee
  <2>3. /\ statut' = [statut EXCEPT ![appels[a].cible] = "purged"]
        /\ UNCHANGED <<fichiers, jour>>
    BY <1>6 DEF MarquerPurge
  <2>4. \A r \in Enregistrements : statut'[r] = "absente" <=> statut[r] = "absente"
    BY <2>2, <2>3 DEF TypeOK, RegistreTypeOK
  <2> QED
    BY <1>1, <2>3, <2>4, EtatsStables
<1> QED
  BY <1>2, <1>3, <1>4, <1>5, <1>6 DEF Next, Demander, Detruire, RegistreNext, vars

(* The refinement: whatever interleaves, every call destroyed is destroyed  *)
(* under a written act that lists it and whose term for it has passed, an   *)
(* act written never authorises otherwise, and no destroyed call comes back *)
(* (purge.service.ts, simuler and executer).                                *)
THEOREM PromesseToujoursTenue == Spec => PromesseTenue
<1>1. Init => Promesse!Init
  <2> SUFFICES ASSUME Init PROVE Promesse!Init
    OBVIOUS
  <2>1. TypeOK
    BY InitType
  <2>2. Etats = [r \in Enregistrements |-> "inconnue"]
    BY DEF Init, RegistreInit, Etats, EtatDe
  <2>3. \A k \in Rapports : AutorisesDe(k) = {}
    BY DEF Init, PurgeInit, PasDeRapport, HorsListe, AutorisesDe, Proposees
  <2>4. Autorises = [k \in Rapports |-> {}]
    BY <2>3 DEF Autorises
  <2>5. Termes \in [Rapports -> [Enregistrements -> Nat]] /\ jour = 0
    BY <2>1, TermesType DEF Init, RegistreInit
  <2> QED
    BY <2>2, <2>4, <2>5
       DEF Promesse!Init, Etats, EtatDe, Autorises, AutorisesDe, Proposees, Termes, TermesDe
<1>2. ASSUME TypeOK, TypeOK', Localise, FondeInv, [Next]_vars
      PROVE  Promesse!Next \/ UNCHANGED <<Etats, Autorises, Termes, jour>>
  <2> USE DEF Promesse!Next
  <2>1. ASSUME NEW r \in Enregistrements, PromesseRecueillir(r)
        PROVE  Promesse!Recueillir(r)
    BY <2>1 DEF PromesseRecueillir, Promesse!Recueillir, Etats, EtatDe, Autorises, AutorisesDe,
                Proposees, Termes, TermesDe
  <2>2. ASSUME NEW r \in Enregistrements, PromesseDetruire(r)
        PROVE  Promesse!Detruire(r)
    BY <2>2 DEF PromesseDetruire, Promesse!Detruire, Etats, EtatDe, Autorises, AutorisesDe,
                Proposees, Termes, TermesDe
  <2>3. CASE UNCHANGED <<Etats, Autorises, Termes>> /\ jour' = jour + 1
    <3>1. Promesse!PasserUnJour
      BY <2>3 DEF Promesse!PasserUnJour, Etats, EtatDe, Autorises, AutorisesDe,
                  Proposees, Termes, TermesDe
    <3> QED
      BY <3>1
  <2>4. ASSUME NEW a \in Appels, NEW k \in Rapports, Demander(a), SimulerCree(a, k)
        PROVE  \E liste \in SUBSET Enregistrements : Promesse!Autoriser(k, liste)
    <3>1. PICK liste \in SUBSET Enregistrements : Autorises' = [Autorises EXCEPT ![k] = liste]
      BY <1>2, <2>4, VueSimulerCree
    <3>2. /\ Autorises[k] = {}
          /\ Termes' \in [Rapports -> [Enregistrements -> Nat]]
          /\ \A j \in Rapports \ {k} : Termes'[j] = Termes[j]
          /\ UNCHANGED <<Etats, jour>>
      BY <1>2, <2>4, VueSimulerCree
    <3>3. Promesse!Autoriser(k, liste)
      BY <3>1, <3>2 DEF Promesse!Autoriser, Etats, EtatDe, Autorises, AutorisesDe,
                        Proposees, Termes, TermesDe
    <3> QED
      BY <3>3
  <2> QED
    BY <1>2, <2>1, <2>2, <2>3, <2>4, VueStep
<1>3. UNCHANGED <<Etats, Autorises, Termes, jour>> => UNCHANGED Promesse!vars
  BY DEF Promesse!vars, Etats, EtatDe, Autorises, AutorisesDe, Proposees, Termes, TermesDe
<1>4. TypeOK /\ TypeOK' /\ Localise /\ FondeInv /\ [Next]_vars => [Promesse!Next]_Promesse!vars
  BY <1>2, <1>3
<1> QED
  BY <1>1, <1>4, TypeCorrect, FondeInvInvariant, LocaliseInvariant, PTL
     DEF Spec, PromesseTenue, Promesse!Spec
=============================================================================
