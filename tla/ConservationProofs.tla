-------------------------- MODULE ConservationProofs --------------------------
(***************************************************************************)
(* Lemmas on the register, the retention periods and the legal holds, for   *)
(* any number of calls, categories, holds, accounts and requests.  The      *)
(* theorems of PurgeProofs rest on them.                                    *)
(***************************************************************************)
EXTENDS Retention, LegalHolds, TLAPS

-----------------------------------------------------------------------------
(* Types                                                                    *)

LEMMA RegistreType ==
  ASSUME RegistreTypeOK, RegistreNext
  PROVE  RegistreTypeOK'
BY RegistreAssumption
   DEF RegistreTypeOK, RegistreNext, Ingerer, PasserUnJour, StatutsEnregistrement

LEMMA RetentionType ==
  ASSUME RetentionTypeOK, RetentionNext
  PROVE  RetentionTypeOK'
BY DEF RetentionTypeOK, RetentionNext, Definir, Ligne, Jours

(* The periods in force are a set of periods with the general scope.        *)
LEMMA DureesEnVigueurType ==
  ASSUME RetentionTypeOK
  PROVE  DureesEnVigueur \in Durees
<1> DEFINE S == {c \in Categories : politiques[c].enregistree}
<1>1. S \in SUBSET Categories
  OBVIOUS
<1>2. JoursGeneraux \in Jours
  BY DEF JoursGeneraux, Jours, RetentionTypeOK, Ligne, Perimetres
<1>3. \A c \in S : politiques[c].jours \in Jours
  BY DEF RetentionTypeOK, Ligne, Perimetres
<1>4. DureesEnVigueur \in [{Tous} \cup S -> Jours]
  BY <1>2, <1>3 DEF DureesEnVigueur
<1> QED
  BY <1>1, <1>4 DEF Durees

LEMMA HoldsType ==
  ASSUME HoldsTypeOK, HoldsNext
  PROVE  HoldsTypeOK'
<1> USE DEF HoldsTypeOK, LigneHold, Demande, PasDeHold, PasDeDemande
<1>1. ASSUME NEW d \in Demandes, NEW u \in Comptes, NEW r \in Enregistrements,
             PoserVerifie(d, u, r)
      PROVE  HoldsTypeOK'
  BY <1>1 DEF PoserVerifie
<1>2. ASSUME NEW d \in Demandes, NEW h \in Holds, PoserCree(d, h)
      PROVE  HoldsTypeOK'
  BY <1>2 DEF PoserCree
<1>3. ASSUME NEW d \in Demandes, NEW u \in Comptes, NEW h \in Holds, LeverLit(d, u, h)
      PROVE  HoldsTypeOK'
  BY <1>3 DEF LeverLit
<1>4. ASSUME NEW d \in Demandes, LeverValide(d)
      PROVE  HoldsTypeOK'
  <2> DEFINE b == holds[demandes[d].hold].par = demandes[d].par
  <2>1. b \in BOOLEAN
    OBVIOUS
  <2>2. demandes' = [demandes EXCEPT ![d] = [@ EXCEPT !.pc = "ecrire", !.seul = b]]
    BY <1>4, Zenon DEF LeverValide
  <2> HIDE DEF b
  <2>3. [demandes[d] EXCEPT !.pc = "ecrire", !.seul = b] \in Demande
    BY <2>1
  <2>4. demandes' \in [Demandes -> Demande]
    BY <2>2, <2>3
  <2> QED
    BY <1>4, <2>4 DEF LeverValide
<1>5. ASSUME NEW d \in Demandes, LeverEcrit(d)
      PROVE  HoldsTypeOK'
  <2> DEFINE u == demandes[d].par
            b == demandes[d].seul
            h == demandes[d].hold
  <2>1. u \in Comptes \cup {Nul} /\ b \in BOOLEAN
    OBVIOUS
  <2>3. holds' = [holds EXCEPT ![h] = [@ EXCEPT !.levePar = u, !.seul = b]]
    BY <1>5, Zenon DEF LeverEcrit
  <2> HIDE DEF u, b, h
  <2>2. holds' \in [Holds -> LigneHold]
    BY <2>1, <2>3
  <2> QED
    BY <1>5, <2>2 DEF LeverEcrit
<1>6. ASSUME NEW d \in Demandes, DemandeRompue(d)
      PROVE  HoldsTypeOK'
  BY <1>6 DEF DemandeRompue
<1>7. ASSUME NEW u \in Comptes, ChangerAdministrateurs(u)
      PROVE  HoldsTypeOK'
  BY <1>7 DEF ChangerAdministrateurs
<1> QED
  BY <1>1, <1>2, <1>3, <1>4, <1>5, <1>6, <1>7 DEF HoldsNext

-----------------------------------------------------------------------------
(* Retention                                                                *)

(* The two readings of the periods agree whatever the rows are: it takes    *)
(* only that the general scope is not the name of a category.               *)
LEMMA EcheanceConcorde == EcheanceAnnoncee
<1> SUFFICES ASSUME NEW r \in Enregistrements
             PROVE  JoursPour(r, DureesEnVigueur) = JoursApplicables(CategorieDe[r])
  BY DEF EcheanceAnnoncee
<1>1. CategorieDe[r] \in Categories /\ CategorieDe[r] # Tous
  BY RegistreAssumption, RetentionAssumption
<1> QED
  BY <1>1 DEF JoursPour, DureesEnVigueur, JoursApplicables

(* A set of periods gives each call a period in days.                       *)
LEMMA JoursPourType ==
  ASSUME NEW r \in Enregistrements, NEW durees \in Durees
  PROVE  JoursPour(r, durees) \in Nat
<1>1. PICK S \in SUBSET Categories : durees \in [{Tous} \cup S -> Jours]
  BY DEF Durees
<1>2. Jours \subseteq Nat
  BY RetentionAssumption DEF Jours
<1> QED
  BY <1>1, <1>2 DEF JoursPour

(* What is due stays due.                                                   *)
LEMMA EchuStable ==
  ASSUME RegistreTypeOK, RegistreNext \/ UNCHANGED registreVars,
         NEW r \in Enregistrements, NEW durees \in Durees, Echu(r, durees)
  PROVE  Echu(r, durees)'
<1>1. JoursPour(r, durees) \in Nat /\ Debut[r] \in Nat
  BY JoursPourType, RegistreAssumption
<1>2. jour \in Nat /\ jour' \in {jour, jour + 1}
  BY DEF RegistreTypeOK, RegistreNext, Ingerer, PasserUnJour, registreVars
<1>3. Debut[r] + JoursPour(r, durees) < jour'
  BY <1>1, <1>2 DEF Echu
<1> QED
  BY <1>3 DEF Echu, JoursPour

-----------------------------------------------------------------------------
(* Legal holds                                                              *)

(* What each request in flight remembers of the table is still true of it:  *)
(* the row it is about exists for good, and its setter never changes, so    *)
(* the decision of contreValidation still holds when it is written.         *)
Memoire(d) ==
  LET q == demandes[d] IN
  /\ q.pc = "poser" => q.par \in Comptes /\ q.rec \in Enregistrements
  /\ q.pc \in {"lever", "ecrire"} => q.par \in Comptes /\ q.hold \in Holds /\ Pose(q.hold)

Decision(d) ==
  LET q == demandes[d] IN
  q.pc = "ecrire" => q.seul = (holds[q.hold].par = q.par)

DemandesInv == \A d \in Demandes : Memoire(d) /\ Decision(d)

HoldsInv == DemandesInv

LEMMA HoldsInvInit == HoldsInit => HoldsInv
BY DEF HoldsInit, HoldsInv, DemandesInv, Memoire, Decision, Pose, PasDeHold, PasDeDemande

(* No request ever changes who set a hold and on what, nor a recorded       *)
(* release into none: the requests only create rows and release them.       *)
LEMMA HoldsStables ==
  ASSUME HoldsTypeOK, DemandesInv, HoldsNext, NEW h \in Holds, Pose(h)
  PROVE  /\ holds'[h].rec = holds[h].rec
         /\ holds'[h].par = holds[h].par
         /\ holds[h].levePar # Nul => holds'[h].levePar # Nul
<1> USE DEF HoldsTypeOK, LigneHold, Demande, Pose
<1>1. ASSUME NEW d \in Demandes, NEW g \in Holds, PoserCree(d, g)
      PROVE  holds'[h] = holds[h]
  BY <1>1 DEF PoserCree
<1>2. ASSUME NEW d \in Demandes, LeverEcrit(d)
      PROVE  /\ holds'[h].rec = holds[h].rec
             /\ holds'[h].par = holds[h].par
             /\ holds'[h].levePar \in {holds[h].levePar, demandes[d].par}
             /\ demandes[d].par # Nul
  <2> DEFINE g == demandes[d].hold
             u == demandes[d].par
             b == demandes[d].seul
  <2>1. holds' = [holds EXCEPT ![g] = [@ EXCEPT !.levePar = u, !.seul = b]]
    BY <1>2, Zenon DEF LeverEcrit
  <2>2. u # Nul
    BY <1>2, HoldsAssumption DEF LeverEcrit, DemandesInv, Memoire
  <2> HIDE DEF g, u, b
  <2>3. /\ holds'[h].rec = holds[h].rec
        /\ holds'[h].par = holds[h].par
        /\ holds'[h].levePar \in {holds[h].levePar, u}
    BY <2>1
  <2> QED
    BY <2>2, <2>3 DEF u
<1>3. CASE UNCHANGED holds
  BY <1>3
<1> QED
  BY <1>1, <1>2, <1>3
     DEF HoldsNext, PoserVerifie, LeverLit, LeverValide, DemandeRompue, ChangerAdministrateurs

(* The releases are recorded for good: the step of LeveeDefinitive.         *)
LEMMA LeveeStable ==
  ASSUME HoldsTypeOK, DemandesInv, HoldsNext, NEW h \in Holds, Pose(h), ~Actif(h)
  PROVE  Pose(h)' /\ ~Actif(h)'
BY HoldsStables DEF Pose, Actif

(* What a step does to the locals of one request.                           *)
LEMMA DemandeStep ==
  ASSUME HoldsTypeOK, HoldsInv, HoldsNext, NEW e \in Demandes
  PROVE  \/ demandes'[e] = demandes[e]
         \/ demandes'[e].pc = "repos"
         \/ \E u \in Comptes, r \in Enregistrements : PoserVerifie(e, u, r)
         \/ \E u \in Comptes, h \in Holds : LeverLit(e, u, h)
         \/ LeverValide(e)
<1>1. ASSUME NEW d \in Demandes \ {e}, NEW x, demandes' = [demandes EXCEPT ![d] = x]
      PROVE  demandes'[e] = demandes[e]
  BY <1>1 DEF HoldsTypeOK
<1>2. ASSUME NEW d \in Demandes, demandes' = [demandes EXCEPT ![d] = PasDeDemande]
      PROVE  demandes'[e] = demandes[e] \/ demandes'[e].pc = "repos"
  BY <1>2 DEF HoldsTypeOK, PasDeDemande
<1>3. ASSUME NEW d \in Demandes \ {e}, LeverValide(d)
      PROVE  demandes'[e] = demandes[e]
  <2> DEFINE b == holds[demandes[d].hold].par = demandes[d].par
  <2>1. demandes' = [demandes EXCEPT ![d] = [@ EXCEPT !.pc = "ecrire", !.seul = b]]
    BY <1>3, Zenon DEF LeverValide
  <2> HIDE DEF b
  <2> QED
    BY <1>1, <2>1
<1>4. ASSUME NEW d \in Demandes,
             \/ \E u \in Comptes, r \in Enregistrements : PoserVerifie(d, u, r)
             \/ \E u \in Comptes, h \in Holds : LeverLit(d, u, h)
      PROVE  d = e \/ demandes'[e] = demandes[e]
  BY <1>1, <1>4 DEF PoserVerifie, LeverLit
<1>5. ASSUME NEW d \in Demandes,
             \/ \E h \in Holds : PoserCree(d, h)
             \/ LeverEcrit(d)
             \/ DemandeRompue(d)
      PROVE  demandes'[e] = demandes[e] \/ demandes'[e].pc = "repos"
  <2>1. demandes' = [demandes EXCEPT ![d] = PasDeDemande]
    BY <1>5, Zenon DEF PoserCree, LeverEcrit, DemandeRompue
  <2> QED
    BY <1>2, <2>1
<1>6. ASSUME NEW u \in Comptes, ChangerAdministrateurs(u)
      PROVE  demandes'[e] = demandes[e]
  BY <1>6 DEF ChangerAdministrateurs
<1> QED
  BY <1>3, <1>4, <1>5, <1>6, Zenon DEF HoldsNext

LEMMA DemandesInvStep ==
  ASSUME HoldsTypeOK, HoldsInv, HoldsNext
  PROVE  DemandesInv'
<1> USE DEF HoldsInv
<1> SUFFICES ASSUME NEW e \in Demandes PROVE Memoire(e)' /\ Decision(e)'
  BY DEF DemandesInv
<1>1. ASSUME NEW h \in Holds, Pose(h)
      PROVE  Pose(h)' /\ holds'[h].par = holds[h].par
  BY <1>1, HoldsStables DEF Pose
<1>2. CASE demandes'[e] = demandes[e]
  <2>1. Memoire(e)'
    BY <1>1, <1>2 DEF DemandesInv, Memoire, Pose
  <2>2. demandes[e].pc = "ecrire" => demandes[e].hold \in Holds /\ Pose(demandes[e].hold)
    BY DEF DemandesInv, Memoire
  <2>3. Decision(e)'
    <3> SUFFICES ASSUME demandes[e].pc = "ecrire"
                 PROVE  demandes[e].seul = (holds'[demandes[e].hold].par = demandes[e].par)
      BY <1>2, Zenon DEF Decision
    <3> DEFINE u == demandes[e].par
               p == holds[demandes[e].hold].par
    <3>1. demandes[e].seul = (p = u)
      BY Zenon DEF DemandesInv, Decision
    <3>2. holds'[demandes[e].hold].par = p
      BY <1>1, <2>2
    <3> QED
      BY <3>1, <3>2, Zenon
  <2> QED
    BY <2>1, <2>3
<1>3. CASE demandes'[e].pc = "repos"
  <2>1. demandes'[e].pc \notin {"poser", "lever", "ecrire"}
    BY <1>3
  <2> QED
    BY <2>1, Zenon DEF Memoire, Decision
<1>4. ASSUME NEW u \in Comptes, NEW r \in Enregistrements, PoserVerifie(e, u, r)
      PROVE  Memoire(e)' /\ Decision(e)'
  <2>1. demandes'[e].pc = "poser" /\ demandes'[e].par = u /\ demandes'[e].rec = r
    BY <1>4 DEF PoserVerifie, PasDeDemande, HoldsTypeOK
  <2>2. demandes'[e].pc \notin {"lever", "ecrire"}
    BY <2>1
  <2> QED
    BY <2>1, <2>2, Zenon DEF Memoire, Decision
<1>5. ASSUME NEW u \in Comptes, NEW h \in Holds, LeverLit(e, u, h)
      PROVE  Memoire(e)' /\ Decision(e)'
  <2>1. demandes'[e].pc = "lever" /\ demandes'[e].par = u /\ demandes'[e].hold = h
    BY <1>5 DEF LeverLit, PasDeDemande, HoldsTypeOK
  <2>2. demandes'[e].pc \notin {"poser", "ecrire"} /\ Pose(h)'
    BY <1>1, <1>5, <2>1 DEF LeverLit, Actif
  <2> QED
    BY <2>1, <2>2, Zenon DEF Memoire, Decision, Pose
<1>6. CASE LeverValide(e)
  <2> DEFINE q == demandes[e]
             b == holds[q.hold].par = q.par
  <2>1. demandes' = [demandes EXCEPT ![e] = [@ EXCEPT !.pc = "ecrire", !.seul = b]]
    BY <1>6, Zenon DEF LeverValide
  <2>2. holds' = holds /\ q.pc = "lever"
    BY <1>6 DEF LeverValide
  <2>3. q.par \in Comptes /\ q.hold \in Holds /\ Pose(q.hold)
    BY <2>2 DEF DemandesInv, Memoire
  <2> HIDE DEF b
  <2>4. /\ demandes'[e].pc = "ecrire"
        /\ demandes'[e].par = q.par
        /\ demandes'[e].hold = q.hold
    BY <2>1 DEF HoldsTypeOK, Demande
  <2>5. demandes'[e].seul = b
    BY <2>1 DEF HoldsTypeOK, Demande
  <2>6. Decision(e)'
    BY <2>2, <2>4, <2>5, Zenon DEF Decision, b
  <2>7. Memoire(e)'
    BY <2>2, <2>3, <2>4 DEF Memoire, Pose
  <2> QED
    BY <2>6, <2>7
<1> QED
  BY <1>2, <1>3, <1>4, <1>5, <1>6, DemandeStep

(* The invariant of the holds is inductive, and a step that is not of the   *)
(* holds keeps it.                                                          *)
LEMMA HoldsInvStep ==
  ASSUME HoldsTypeOK, HoldsInv, HoldsNext \/ UNCHANGED holdsVars
  PROVE  HoldsInv'
<1>1. CASE HoldsNext
  BY <1>1, DemandesInvStep DEF HoldsInv
<1>2. CASE UNCHANGED holdsVars
  BY <1>2, Zenon DEF HoldsInv, DemandesInv, Memoire, Decision, Pose, holdsVars
<1> QED
  BY <1>1, <1>2
=============================================================================
