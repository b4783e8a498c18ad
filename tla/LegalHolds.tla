----------------------------- MODULE LegalHolds -----------------------------
(***************************************************************************)
(* LegalHoldsService: the legal holds of one tenant.  A hold that is not    *)
(* released is what the purge must respect.  Each request is a handler that *)
(* reads, awaits, and writes: the steps of two handlers interleave at every *)
(* await, and the table has no unique index on the active hold of a call.   *)
(***************************************************************************)
EXTENDS Registre

CONSTANTS
  Holds,      \* the rows the table legal_holds can come to hold (bound)
  Comptes,    \* the accounts that may set and release holds
  Demandes,   \* slots for the requests in flight (bound)
  Nul         \* the null of the columns and of the handlers' locals

ASSUME HoldsAssumption == Nul \notin Enregistrements \cup Comptes \cup Holds

VARIABLES
  holds,            \* the table legal_holds
  administrateurs,  \* the active accounts with role ADMIN
  demandes          \* the locals of each request in flight

holdsVars == <<holds, administrateurs, demandes>>

LigneHold ==
  [rec : Enregistrements \cup {Nul}, par : Comptes \cup {Nul},
   levePar : Comptes \cup {Nul}, seul : BOOLEAN]

Demande ==
  [pc : {"repos", "poser", "lever", "ecrire"}, par : Comptes \cup {Nul},
   rec : Enregistrements \cup {Nul}, hold : Holds \cup {Nul}, seul : BOOLEAN]

PasDeHold == [rec |-> Nul, par |-> Nul, levePar |-> Nul, seul |-> FALSE]

PasDeDemande ==
  [pc |-> "repos", par |-> Nul, rec |-> Nul, hold |-> Nul, seul |-> FALSE]

HoldsTypeOK ==
  /\ holds \in [Holds -> LigneHold]
  /\ administrateurs \in SUBSET Comptes
  /\ demandes \in [Demandes -> Demande]

HoldsInit ==
  /\ holds = [h \in Holds |-> PasDeHold]
  /\ administrateurs = Comptes
  /\ demandes = [d \in Demandes |-> PasDeDemande]

-----------------------------------------------------------------------------

(* A row exists, and its releasedAt is null.                                *)
Pose(h) == holds[h].rec # Nul
Actif(h) == Pose(h) /\ holds[h].levePar = Nul

ActifsSur(r) == {h \in Holds : Actif(h) /\ holds[h].rec = r}

(* idsSousHold, restricted to the given calls.                              *)
SousHold(parmi) == {r \in parmi : ActifsSur(r) # {}}

(* poser, first part: the call exists and has no active hold.               *)
PoserVerifie(d, u, r) ==
  /\ demandes[d].pc = "repos"
  /\ Existe(r)
  /\ ActifsSur(r) = {}
  /\ demandes' = [demandes EXCEPT
       ![d] = [PasDeDemande EXCEPT !.pc = "poser", !.par = u, !.rec = r]]
  /\ UNCHANGED <<holds, administrateurs>>

(* Mutant: poser reopens a released row instead of creating one.            *)
MutantPoserRouvre(d, h) ==
  /\ demandes[d].pc = "poser"
  /\ ~Actif(h)
  /\ holds' = [holds EXCEPT
       ![h] = [PasDeHold EXCEPT !.rec = demandes[d].rec, !.par = demandes[d].par]]
  /\ demandes' = [demandes EXCEPT ![d] = PasDeDemande]
  /\ UNCHANGED administrateurs

(* poser, second part: the row is created, whatever happened since.         *)
PoserCree(d, h) ==
  /\ demandes[d].pc = "poser"
  /\ ~Pose(h)
  /\ holds' = [holds EXCEPT
       ![h] = [PasDeHold EXCEPT !.rec = demandes[d].rec, !.par = demandes[d].par]]
  /\ demandes' = [demandes EXCEPT ![d] = PasDeDemande]
  /\ UNCHANGED administrateurs

(* lever, first part: findFirst takes one active hold of the call.          *)
LeverLit(d, u, h) ==
  /\ demandes[d].pc = "repos"
  /\ Actif(h)
  /\ demandes' = [demandes EXCEPT
       ![d] = [PasDeDemande EXCEPT !.pc = "lever", !.par = u, !.hold = h]]
  /\ UNCHANGED <<holds, administrateurs>>

(* contreValidation: another account released it, or the setter is the only *)
(* administrator left and accepted to act alone.                            *)
LeverValide(d) ==
  LET u == demandes[d].par
      poseParLui == holds[demandes[d].hold].par = u IN
  /\ demandes[d].pc = "lever"
  /\ poseParLui => administrateurs \ {u} = {}
  /\ demandes' = [demandes EXCEPT ![d] = [@ EXCEPT !.pc = "ecrire", !.seul = poseParLui]]
  /\ UNCHANGED <<holds, administrateurs>>

(* Mutant: lever writes the identifier of the hold as that of the account.  *)
MutantLeverColonne(d) ==
  /\ demandes[d].pc = "ecrire"
  /\ holds' = [holds EXCEPT
       ![demandes[d].hold] =
          [@ EXCEPT !.levePar = demandes[d].hold, !.seul = demandes[d].seul]]
  /\ demandes' = [demandes EXCEPT ![d] = PasDeDemande]
  /\ UNCHANGED administrateurs

(* lever, last part: the update is by id and has no other condition.        *)
LeverEcrit(d) ==
  /\ demandes[d].pc = "ecrire"
  /\ holds' = [holds EXCEPT
       ![demandes[d].hold] =
          [@ EXCEPT !.levePar = demandes[d].par, !.seul = demandes[d].seul]]
  /\ demandes' = [demandes EXCEPT ![d] = PasDeDemande]
  /\ UNCHANGED administrateurs

(* A request that is refused, fails on the database or dies with the        *)
(* process: none of the steps above is inside a transaction.                *)
DemandeRompue(d) ==
  /\ demandes[d].pc # "repos"
  /\ demandes' = [demandes EXCEPT ![d] = PasDeDemande]
  /\ UNCHANGED <<holds, administrateurs>>

(* users.service.ts: accounts are demoted, disabled, restored.              *)
ChangerAdministrateurs(u) ==
  /\ administrateurs' \in {administrateurs \cup {u}, administrateurs \ {u}}
  /\ administrateurs' # {}
  /\ UNCHANGED <<holds, demandes>>

HoldsNext ==
  \/ \E d \in Demandes, u \in Comptes, r \in Enregistrements : PoserVerifie(d, u, r)
  \/ \E d \in Demandes, h \in Holds : PoserCree(d, h)
  \/ \E d \in Demandes, u \in Comptes, h \in Holds : LeverLit(d, u, h)
  \/ \E d \in Demandes : LeverValide(d) \/ LeverEcrit(d) \/ DemandeRompue(d)
  \/ \E u \in Comptes : ChangerAdministrateurs(u)

-----------------------------------------------------------------------------

(* A released hold stays released: a call does not come back under a hold   *)
(* whose release was recorded (the purge may already have destroyed it).    *)
LeveeDefinitive ==
  [][\A h \in Holds : Pose(h) /\ ~Actif(h) => Pose(h)' /\ ~Actif(h)']_holds

(* "Il n'y en a jamais deux a la fois" (legal-holds.service.ts:15).         *)
JamaisDeuxActifs ==
  \A r \in Enregistrements : \A g, h \in ActifsSur(r) : g = h
=============================================================================
