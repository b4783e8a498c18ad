------------------------------ MODULE Retention ------------------------------
(***************************************************************************)
(* RetentionService: the retention periods of one tenant, one row of        *)
(* "retention_policies" per scope, and the rules by which they apply to a   *)
(* call.  A scope is the general one or one category of operation; a        *)
(* category without a row of its own follows the general period, and the    *)
(* general scope without a row follows the default of the product.          *)
(***************************************************************************)
EXTENDS Registre

CONSTANTS
  Tous,            \* RETENTION_SCOPE_ALL, the general scope
  JoursPossibles,  \* the periods an administrator may ask for
  DureeParDefaut,  \* RETENTION_DAYS_DEFAULT
  Plancher,        \* RETENTION_MIN_DAYS, the floor of the instance
  PlancherLegal    \* RETENTION_REGULATORY_FLOORS, 0 where none is declared

ASSUME RetentionAssumption ==
  /\ Tous \notin Categories
  /\ JoursPossibles \subseteq Nat
  /\ DureeParDefaut \in Nat
  /\ Plancher \in Nat
  /\ PlancherLegal \in [Categories -> Nat]

VARIABLE politiques  \* the row of each scope

Perimetres == Categories \cup {Tous}
Jours == JoursPossibles \cup {DureeParDefaut}

(* A row that was never written has enregistree = FALSE; "motif" is         *)
(* belowFloorReason, present or null.                                       *)
Ligne == [enregistree : BOOLEAN, jours : Jours, motif : BOOLEAN]

RetentionTypeOK == politiques \in [Perimetres -> Ligne]

RetentionInit ==
  politiques = [p \in Perimetres |->
    [enregistree |-> FALSE, jours |-> DureeParDefaut, motif |-> FALSE]]

-----------------------------------------------------------------------------

JoursGeneraux ==
  IF politiques[Tous].enregistree THEN politiques[Tous].jours
                                  ELSE DureeParDefaut

(* Sets of periods: one per decided scope, the general one always there.    *)
(* The equality of two of them as functions is memesDurees, which compares  *)
(* the values scope by scope and not their serialisation.                   *)
Durees == UNION {[{Tous} \cup S -> Jours] : S \in SUBSET Categories}

(* lireEnsemble, then dureesParPerimetre: the decided scopes only.          *)
DureesEnVigueur ==
  [p \in {Tous} \cup {c \in Categories : politiques[c].enregistree} |->
      IF p = Tous THEN JoursGeneraux ELSE politiques[p].jours]

(* The most precise scope wins, not the longest period.                     *)
JoursPour(r, durees) ==
  IF CategorieDe[r] \in DOMAIN durees THEN durees[CategorieDe[r]]
                                      ELSE durees[Tous]

(* echeancesDepuis and the filter of recenser: a call is due when it began  *)
(* strictly before today minus the period of its scope.                     *)
Echu(r, durees) == Debut[r] + JoursPour(r, durees) < jour

(* Mutant: a category without a row of its own falls back on the default    *)
(* of the product instead of the general period.                            *)
MutantJoursSansGeneral(c) ==
  IF politiques[c].enregistree THEN politiques[c].jours ELSE DureeParDefaut

(* joursApplicables, as the call sheet reads it from the rows in force.     *)
JoursApplicables(c) ==
  IF politiques[c].enregistree THEN politiques[c].jours ELSE JoursGeneraux

-----------------------------------------------------------------------------

(* The legal floor of the scope asked for: none for the general scope.      *)
PlancherLegalDe(p) == IF p = Tous THEN 0 ELSE PlancherLegal[p]

(* definir: the legal floor is not negotiable; under the floor of the       *)
(* instance a reason is required, above it a reason is refused.             *)
Definir(p, jours, motif) ==
  /\ jours >= PlancherLegalDe(p)
  /\ motif <=> jours < Plancher
  /\ politiques' = [politiques EXCEPT
       ![p] = [enregistree |-> TRUE, jours |-> jours, motif |-> motif]]

RetentionNext ==
  \E p \in Perimetres, jours \in JoursPossibles, motif \in BOOLEAN :
     Definir(p, jours, motif)

-----------------------------------------------------------------------------

(* The term the call sheet announces (joursApplicables) is the one the purge *)
(* applies to the call (dureesParPerimetre, echeancesDepuis, recenser): the  *)
(* two services each have their own reading of the same rows.                *)
EcheanceAnnoncee ==
  \A r \in Enregistrements :
     JoursPour(r, DureesEnVigueur) = JoursApplicables(CategorieDe[r])

(* "Celui-ci ne se deroge pas" (env.schema.ts:89): no call of a category    *)
(* with a declared legal floor is kept for less than that floor.            *)
PlancherLegalTenu ==
  \A c \in Categories : JoursApplicables(c) >= PlancherLegal[c]
=============================================================================
