--------------------------- MODULE MCConservation ---------------------------
(***************************************************************************)
(* Retention periods and legal holds side by side on one register, without  *)
(* the purge: two requests race on the holds of one call while accounts are *)
(* demoted and restored, and the periods of two categories change.          *)
(***************************************************************************)
EXTENDS Retention, LegalHolds, TLC

CONSTANTS r1, c1, c2

MCCategorieDe == [r \in Enregistrements |-> c1]
MCDebut == [r \in Enregistrements |-> 0]
MCPlancherLegal == [c \in Categories |-> IF c = c2 THEN 2 ELSE 0]

vars == <<registreVars, politiques, holdsVars>>

Init == RegistreInit /\ RetentionInit /\ HoldsInit

Next ==
  \/ RegistreNext /\ UNCHANGED <<politiques, holdsVars>>
  \/ RetentionNext /\ UNCHANGED <<registreVars, holdsVars>>
  \/ HoldsNext /\ UNCHANGED <<registreVars, politiques>>

Spec == Init /\ [][Next]_vars

TypeOK == RegistreTypeOK /\ RetentionTypeOK /\ HoldsTypeOK

Symetrie == Permutations(Demandes) \cup Permutations(Holds) \cup Permutations(Comptes)
=============================================================================
