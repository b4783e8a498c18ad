------------------------------- MODULE MCAcces -------------------------------
(***************************************************************************)
(* Sessions and the administration of accounts, on two instances.  One has  *)
(* several administrators who act on one another, an operator at the        *)
(* command line and the directory, and no session: it asks what becomes of  *)
(* the administrators.  The other has one administrator, one account that   *)
(* he or the directory creates, and concurrent session requests: it asks    *)
(* what becomes of the tokens.                                              *)
(***************************************************************************)
EXTENDS Sessions, FiniteSets, TLC

CONSTANTS a1, a2, a3, u1

Ligne(role, source, instance) ==
  [existe |-> TRUE, role |-> role, source |-> source, actif |-> TRUE,
   instance |-> instance, porte |-> source = "local", secret |-> 0,
   echecs |-> 0, verrou |-> FALSE]

Absent == [Ligne("AUDITOR", "local", FALSE) EXCEPT !.existe = FALSE, !.porte = FALSE]

MCCompteInitial ==
  [c \in Comptes |->
     CASE c \in {a1, a2} -> Ligne("ADMIN", "local", TRUE)
       [] c = a3 -> Ligne("ADMIN", "ad", TRUE)
       [] c = u1 -> Absent]

MCFormes ==
  {[role |-> "AUDITOR", actif |-> "inchange"], [role |-> "inchange", actif |-> "non"],
   [role |-> "ADMIN", actif |-> "oui"]}

Symetrie == Permutations({a1, a2})
SymetrieSessions == Permutations(Jetons) \cup Permutations(Requetes)

(* Bound: two acts under way at once.  Past the first overlap, or once the  *)
(* synchronisation took an administrator of the instance away, a property   *)
(* of the administrators says nothing more and the run goes no further.     *)
DeuxALaFois ==
  /\ ~chevauche /\ ~retire
  /\ Cardinality({u \in Acteurs : EnCours(u)}) <= 2
=============================================================================
