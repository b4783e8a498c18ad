----------------------------- MODULE Destruction -----------------------------
(***************************************************************************)
(* What the purge promises, without saying how: a call is destroyed only    *)
(* under an act that listed it, written before, and only after the term     *)
(* that this act gave it.  Once written, an act never changes what it       *)
(* authorises, and a destroyed call never comes back.                       *)
(***************************************************************************)
EXTENDS Naturals

CONSTANTS Pieces, Actes

VARIABLES
  etat,       \* of each piece: "inconnue", "conservee" or "detruite"
  autorises,  \* the pieces each act lists for destruction
  terme,      \* the day each act lets a piece go, for each piece
  jour        \* today

vars == <<etat, autorises, terme, jour>>

Init ==
  /\ etat = [p \in Pieces |-> "inconnue"]
  /\ autorises = [k \in Actes |-> {}]
  /\ terme \in [Actes -> [Pieces -> Nat]]
  /\ jour = 0

Recueillir(p) ==
  /\ etat[p] = "inconnue"
  /\ etat' = [etat EXCEPT ![p] = "conservee"]
  /\ UNCHANGED <<autorises, terme, jour>>

(* The list and the terms of an act are written together, and only once.    *)
Autoriser(k, liste) ==
  /\ autorises[k] = {}
  /\ autorises' = [autorises EXCEPT ![k] = liste]
  /\ terme' \in [Actes -> [Pieces -> Nat]]
  /\ \A j \in Actes \ {k} : terme'[j] = terme[j]
  /\ UNCHANGED <<etat, jour>>

Detruire(p) ==
  /\ etat[p] = "conservee"
  /\ \E k \in Actes : p \in autorises[k] /\ terme[k][p] < jour
  /\ etat' = [etat EXCEPT ![p] = "detruite"]
  /\ UNCHANGED <<autorises, terme, jour>>

PasserUnJour ==
  /\ jour' = jour + 1
  /\ UNCHANGED <<etat, autorises, terme>>

Next ==
  \/ \E p \in Pieces : Recueillir(p) \/ Detruire(p)
  \/ \E k \in Actes, liste \in SUBSET Pieces : Autoriser(k, liste)
  \/ PasserUnJour

Spec == Init /\ [][Next]_vars
=============================================================================
