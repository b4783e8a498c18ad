------------------------------- MODULE MCPurge -------------------------------
(***************************************************************************)
(* Small instances of Purge: two calls that began on days 0 and 1, so that  *)
(* one falls due while a report on the other is pending.                    *)
(***************************************************************************)
EXTENDS Purge, TLC

CONSTANTS r1, r2, c1

MCDebut == [r \in Enregistrements |-> IF r = r1 THEN 0 ELSE 1]

MCCategorieDe == [r \in Enregistrements |-> c1]

(* A legal floor above every period asked for: the category never gets a    *)
(* period of its own, only the general one moves.                           *)
MCPlancherLegal == [c \in Categories |-> 2]

(* The slots of requests are interchangeable; the calls, dated, are not.    *)
Symetrie == Permutations(Appels)
=============================================================================
