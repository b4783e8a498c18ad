-------------------------------- MODULE Voute --------------------------------
(***************************************************************************)
(* The vault with all who work on it at once: the writers of module Coffre, *)
(* the listener and the exporter of Ecoute, the operator who takes, checks  *)
(* and restores a backup.  Those who read change nothing the writers read,  *)
(* but the events they share a bound with.                                  *)
(***************************************************************************)
EXTENDS Ecoute, Sauvegarde

vouteVars == <<coffreVars, ecouteVars, sauvegardeVars>>

VouteTypeOK == CoffreTypeOK /\ EcouteTypeOK /\ SauvegardeTypeOK

VouteInit == CoffreInit /\ EcouteInit /\ SauvegardeInit

Ecrire == CoffreNext /\ UNCHANGED <<ecouteVars, sauvegardeVars>>

Ecouter(entetes) == EcouteNext(entetes) /\ UNCHANGED <<coffreVars, sauvegardeVars>>

Sauvegarder ==
  /\ SauvegardeNext
  /\ UNCHANGED <<lignes, disque, provisoire, rangement, copies, effacees, outil, histoire>>
  /\ UNCHANGED ecouteVars

VouteSpec == VouteInit /\ [][Ecrire \/ Ecouter(TousEntetes) \/ Sauvegarder]_vouteVars
=============================================================================
