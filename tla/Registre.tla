------------------------------ MODULE Registre ------------------------------
(***************************************************************************)
(* The recordings of one tenant as the other components see them: the rows *)
(* of the table "recordings", the audio files of the vault (STORAGE_DIR),  *)
(* and the date.  The services of retention, legal hold and purge all read *)
(* this register; ingestion fills it, the purge empties it.                *)
(*                                                                         *)
(* Dates are counted in days, the unit of the retention periods.  A row is *)
(* "stored" for both members of PURGEABLES: nothing in the code ever sets  *)
(* "archived".                                                             *)
(***************************************************************************)
EXTENDS Naturals

CONSTANTS
  Enregistrements,  \* the calls this tenant can come to hold
  Categories,       \* INGEST_OPERATION_CATEGORIES
  CategorieDe,      \* operation_category of each call
  Debut,            \* started_at of each call, in days
  DernierJour       \* bound: the clock stops there

ASSUME RegistreAssumption ==
  /\ CategorieDe \in [Enregistrements -> Categories]
  /\ Debut \in [Enregistrements -> Nat]
  /\ DernierJour \in Nat

VARIABLES
  statut,    \* Recording.status, or "absente" before the row exists
  fichiers,  \* the calls whose audio file is in the vault
  jour       \* today

registreVars == <<statut, fichiers, jour>>

StatutsEnregistrement == {"absente", "stored", "purged"}

RegistreTypeOK ==
  /\ statut \in [Enregistrements -> StatutsEnregistrement]
  /\ fichiers \in SUBSET Enregistrements
  /\ jour \in Nat

RegistreInit ==
  /\ statut = [r \in Enregistrements |-> "absente"]
  /\ fichiers = {}
  /\ jour = 0

(* retention.exigerEnregistrement, recordings.exiger...: the row exists.    *)
(* A purged call keeps its row, so it passes.                              *)
Existe(r) == statut[r] # "absente"

(* Ingestion commits one call: its file is in place before its row.        *)
Ingerer(r) ==
  /\ statut[r] = "absente"
  /\ statut' = [statut EXCEPT ![r] = "stored"]
  /\ fichiers' = fichiers \cup {r}
  /\ UNCHANGED jour

PasserUnJour ==
  /\ jour < DernierJour
  /\ jour' = jour + 1
  /\ UNCHANGED <<statut, fichiers>>

RegistreNext ==
  \/ \E r \in Enregistrements : Ingerer(r)
  \/ PasserUnJour
=============================================================================
