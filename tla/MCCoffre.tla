------------------------------ MODULE MCCoffre ------------------------------
(***************************************************************************)
(* The writers of the vault with one of its observers.  Readers and backup  *)
(* change nothing the writers read, nor one another: "observateur" chooses  *)
(* which of the two a behaviour has, and no behaviour needs both.           *)
(***************************************************************************)
EXTENDS Voute

CONSTANTS p1, p2

VARIABLE observateur

vars == <<vouteVars, observateur>>

(* p1 ends on a short frame, p2 is an empty recording.                      *)
MCOctets == [p \in Pieces |-> IF p = p1 THEN 3 ELSE 0]
(* No range, "-0", "-2", "-9", "0-", "1-1", "2-9", "1-0", "5-".             *)
MCEntetes ==
  {SansPlage} \cup
  {[debut |-> d[1], fin |-> d[2]] :
     d \in {<<Vide, 0>>, <<Vide, 2>>, <<Vide, 9>>, <<0, Vide>>, <<1, 1>>, <<2, 9>>, <<1, 0>>,
            <<5, Vide>>}}
MCRang == [p \in Pieces |-> IF p = p1 THEN 0 ELSE 1]
MCLocataireDe == [p \in Pieces |-> p]

Init ==
  /\ VouteInit
  /\ observateur \in {"lecture", "sauvegarde"}

(* Once a report is written or a base restored, the behaviour has told what *)
(* it had to tell.                                                          *)
Rapport == verif.pc = "rendu" \/ base.existe

Next ==
  /\ \/ ~Rapport /\ Ecrire
     \/ observateur = "lecture" /\ Ecouter(MCEntetes)
     \/ /\ observateur = "sauvegarde"
        /\ ~Rapport \/ base.existe
        /\ Sauvegarder
  /\ UNCHANGED observateur

(* At rest: neither the tool, nor a reception, nor a purge is at work.      *)
Calme == outil = OutilAuRepos /\ effacees = {} /\ \A p \in Pieces : rangement[p] \in {"hors", "fini"}

(* Bounds.  p2 is received in clear at some moment and stays as it is;      *)
(* beside a backup, it is the tool that seals p1.  The name a writer gives  *)
(* its key tells nothing of it: the tool has the key of the service under   *)
(* another name, or another key under the same name.  That other key, and   *)
(* the tool and ingestion crossing, are tried without accident, the         *)
(* crossing without observer.  A backup without key, and a verification     *)
(* that already found something, are followed while the vault is at rest.   *)
UnSeulScelle ==
  /\ rangement[p2] \in {"hors", "fini"} /\ outil.cible # p2
  /\ p2 \notin effacees \cup alterees
  /\ observateur = "sauvegarde" => \A p \in Pieces : rangement[p] \in {"hors", "fini"}
AutreCleSansIncident ==
  /\ outil.pc # "repos" => (outil.cle = CleApi <=> outil.ref # RefApi)
  /\ \/ incidents = 0
     \/ /\ outil.cle \in {Nul, CleApi}
        /\ \A p \in Pieces : disque[p] # Nul => disque[p].cle \in {Nul, CleApi}
CroiseSeul ==
  croisees # {} =>
    /\ observateur = "lecture" /\ lecture = AucuneLecture /\ billets = {} /\ journal = {}
    /\ incidents = 0 /\ rangement[p2] = "hors"
DitAuRepos ==
  /\ verif.pc = "confronter" /\ verif.trouvees # {} => Calme
  /\ prise.pc # "aucune" /\ prise.cle = Nul => Calme
Bornes == UnSeulScelle /\ AutreCleSansIncident /\ CroiseSeul /\ DitAuRepos

(* A restoration, and a verification of the files of the backup alone, only *)
(* read the backup: they are tried while nothing moves in the vault, and    *)
(* the fingerprint of the manifest where it makes a difference.  A wrong    *)
(* key opens no more of the vault than no key.                              *)
SansDoublon ==
  /\ base' # base => Calme
  /\ verif.pc = "repos" /\ verif'.pc = "rendu" => Calme
  /\ verif.pc = "repos" /\ verif'.pc # "repos" /\ verif'.consignee => prise.changes # {}
  /\ verif'.pc = "confronter" => "cle differente" \notin verif'.trouvees

Spec == Init /\ [][Next]_vars
=============================================================================
