----------------------------- MODULE Sauvegarde -----------------------------
(***************************************************************************)
(* The backup of an instance and its two verifications.  sauvegarde:creer   *)
(* dumps the base, then lists the calls batch by batch, then writes the     *)
(* manifest; the service goes on meanwhile.  sauvegarde:verifier confronts  *)
(* the backup with its manifest, with the master key and with the vault;    *)
(* restauration:constater confronts a restored base with manifest and       *)
(* inventory.  All three are commands beside the service and write nothing  *)
(* it reads.                                                                *)
(*                                                                         *)
(* A call is its row of the inventory; its tenant, path, fingerprint and    *)
(* size never change and are left out.  The batches hold one call.  The     *)
(* declaration (json) beside each wav is never removed and is left out.     *)
(***************************************************************************)
EXTENDS Coffre, Integers, FiniteSets

CONSTANTS
  Rang,        \* order of the identifiers, which the inventory follows
  Locataires,
  LocataireDe

ASSUME SauvegardeAssumption ==
  /\ IsFiniteSet(Pieces)
  /\ Nul \notin {"fidele", "infidele"}
  /\ Rang \in [Pieces -> Nat]
  /\ \A p, q \in Pieces : Rang[p] = Rang[q] => p = q
  /\ LocataireDe \in [Pieces -> Locataires]

VARIABLES
  prise,    \* the last backup
  verif,    \* the locals and the report of sauvegarde:verifier
  base,     \* the base pg_restore rebuilt, if any
  constat   \* the report of restauration:constater

sauvegardeVars == <<prise, verif, base, constat>>

Table == [Pieces -> Ligne]
TableVide == [p \in Pieces |-> PasDeLigne]
Presentes(t) == {p \in Pieces : t[p].statut # "absente"}

Migrations == [total : Nat, derniere : {"m1", "m2", "autre"}]
MigrationsDeLaPrise == [total |-> 1, derniere |-> "m1"]

(* A backup: what is written, how far, and whether its parts are still what *)
(* was written.  "calme" is not in the files: it records that no row had    *)
(* changed since the dump when the inventory ended.                         *)
Prise ==
  [pc : {"aucune", "dump", "inventaire", "manifeste"}, dump : Table, inventaire : Table,
   cle : Cles \cup {Nul}, perdus : SUBSET {"dump", "inventaire"},
   changes : SUBSET {"dump", "inventaire", "manifeste"}, calme : BOOLEAN]
AucunePrise ==
  [pc |-> "aucune", dump |-> TableVide, inventaire |-> TableVide, cle |-> Nul,
   perdus |-> {}, changes |-> {}, calme |-> FALSE]

Anomalies ==
  {"manifeste modifie", "dump absent", "dump modifie", "inventaire absent",
   "inventaire modifie", "scellees sans cle", "cle absente", "cle differente", "manquantes",
   "divergentes", "cles inconnues", "purgees avec fichier", "orphelins", "non ouvertes"}
Verif ==
  [pc : {"repos", "confronter", "rendu"}, cle : Cles \cup {Nul}, stockage : BOOLEAN,
   consignee : BOOLEAN,
   surDisque : SUBSET Pieces, reste : SUBSET Pieces, trouvees : SUBSET Anomalies,
   disque0 : [Pieces -> Fichier \cup {Nul}]]
AucunFichier == [p \in Pieces |-> Nul]
AucuneVerif ==
  [pc |-> "repos", cle |-> Nul, stockage |-> FALSE, consignee |-> FALSE,
   surDisque |-> {}, reste |-> {}, trouvees |-> {}, disque0 |-> AucunFichier]

PasDeBase ==
  [existe |-> FALSE, table |-> TableVide, migrations |-> MigrationsDeLaPrise]

SauvegardeTypeOK ==
  /\ prise \in Prise
  /\ verif \in Verif
  /\ base.existe \in BOOLEAN /\ base.table \in Table /\ base.migrations \in Migrations
  /\ constat \in {Nul, "fidele", "infidele"}

SauvegardeInit ==
  /\ prise = AucunePrise
  /\ verif = AucuneVerif
  /\ base = PasDeBase
  /\ constat = Nul

-----------------------------------------------------------------------------
(* creerSauvegarde: a new directory, the dump (one snapshot of the base),   *)
(* the inventory in order of identifiers, then the manifest.                *)

Dumper(k) ==
  /\ prise.pc = "aucune"
  /\ prise' = [AucunePrise EXCEPT !.pc = "dump", !.dump = lignes, !.cle = k]
  /\ UNCHANGED <<verif, base, constat>>

Apres(curseur) == {p \in Presentes(lignes) : Rang[p] > curseur}
Curseur == IF Presentes(prise.inventaire) = {} THEN -1
           ELSE CHOOSE r \in {Rang[p] : p \in Presentes(prise.inventaire)} :
                  \A p \in Presentes(prise.inventaire) : Rang[p] <= r

Inventorier(p) ==
  /\ prise.pc = "dump"
  /\ p \in Apres(Curseur) /\ \A q \in Apres(Curseur) : Rang[p] <= Rang[q]
  /\ prise' = [prise EXCEPT !.inventaire[p] = lignes[p]]
  /\ UNCHANGED <<verif, base, constat>>

EcrireManifeste ==
  /\ prise.pc = "dump"
  /\ Apres(Curseur) = {}
  /\ prise' = [prise EXCEPT !.pc = "manifeste", !.calme = (prise.dump = lignes)]
  /\ UNCHANGED <<verif, base, constat>>

(* The command stops: a directory without a manifest, which no verification *)
(* accepts (lireManifeste throws).                                          *)
ArreterPrise ==
  /\ Incident
  /\ prise.pc = "dump"
  /\ prise' = AucunePrise
  /\ UNCHANGED <<verif, base, constat>>

(* A file of the backup is lost or changes after it was written; what       *)
(* happens to it after it was read is for the next verification.            *)
AbimerPrise(quoi, perdu) ==
  /\ Incident
  /\ prise.pc = "manifeste" /\ verif.pc = "repos"
  /\ IF perdu /\ quoi # "manifeste"
     THEN prise' = [prise EXCEPT !.perdus = @ \cup {quoi}]
     ELSE prise' = [prise EXCEPT !.changes = @ \cup {quoi}]
  /\ UNCHANGED <<verif, base, constat>>

Scellees(t) == {p \in Presentes(t) : t[p].statut = "stored" /\ t[p].chiffre}
ClesUtilisees(t) == {t[p].ref : p \in Presentes(t)} \ {Nul}

-----------------------------------------------------------------------------
(* verifierSauvegarde, with the fingerprint of the manifest or without it,  *)
(* with the master key k or none, with the vault or without it.             *)

ConstatCle(k) ==
  CASE prise.cle = Nul -> IF Scellees(prise.inventaire) # {} THEN {"scellees sans cle"} ELSE {}
    [] prise.cle # Nul /\ k = Nul -> {"cle absente"}
    [] prise.cle # Nul /\ k # Nul -> IF k = prise.cle THEN {} ELSE {"cle differente"}

(* The manifest vouches for the two other files, and the fingerprint kept   *)
(* elsewhere for the manifest: one that was changed may have been rewritten *)
(* to agree with what else was changed.                                     *)
Dementi(quoi) == quoi \in prise.changes /\ "manifeste" \notin prise.changes

ConstatPrise(consignee, k) ==
  (IF consignee /\ "manifeste" \in prise.changes THEN {"manifeste modifie"} ELSE {})
  \cup (IF "dump" \in prise.perdus THEN {"dump absent"}
        ELSE IF Dementi("dump") THEN {"dump modifie"} ELSE {})
  \cup (IF "inventaire" \in prise.perdus THEN {"inventaire absent"}
        ELSE IF Dementi("inventaire") THEN {"inventaire modifie"} ELSE {})
  \cup ConstatCle(k)

(* fichiersDe lists the vault once, before the lines are read.              *)
Verifier(consignee, k, stockage) ==
  /\ verif.pc = "repos" /\ prise.pc = "manifeste"
  /\ verif' =
       IF stockage /\ "inventaire" \notin prise.perdus
       THEN [pc |-> "confronter", stockage |-> TRUE, consignee |-> consignee,
             cle |-> IF k = prise.cle THEN k ELSE Nul,
             surDisque |-> {p \in Pieces : disque[p] # Nul},
             reste |-> Presentes(prise.inventaire),
             trouvees |-> ConstatPrise(consignee, k)
               \cup (IF \E p \in Pieces : provisoire[p] # Nul THEN {"orphelins"} ELSE {}),
             disque0 |-> disque]
       ELSE [AucuneVerif EXCEPT !.pc = "rendu", !.consignee = consignee,
                                !.trouvees = ConstatPrise(consignee, k)]
  /\ UNCHANGED <<prise, base, constat>>

(* empreinteDuClair recognises a container by its first bytes, not by the   *)
(* row, and opens it with the key of the backup.                            *)
ConstatFichier(f) ==
  CASE f = Nul -> {"divergentes"}
    [] f # Nul /\ f.sceau = "aucun" -> IF f.son = "intact" THEN {} ELSE {"divergentes"}
    [] f # Nul /\ f.sceau # "aucun" /\ verif.cle = Nul -> {"non ouvertes"}
    [] f # Nul /\ f.sceau # "aucun" /\ verif.cle # Nul ->
         IF f.sceau = "ouvrable" /\ f.cle = verif.cle /\ f.son = "intact"
         THEN {} ELSE {"divergentes"}

(* Mutant: a purged call is not looked for in the vault.                    *)
MutantConstatSansPurgees(p) ==
  LET l == prise.inventaire[p] IN
  CASE l.statut = "purged" -> {}
    [] l.statut # "purged" /\ p \notin verif.surDisque -> {"manquantes"}
    [] l.statut # "purged" /\ p \in verif.surDisque -> ConstatFichier(disque[p])

ConstatPiece(p) ==
  LET l == prise.inventaire[p] IN
  CASE l.statut = "purged" -> IF p \in verif.surDisque THEN {"purgees avec fichier"} ELSE {}
    [] l.statut # "purged" /\ p \notin verif.surDisque -> {"manquantes"}
    [] l.statut # "purged" /\ p \in verif.surDisque ->
         (IF l.chiffre /\ l.ref \notin ClesUtilisees(prise.inventaire)
          THEN {"cles inconnues"} ELSE {}) \cup ConstatFichier(disque[p])

ConfronterPiece(p) ==
  /\ verif.pc = "confronter" /\ p \in verif.reste
  /\ \A q \in verif.reste : Rang[p] <= Rang[q]
  /\ verif' = [verif EXCEPT !.reste = @ \ {p}, !.surDisque = @ \ {p},
                            !.trouvees = @ \cup ConstatPiece(p)]
  /\ UNCHANGED <<prise, base, constat>>

RendreRapport ==
  /\ verif.pc = "confronter" /\ verif.reste = {}
  /\ verif' = [verif EXCEPT !.pc = "rendu",
                 !.trouvees = @ \cup (IF verif.surDisque # {} THEN {"orphelins"} ELSE {})]
  /\ UNCHANGED <<prise, base, constat>>

Restaurable == verif.trouvees = {}

-----------------------------------------------------------------------------
(* pg_restore of the dump into a base, by the operator: whole, or with one  *)
(* row missing, added or different, or of another schema.                   *)

Restaurer(t, mig) ==
  /\ prise.pc = "manifeste" /\ ~base.existe
  /\ prise.perdus \cup prise.changes = {}
  /\ base' = [existe |-> TRUE, table |-> t, migrations |-> mig]
  /\ UNCHANGED <<prise, verif, constat>>

EtatDeMigration(trouvees, attendues) ==
  CASE trouvees = attendues -> "conforme"
    [] trouvees # attendues /\ trouvees.total < attendues.total -> "base en retard"
    [] trouvees # attendues /\ trouvees.total > attendues.total -> "base plus avancee"
    [] trouvees # attendues /\ trouvees.total = attendues.total -> "autre lignee"

NombreDe(t, loc) == Cardinality({p \in Presentes(t) : LocataireDe[p] = loc})

Absentes == Presentes(prise.inventaire) \ Presentes(base.table)

(* Mutant: the status is not among the fields compared.                     *)
MutantDivergentesSansStatut ==
  {p \in Presentes(prise.inventaire) \cap Presentes(base.table) :
     base.table[p].chiffre # prise.inventaire[p].chiffre}

Divergentes ==
  {p \in Presentes(prise.inventaire) \cap Presentes(base.table) :
     base.table[p] # prise.inventaire[p]}

EnTrop ==
  Cardinality(Presentes(base.table))
    > Cardinality(Presentes(prise.inventaire)) - Cardinality(Absentes)

(* verifierBaseRestauree: the batches of the inventory against the base;    *)
(* the rows no line describes are only counted.                             *)
Constater ==
  /\ base.existe /\ constat = Nul
  /\ constat' =
       IF /\ EtatDeMigration(base.migrations, MigrationsDeLaPrise)
               \in {"conforme", "base plus avancee"}
          /\ \A loc \in Locataires : NombreDe(base.table, loc) = NombreDe(prise.inventaire, loc)
          /\ Absentes = {} /\ Divergentes = {} /\ ~EnTrop
       THEN "fidele" ELSE "infidele"
  /\ UNCHANGED <<prise, verif, base>>

LignesDeBase ==
  {PasDeLigne} \cup [statut : {"stored", "purged"}, chiffre : {FALSE}, ref : {Nul}]
Restaurations ==
  {prise.dump} \cup {[prise.dump EXCEPT ![p] = l] : p \in Pieces, l \in LignesDeBase}
MigrationsTrouvees ==
  {[total |-> 0, derniere |-> "m1"], MigrationsDeLaPrise,
   [total |-> 1, derniere |-> "autre"], [total |-> 2, derniere |-> "m2"]}

SauvegardeNext ==
  \/ /\ \/ \E k \in {CleApi, Nul} : Dumper(k)
        \/ \E p \in Pieces : Inventorier(p) \/ ConfronterPiece(p)
        \/ EcrireManifeste \/ RendreRapport \/ Constater
        \/ \E consignee, stockage \in BOOLEAN, k \in Cles \cup {Nul} :
             Verifier(consignee, k, stockage)
        \/ \E t \in Restaurations : Restaurer(t, MigrationsDeLaPrise)
        \/ \E mig \in MigrationsTrouvees : Restaurer(prise.dump, mig)
     /\ UNCHANGED incidents
  \/ ArreterPrise
  \/ \E quoi \in {"dump", "inventaire", "manifeste"}, perdu \in BOOLEAN : AbimerPrise(quoi, perdu)

(* The three commands beside the writers of the vault.                      *)
SauvegardeSpec ==
  /\ CoffreInit /\ SauvegardeInit
  /\ [][\/ CoffreNext /\ UNCHANGED sauvegardeVars
        \/ /\ SauvegardeNext
           /\ UNCHANGED <<lignes, disque, provisoire, rangement, copies, effacees, outil, histoire>>]_
       <<coffreVars, sauvegardeVars>>

-----------------------------------------------------------------------------
(* A report that allows to sleep (verification.service.ts:62) of a vault    *)
(* nothing touched while it was read: every call of the inventory is there  *)
(* and opens with the key at hand, no purged call is back, nothing else is  *)
(* in the vault, and dump and inventory are the ones that were taken.  Of a *)
(* call the tool and ingestion seal at once, the file may change twice and  *)
(* come back to what it was.                                                *)
RestaurableFondee ==
  verif.pc = "rendu" /\ Restaurable =>
    /\ prise.perdus = {}
    /\ verif.consignee \/ "manifeste" \notin prise.changes => prise.changes = {}
    /\ verif.stockage /\ verif.disque0 = disque =>
         \A p \in Pieces \ croisees :
           IF prise.inventaire[p].statut = "stored"
           THEN /\ disque[p] # Nul /\ disque[p].son = "intact"
                /\ disque[p].sceau = "aucun" \/ (disque[p].sceau = "ouvrable" /\ disque[p].cle = verif.cle)
           ELSE disque[p] = Nul

(* A base declared faithful is the inventory, row for row, although the     *)
(* rows in excess are only counted (base-restauree.ts:230-235); and no      *)
(* alarm on a sound restoration (base-restauree.ts:34-38): the dump of a    *)
(* backup during which no row changed, restored whole under the same or     *)
(* later migrations, is declared faithful.                                  *)
ConstatJuste ==
  /\ constat = "fidele" => base.table = prise.inventaire
  /\ constat = "infidele" /\ prise.calme =>
       base.table # prise.dump \/ base.migrations.total < 1 \/ base.migrations.derniere = "autre"

(* The same of any backup.  Fails: the inventory is read after the dump,    *)
(* and the calls received, sealed or purged in between differ.              *)
PriseFidele ==
  constat = "infidele" =>
    base.table # prise.dump \/ base.migrations.total < 1 \/ base.migrations.derniere = "autre"
=============================================================================
