---------------------------- MODULE Administration ----------------------------
(***************************************************************************)
(* The accounts of one tenant and the acts that change them: UsersService   *)
(* on behalf of an administrator, the command line admin-instance, and the  *)
(* periodic synchronisation with the directory.  Each act reads the account *)
(* it aims at, counts the administrators that would remain, and only then   *)
(* writes; nothing holds a lock or a transaction over the three, so another *)
(* act can be decided between any two of them.                              *)
(*                                                                         *)
(* An access token is believed until it expires, whatever became of its     *)
(* bearer: the authors are the accounts that hold an ADMIN one.             *)
(***************************************************************************)
EXTENDS Naturals

CONSTANTS
  Comptes,    \* the accounts of the tenant, present or to come
  Auteurs,    \* the accounts that hold an ADMIN access token; one act each
  Cli,        \* the author "the operator at the command line"
  Natures,    \* the acts requested (bound)
  FormesDemandees, \* the bodies of the modifications requested (bound)
  RolesDonnes, \* the roles given to new accounts and by the directory (bound)
  SynchroActive, \* the setting synchro.actif of the directory
  CompteInitial, \* the row of each account at the start
  SecretMax   \* bound: passwords an account can have in turn

VARIABLES
  comptes,    \* the table users
  actes,      \* the locals of each administration request in flight
  synchro,    \* the locals of the synchronisation
  chevauche,  \* history: an act was written while another was under way
  retire      \* history: the synchronisation deactivated an instance admin

adminVars == <<comptes, actes, synchro, chevauche, retire>>

(* porte says passwordHash is not null; secret numbers the successive       *)
(* passwords of the account, and the time without one.  verrou is           *)
(* lockedUntil in the future.                                               *)
Compte ==
  [existe : BOOLEAN, role : {"ADMIN", "AUDITOR"}, source : {"local", "ad"},
   actif : BOOLEAN, instance : BOOLEAN, porte : BOOLEAN,
   secret : 0..SecretMax, echecs : Nat, verrou : BOOLEAN]

(* UpdateUserDto: at least one of the two is there.  AUDITOR stands for the *)
(* two roles that are not ADMIN, the only one that is ever tested.          *)
Formes ==
  {f \in [role : {"inchange", "ADMIN", "AUDITOR"}, actif : {"inchange", "oui", "non"}] :
     f.role # "inchange" \/ f.actif # "inchange"}

ToutesNatures == {"creer", "modifier", "reinitialiser", "rattacher", "promouvoir", "revoquer"}

ASSUME AdministrationAssumption ==
  /\ CompteInitial \in [Comptes -> Compte]
  /\ \A c \in Comptes : CompteInitial[c].echecs = 0 /\ CompteInitial[c].verrou = FALSE
  /\ \A c \in Comptes : ~CompteInitial[c].existe =>
       CompteInitial[c].porte = FALSE /\ CompteInitial[c].instance = FALSE
  /\ Cli \notin Comptes
  /\ Natures \subseteq ToutesNatures
  /\ FormesDemandees \subseteq Formes
  /\ RolesDonnes \subseteq {"ADMIN", "AUDITOR"}
  /\ SynchroActive \in BOOLEAN
  /\ SecretMax \in Nat \ {0}

Acteurs == Auteurs \cup {Cli}

(* locaux: the row read calls for exigerUnAutreAdministrateurLocal; seul:   *)
(* what it returned, "sans contre-validation" in the audit event.           *)
Acte ==
  [pc : {"repos", "instance", "local", "ecrire", "sessions"},
   nature : ToutesNatures \cup {"-"}, cible : Comptes \cup {Cli},
   forme : Formes \cup {Cli}, locaux : BOOLEAN, accepte : BOOLEAN, seul : BOOLEAN]

PasDActe ==
  [pc |-> "repos", nature |-> "-", cible |-> Cli, forme |-> Cli,
   locaux |-> FALSE, accepte |-> FALSE, seul |-> FALSE]

AdminTypeOK ==
  /\ comptes \in [Comptes -> Compte]
  /\ actes \in [Acteurs -> Acte]
  /\ synchro \in [reste : SUBSET Comptes, cible : Comptes \cup {Cli}]
  /\ chevauche \in BOOLEAN /\ retire \in BOOLEAN

AdminInit ==
  /\ comptes = CompteInitial
  /\ actes = [u \in Acteurs |-> PasDActe]
  /\ synchro = [reste |-> {}, cible |-> Cli]
  /\ chevauche = FALSE /\ retire = FALSE

-----------------------------------------------------------------------------
(* What the counts select                                                   *)

EstAdminLocal(c) ==
  /\ comptes[c].existe /\ comptes[c].actif
  /\ comptes[c].role = "ADMIN" /\ comptes[c].source = "local"

(* The seed gives each tenant an administrator with a password (seed.ts).   *)
AdminAuDepart ==
  \E c \in Comptes :
    /\ CompteInitial[c].existe /\ CompteInitial[c].actif
    /\ CompteInitial[c].role = "ADMIN" /\ CompteInitial[c].source = "local"

AdminsLocaux == {c \in Comptes : EstAdminLocal(c)}

Unique(S) == \E c \in S : S = {c}

(* exigerUnAutreAdministrateurDInstance does not look at the role: the      *)
(* privilege is a flag of its own.                                          *)
AdminsInstance ==
  {c \in Comptes : comptes[c].existe /\ comptes[c].actif /\ comptes[c].instance}

PerdSonRole(lu, forme) == forme.role = "AUDITOR" /\ lu.role = "ADMIN"
SeraDesactive(lu, forme) == forme.actif = "non" /\ lu.actif

(* Mutant: only a demotion asks for another administrator of the instance.  *)
MutantInstanceRoleSeul(nature, lu, forme) ==
  \/ nature = "revoquer" /\ lu.instance
  \/ nature = "modifier" /\ lu.instance /\ PerdSonRole(lu, forme)

CompteDInstance(nature, lu, forme) ==
  \/ nature = "revoquer" /\ lu.instance
  \/ nature = "modifier" /\ lu.instance /\ (PerdSonRole(lu, forme) \/ SeraDesactive(lu, forme))

(* Mutant: attaching an account to the directory is not seen as a removal.  *)
MutantSansRattachement(nature, lu, forme) ==
  /\ nature = "modifier" /\ (PerdSonRole(lu, forme) \/ SeraDesactive(lu, forme))
  /\ lu.role = "ADMIN" /\ lu.source = "local" /\ lu.actif

(* exigerUnAutreAdministrateurLocal is called, and does not return at once. *)
CompteLocaux(nature, lu, forme) ==
  /\ \/ nature = "modifier" /\ (PerdSonRole(lu, forme) \/ SeraDesactive(lu, forme))
     \/ nature = "rattacher"
  /\ lu.role = "ADMIN" /\ lu.source = "local" /\ lu.actif

(* The refusals that the account read decides.                              *)
Recevable(u, nature, cible) ==
  CASE nature = "modifier" -> u # Cli /\ cible # u
    [] nature = "rattacher" -> u # Cli /\ cible # u /\ comptes[cible].source = "local"
    [] nature = "reinitialiser" -> u # Cli
    [] nature = "promouvoir" -> u = Cli /\ comptes[cible].role = "ADMIN" /\ comptes[cible].actif
    [] nature = "revoquer" -> u = Cli

-----------------------------------------------------------------------------
(* The acts                                                                 *)

(* creer.  The address is unique in the table: of two requests for one      *)
(* address, the second is refused whatever it had read.                     *)
Creer(u, c, role) ==
  /\ "creer" \in Natures /\ u \in Auteurs
  /\ actes[u].pc = "repos"
  /\ ~comptes[c].existe
  /\ comptes' = [comptes EXCEPT
       ![c] = [existe |-> TRUE, role |-> role, source |-> "local", actif |-> TRUE,
               instance |-> FALSE, porte |-> TRUE, secret |-> comptes[c].secret,
               echecs |-> 0, verrou |-> FALSE]]
  /\ UNCHANGED <<actes, synchro, chevauche, retire>>

Suite(locaux) == IF locaux THEN "local" ELSE "ecrire"

(* exigerCompte, the refusals that follow from the row, and what the row    *)
(* calls for.  The author's consent is looked at in the local count only.   *)
ActeLit(u, nature, c, forme, accepte) ==
  LET locaux == CompteLocaux(nature, comptes[c], forme) IN
  /\ nature \in Natures \ {"creer"}
  /\ actes[u].pc = "repos"
  /\ comptes[c].existe
  /\ Recevable(u, nature, c)
  /\ actes' = [actes EXCEPT
       ![u] = [pc |-> IF CompteDInstance(nature, comptes[c], forme) THEN "instance"
                      ELSE Suite(locaux),
               nature |-> nature, cible |-> c, forme |-> forme, locaux |-> locaux,
               accepte |-> accepte /\ locaux, seul |-> FALSE]]
  /\ UNCHANGED <<comptes, synchro, chevauche, retire>>

(* The count of exigerUnAutreAdministrateurDInstance, or of the command     *)
(* line before it revokes.                                                  *)
ActeCompteInstance(u) ==
  /\ actes[u].pc = "instance"
  /\ actes' = [actes EXCEPT ![u] =
       IF AdminsInstance \ {actes[u].cible} = {} THEN PasDActe
       ELSE [actes[u] EXCEPT !.pc = Suite(actes[u].locaux)]]
  /\ UNCHANGED <<comptes, synchro, chevauche, retire>>

(* Mutant: the consent is asked for, and the audit event does not say so.   *)
MutantSansMention(u) ==
  LET autres == AdminsLocaux \ {actes[u].cible}
      dernier == Unique(autres)
  IN
  /\ actes[u].pc = "local"
  /\ actes' = [actes EXCEPT ![u] =
       IF autres = {} \/ (dernier /\ ~actes[u].accepte) THEN PasDActe
       ELSE [actes[u] EXCEPT !.pc = "ecrire"]]
  /\ UNCHANGED <<comptes, synchro, chevauche, retire>>

(* The count of exigerUnAutreAdministrateurLocal: the last one is never     *)
(* taken away, the last but one only if the author assumes it.              *)
ActeCompteLocal(u) ==
  LET autres == AdminsLocaux \ {actes[u].cible}
      dernier == Unique(autres)
  IN
  /\ actes[u].pc = "local"
  /\ actes' = [actes EXCEPT ![u] =
       IF autres = {} \/ (dernier /\ ~actes[u].accepte) THEN PasDActe
       ELSE [actes[u] EXCEPT !.pc = "ecrire", !.seul = dernier]]
  /\ UNCHANGED <<comptes, synchro, chevauche, retire>>

(* The row an act leaves: only the columns the update names.                *)
Ecrite(acte, ligne) ==
  CASE acte.nature = "modifier" ->
         [ligne EXCEPT
            !.role = IF acte.forme.role = "inchange" THEN @ ELSE acte.forme.role,
            !.actif = IF acte.forme.actif = "inchange" THEN @ ELSE acte.forme.actif = "oui",
            !.echecs = IF acte.forme.actif = "oui" THEN 0 ELSE @,
            !.verrou = IF acte.forme.actif = "oui" THEN FALSE ELSE @]
    [] acte.nature = "reinitialiser" ->
         [ligne EXCEPT !.porte = TRUE, !.secret = @ + 1, !.echecs = 0, !.verrou = FALSE]
    [] acte.nature = "rattacher" ->
         [ligne EXCEPT !.source = "ad", !.porte = FALSE, !.secret = @ + 1,
                       !.echecs = 0, !.verrou = FALSE]
    [] acte.nature = "promouvoir" -> [ligne EXCEPT !.instance = TRUE]
    [] acte.nature = "revoquer" -> [ligne EXCEPT !.instance = FALSE]

EnCours(u) == actes[u].pc \in {"instance", "local", "ecrire"}

(* The update, and the audit event with its mention.  The acts that close   *)
(* the door on a password still have the sessions to revoke.                *)
ActeEcrit(u) ==
  LET acte == actes[u] IN
  /\ acte.pc = "ecrire"
  /\ acte.nature \in {"reinitialiser", "rattacher"} => comptes[acte.cible].secret < SecretMax
  /\ comptes' = [comptes EXCEPT ![acte.cible] = Ecrite(acte, comptes[acte.cible])]
  /\ actes' = [actes EXCEPT ![u] =
       IF acte.nature \in {"reinitialiser", "rattacher"}
       THEN [acte EXCEPT !.pc = "sessions"] ELSE PasDActe]
  /\ chevauche' = (chevauche \/ \E v \in Acteurs \ {u} : EnCours(v))
  /\ UNCHANGED <<synchro, retire>>

-----------------------------------------------------------------------------
(* The synchronisation                                                      *)

SynchroCommence ==
  /\ SynchroActive
  /\ synchro.reste = {} /\ synchro.cible = Cli
  /\ synchro' = [synchro EXCEPT !.reste =
       {c \in Comptes : comptes[c].existe /\ comptes[c].source = "ad" /\ comptes[c].actif}]
  /\ UNCHANGED <<comptes, actes, chevauche, retire>>

(* The directory answers for one account of the list: still mapped, gone,   *)
(* or no answer at all, which ends the pass.                                *)
SynchroCherche(c) ==
  /\ c \in synchro.reste /\ synchro.cible = Cli
  /\ \/ synchro' = [synchro EXCEPT !.reste = @ \ {c}]
     \/ synchro' = [reste |-> synchro.reste \ {c}, cible |-> c]
     \/ synchro' = [synchro EXCEPT !.reste = {}]
  /\ UNCHANGED <<comptes, actes, chevauche, retire>>

(* It deactivates on the verdict alone, and asks for no other administrator *)
(* of the instance.                                                         *)
SynchroDesactive(c) ==
  /\ c = synchro.cible
  /\ comptes' = [comptes EXCEPT ![c].actif = FALSE]
  /\ retire' = (retire \/ comptes[c].instance)
  /\ synchro' = [synchro EXCEPT !.cible = Cli]
  /\ UNCHANGED <<actes, chevauche>>

Actes ==
  \/ \E u \in Acteurs :
       \/ \E c \in Comptes, role \in RolesDonnes : Creer(u, c, role)
       \/ \E c \in Comptes :
            \/ \E f \in FormesDemandees, accepte \in BOOLEAN : ActeLit(u, "modifier", c, f, accepte)
            \/ \E accepte \in BOOLEAN : ActeLit(u, "rattacher", c, Cli, accepte)
            \/ \E n \in {"reinitialiser", "promouvoir", "revoquer"} :
                 ActeLit(u, n, c, Cli, FALSE)
       \/ ActeCompteInstance(u) \/ ActeCompteLocal(u) \/ ActeEcrit(u)
  \/ SynchroCommence
  \/ \E c \in Comptes : SynchroCherche(c) \/ SynchroDesactive(c)
=============================================================================
