------------------------------ MODULE Reglages ------------------------------
(***************************************************************************)
(* The settings of the instance: one versioned row per section, a cache in  *)
(* the memory of the process, and the tabs of the administrators who read a *)
(* section and write it back with the version they read.  Several requests  *)
(* are in flight at once; nothing serialises them, and the update has no    *)
(* condition on the version it replaces.                                    *)
(*                                                                         *)
(* The section of the directory carries a secret, the password of the       *)
(* service account: no answer shows it, and a write that does not give a    *)
(* new one keeps the one the service has read.                              *)
(***************************************************************************)
EXTENDS Naturals

CONSTANTS
  Sections,        \* keys of the table instance_settings
  Secretes,        \* the sections that carry a secret (annuaire)
  Contenus,        \* what a section says, its secret apart
  Defaut,          \* the content the code gives to a section never written
  Recevables,      \* what valider accepts
  Secrets,         \* passwords of the service account
  Operateurs,      \* administrators of the instance, one tab each
  Aucun,           \* no secret, nothing read
  VersionMax       \* bound on the versions of a section

ASSUME ReglagesAssumption ==
  /\ Secretes \subseteq Sections
  /\ Sections # {}
  /\ Defaut \in Contenus /\ Recevables \subseteq Contenus
  /\ Aucun \notin Secrets
  /\ VersionMax \in Nat

VARIABLES
  reglages,    \* the table instance_settings
  cache,       \* InstanceSettingsService.cache
  onglets,     \* the tab of each administrator and its request in flight
  journalises, \* the SETTINGS_SET events
  troublees,   \* history: sections where a write met another request half-way
  ecrasees,    \* history: sections where a version nobody had read was replaced
  donnes       \* history: the secret given last to each section

reglagesVars == <<reglages, cache, onglets, journalises, troublees, ecrasees, donnes>>

Section ==
  [version : 0..VersionMax, contenu : Contenus, secret : Secrets \cup {Aucun}]
(* No row: the default of the code, under version 0.                        *)
JamaisEcrite == [version |-> 0, contenu |-> Defaut, secret |-> Aucun]

(* section, version, contenu: what the tab holds; secret: the password      *)
(* typed; garde: the secret definir keeps; avant: what ecrire read; lu: a   *)
(* row fetched and not yet in the cache.                                    *)
Onglet ==
  [pc : {"ferme", "ouvrir", "repos", "lire", "garder", "valider", "relire", "ecrire", "invalider", "tracer"},
   section : Sections, version : 0..VersionMax, contenu : Contenus,
   secret : Secrets \cup {Aucun}, garde : Secrets \cup {Aucun},
   avant : Section, lu : Section \cup {Aucun}]

ReglagesTypeOK ==
  /\ reglages \in [Sections -> Section]
  /\ cache \in [Sections -> Section \cup {Aucun}]
  /\ onglets \in [Operateurs -> Onglet]
  /\ journalises \subseteq
       [section : Sections, avant : 0..VersionMax, apres : 1..VersionMax, remplace : BOOLEAN]
  /\ troublees \subseteq Sections /\ ecrasees \subseteq Sections
  /\ donnes \in [Sections -> Secrets \cup {Aucun}]

ReglagesInit ==
  /\ reglages = [s \in Sections |-> JamaisEcrite]
  /\ cache = [s \in Sections |-> Aucun]
  /\ onglets = [o \in Operateurs |->
       [pc |-> "ferme", section |-> CHOOSE s \in Sections : TRUE, version |-> 0,
        contenu |-> Defaut, secret |-> Aucun, garde |-> Aucun, avant |-> JamaisEcrite,
        lu |-> Aucun]]
  /\ journalises = {} /\ troublees = {} /\ ecrasees = {}
  /\ donnes = [s \in Sections |-> Aucun]

(* The end of a request: the tab keeps what it shows, unless it shows       *)
(* nothing yet.                                                             *)
AuRepos(o) ==
  [o EXCEPT !.pc = IF o.pc \in {"ferme", "ouvrir"} THEN "ferme" ELSE "repos",
            !.secret = Aucun, !.garde = Aucun, !.avant = JamaisEcrite, !.lu = Aucun]

-----------------------------------------------------------------------------
(* InstanceSettingsService.lire: from the cache, or from the table and then *)
(* into the cache.  Each reading ends in what its caller does with it.      *)

Lectures == {"ouvrir", "lire", "garder", "relire"}

(* lire, for a tab that opens or that has just written: it shows the        *)
(* section.  definir: the secret in place is kept aside.  ecrire: a version *)
(* other than the one the tab holds is a conflict.                          *)
Lue(o, v) ==
  CASE o.pc \in {"ouvrir", "lire"} ->
         [AuRepos(o) EXCEPT !.pc = "repos", !.version = v.version, !.contenu = v.contenu]
    [] o.pc = "garder" -> [o EXCEPT !.pc = "valider", !.garde = v.secret, !.lu = Aucun]
    [] o.pc = "relire" ->
         IF v.version # o.version THEN AuRepos(o)
         ELSE [o EXCEPT !.pc = "ecrire", !.avant = v, !.lu = Aucun]

(* Another request has written the section and not yet cleared the cache.   *)
EnInvalidation(a) ==
  \E b \in Operateurs \ {a} :
    onglets[b].section = onglets[a].section /\ onglets[b].pc = "invalider"

LireDuCache(a) ==
  LET o == onglets[a] IN
  /\ o.pc \in Lectures /\ o.lu = Aucun
  /\ cache[o.section] # Aucun
  /\ onglets' = [onglets EXCEPT ![a] = Lue(o, cache[o.section])]
  /\ troublees' = IF EnInvalidation(a) THEN troublees \cup {o.section} ELSE troublees
  /\ UNCHANGED <<reglages, cache, journalises, ecrasees, donnes>>

LireEnBase(a) ==
  LET o == onglets[a] IN
  /\ o.pc \in Lectures /\ o.lu = Aucun
  /\ cache[o.section] = Aucun
  /\ onglets' = [onglets EXCEPT ![a].lu = reglages[o.section]]
  /\ UNCHANGED <<reglages, cache, journalises, troublees, ecrasees, donnes>>

MettreEnCache(a) ==
  LET o == onglets[a] IN
  /\ o.lu # Aucun
  /\ cache' = [cache EXCEPT ![o.section] = o.lu]
  /\ onglets' = [onglets EXCEPT ![a] = Lue(o, o.lu)]
  /\ UNCHANGED <<reglages, journalises, troublees, ecrasees, donnes>>

-----------------------------------------------------------------------------
(* A tab opens on a section.                                                *)
Ouvrir(a, s) ==
  /\ onglets[a].pc \in {"ferme", "repos"}
  /\ onglets' = [onglets EXCEPT
       ![a] = [AuRepos(@) EXCEPT !.pc = "ouvrir", !.section = s, !.version = 0,
                                 !.contenu = Defaut]]
  /\ UNCHANGED <<reglages, cache, journalises, troublees, ecrasees, donnes>>

(* definir: the network section is validated at once, the directory's after *)
(* a reading of the secret in place and one of the tenants.                 *)
DefinirSection(a, c, k) ==
  LET o == onglets[a] IN
  /\ o.pc = "repos"
  /\ o.section \notin Secretes => k = Aucun
  /\ onglets' = [onglets EXCEPT
       ![a] = IF o.section \in Secretes
              THEN [o EXCEPT !.pc = "garder", !.contenu = c, !.secret = k]
              ELSE IF c \in Recevables THEN [o EXCEPT !.pc = "relire", !.contenu = c]
              ELSE o]
  /\ UNCHANGED <<reglages, cache, journalises, troublees, ecrasees, donnes>>

Valider(a) ==
  LET o == onglets[a] IN
  /\ o.pc = "valider"
  /\ onglets' = [onglets EXCEPT
       ![a] = IF o.contenu \notin Recevables THEN AuRepos(o)
              ELSE [o EXCEPT !.pc = "relire",
                             !.garde = IF o.secret = Aucun THEN @ ELSE o.secret]]
  /\ UNCHANGED <<reglages, cache, journalises, troublees, ecrasees, donnes>>

(* Another request for the section holds a row it read before this write.   *)
TientUneLecture(b, s) ==
  onglets[b].section = s /\ (onglets[b].lu # Aucun \/ onglets[b].pc \in {"ecrire", "invalider"})

(* ecrire: the upsert, by key alone.                                        *)
Ecrire(a) ==
  LET o == onglets[a]
      s == o.section
  IN
  /\ o.pc = "ecrire"
  /\ o.avant.version < VersionMax
  /\ reglages' = [reglages EXCEPT ![s] =
       [version |-> o.avant.version + 1, contenu |-> o.contenu, secret |-> o.garde]]
  /\ ecrasees' = IF reglages[s].version # o.version THEN ecrasees \cup {s} ELSE ecrasees
  /\ troublees' = IF \E b \in Operateurs \ {a} : TientUneLecture(b, s)
                  THEN troublees \cup {s} ELSE troublees
  /\ donnes' = IF o.secret # Aucun THEN [donnes EXCEPT ![s] = o.secret] ELSE donnes
  /\ onglets' = [onglets EXCEPT ![a].pc = "invalider"]
  /\ UNCHANGED <<cache, journalises>>

(* Mutant: the cache is left as it is.                                      *)
MutantInvaliderRien(a) ==
  /\ onglets[a].pc = "invalider"
  /\ onglets' = [onglets EXCEPT ![a].pc = "tracer"]
  /\ UNCHANGED <<reglages, cache, journalises, troublees, ecrasees, donnes>>

Invalider(a) ==
  /\ onglets[a].pc = "invalider"
  /\ cache' = [cache EXCEPT ![onglets[a].section] = Aucun]
  /\ onglets' = [onglets EXCEPT ![a].pc = "tracer"]
  /\ UNCHANGED <<reglages, journalises, troublees, ecrasees, donnes>>

Tracer(a) ==
  LET o == onglets[a] IN
  /\ o.pc = "tracer"
  /\ journalises' = journalises \cup
       {[section |-> o.section, avant |-> o.avant.version, apres |-> o.avant.version + 1,
         remplace |-> o.garde # Aucun /\ o.garde # o.avant.secret]}
  /\ onglets' = [onglets EXCEPT ![a] = [AuRepos(o) EXCEPT !.pc = "lire"]]
  /\ UNCHANGED <<reglages, cache, troublees, ecrasees, donnes>>

(* The database fails; of a write, the answer may be lost after the commit, *)
(* and then the cache is not cleared.                                       *)
RequeteRompue(a) ==
  LET o == onglets[a] IN
  /\ o.pc \notin {"ferme", "repos"}
  /\ onglets' = [onglets EXCEPT ![a] = AuRepos(o)]
  /\ troublees' = IF o.pc = "invalider" THEN troublees \cup {o.section} ELSE troublees
  /\ UNCHANGED <<reglages, cache, journalises, ecrasees, donnes>>

(* The process restarts: the requests die, the cache is empty.              *)
Redemarrer ==
  /\ cache' = [s \in Sections |-> Aucun]
  /\ onglets' = [a \in Operateurs |-> AuRepos(onglets[a])]
  /\ UNCHANGED <<reglages, journalises, troublees, ecrasees, donnes>>

ReglagesNext ==
  \/ \E a \in Operateurs :
       \/ LireDuCache(a) \/ LireEnBase(a) \/ MettreEnCache(a)
       \/ \E s \in Sections : Ouvrir(a, s)
       \/ \E c \in Contenus, k \in Secrets \cup {Aucun} : DefinirSection(a, c, k)
       \/ Valider(a) \/ Ecrire(a) \/ Invalider(a) \/ Tracer(a) \/ RequeteRompue(a)
  \/ Redemarrer

ReglagesSpec == ReglagesInit /\ [][ReglagesNext]_reglagesVars

-----------------------------------------------------------------------------
(* As long as no write of a section meets another request half-way: no      *)
(* write replaces a version its author had not read; the cache never holds  *)
(* anything but the row, save between a write and the clearing of the cache *)
(* that follows it; the secret in place is the one given last, however many *)
(* writes did not carry it; and each version is journalised once at most    *)
(* (instance-settings.service.ts:31-36, 68-73, annuaire.service.ts:143-157). *)
ReglageTenu ==
  \A s \in Sections \ troublees :
    /\ s \notin ecrasees
    /\ \/ cache[s] \in {Aucun, reglages[s]}
       \/ \E a \in Operateurs : onglets[a].section = s /\ onglets[a].pc = "invalider"
    /\ reglages[s].secret = donnes[s]
    /\ \A d, e \in journalises : d.section = s /\ e.section = s /\ d.apres = e.apres => d = e
=============================================================================
