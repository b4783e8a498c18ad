# VoxEcho Record: formal models

VoxEcho Record keeps the recordings of a bank's telephone calls as evidence:
producers (a telephony script, a simulator) drop pairs of files, the API stores
them in a vault under a SHA-256, lets authorised accounts search and play them,
keeps an append-only journal, and destroys them when their retention period has
run out, unless a legal hold forbids it. This directory holds TLA+ models of the
API (`src/apps/api`) and of the parts of its portal (`src/apps/web`) that keep a
state of their own, the TLC configurations that check them on small instances, and
TLAPS proofs for every instance.

Names of definitions follow the source, which is in French. A line in a comment
such as `purge.service.ts:244-251` points into the repository.

- [How to run](#how-to-run)
- [Inventory of the system](#inventory-of-the-system)
- [Modules](#modules)
- [From the code to the models](#from-the-code-to-the-models)
- [Runs](#runs)
- [What the models found](#what-the-models-found)
- [Proofs](#proofs)
- [Not modelled, and why](#not-modelled-and-why)
- [Plan](#plan)

## How to run

    tlasany Purge.tla
    tlc -workers 2 -config MCPurge.cfg MCPurge
    tlapm PurgeProofs.tla

`PROJECT.json` lists the runs with what each is expected to say, the mutants that
show each property can fail, the source lines each definition stands for, the
hazards of the code and the theorems.

## Inventory of the system

For each component: the state it keeps, its operations, what it shares with the
others, what is hard about it, and what makes it correct.

**Ingestion** (`ingestion/`). State: the drop folder of each tenant, quarantine,
the vault, the table `recordings`, the flag `enCours`. Operations: `scan`, one
pass started by a timer, which treats the folder file by file: wait for the json,
set aside, recognise a repeated drop, or move, create the row, seal, write to the
journal. Interacts with the producers through the file system, with storage by
call, with purge and everything else through the rows. Hard: the producers write
while the pass reads; the process may stop between any two steps; a failure is
undone by moving files back; the same call may be dropped again at any time, with
the same audio or another. Correct when evidence in place is never replaced, no
audio that was stored is lost, a purged call does not come back, a journal entry
is worth the evidence, and nothing waits for ever.

**Encrypted storage** (`storage/`). State: the files of the vault, clear or sealed
in a container of AES-GCM frames; the provisional file beside each; the columns
`encrypted` and `keyRef`, which readers trust. Operations: `ranger` (seal in place
at ingestion), partial and full reads, and a command line tool that seals existing
files. Hard: the file and its row change in two steps; the tool runs beside the API
"sans jamais interrompre le service" (`sceller-existants.ts:12-15`), so that it may
meet an ingestion or a purge on the call it holds; either may stop or fail between any
two of its steps; the arithmetic of frames at the boundaries. Correct when evidence can
be read back whatever stopped, nothing damaged is put under a valid seal, a row that
says sealed is never ahead of its file, a purged call stays purged, and a range read
gives the bytes of the clear text.

**Retention periods** (`retention/retention.service.ts`, `planchers.ts`). State:
one row per scope (general, or a category of operation). Operations: `definir`,
with the floor of the instance (a reason is needed below it) and the legal floor
of a category (nothing below it); readings for the call sheet and for the purge.
Hard: two services derive the term of a call from the same rows by different code;
scopes inherit. Correct when both read the same term, and no floor is bypassed.

**Legal holds** (`retention/legal-holds.service.ts`). State: the table
`legal_holds`, with who set and who released each hold, and whether the release
was by the setter alone. Operations: `poser`, `lever`, each a chain of reads
followed by one write, outside any transaction. Hard: two requests interleave at
every await, and accounts change roles between the check of the second pair of
eyes and the write. Correct when a release is final and an active hold is respected by
the purge.

**Purge** (`purge/`). State: reports (`purge_runs`, `purge_run_items`) with the
frozen periods, the fingerprint of the list, the certificate, and `PURGE_EXECUTED`
events. Operations: `simuler`, `executer` (read the report, compare periods, take
a census again, compare fingerprints, then destroy call by call, then seal in one
transaction), `annuler`. Reads the periods, the holds and the register, deletes
files and changes rows. Hard: it is irreversible, long, not in a transaction but
for the seal, may die midway, may run twice. Correct when nothing is destroyed
that no report listed or whose term had not come, holds are respected, and a
certificate tells the truth and matches the journal.

**Accounts and instance administrators** (`users/`, `administration/`). State:
`users` (role, active, origin of the password), administrators of the instance.
Operations: create, modify, reset, attach to the directory, each guarded so that
an active local administrator remains. Hard: the guard counts, then another
statement writes. Correct when an administrator always remains.

**Sessions and login** (`auth/`). State: refresh tokens (hashed, revocable), the
counter of failures and the lock of an account, a limiter per address in memory.
Operations: login (local or directory), refresh with rotation, logout, change of
password with revocation of every session. Hard: one token presented twice at
once; a refresh in flight when all sessions are revoked; concurrent failures on
one counter; logins of one address that all passed the limiter before any of them
failed. Correct when a revoked session is dead, a token rotates once, and the
limiter neither blocks without cause nor forgets within its window.

**Recording policy** (`policy/`, `packages/shared/src/policy`, the pages that edit
it). State: numbered versions, draft, published or replaced; the document in the
editor. Operations: save a draft, abandon it, publish it; the pure decision
function; every edit of a document. Hard: a draft is edited between its reading and
its publication; numbers are taken without a lock; a chain of legal edits leaves a
document that no longer says what it shows. Correct when published versions are
immutable and one is in force, and the decision follows from the document shown.

**Instance settings and directory** (`settings/`). State: a versioned table of
settings with a cache, the secret of the directory, and the synchronisation of
accounts. Hard: a cache refilled by an old read; two writers; a secret that is kept
when none is typed; an update whose journal entry comes later. Correct when no
change is lost as long as writers do not cross, and the cache tells the row.

**Playback, search and export** (`recordings/`, `export/`). State: listening
tickets. A request reads the row, then the size of the file, then the file, and
trusts the row for what the file is; meanwhile the tool seals and the purge removes.
Correct when audio received is exactly the bytes designated, of a listening that the
journal names, and an export says concordant of the audio of the ingestion only.

**Audit journal** (`audit/`). Append-only table, one writer. `record` without a
transaction is best effort, with one it stands or falls with its caller. Reading by
page, and extraction, which counts, reads, then journalises the extract.

**Backup** (`backup/`). Dump of the database, inventory of the rows and manifest,
taken one after the other while the service goes on; a verification that confronts a
backup with the vault, and another that confronts a restored base with the
inventory. Correct when a report that finds nothing is worth it, and no sound
restoration raises an alarm.

**Web portal** (`apps/web`). State: the tokens of a tab and the profile it shows;
the list of calls, the sheet that is open, the journal page, the tabs of the
settings, the editor of a policy. Hard: answers come back after other clicks, and
each is applied as it comes. Correct when what is under a name is about that name,
and a tab holds a session exactly as long as its tokens open one.

**Dashboard, health, configuration, evaluation data, seed of tenants, instance
screen, producers**: readers, renderers, scripts run once, or programs outside the
API. The producers' order of writes is an input of `Ingestion`.

## Modules

| module | what it is | extends |
| --- | --- | --- |
| `Registre` | rows, files and date, as the conservation services see them | |
| `Retention` | `RetentionService`, and the two readings of the periods | `Registre` |
| `LegalHolds` | `LegalHoldsService` | `Registre` |
| `Purge` | `PurgeService`, composed with the three above | `Retention`, `LegalHolds` |
| `Destruction` | what the purge promises, abstractly | |
| `Ingestion` | `IngestionService`, `ranger`, the producers | instantiates `Registre` |
| `Administration` | `UsersService`, `admin-instance`, the synchronisation with the directory | |
| `Sessions` | `AuthService`, `TokensService`, beside the acts on accounts | `Administration` |
| `Limiteur` | `LimitationConnexion`, the limiter of logins per address | |
| `Coffre` | the writers of the vault: ingestion, the sealing tool, the purge, accidents | |
| `Plages` | the arithmetic of HTTP ranges and of the frames of a container | |
| `Ecoute` | the readers of the vault: listening and export | `Coffre`, `Plages` |
| `Sauvegarde` | a backup, its verification, a restored base | `Coffre` |
| `Politique` | `PolicyService` and the page of its authors | |
| `Decision` | the decision on a call, and the validity of a document | |
| `Editeur` | every edit of a document, and the simulator beside it | `Decision` |
| `Reglages` | `InstanceSettingsService`, the section of the directory, their tabs | |
| `Consultation` | the page of the calls: list, sheet, player, export, holds | |
| `LectureJournal` | the page of the journal with `AuditReadService` | |
| `Portail` | `AuthProvider` and `client.ts`: the session of a tab | |
| `MCConservation` | `Retention` and `LegalHolds` side by side, small | |
| `MCInstance` | small instances of them, one subject at a time | `Instance`, `MCConservation` |
| `Voute` | the vault with all who work on it at once | `Ecoute`, `Sauvegarde` |
| `Instance` | what administrators decide and what the screens show, side by side | the nine modules of these subjects |
| `MCCoffre` | writers of the vault with a reader or with a backup, small | `Voute` |
| `MCPurge`, `MCIngestion`, `MCAcces` | small instances | |
| `ConservationProofs` | lemmas on register, periods and holds | |
| `CoffreProofs` | theorems on the vault, its readers and its backup | `Voute` |
| `PolitiqueProofs` | theorems on the versions of the policy, its editor and the engine | |
| `InstanceProofs` | theorems on the screens, the session of a tab and the limiter | `Instance` |
| `PurgeProofs`, `IngestionProofs`, `SessionsProofs`, `ReglagesProofs` | theorems | |

Two refinements tie them together. `Purge!PromesseTenue` says that the purge
implements `Destruction`: a call is destroyed only under an act written before that
lists it, after the term this act gave it, and never comes back. The mapping reads
a report as an act, its lines that are not blocked as what it authorises, and its
frozen periods as the terms. `Ingestion!RegistreTenu` says that ingestion, seen
through the statuses and the presence of files, does only what `Registre!Ingerer`
does in one step, besides the purge: that is what entitles `Purge` to use
`Registre` in the place of the whole of ingestion.

The vault is looked at from two sides. `Ingestion` has the whole of a pass, with its
failures, and `Purge` the whole of an execution; `Coffre` reduces both to what they
do to one file and its row, and puts beside them the tool that seals existing calls
and the readers.

## From the code to the models

**Steps.** Node runs one thread: code between two awaits is atomic and anything
may run at an await. So every action is the code from one await that touches
shared state to the next, and the locals that survive an await are the fields of a
record (`demandes[d]` of `LegalHolds`, `appels[a]` of `Purge`, `balayage` of
`Ingestion`), whose `pc` names the await reached. A statement of the database is
one step; the only transaction of these services, the seal of a report, is one
step too.

**Requests that end early.** A refusal, an error of the database and the death of
the process all end a request where it stands and undo nothing: `DemandeRompue`,
`AppelRompu`, `Interrompre`. Ingestion has one handler that undoes, the `catch` of
`traiterPaire`: `Echouer` enters it and `RemettrePiece` is each of its moves.

**`Registre`.** `statut` is `Recording.status` with "absente" before the row
exists. "archived" is in the schema but nothing sets it, so `stored` stands for
both members of `PURGEABLES`. Dates are days, the unit of the periods.

**`Retention`.** `politiques` is the table; a scope never written has
`enregistree = FALSE`. `DureesEnVigueur` and `JoursPour` are the purge's reading,
`JoursApplicables` the call sheet's. `memesDurees` is the equality of functions.

**`LegalHolds`.** `poser` is `PoserVerifie`, `PoserCree`; `lever` is `LeverLit`,
`LeverValide` (the second pair of eyes), `LeverEcrit`, whose update is by
identifier with no other condition, as in the code. Reasons are left out.

**`Purge`.** `simuler` is `SimulerPolitiques`, `Recenser`, `SimulerHolds`,
`SimulerCree`. `executer` is `ExecuterLit`, `ExecuterPolitiques`, `Recenser`,
`ExecuterHolds`, then for each call `Effacer` (rm), `MarquerPurge` (the row),
`NoterIssue` (the item), and `Sceller`. `annuler` is `AnnulerLit`, `AnnulerEcrit`.
The comment of `purge.service.ts:242-243` speaks of replaying frozen cut-off dates;
the code recomputes them from today and the frozen periods, and so does `Recenser`.
The order of the loop over calls is left open. Left out: the branches of
`detruire` for a missing row or a path outside the vault, which no reachable state
takes; the per-call `PURGE` events and those of simulation and cancellation, best
effort and read by nobody. SHA-256 is taken as injective.

**`Ingestion`.** A wav is a pair (audio content, sealed or not), a json is "bon"
when every check of the pair passes except the header of the wav, which a sealed
container fails. `Lister` is the `readdir`, whose result `vus` the pass uses for
its whole length; `Attendre`, `TrouverOrphelin` and `Verifier` are the three
branches of `scanTenant`; the rest is `traiterPaire` await by await. The fields
`cible`, `pieces` and `sha` are its locals. `Verifier` takes the reads of one pair
as one step because the producers do not touch a complete pair
(`post-enregistrement.sh:195-200`). A write of the journal that fails is ignored,
as in `AuditService.record`, so `Auditer` may or may not record its event, nor `Clore`
the one of a repeated drop that was removed (`INGEST`, `idempotent: true`); `attestes`
tells the two apart.
A move is one step, the copy used between two volumes included, and so is the
write of a container beside its wav. A json half written is a bad one. A purge
runs beside the pass, except on the very call whose ingestion is being completed
(`EnRangement`): a purge needs two requests of an administrator on a row that
exists, the end of an ingestion a few milliseconds.

**`Administration`.** An act of `UsersService` or of the command line is `ActeLit`
(the account is read, and what its row and the body call for is decided),
`ActeCompteInstance` and `ActeCompteLocal` (the two counts), `ActeEcrit` (the
update, and its audit event), and for a reset or an attachment `ActeRevoque`. The
body of a modification is a record of `Formes`; "AUDITOR" stands for the two roles
that are not ADMIN, because no guard tells them apart. `porte` is "passwordHash is
not null" and `secret` numbers the passwords an account has had, so that a token
can be compared with the password it was opened under. The periodic
synchronisation is `SynchroCommence` (the list), `SynchroCherche` (the answer of
the directory, or its failure, which ends the pass) and `SynchroDesactive`. An
access token is believed until it expires whatever becomes of its bearer: the
authors of acts are therefore a constant, not the accounts that are ADMIN now.

**`Sessions`.** A login is `ConnexionLit`, then the directory (`ConnexionAnnuaire`,
or `ConnexionAdmise` when it knows the account), then the local door on the row
read before, `MotDePasseFaux` and `ConnexionEchoue`, or `MotDePasseBon` and
`ConnexionReussit`, then `Emettre`. A refresh is `RafraichirVerifie`,
`RafraichirLit`, `RafraichirTourne` or `RafraichirClot`, `Emettre`. A change of
password is `ChangerLit`, `ChangerEcrit`, `ChangerRevoque`, `Emettre`. Left out:
the expiry of tokens (one more way to refuse), the limiter per address, and the
death of the process between an update and what follows it.

Five variables or fields are history, read by the properties only: `chevauche` (an
act was written while another was between its reading and its writing), `retire`
(the synchronisation took an administrator of the instance away), `fautes` (wrong
passwords typed), `tardif` (a token issued after the password it was admitted under
was replaced) and `jumelle` (its chain was rotated twice at once).

**`Limiteur`.** `Verifier` is the guard, before the password is looked at;
`SignalerEchec` and `Reussir` are what follows, so that a login is under way between
the two (`essais`). `ChangerRefuse` is a change of password whose current password is
wrong: it counts a failure of its address (`auth.service.ts:313-316`), and its route
has no guard (`auth.controller.ts:35-43`), so that nothing bounds how many an address
has. `libres` is history and counts those of the episode under way, since the map last
held no failure of the address; no action reads it but for its bound, `MaxLibres`.
`recence` is the order of the `Map` of the service, whose oldest address is evicted
when the memory is full; `blocages` the journal entries.

**`Coffre`.** A container is an audio, a seal that opens or not, and a key; a second
sealing is of the container, hence of something else than the audio. Ingestion is
`Creer`, `RangerLire`, `RangerEcrire`, `RangerBasculer`, `RangerInscrire`, with
`RangerEchouer` when the provisional file is gone, and `RangerArreter` when the service
stops. The tool is `OutilLancer` (its list of rows), then for each call `OutilLire`
(which refuses what is missing, sealed or altered), `OutilEcrire`, `OutilBasculer` (the
rename, which fails if the provisional file is gone) and `OutilInscrire`; `OutilEchouer`
is an incident of its report and `OutilArreter` the end of the process. The purge is
`EffacerFichier` and `MarquerPurgee`. Nothing keeps the three apart, on one call either;
only a purge waits for the ingestion of its call, as in `Ingestion`. The row records
`ref`, the label `STORAGE_KEY_REF` of the writer: it is free text, bound to no key in
the code nor in the model, where the tool may give any label to any key. Nothing is
claimed of it.

Three variables are history, written by the steps and read by the properties alone.
`croisees` are the calls that the tool read in clear while ingestion was sealing them.
`devancees` are those whose file the purge removed between the tool's reading and its
rename. `delaissees` are those of which a writer stopped between the rename and the
update of the row. They mark what the code does not guard against, and the properties
of the vault are about the rest; see "What the models found".

**`Plages`** translates `range.ts` and the arithmetic of `coffre.ts`; `Designes` is
the reference it is compared with, which bytes a header designates by RFC 9110.

**`Ecoute`.** `OuvrirEcoute`, `TracerEcoute` issue a ticket; `DemanderAudio` (row),
`Mesurer` (`stat`), `Servir` (the stream) serve a range; `Exporter`, `LireEntier`,
`TracerExport` are an export. The size served is that of the row when it says
sealed. A stream is served in one step: the file it has opened does not change
under it, a rename or a removal leaving it the file it had.

**`Sauvegarde`.** `Dumper`, `Inventorier` (a batch), `EcrireManifeste`; `Verifier`,
`ConfronterPiece`, `RendreRapport`, whose anomalies are those of the report;
`Restaurer` is the operator's `pg_restore`, of the right dump or of a base with one
row missing, added or different, and `Constater` the confrontation. A file of the
backup that was changed contradicts the manifest unless the manifest was rewritten
too; the fingerprint of the manifest kept elsewhere (`consignee`) tells.

**`Politique`.** A document stands for its own fingerprint. A save is
`BrouillonLit`, then `BrouillonRemplace`, or `BrouillonNumerote` and
`BrouillonCree`; a publication `PublierLit`, `PublierCompare`, `PublierEcrit`,
`PublierTrace`; a deletion `AbandonLit`, `AbandonEfface`. What the trigger and the
unique index of the base refuse is in the guards of the writes. `retouchees` and
`courses` are history: a draft written over while a publication held it, and two
creations that overlapped.

**`Decision`, `Editeur`.** The engine is `Decider`; each function of the editor that
changes the document is an action. `DecisionOpposable` says of every document the
editor reaches, and every call, what a decision must be to be defended: an excluded
number is never recorded, what the reason cites is enough to decide the same, and a
document that gives up nothing records everything.

**`Reglages`.** A tab reads (`LireDuCache`, `LireEnBase`, `MettreEnCache`), submits
(`DefinirSection`), and the service reads again, compares (`Valider`), writes
(`Ecrire`, by key with no condition on the version), clears the cache (`Invalider`),
journalises (`Tracer`). `troublees` is history: sections of which a write met
another request half-way.

**`Consultation`, `LectureJournal`, `Portail`.** A request of a page is a record
`enVol`, with the call, page and criteria its continuation has kept; the service
answers it (`Servir`) and the page applies the answer (`Recevoir...`) at two instants
of which others may come in between. `derangee`, `glissee`, `croisee` and `masquee`
are history, and say that the user acted while an answer was awaited in the ways the
code does not guard against; the properties are about the rest, which includes every
late answer the code does guard against.

## Runs

| run | bounds | distinct states | what it shows |
| --- | --- | --- | --- |
| `instance` | eight subjects, see below | 519,489 | holds and periods; the policy, its editor and its engine; the settings; the limiter; the screens |
| `coffre` | 2 calls, one empty and one ending on a short frame, 9 headers, 2 keys and 2 labels, 1 incident, ingestion, tool and purge at once | 1,481,810 | evidence survives its writers; ranges; exports; backups |
| `conservation_plancher` | 1 call, 2 categories, periods 1, 2 and default 3 | violation | the legal floor is bypassed |
| `purge` | 2 calls, 1 hold, 1 report, 2 purge requests, 1 hold request, 3 days, disk and request failures | 1,725,893 | safety of the destruction |
| `purge_fair` | 2 reports, 1 purge request, no failures | 263,686 | an accepted execution ends; refinement of `Destruction` |
| `purge_hold`, `purge_disque` | as `purge` | violation | a race and a failure against what the documents say |
| `ingestion` | 1 name, 2 contents, 2 stops or failures, sealing on | 166,272 | evidence is kept, the folder empties, refinement of `Registre` |
| `ingestion_panne` | 1 stop or failure, also after the row exists | violation | the only copy of the evidence is removed |
| `administration` | 3 accounts, 2 authors and the operator, 2 acts at once, no overlap of writes | 276,699 | an administrator remains, and the journal says when only one does |
| `sessions` | 1 account, 3 tokens, 2 requests, 1 author, threshold 2, 1 change of password | 781,963 | revocation, rotation and lock |
| `annuaire_mot_de_passe` | 3 accounts, resets and attachments | violation | an account of the directory gets a local password |

**Why these bounds.** `Holds`, `Demandes`, `Rapports`, `Appels`, `DernierJour` and
`MaxIncidents` are the named bounds. A race between requests needs two of them:
two releases of a hold, two executions of a report, an execution and a
cancellation. The holds race on one call because a hold concerns one. The purge
needs two calls, begun on days 0 and 1 with a default period of 0, so that one
falls due while a report on the other waits, and a census may be wider than its
report; the period can move to 1, so that a call due under one set of periods is
not under the other. In these instances a legal floor above every period keeps the
category on the general one; `instance` is where categories have periods of
their own. Ingestion has one name of call: two names share only the order of the
pass, and a pass that stops at one of them is `Interrompre`; the proofs hold for
any number. Two incidents allow a stop during the recovery from a failure. Two
contents are enough for a repeated drop and for a conflict. In `administration` the
guards count "the others", so that three accounts are what tells none, one and two
apart; `DeuxALaFois` keeps two acts in flight and stops a behaviour at the first
overlap, after which its properties promise nothing; `Natures`, `FormesDemandees`
and `RolesDonnes` are the acts, bodies and roles that are tried, `SecretMax` the
number of changes of password. In `sessions` tokens concern one account each, hence
one account; two requests make every race of the hazards, and three tokens a
rotation beside another login; `EchecsMax` is the number of wrong passwords typed,
enough to reach the threshold `Seuil`. Its author creates the account or resets its
password, the directory may own it from the start.

`instance` puts side by side modules that share no variable. A behaviour is of one
subject, chosen at the start, and the others keep their initial state: checking them
in one run is checking each alone. The requests of every subject bear the same two
names `d1`, `d2`, which are interchangeable. Its bounds are the conjuncts of `Bornes`:
periods change while nothing happens to holds, which they do not read; a document has
two parts besides its default (a rule and the list it names, an exclusion before a
rule, two rules of which one neither samples nor has a name); settings are looked at
until a section is disturbed, after which their property promises nothing, and one
section at a time, since no step reads two, with a second secret once a first was
given; an address is forgotten once, two blockings are journalised and one refused
change of password is counted per episode (`MaxLibres`); three rows of
versions, two of them published or deleted, one once a draft was written over while a
publication held it; of the page of the calls, two requests in flight (every race
there is between an answer and another one), one of them under an error, and nothing
after the user has overtaken an answer; of the journal, three events with extracts of
two, so that an extract is truncated, exact or crossed. A race between two authors,
administrators or logins needs two of them.

`coffre` has one observer in each behaviour, the readers or the backup, because
neither writes what the other reads (`observateur`). `UnSeulScelle` lets the second
call, empty, come in and stay, so that ranges are tried on an empty recording beside
the one that is sealed, damaged and purged; beside a backup the sealing at ingestion
is left to `outil`, which makes the same change of row and file.
`AutreCleSansIncident` gives the tool the key of the service under another label, or
another key under the label of the service, the latter without accident. `CroiseSeul`
follows a call that tool and ingestion both seal without observer and without accident:
what is promised of such a call is `LigneScelleeVraie` and `PurgeDefinitive`, and the
other properties are proved with every accident. `DitAuRepos` follows a backup taken
without key, and a verification that has already found something (the report will not be
clean whatever it finds next), while the vault is at rest. `SansDoublon` tries the
verifications that do not read the vault while it is at rest. The call of three bytes in
frames of two has a full frame and a short one; the headers are the suffixes of 0, 2 and
9 bytes, and intervals inside, across the end, reversed, beyond and open.

**Symmetry** is used on the interchangeable constants of the safety runs (request
slots, rows of holds, accounts, contents), never on a run that checks liveness.

**Deadlock** is checked in every run but `coffre`, where a behaviour really ends:
once a report is written or a base confronted, and once every call has come in and
incidents are spent, there is nothing left to do.

**Fairness.** `Purge!FairSpec`: weak fairness of `Detruire(a)`, the steps of an
execution that passed its tests. Node runs every continuation whose query has been
answered, and the loop waits for nobody; `purge_fair` has no failures, because an
execution that dies is never resumed. Requests that have not been accepted owe
nothing. `Ingestion!FairSpec`: weak fairness of `Balayer` (the timer of
`ingestion.scheduler.ts` starts a pass, and a pass goes on) and of `Vieillir` (time
goes by). The producers owe nothing: a json may never come. Incidents are bounded,
so a pass is not stopped for ever.

**Properties that matter most.**

- `HoldAnterieurRespecte`: the calls an execution still has to destroy carry no
  hold that existed when it took its census, whatever is set or released since.
- `DestructionFondee`: whatever is gone was listed, unblocked, by a report whose
  frozen periods had run out, across races and executions that died midway.
- `CertificatComplet`: every call of the list is in the sealed certificate, and what it
  says was destroyed is marked so, also when two executions interleave.
- `CertificatAuJournal`: sealed if and only if in the journal, also against
  cancellations.
- `LeveeDefinitive`, `EcheanceAnnoncee`: see the comments.
- `PreuveIntacte`, `RangeConserve`, `PurgeSansRetour`, `AttestationFidele`: the
  vault against repeated drops, stops, failures and purges. The event of a first
  ingestion is worth row, audio and seal; the event of a repeated drop had only the row
  and its SHA-256 to go by, and is worth less (see below).
- `AdminLocalReste`, `DernierConsigne`, `AdminInstanceReste`: the guards, when no
  write falls among the checks of another act.
- `SessionsDuMotDePasse`, `UneSessionParConnexion`, `VerrouMerite`: what becomes of
  tokens and of the lock when requests read rows that change.
- `PieceRecouvrable`, `SceauProbant`: the vault against stops, failures and accidents
  between any two steps of its writers, but for the calls of `croisees`.
- `LigneScelleeVraie`: row and file agree on the seal but for a call a writer is about
  to record (`inscrire`) or left so when it stopped (`delaissees`); of every call, those
  of `croisees` and `devancees` included.
- `PurgeDefinitive`: a purged call has no file, but for those of `devancees`.
- `PlageExacte`, `ExportFidele`: readers that trust a row read before the file.
- `RestaurableFondee`, `ConstatJuste`: what the two verifications are worth, and
  that they do not cry wolf.
- `PolitiqueOpposable`, `EnVigueurDerniere`: published versions and their order
  against every crossing of requests. `DecisionOpposable`: the engine on every document
  the editor can reach.
- `ReglageTenu`: versions, cache, secret and journal of the settings.
- `LimitationTenue`: the limiter under concurrent logins and a full memory. The bound
  on the failures of an address has a term, `libres`, that the code does not bound.
- `PagesTenues`, `SessionTenue`: what the screens show when answers are late.
- `RegistreTenu`, `PromesseTenue`: the two refinements.
- `ExecutionAboutit`, `DepotTraite`: the two liveness properties.

Every one has a mutant of the model in `PROJECT.json`, a plausible slip in the
code, under which TLC finds it violated.

## What the models found

1. **A late hold does not stop an execution** (`purge_hold`). `executer` reads the
   holds once, before its loop. A hold set while the loop runs is recorded, active,
   and its call is destroyed. `HoldAnterieurRespecte` is what does hold.
2. **A certificate may list a file that is still there** (`purge_disque`). Any
   failure of `rm` is taken for an absent file.
3. **The legal floor of a category is bypassed by the general period**
   (`conservation_plancher`).
4. **A failure after the creation of the row loses the evidence**
   (`ingestion_panne`). The `catch` of `traiterPaire` puts the files back and leaves
   the row; the next pass takes the pair for a duplicate and deletes it. Hence the
   constant `PanneApresCreation`: `RangeConserve` and `RegistreTenu` hold, and are
   proved, when no step fails between the row and its last update; the others hold
   either way.
5. **The reset of an account of the directory gives it a local password**
   (`annuaire_mot_de_passe`). `reinitialiser` does not look at the origin of the
   account, though the schema says an account of the directory has none.

The models also show the following, for which no run is kept. Where a definition is
named, adding it to a configuration of its module shows the behaviour.

*Accounts.* Two administrators who demote each other at the same moment leave none:
each count sees the other, and both write, though `manuel-utilisateur.md:427-430`
says one always remains (`DernierAdminLocal`; the condition `~chevauche` of
`AdminLocalReste` is what must be added). The synchronisation may likewise deactivate
the last administrator of the instance (`retire`), and a deactivated account keeps
its refresh tokens until it next uses one. The limiter does not journalise a second
blocking of an address whose window never emptied.

*Conservation.* A report can be executed twice: its status is tested on a row read
before the census, and the seal has no condition on it (`UneSeuleExecution`). Two
concurrent `poser` leave two active holds on one call (`JamaisDeuxActifs`, the
comment of `legal-holds.service.ts:15`).

*Holds.* Of two releases of one hold, the second overwrites by id the account and the
flag of the first (`legal-holds.service.ts:91-98`): the row keeps the last, the journal
has both. No property is about who released a hold.

*Logins.* A wrong current password at a change of password counts as a failure of the
address, and no guard is on that route: the failures of an address are not bounded by
the threshold and the logins under way, and those so counted refuse logins from the same
address. `LimitationTenue` without `libres` fails.

*Vault.* The tool and the service work on one call without knowing of one another, and
`PieceRecouvrable`, `SceauProbant` and `PurgeDefinitive` without their history
variables show what comes of it. If the tool reads in clear a call that ingestion is
sealing, the two share the name of a provisional file: the call may be sealed twice,
under a seal that opens on a container (`SceauProbant`), and an export of it is
declared divergent; or the rename of ingestion finds nothing, and its `catch` moves the
file back to the drop folder and leaves a row without a file (`PieceRecouvrable`). If
the purge removes a file after the tool read it, the rename of the tool brings a purged
call back (`PurgeDefinitive`). A writer that stops between its rename and its update
leaves a sealed file under a row that says clear: the next run of the tool reports it
and does not repair it, playback serves the bytes of the container, and a repeated drop
of the call is journalised as already ingested (`IngestionAttestee` said of repeated
drops fails). An export is declared divergent although nothing was damaged, between the
tool's rename and its update of the row, and for ever if it stopped there
(`DivergenceFondee`). The inventory is read after the dump, so that a base restored from
an untouched backup may be declared unfaithful (`PriseFidele`).

*Policy and settings.* Two creations that cross leave two drafts, and publishing the
lower number last leaves the other in force; a draft edited while it is being
published is sealed under the fingerprint of its former document; the button that
publishes publishes the saved draft, not the document on the screen. A rate entered
for a default that samples stays when it no longer does, and of two lists of one
name only the first counts. The update of a section is by key alone: of two writers
that read the same version, the second erases the first, which
`schema.prisma:132-134` says is refused; a write whose answer is lost leaves the
cache as it was.

*Portal.* The pagination of the calls is not disabled while a list loads, and an act
on a hold reloads the page of the moment of its click: an older answer overwrites
the page shown. A ticket or an export awaited for one call lands on the sheet of the
next one, whatever `RecordingDetail.tsx:46-47` says, and the holds of the former
call stay until the new ones come. An extraction erases the error of a list that
failed, and the header that says an extract is truncated is not read; an extract
that reaches its limit exactly while an event is written misses it without saying
so. A reload with an expired access token erases a refresh token that was good; a
logout with one leaves it alive; a logout while a change of password is in flight
logs the user in again.

## Proofs

All the theorems are `Spec => ...` for every value of the constants under the
assumptions named in the modules (`RegistreAssumption`, `RetentionAssumption`,
`HoldsAssumption`, `PurgeAssumption`, `IngestionAssumption`: the constants have the
types of the configuration they stand for, and null is not a value;
`AdministrationAssumption`, `SessionsAssumption`: accounts start with no failure and
no lock, and a row that does not exist yet carries no password and no right over the
instance; `CoffreAssumption`, `FichierAssumption`, `EcouteAssumption`: no file or key
is null, sizes are naturals and frames are not empty; `PolitiqueAssumption`,
`ReglagesAssumption`: rows of versions are finitely many, the default document and
content are among the others, and null is no document, row or secret;
`SauvegardeAssumption`: the calls are finitely many, identifiers are totally ordered,
and each call has a tenant; `EditeurAssumption`: a field left empty is neither a
pattern nor a rule; `LimiteurAssumption`: threshold, window and memory are not zero,
and the logins under way are finitely many; `PortailAssumption`: nobody is no user).
Where a theorem needs more of the deployment than that, the hypothesis is in its
statement and named below.

**Purge** (`PurgeProofs`, on the lemmas of `ConservationProofs`).

- `TypeCorrect`.
- `EcheanceToujoursAnnoncee` follows from the types alone, which is the point: the
  two readings agree on every table of periods.
- `LeveeToujoursDefinitive`, from `HoldsInv`, which follows what the requests in
  flight hold at each of their steps (`DemandesInv`).
- `HoldAnterieurToujoursRespecte`, from `HoldInv`: the property is preserved only
  because the rows an execution saw exist (`VusPoses`) and a released row never
  becomes active again.
- `CertificatToujoursAuJournal`, from `SceauInv`: adds that a report never written
  is blank (`Vierge`); it rests on `Localise`, a request past its reading has a
  report that exists.
- `DestructionToujoursFondee` and `CertificatToujoursComplet`, together, from
  `FondeInv`. `AppelsInv` follows each execution: until its census it works with the
  frozen periods (`Recense`); what it has left to destroy was proposed by its report
  and is due, and what its report still proposes it has left to destroy (`Fondee`,
  for which the comparison of fingerprints is needed); what its locals say of the
  call it is destroying is true (`CibleVraie`). `LignesInv` says that a line already
  noted tells the truth of the register. So a second execution of one report seals a
  certificate that is still complete, though it should not have run.
- `PromesseToujoursTenue`: the refinement of `Destruction`. `EtatDe`, `AutorisesDe`
  and `TermesDe` are what the promise sees of a call and of a report. Each step is
  one of the promise or none: the reception of a call, the creation of a report
  (`VueSimulerCree`, where `Vierge` says that nothing was authorised under its name),
  the removal of a file that was there (`VueEffacer`, where `Fondee` gives the report
  that lists the call and its term), the day; and the outcome noted on a line leaves
  it among those proposed (`ActeEcrit`).

**Ingestion** (`IngestionProofs`).

- `IngestionType`, `PreuveToujoursIntacte`, `AttestationToujoursFidele`,
  `PurgeToujoursSansRetour` from one invariant `IInv`: types, `VusInv` (what the
  listing saw is still in the folder, though it was read many awaits ago) and
  `CouranteInv` (for the current call, where its file is and that its audio is the
  one the local `sha` was computed on, at each step of the pass). These hold with
  failures anywhere.
- `RangeToujoursConserve`, `RegistreToujoursTenu`: under `~PanneApresCreation`, with
  `RangeInv` (a stored row has its file in the vault; files go back only when the
  row was refused). Each step either changes nothing the other services see, or
  makes one call appear with its file (`Arrivee`), or removes one (`Depart`): the
  refinement of `Registre`.

**Accounts and sessions** (`SessionsProofs`).

- `SessionsType`, from `TInv`: the types, and what a request in flight holds at each
  of its steps.
- `SessionsFermees`: `SessionsDuMotDePasse` is inductive with `TInv`. A step either
  leaves every password alone or promises a revocation (`SecretsGardes`), drops no
  promise (`PromessesGardees`), and brings no token to life (`RienNeRevit`); the
  three exceptions, `Emettre` and the two revocations, are treated apart.
- `ResteUnAdminLocal`, `ConsignationDuDernier`, both from `AdminInv` and from the
  hypothesis `AdminAuDepart`, that the tenant starts with a local administrator. The
  invariant says that what an act in flight has read is still true
  (`ActeFonde`: its row calls for the count if it did, and those it counted are
  there), as long as no other act wrote meanwhile; that the other steps, logins of
  the directory included, never touch a local administrator (`RienDeLocal`); and
  that the synchronisation only holds accounts of the directory (`SynchroFondee`).
- `VerrouJamaisSansFautes`, from `VerrouInv`: neither the table nor the stale row a
  request carries counts more failures than there were.
- `ResteUnAdminInstance`, from `InstanceInv` and from the hypothesis
  `AdminInstanceAuDepart`, that the operator has promoted an administrator of the
  instance. As long as no act was written while another was under way, an act that is
  to take one away read that another was there, and the one it read is still there
  (`Emporte`, `ActeSur`); only the acts and the directory touch a privileged row
  (`PrivilegeGarde`).
- `ConnexionNonDoublee`, from `FamilleInv`: each chain of tokens has one place where it
  goes on, a live token or a request that is to issue the next one (`Reclame`), unless
  two refreshes verified the same token, and then both tokens say so (`JumellesDites`).

**Vault** (`CoffreProofs`).

All with ingestion, the tool, the purge, accidents and stops at work at once, on any
call; no hypothesis is made on who waits for whom.

- `CoffreType`.
- `Recouvrement`, `Preuve`, `LigneVraie`, from `CoffreInv`. `SceauxTenus` is what holds
  of every call whatever crosses: what a writer holds or wrote beside is a container,
  and no file is in clear whose row says sealed or that a writer is about to record.
  `RangementTenu` says how far a call on its way in fixes its row, its file and its
  provisional file, `OutilTenu` that the container the tool holds, in memory, beside or
  in place, is that of the audio under its key, both of calls out of `croisees`.
  `UneEcriture` says that a call whose row says sealed has at most one writer left,
  and `FichiersTenus` what a file in place is.
- `PurgeSansRetour`, from `PurgeTenue`: a call whose file was removed, if no purge
  overtook the tool on it, is held by no step that could write it back (`HorsDAtteinte`).

**Readers** (`CoffreProofs`).

- `EcouteType`.
- `Audition`: `PlageExacte` for every size of call, every size of frame and every
  header. `PlageAnalysee` shows that `analyserRange` yields the interval that the
  header designates, `TramesCouvrent` that the frames opened for an interval cover
  it without gap or overlap (the quotients `Quotient`, `Bornes`), `FluxBrutCouvre`
  the same of a clear file. The rest is interleaving: no writer makes a file clear
  that was not (`EcrivainsTenus`), so that where the stream succeeds the size taken
  earlier is that of the wav (`TailleTenue`).
- `Exportation`: what a sealed row yields is authentic (`EntierAuthentique`).

**Backup** (`CoffreProofs`), beside the same writers.

- `RapportDigneDeFoi`, from `VerifInv`. The check reads the vault over many steps, and
  only promises something of a vault that is, at the end, as it was at the beginning
  (`disque0`). Between the two a file may be damaged, removed, sealed: `Suit` says
  that a file that was not good when the vault was listed is not made good by anything
  but the tool putting its container in place, and `ClairVise` that the tool does so
  only over a clear file; so a call that passed the check (`Passe`) and is now as it
  was then was good all along (`Jugee`).
- `ConstatSansErreur`, from `PriseInv`: rows only go forward (`LigneAvant`), so what
  the inventory took after the dump is ahead of it (`DumpSuivi`). That the count of
  rows is enough to exclude rows in excess is an argument of cardinality
  (`ComptageSuffit`), which is where finiteness is used.

**All at once** (`CoffreProofs`, on module `Voute`). `VouteBienTypee` and `VouteTenue`:
the six invariants of vault and readers and the two of the backup hold when the
writers, a reader and the operator all work, and not only two by two: a backup shows
nothing to a reader (`LectureSousSauvegarde`).

**Policy** (`PolitiqueProofs`).

- `PolitiqueType`, from `TypeInv`.
- `Opposabilite`, from `OpposableInv`: numbers are unique because the base refuses
  the second; what a publication read is what its row holds unless it was written
  over since (`LuFidele`); an entry about to be written is already true
  (`JournalVrai`).
- `VersionEnVigueur`, from `EnVigueurInv` with it: a creation under way holds the
  next number and there is no other draft (`UnSeulBrouillon`), so the draft is above
  all published versions (`Ordonnees`), and a publication about to be written was
  compared with the version still in force (`Comparee`). That a set of rows has one
  of highest number is `HautePresente`, by well-founded descent.
- `DecisionDefendable`: for every list, rule and default that the editor can reach.
  The engine walks the rules in order (`Premier`), and the proof is about the first
  one that applies: the reduced document, which keeps the rule named by the verdict
  alone, gives the same verdict. `EditeurInv` adds to the types that a rule that does
  not sample has no rate, which each edit of a rule must restore (`RegleSaine`).

**Settings** (`ReglagesProofs`).

- `ReglagesType`.
- `Reglage`, from `ReglagesInv`: what a request holds of its section at each step is
  not ahead of the row (`OngletsTenus`), a write not yet journalised has a version no
  entry has (`TracesDistinctes`), and entries are not ahead of the row
  (`JournalBorne`).

**Screens and limiter** (`InstanceProofs`, on module `Instance`). No step of one of
these subjects reads what another writes, so `InstanceSpec` is the conjunction of
their specifications and each theorem follows from the one of its subject.

- `PagesToujoursTenues`. For the journal, from `JournalInv`: the answer awaited is that
  of the page and the filters in place (`AttenteTenue`), and the count an extraction
  has taken is behind the journal until its rows are read (`CompteTenu`). For the
  calls, from `ConsultationInv`: as long as no answer overtook another, what is on its
  way is what will be shown (`ListeSuivie`, `FicheSuivie`).
- `SessionToujoursTenue`, from `PortailInv`. As long as requests of the tab did not
  cross, those that are to write its tokens are alone in flight and carry its tokens
  (`Seul`, `AppelTenu`), what the service answered is still true when it is applied
  (`ReponseTenue`), and every live pair is held by the tab or on its way to it
  (`PairesTenues`).
- `LimitationToujoursTenue`, from `LimiteurInv`: the order of the addresses and their
  failures are one map (`CarteTenue`); the failures in the window and the attempts
  under way are counted together (`EssaisComptes`, cardinality); and an episode of
  blocking is followed, by the failures still kept of it, until it is out of the
  window (`BlocagesSuivis`), so that the next one cannot overlap it
  (`BlocagesEspaces`). What the filter of `recents` returns is a fact about a recursive
  function over the length of a sequence: `Recurrence` proves it without the theorem of
  induction, by the smallest length at which it would fail.
- `InstanceBienTypee`, every subject at once.

**Model-checked only.** The two liveness properties, `ExecutionAboutit` and
`DepotTraite`: fairness and ENABLED are out of reach of the prover. Every invariant
and every action property of the passing runs is stated by a theorem. The theorems
that need a hypothesis on the deployment carry it as the runs do: `PanneApresCreation`
false, an administrator at the start.

## Not modelled, and why

- Rendering: PDF and CSV of certificates, sheets and extracts, the archive of an
  export, the layout of the pages.
- Read-only services: dashboard, health, the matching of a criterion of the search
  with a row. They keep nothing and write nothing.
- Tenants: the seed creates them, nothing in the API changes them. Tenants disabled
  during a pass of ingestion are left out.
- In ingestion: folders of unknown or disabled tenants and files at the root
  (moved to a common quarantine), foreign extensions, and the fields of the
  metadata. A file whose reading throws at every pass ends each pass for the calls
  listed after it; the model bounds such failures.
- Replacement in quarantine: a refused file replaces one of the same name. The
  model does it too; nothing promises otherwise.
- Of the directory: the LDAP dialogue, the test of a connection and the check of the
  clock. Of cryptography: derivation of keys, hashing of passwords, enciphering of
  the secret; a cipher text is its key and its content.
- The expiry of refresh tokens and of tickets: one more way to refuse.
- A second tab of the same account: `Portail` and `Consultation` are one tab. Tokens
  are kept in `sessionStorage` (`client.ts:57-87`), so another tab is another session,
  unless the browser duplicated it with the tokens of the first; a change of password in
  one ends the session of the other, which shows its profile until its next refresh.
  What tabs of different authors do to one another through the service is in
  `Politique` and `Reglages`, and to the tokens of one account in `Sessions`.
- Of the portal: the pages of purge, retention, accounts and dashboard, which send
  one request at a time and keep only its answer, and wording and layout everywhere.
- Deployment: the scripts and the compose files.

## Plan

Done: the conservation services and their composition, ingestion, accounts and
sessions with the limiter, the vault with its writers, readers and backups, the
policy with its editor and engine, the settings, the screens that keep a state;
their runs, and the proofs of their safety. What would come next, in order:

1. A second tab of one account in `Portail`, whose changes of password end the session
   of the first, or which was duplicated from it with its tokens.
2. Tenants disabled during a pass, and the common quarantine, in `Ingestion`.
3. A `Coffre` in which the tool locks a call, or names its provisional file after
   itself and checks the row again before its rename, to show that `croisees` and
   `devancees` are then not needed.
4. A `Politique` and a `Reglages` whose writes carry the condition the comments
   announce, to show that `~courses` and `troublees` are then not needed.
