----------------------------- MODULE Politique -----------------------------
(***************************************************************************)
(* The versions of the recording policy of one tenant: one draft at a time, *)
(* published versions that never change, numbers that grow.  PolicyService  *)
(* reads before it writes and holds no transaction over the two; what does  *)
(* hold is in the database: the number is unique, and a trigger refuses to  *)
(* change or delete a published version.                                    *)
(*                                                                         *)
(* A document is a member of a set and stands for its own fingerprint.      *)
(***************************************************************************)
EXTENDS Naturals, FiniteSets

CONSTANTS
  Versions,        \* the rows there can be (bound); an id is never used twice
  Documents,       \* valid policies
  DocumentDefaut,  \* politiqueParDefaut
  Redacteurs,      \* administrators of the tenant, one page each
  Neant            \* no document, no row

ASSUME PolitiqueAssumption ==
  /\ DocumentDefaut \in Documents
  /\ Neant \notin Documents \cup Versions
  /\ IsFiniteSet(Versions)

VARIABLES
  versions,      \* the table recording_policy_versions
  pages,         \* the page of each administrator and its request in flight
  publications,  \* the POLICY_SET events of the journal
  retouchees,    \* history: rows written over while a publication held them
  courses,       \* history: two creations of a draft were in flight at once
  derniere       \* history: the row published last

politiqueVars == <<versions, pages, publications, retouchees, courses, derniere>>

Version ==
  [statut : {"absente", "draft", "published", "effacee"},
   numero : 0..Cardinality(Versions), document : Documents \cup {Neant},
   sha : Documents \cup {Neant}]
VersionAbsente == [statut |-> "absente", numero |-> 0, document |-> Neant, sha |-> Neant]

(* brouillon: what the editor shows; ligne and lu: the row found and its    *)
(* document; numero: the number computed, or that of the version in force.  *)
Page ==
  [pc : {"repos", "numeroter", "creer", "remplacer", "effacer", "comparer", "publier", "tracer"},
   brouillon : Documents \cup {Neant}, ligne : Versions \cup {Neant},
   lu : Documents \cup {Neant}, numero : 0..Cardinality(Versions)]

PolitiqueTypeOK ==
  /\ versions \in [Versions -> Version]
  /\ pages \in [Redacteurs -> Page]
  /\ publications \subseteq
       [version : 1..Cardinality(Versions), precedente : 0..Cardinality(Versions), sha : Documents]
  /\ retouchees \subseteq Versions
  /\ courses \in BOOLEAN
  /\ derniere \in Versions \cup {Neant}

PolitiqueInit ==
  /\ versions = [v \in Versions |-> VersionAbsente]
  /\ pages = [a \in Redacteurs |->
       [pc |-> "repos", brouillon |-> Neant, ligne |-> Neant, lu |-> Neant, numero |-> 0]]
  /\ publications = {}
  /\ retouchees = {} /\ courses = FALSE /\ derniere = Neant

Brouillons == {v \in Versions : versions[v].statut = "draft"}
Publiees == {v \in Versions : versions[v].statut = "published"}
Presentes == Brouillons \cup Publiees

LaPlusHaute(S) == CHOOSE v \in S : \A w \in S : versions[w].numero <= versions[v].numero

(* Mutant: the version in force is looked for among the drafts too.         *)
MutantEnVigueurBrouillon == IF Presentes = {} THEN Neant ELSE LaPlusHaute(Presentes)

(* enVigueur: the published version of highest number.                      *)
EnVigueur == IF Publiees = {} THEN Neant ELSE LaPlusHaute(Publiees)
DocumentApplique == IF EnVigueur = Neant THEN DocumentDefaut ELSE versions[EnVigueur].document

(* prochaineVersion                                                         *)
ProchaineVersion ==
  IF Presentes = {} THEN 1 ELSE versions[LaPlusHaute(Presentes)].numero + 1

(* The trigger politiques_immuables, and an update by id that finds no row. *)
Modifiable(v) == versions[v].statut = "draft"

Repos(page) == [page EXCEPT !.pc = "repos", !.ligne = Neant, !.lu = Neant, !.numero = 0]

-----------------------------------------------------------------------------
(* The page                                                                 *)

(* charger: the draft of the tenant, whoever wrote it; or none.             *)
Charger(a) ==
  /\ pages[a].pc = "repos"
  /\ \/ \E v \in Brouillons : pages' = [pages EXCEPT ![a].brouillon = versions[v].document]
     \/ Brouillons = {} /\ pages' = [pages EXCEPT ![a].brouillon = Neant]
  /\ UNCHANGED <<versions, publications, retouchees, courses, derniere>>

(* "Dupliquer la version en vigueur", "Creer une politique".                *)
Dupliquer(a) ==
  /\ pages[a].pc = "repos" /\ pages[a].brouillon = Neant
  /\ pages' = [pages EXCEPT ![a].brouillon = DocumentApplique]
  /\ UNCHANGED <<versions, publications, retouchees, courses, derniere>>

(* EditeurPolitique: any change of the document, on the screen alone.       *)
Editer(a, d) ==
  /\ pages[a].pc = "repos" /\ pages[a].brouillon # Neant
  /\ pages' = [pages EXCEPT ![a].brouillon = d]
  /\ UNCHANGED <<versions, publications, retouchees, courses, derniere>>

-----------------------------------------------------------------------------
(* enregistrerBrouillon                                                     *)

EnCreation(a) == pages[a].pc \in {"numeroter", "creer"}

BrouillonLit(a) ==
  /\ pages[a].pc = "repos" /\ pages[a].brouillon # Neant
  /\ \/ \E v \in Brouillons :
          /\ pages' = [pages EXCEPT ![a].pc = "remplacer", ![a].ligne = v]
          /\ UNCHANGED courses
     \/ /\ Brouillons = {}
        /\ pages' = [pages EXCEPT ![a].pc = "numeroter"]
        /\ courses' = (courses \/ \E b \in Redacteurs \ {a} : EnCreation(b))
  /\ UNCHANGED <<versions, publications, retouchees, derniere>>

BrouillonNumerote(a) ==
  /\ pages[a].pc = "numeroter"
  /\ ProchaineVersion <= Cardinality(Versions)
  /\ pages' = [pages EXCEPT ![a].pc = "creer", ![a].numero = ProchaineVersion]
  /\ UNCHANGED <<versions, publications, retouchees, courses, derniere>>

(* The row is created, unless its number was taken meanwhile.               *)
BrouillonCree(a, v) ==
  /\ pages[a].pc = "creer"
  /\ versions[v].statut = "absente"
  /\ IF \E w \in Presentes : versions[w].numero = pages[a].numero
     THEN UNCHANGED versions
     ELSE versions' = [versions EXCEPT ![v] =
            [statut |-> "draft", numero |-> pages[a].numero,
             document |-> pages[a].brouillon, sha |-> Neant]]
  /\ pages' = [pages EXCEPT ![a] = Repos(@)]
  /\ UNCHANGED <<publications, retouchees, courses, derniere>>

(* Some publication has read the row and not written it yet.                *)
Tenue(v) ==
  \E a \in Redacteurs : pages[a].ligne = v /\ pages[a].pc \in {"comparer", "publier"}

BrouillonRemplace(a) ==
  LET v == pages[a].ligne IN
  /\ pages[a].pc = "remplacer"
  /\ versions' = IF Modifiable(v)
       THEN [versions EXCEPT ![v].document = pages[a].brouillon] ELSE versions
  /\ retouchees' = IF Modifiable(v) /\ Tenue(v) THEN retouchees \cup {v} ELSE retouchees
  /\ pages' = [pages EXCEPT ![a] = Repos(@)]
  /\ UNCHANGED <<publications, courses, derniere>>

-----------------------------------------------------------------------------
(* abandonnerBrouillon: the page shows no draft whatever the answer.        *)

AbandonLit(a, v) ==
  /\ pages[a].pc = "repos" /\ v \in Brouillons
  /\ pages' = [pages EXCEPT ![a].pc = "effacer", ![a].ligne = v]
  /\ UNCHANGED <<versions, publications, retouchees, courses, derniere>>

AbandonEfface(a) ==
  LET v == pages[a].ligne IN
  /\ pages[a].pc = "effacer"
  /\ versions' = IF Modifiable(v)
       THEN [versions EXCEPT ![v] = [VersionAbsente EXCEPT !.statut = "effacee"]] ELSE versions
  /\ pages' = [pages EXCEPT ![a] = [Repos(@) EXCEPT !.brouillon = Neant]]
  /\ UNCHANGED <<publications, retouchees, courses, derniere>>

-----------------------------------------------------------------------------
(* publier: the draft the service finds, which need not be the one shown.   *)

PublierLit(a, v) ==
  /\ pages[a].pc = "repos" /\ pages[a].brouillon # Neant
  /\ v \in Brouillons
  /\ pages' = [pages EXCEPT
       ![a].pc = "comparer", ![a].ligne = v, ![a].lu = versions[v].document]
  /\ UNCHANGED <<versions, publications, retouchees, courses, derniere>>

(* A draft identical to the version in force is refused.                    *)
PublierCompare(a) ==
  /\ pages[a].pc = "comparer"
  /\ pages' =
       IF EnVigueur # Neant /\ versions[EnVigueur].sha = pages[a].lu
       THEN [pages EXCEPT ![a] = Repos(@)]
       ELSE [pages EXCEPT
               ![a].pc = "publier",
               ![a].numero = IF EnVigueur = Neant THEN 0 ELSE versions[EnVigueur].numero]
  /\ UNCHANGED <<versions, publications, retouchees, courses, derniere>>

(* Mutant: the update aims at the draft of the tenant, not at the row read. *)
MutantPublierLeBrouillon(a) ==
  /\ pages[a].pc = "publier"
  /\ \E v \in Brouillons :
       /\ versions' = [versions EXCEPT ![v].statut = "published", ![v].sha = pages[a].lu]
       /\ pages' = [pages EXCEPT ![a].pc = "tracer", ![a].ligne = v]
       /\ derniere' = v
  /\ UNCHANGED <<publications, retouchees, courses>>

PublierEcrit(a) ==
  LET v == pages[a].ligne IN
  /\ pages[a].pc = "publier"
  /\ IF Modifiable(v)
     THEN /\ versions' = [versions EXCEPT ![v].statut = "published", ![v].sha = pages[a].lu]
          /\ pages' = [pages EXCEPT ![a].pc = "tracer"]
          /\ derniere' = v
     ELSE /\ pages' = [pages EXCEPT ![a] = Repos(@)]
          /\ UNCHANGED <<versions, derniere>>
  /\ UNCHANGED <<publications, retouchees, courses>>

PublierTrace(a) ==
  /\ pages[a].pc = "tracer"
  /\ publications' = publications \cup
       {[version |-> versions[pages[a].ligne].numero, precedente |-> pages[a].numero,
         sha |-> pages[a].lu]}
  /\ pages' = [pages EXCEPT ![a] = Repos(@)]
  /\ UNCHANGED <<versions, retouchees, courses, derniere>>

(* The database fails or the process stops between two steps.               *)
RedactionRompue(a) ==
  /\ pages[a].pc # "repos"
  /\ pages' = [pages EXCEPT ![a] = Repos(@)]
  /\ UNCHANGED <<versions, publications, retouchees, courses, derniere>>

PolitiqueNext ==
  \E a \in Redacteurs :
    \/ Charger(a) \/ Dupliquer(a) \/ \E d \in Documents : Editer(a, d)
    \/ BrouillonLit(a) \/ BrouillonNumerote(a) \/ BrouillonRemplace(a)
    \/ AbandonEfface(a)
    \/ \E v \in Versions : BrouillonCree(a, v) \/ AbandonLit(a, v) \/ PublierLit(a, v)
    \/ PublierCompare(a) \/ PublierEcrit(a) \/ PublierTrace(a)
    \/ RedactionRompue(a)

PolitiqueSpec == PolitiqueInit /\ [][PolitiqueNext]_politiqueVars

-----------------------------------------------------------------------------
(* A published version is opposable: its fingerprint is that of its         *)
(* document, unless the draft was written over while a publication held it; *)
(* and what the journal says of a version stays true of the table: which    *)
(* fingerprint, and after which published version (policy.service.ts:188,   *)
(* schema.prisma:556-558).                                                  *)
PolitiqueOpposable ==
  /\ \A v \in Publiees \ retouchees : versions[v].sha = versions[v].document
  /\ \A e \in publications :
       /\ \E v \in Publiees : versions[v].numero = e.version /\ versions[v].sha = e.sha
       /\ e.precedente # 0 => \E v \in Publiees : versions[v].numero = e.precedente
  /\ \A v, w \in Presentes : versions[v].numero = versions[w].numero => v = w

(* As long as no two creations of a draft overlap, there is one draft, the  *)
(* version in force is the one published last, and it differs from the one  *)
(* before it (policy.service.ts:91-95, 118-121, 201-208).                   *)
EnVigueurDerniere ==
  ~courses =>
    /\ Cardinality(Brouillons) <= 1
    /\ EnVigueur = derniere
    /\ \A v \in Publiees : v # EnVigueur /\ versions[v].sha = versions[EnVigueur].sha =>
         \E w \in Publiees :
           versions[v].numero < versions[w].numero /\ versions[w].numero < versions[EnVigueur].numero
=============================================================================
