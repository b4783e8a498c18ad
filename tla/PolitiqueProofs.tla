-------------------------- MODULE PolitiqueProofs --------------------------
(***************************************************************************)
(* The recording policy for any number of administrators, rows and          *)
(* documents.  Nothing serialises the requests: what holds is held by the   *)
(* rows themselves, which an update only changes while they are drafts.     *)
(* Beside them the editor of a draft and the engine, for any patterns,      *)
(* lists, rules, rates, calls and draws.                                    *)
(***************************************************************************)
EXTENDS Politique, Editeur, FiniteSetTheorems, WellFoundedInduction, TLAPS

-----------------------------------------------------------------------------
(* The row of highest number.                                               *)

LEMMA PlafondNaturel == Cardinality(Versions) \in Nat
BY PolitiqueAssumption, FS_CardinalityType DEF PolitiqueAssumption

(* A set of rows has a row of highest number: their distances to the        *)
(* highest number there can be are naturals, and the order on these is      *)
(* well founded.                                                            *)
LEMMA HautePresente ==
  ASSUME PolitiqueTypeOK, NEW S \in SUBSET Versions, S # {}
  PROVE  /\ LaPlusHaute(S) \in S
         /\ \A w \in S : versions[w].numero <= versions[LaPlusHaute(S)].numero
<1> DEFINE T == {Cardinality(Versions) - versions[v].numero : v \in S}
<1>1. \A v \in S : versions[v].numero \in 0..Cardinality(Versions)
  BY DEF PolitiqueTypeOK, Version
<1>2. T \subseteq Nat /\ T # {}
  BY <1>1, PlafondNaturel
<1> DEFINE R == {ss \in Nat \X Nat : ss[1] < ss[2]}
<1>0. IsWellFoundedOn(R, Nat)
  BY NatLessThanWellFounded DEF OpToRel
<1>3. PICK x \in T : \A y \in T : ~(<<y, x>> \in R)
  <2> HIDE DEF T, R
  <2> QED
    BY <1>0, <1>2, WFMin
<1>4. \A y \in T : x <= y
  <2> SUFFICES ASSUME NEW y \in T
               PROVE  x <= y
    OBVIOUS
  <2>1. x \in Nat /\ y \in Nat /\ <<y, x>> \notin R
    <3> HIDE DEF T, R
    <3> QED
      BY <1>2, <1>3
  <2>2. ~(y < x)
    BY <2>1
  <2> QED
    BY <2>1, <2>2
<1>5. PICK v \in S : x = Cardinality(Versions) - versions[v].numero
  BY <1>3
<1>6. ASSUME NEW w \in S
      PROVE  versions[w].numero <= versions[v].numero
  <2>1. x <= Cardinality(Versions) - versions[w].numero
    BY <1>4
  <2> HIDE DEF T, R
  <2>2. versions[w].numero \in Nat /\ versions[v].numero \in Nat
    BY <1>1
  <2> QED
    BY <2>1, <2>2, <1>5, PlafondNaturel
<1> QED
  BY <1>6 DEF LaPlusHaute

-----------------------------------------------------------------------------
(* Typing: a row that is there has its document and a number of its own,    *)
(* and a request at work holds what the next step takes from it.            *)
LignesPleines ==
  \A v \in Presentes :
    /\ versions[v].document \in Documents /\ versions[v].numero # 0
    /\ versions[v].statut = "published" => versions[v].sha \in Documents
PagesPleines ==
  \A a \in Redacteurs :
    /\ pages[a].pc \in {"numeroter", "creer", "remplacer"} => pages[a].brouillon \in Documents
    /\ pages[a].pc = "creer" => pages[a].numero # 0
    /\ pages[a].pc \in {"remplacer", "effacer", "comparer", "publier", "tracer"} =>
         pages[a].ligne \in Versions /\ versions[pages[a].ligne].statut # "absente"
    /\ pages[a].pc = "tracer" => pages[a].ligne \in Publiees
    /\ pages[a].pc \in {"comparer", "publier", "tracer"} => pages[a].lu \in Documents

PolitiqueTypeInv == PolitiqueTypeOK /\ LignesPleines /\ PagesPleines

(* No two rows bear one number.                                             *)
NumerosUniques ==
  \A v, w \in Presentes : versions[v].numero = versions[w].numero => v = w

(* What a publication has read is what its row still holds, unless the row  *)
(* was written over since; once it is published, the row has its            *)
(* fingerprint and that of its document.                                    *)
LuFidele ==
  \A a \in Redacteurs :
    LET v == pages[a].ligne IN
    /\ pages[a].pc \in {"comparer", "publier"} /\ Modifiable(v) /\ v \notin retouchees =>
         pages[a].lu = versions[v].document
    /\ pages[a].pc = "tracer" => versions[v].sha = pages[a].lu
EmpreintesTenues ==
  \A v \in Publiees \ retouchees : versions[v].sha = versions[v].document

(* The journal, and the entry about to be written, name published rows.     *)
Numero(n) == \E v \in Publiees : versions[v].numero = n
JournalVrai ==
  /\ \A e \in publications :
       /\ \E v \in Publiees : versions[v].numero = e.version /\ versions[v].sha = e.sha
       /\ e.precedente # 0 => Numero(e.precedente)
  /\ \A a \in Redacteurs :
       pages[a].pc \in {"publier", "tracer"} /\ pages[a].numero # 0 => Numero(pages[a].numero)

OpposableInv == PolitiqueTypeInv /\ NumerosUniques /\ LuFidele /\ EmpreintesTenues /\ JournalVrai

-----------------------------------------------------------------------------
(* As long as no two creations overlapped: one draft, and none beside a     *)
(* creation under way, which holds the next number.                         *)
UnSeulBrouillon ==
  /\ \A v, w \in Brouillons : v = w
  /\ \A a, b \in Redacteurs : EnCreation(a) /\ EnCreation(b) => a = b
  /\ \A a \in Redacteurs : EnCreation(a) => Brouillons = {}
  /\ \A a \in Redacteurs : pages[a].pc = "creer" =>
       \A v \in Publiees : versions[v].numero < pages[a].numero

(* The draft is above every published version, so that publishing it puts   *)
(* it in force; a publication about to be written was compared with the     *)
(* version still in force.                                                  *)
Sommet(v) == v \in Publiees /\ \A w \in Publiees : versions[w].numero <= versions[v].numero
Ordonnees ==
  /\ \A v \in Brouillons, w \in Publiees : versions[w].numero < versions[v].numero
  /\ Publiees = {} => derniere = Neant
  /\ Publiees # {} => Sommet(derniere)
Comparee ==
  \A a \in Redacteurs :
    pages[a].pc = "publier" /\ Modifiable(pages[a].ligne) /\ Publiees # {} =>
      versions[derniere].sha # pages[a].lu
Distinctes ==
  \A v \in Publiees : v # derniere /\ versions[v].sha = versions[derniere].sha =>
    \E w \in Publiees :
      versions[v].numero < versions[w].numero /\ versions[w].numero < versions[derniere].numero

EnVigueurInv == ~courses => UnSeulBrouillon /\ Ordonnees /\ Comparee /\ Distinctes

-----------------------------------------------------------------------------
(* What each request does to the pages and the rows.                        *)

AutresPages(a) ==
  pages' \in [Redacteurs -> Page] /\ \A b \in Redacteurs : b # a => pages'[b] = pages[b]
PageAuRepos(a) == AutresPages(a) /\ pages'[a].pc = "repos"
LignesIntactes == UNCHANGED <<versions, publications, retouchees, derniere>>

LEMMA UnePage ==
  ASSUME PolitiqueTypeOK, NEW a \in Redacteurs, NEW p \in Page,
         pages' = [pages EXCEPT ![a] = p]
  PROVE  AutresPages(a) /\ pages'[a] = p
BY DEF PolitiqueTypeOK, AutresPages

LEMMA ReposType ==
  ASSUME NEW page \in Page
  PROVE  /\ Repos(page) \in Page /\ Repos(page).pc = "repos"
         /\ [Repos(page) EXCEPT !.brouillon = Neant] \in Page
         /\ [Repos(page) EXCEPT !.brouillon = Neant].pc = "repos"
<1>1. 0 \in 0..Cardinality(Versions)
  BY PlafondNaturel
<1>2. Repos(page) \in Page
  BY <1>1 DEF Repos, Page
<1>3. Repos(page).pc = "repos"
  BY DEF Repos, Page
<1>4. [Repos(page) EXCEPT !.brouillon = Neant] \in Page
  BY <1>2 DEF Page
<1>5. [Repos(page) EXCEPT !.brouillon = Neant].pc = "repos"
  BY <1>2, <1>3 DEF Page
<1> QED
  BY <1>2, <1>3, <1>4, <1>5

LEMMA EnVigueurPubliee ==
  ASSUME PolitiqueTypeOK, EnVigueur # Neant
  PROVE  /\ EnVigueur \in Publiees
         /\ \A w \in Publiees : versions[w].numero <= versions[EnVigueur].numero
<1>1. Publiees # {} /\ EnVigueur = LaPlusHaute(Publiees)
  BY DEF EnVigueur
<1>2. Publiees \in SUBSET Versions
  BY DEF Publiees
<1> QED
  BY <1>1, <1>2, HautePresente

LEMMA ApresNumero ==
  ASSUME PolitiqueTypeOK
  PROVE  /\ ProchaineVersion \in Nat \ {0}
         /\ \A v \in Presentes : versions[v].numero < ProchaineVersion
<1>1. CASE Presentes = {}
  BY <1>1 DEF ProchaineVersion
<1>2. CASE Presentes # {}
  <2>1. Presentes \in SUBSET Versions
    BY DEF Presentes, Brouillons, Publiees
  <2>2. \A v \in Versions : versions[v].numero \in Nat
    BY PlafondNaturel DEF PolitiqueTypeOK, Version
  <2> QED
    BY <1>2, <2>1, <2>2, HautePresente DEF ProchaineVersion
<1> QED
  BY <1>1, <1>2

LEMMA EffetEcran ==
  ASSUME PolitiqueTypeInv, NEW a \in Redacteurs,
         Charger(a) \/ Dupliquer(a) \/ (\E d \in Documents : Editer(a, d)) \/ RedactionRompue(a)
  PROVE  PageAuRepos(a) /\ LignesIntactes /\ courses' = courses
<1> USE DEF PolitiqueTypeInv, PageAuRepos, LignesIntactes
<1>0. pages[a] \in Page
  BY DEF PolitiqueTypeOK
<1>1. ASSUME NEW d \in Documents \cup {Neant}, pages[a].pc = "repos",
             pages' = [pages EXCEPT ![a].brouillon = d]
      PROVE  PageAuRepos(a)
  <2>1. [pages[a] EXCEPT !.brouillon = d] \in Page /\ [pages[a] EXCEPT !.brouillon = d].pc = "repos"
    BY <1>0, <1>1 DEF Page
  <2>2. pages' = [pages EXCEPT ![a] = [pages[a] EXCEPT !.brouillon = d]]
    BY <1>1
  <2> QED
    BY <2>1, <2>2, UnePage
<1>2. CASE Charger(a)
  BY <1>1, <1>2 DEF Charger, LignesPleines, Presentes, Brouillons
<1>3. CASE Dupliquer(a)
  <2>1. DocumentApplique \in Documents
    BY PolitiqueAssumption, EnVigueurPubliee
       DEF DocumentApplique, LignesPleines, Presentes, PolitiqueAssumption
  <2> QED
    BY <1>1, <1>3, <2>1 DEF Dupliquer
<1>4. ASSUME NEW d \in Documents, Editer(a, d)
      PROVE  PageAuRepos(a) /\ LignesIntactes /\ courses' = courses
  BY <1>1, <1>4 DEF Editer
<1>5. CASE RedactionRompue(a)
  BY <1>0, <1>5, UnePage, ReposType DEF RedactionRompue
<1> QED
  BY <1>2, <1>3, <1>4, <1>5

LEMMA EffetBrouillonLit ==
  ASSUME PolitiqueTypeInv, NEW a \in Redacteurs, BrouillonLit(a)
  PROVE  /\ AutresPages(a) /\ LignesIntactes /\ pages'[a].brouillon \in Documents
         /\ pages[a].pc = "repos"
         /\ \/ /\ pages'[a].pc = "remplacer" /\ pages'[a].ligne \in Brouillons
               /\ courses' = courses
            \/ /\ pages'[a].pc = "numeroter" /\ Brouillons = {}
               /\ courses' = (courses \/ \E b \in Redacteurs \ {a} : EnCreation(b))
<1> USE DEF PolitiqueTypeInv, LignesIntactes
<1>1. pages[a] \in Page /\ pages[a].brouillon \in Documents
  BY DEF PolitiqueTypeOK, BrouillonLit, Page
<1>2. ASSUME NEW v \in Brouillons, pages' = [pages EXCEPT ![a].pc = "remplacer", ![a].ligne = v]
      PROVE  /\ AutresPages(a) /\ pages'[a].brouillon \in Documents
             /\ pages'[a].pc = "remplacer" /\ pages'[a].ligne = v
  <2> DEFINE p == [pages[a] EXCEPT !.pc = "remplacer", !.ligne = v]
  <2>1. p \in Page /\ p.pc = "remplacer" /\ p.ligne = v /\ p.brouillon = pages[a].brouillon
    BY <1>1 DEF Page, Brouillons
  <2>2. pages' = [pages EXCEPT ![a] = p]
    BY <1>2
  <2> HIDE DEF p
  <2> QED
    BY <1>1, <2>1, <2>2, UnePage
<1>3. ASSUME pages' = [pages EXCEPT ![a].pc = "numeroter"]
      PROVE  /\ AutresPages(a) /\ pages'[a].brouillon \in Documents
             /\ pages'[a].pc = "numeroter"
  <2> DEFINE p == [pages[a] EXCEPT !.pc = "numeroter"]
  <2>1. p \in Page /\ p.pc = "numeroter" /\ p.brouillon = pages[a].brouillon
    BY <1>1 DEF Page
  <2>2. pages' = [pages EXCEPT ![a] = p]
    BY <1>3
  <2> HIDE DEF p
  <2> QED
    BY <1>1, <2>1, <2>2, UnePage
<1> QED
  BY <1>2, <1>3 DEF BrouillonLit

LEMMA EffetBrouillonNumerote ==
  ASSUME PolitiqueTypeInv, NEW a \in Redacteurs, BrouillonNumerote(a)
  PROVE  /\ AutresPages(a) /\ LignesIntactes /\ courses' = courses
         /\ pages[a].pc = "numeroter" /\ pages'[a].pc = "creer"
         /\ pages'[a].brouillon = pages[a].brouillon /\ pages'[a].numero = ProchaineVersion
<1> USE DEF PolitiqueTypeInv, LignesIntactes
<1> DEFINE p == [pages[a] EXCEPT !.pc = "creer", !.numero = ProchaineVersion]
<1>1. ProchaineVersion \in 0..Cardinality(Versions)
  BY ApresNumero, PlafondNaturel DEF BrouillonNumerote
<1>2. /\ p \in Page /\ p.pc = "creer" /\ p.brouillon = pages[a].brouillon
      /\ p.numero = ProchaineVersion
  BY <1>1 DEF Page, PolitiqueTypeOK
<1>3. pages' = [pages EXCEPT ![a] = p]
  BY DEF BrouillonNumerote
<1> HIDE DEF p
<1> QED
  BY <1>2, <1>3, UnePage DEF BrouillonNumerote

LEMMA EffetLit ==
  ASSUME PolitiqueTypeInv, NEW a \in Redacteurs, NEW v \in Versions,
         AbandonLit(a, v) \/ PublierLit(a, v)
  PROVE  /\ AutresPages(a) /\ LignesIntactes /\ courses' = courses
         /\ pages[a].pc = "repos" /\ v \in Brouillons /\ pages'[a].ligne = v
         /\ \/ pages'[a].pc = "effacer"
            \/ pages'[a].pc = "comparer" /\ pages'[a].lu = versions[v].document
<1> USE DEF PolitiqueTypeInv, LignesIntactes
<1>1. CASE AbandonLit(a, v)
  <2> DEFINE p == [pages[a] EXCEPT !.pc = "effacer", !.ligne = v]
  <2>1. p \in Page /\ p.pc = "effacer" /\ p.ligne = v
    BY DEF Page, PolitiqueTypeOK
  <2>2. pages' = [pages EXCEPT ![a] = p]
    BY <1>1 DEF AbandonLit
  <2> HIDE DEF p
  <2> QED
    BY <1>1, <2>1, <2>2, UnePage DEF AbandonLit
<1>2. CASE PublierLit(a, v)
  <2> DEFINE p == [pages[a] EXCEPT !.pc = "comparer", !.ligne = v, !.lu = versions[v].document]
  <2>1. versions[v].document \in Documents
    BY <1>2 DEF PublierLit, LignesPleines, Presentes
  <2>2. p \in Page /\ p.pc = "comparer" /\ p.ligne = v /\ p.lu = versions[v].document
    BY <2>1 DEF Page, PolitiqueTypeOK
  <2>3. pages' = [pages EXCEPT ![a] = p]
    BY <1>2 DEF PublierLit
  <2> HIDE DEF p
  <2> QED
    BY <1>2, <2>2, <2>3, UnePage DEF PublierLit
<1> QED
  BY <1>1, <1>2

LEMMA EffetPublierCompare ==
  ASSUME PolitiqueTypeInv, NEW a \in Redacteurs, PublierCompare(a)
  PROVE  /\ AutresPages(a) /\ LignesIntactes /\ courses' = courses
         /\ pages[a].pc = "comparer"
         /\ \/ pages'[a].pc = "repos"
            \/ /\ pages'[a].pc = "publier"
               /\ pages'[a].ligne = pages[a].ligne /\ pages'[a].lu = pages[a].lu
               /\ pages'[a].numero = IF EnVigueur = Neant THEN 0 ELSE versions[EnVigueur].numero
               /\ EnVigueur # Neant => versions[EnVigueur].sha # pages[a].lu
<1> USE DEF PolitiqueTypeInv, LignesIntactes
<1>1. CASE EnVigueur # Neant /\ versions[EnVigueur].sha = pages[a].lu
  BY <1>1, UnePage, ReposType DEF PublierCompare, PolitiqueTypeOK
<1>2. CASE ~(EnVigueur # Neant /\ versions[EnVigueur].sha = pages[a].lu)
  <2> DEFINE n == IF EnVigueur = Neant THEN 0 ELSE versions[EnVigueur].numero
             p == [pages[a] EXCEPT !.pc = "publier", !.numero = n]
  <2>1. n \in 0..Cardinality(Versions)
    BY PlafondNaturel, EnVigueurPubliee DEF PolitiqueTypeOK, Version, Publiees
  <2>2. pages' = [pages EXCEPT ![a] = p]
    BY <1>2 DEF PublierCompare
  <2>3. /\ pages[a].pc = "comparer"
        /\ UNCHANGED <<versions, publications, retouchees, courses, derniere>>
    BY DEF PublierCompare
  <2> HIDE DEF n
  <2>4. /\ p \in Page /\ p.pc = "publier" /\ p.ligne = pages[a].ligne /\ p.lu = pages[a].lu
        /\ p.numero = n
    BY <2>1 DEF Page, PolitiqueTypeOK
  <2> HIDE DEF p
  <2>5. AutresPages(a) /\ pages'[a] = p
    BY <2>2, <2>4, UnePage
  <2> QED
    BY <1>2, <2>3, <2>4, <2>5 DEF n
<1> QED
  BY <1>1, <1>2

AutresLignes(v) ==
  versions' \in [Versions -> Version] /\ \A w \in Versions : w # v => versions'[w] = versions[w]

LEMMA UneLigne ==
  ASSUME PolitiqueTypeOK, NEW v \in Versions, NEW l \in Version,
         versions' = [versions EXCEPT ![v] = l]
  PROVE  AutresLignes(v) /\ versions'[v] = l
BY DEF PolitiqueTypeOK, AutresLignes

LEMMA EffetPublierEcrit ==
  ASSUME PolitiqueTypeInv, NEW a \in Redacteurs, PublierEcrit(a)
  PROVE  /\ AutresPages(a) /\ UNCHANGED <<publications, retouchees, courses>>
         /\ pages[a].pc = "publier" /\ pages[a].ligne \in Versions
         /\ \/ pages'[a].pc = "repos" /\ UNCHANGED <<versions, derniere>>
            \/ /\ Modifiable(pages[a].ligne) /\ derniere' = pages[a].ligne
               /\ pages'[a].pc = "tracer" /\ pages'[a].ligne = pages[a].ligne
               /\ pages'[a].lu = pages[a].lu /\ pages'[a].numero = pages[a].numero
               /\ AutresLignes(pages[a].ligne)
               /\ versions'[pages[a].ligne].statut = "published"
               /\ versions'[pages[a].ligne].sha = pages[a].lu
               /\ versions'[pages[a].ligne].numero = versions[pages[a].ligne].numero
               /\ versions'[pages[a].ligne].document = versions[pages[a].ligne].document
<1> USE DEF PolitiqueTypeInv
<1> DEFINE v == pages[a].ligne
<1>0. pages[a].pc = "publier" /\ v \in Versions /\ pages[a].lu \in Documents
  BY DEF PublierEcrit, PagesPleines
<1>1. CASE Modifiable(v)
  <2> DEFINE l == [versions[v] EXCEPT !.statut = "published", !.sha = pages[a].lu]
             p == [pages[a] EXCEPT !.pc = "tracer"]
  <2>0. versions[v] \in Version
    BY <1>0 DEF PolitiqueTypeOK
  <2>1. /\ l \in Version /\ l.statut = "published" /\ l.sha = pages[a].lu
        /\ l.numero = versions[v].numero /\ l.document = versions[v].document
    <3> HIDE DEF v
    <3> QED
      BY <1>0, <2>0 DEF Version
  <2>2. /\ p \in Page /\ p.pc = "tracer" /\ p.ligne = v /\ p.lu = pages[a].lu
        /\ p.numero = pages[a].numero
    BY DEF Page, PolitiqueTypeOK
  <2>3. versions' = [versions EXCEPT ![v] = l] /\ pages' = [pages EXCEPT ![a] = p]
    BY <1>1 DEF PublierEcrit
  <2>4. derniere' = v /\ UNCHANGED <<publications, retouchees, courses>>
    BY <1>1 DEF PublierEcrit
  <2> HIDE DEF l, p
  <2>5. AutresPages(a) /\ pages'[a] = p
    BY <2>2, <2>3, UnePage
  <2>6. AutresLignes(v) /\ versions'[v] = l
    BY <1>0, <2>1, <2>3, UneLigne
  <2> QED
    BY <1>0, <1>1, <2>1, <2>2, <2>4, <2>5, <2>6
<1>2. CASE ~Modifiable(v)
  <2>1. /\ pages' = [pages EXCEPT ![a] = Repos(pages[a])]
        /\ UNCHANGED <<versions, derniere, publications, retouchees, courses>>
    BY <1>2 DEF PublierEcrit
  <2>2. Repos(pages[a]) \in Page /\ Repos(pages[a]).pc = "repos"
    BY ReposType DEF PolitiqueTypeOK
  <2> QED
    BY <1>0, <2>1, <2>2, UnePage
<1> QED
  BY <1>1, <1>2

LEMMA EffetPublierTrace ==
  ASSUME PolitiqueTypeInv, NEW a \in Redacteurs, PublierTrace(a)
  PROVE  /\ PageAuRepos(a) /\ UNCHANGED <<versions, retouchees, courses, derniere>>
         /\ pages[a].pc = "tracer"
         /\ publications' = publications \cup
              {[version |-> versions[pages[a].ligne].numero, precedente |-> pages[a].numero,
                sha |-> pages[a].lu]}
BY UnePage, ReposType DEF PublierTrace, PolitiqueTypeInv, PolitiqueTypeOK, PageAuRepos

LEMMA EffetBrouillonRemplace ==
  ASSUME PolitiqueTypeInv, NEW a \in Redacteurs, BrouillonRemplace(a)
  PROVE  /\ PageAuRepos(a) /\ UNCHANGED <<publications, courses, derniere>>
         /\ pages[a].ligne \in Versions
         /\ \/ UNCHANGED <<versions, retouchees>>
            \/ /\ Modifiable(pages[a].ligne)
               /\ AutresLignes(pages[a].ligne)
               /\ versions'[pages[a].ligne].statut = "draft"
               /\ versions'[pages[a].ligne].numero = versions[pages[a].ligne].numero
               /\ versions'[pages[a].ligne].document \in Documents
               /\ retouchees' = IF Tenue(pages[a].ligne) THEN retouchees \cup {pages[a].ligne}
                                ELSE retouchees
<1> USE DEF PolitiqueTypeInv, PageAuRepos
<1> DEFINE v == pages[a].ligne
           l == [versions[v] EXCEPT !.document = pages[a].brouillon]
<1>1. pages[a].pc = "remplacer" /\ v \in Versions /\ pages[a].brouillon \in Documents
  BY DEF BrouillonRemplace, PagesPleines
<1>2. PageAuRepos(a) /\ UNCHANGED <<publications, courses, derniere>>
  BY UnePage, ReposType DEF BrouillonRemplace, PolitiqueTypeOK
<1>3. CASE Modifiable(v)
  <2>1. /\ l \in Version /\ l.statut = "draft" /\ l.numero = versions[v].numero
        /\ l.document \in Documents
    BY <1>1, <1>3 DEF Version, PolitiqueTypeOK, Modifiable
  <2>2. versions' = [versions EXCEPT ![v] = l]
    BY <1>3 DEF BrouillonRemplace
  <2>3. retouchees' = IF Tenue(v) THEN retouchees \cup {v} ELSE retouchees
    BY <1>3 DEF BrouillonRemplace
  <2> HIDE DEF l
  <2>4. AutresLignes(v) /\ versions'[v] = l
    BY <1>1, <2>1, <2>2, UneLigne
  <2> QED
    BY <1>1, <1>2, <1>3, <2>1, <2>3, <2>4
<1>4. CASE ~Modifiable(v)
  BY <1>1, <1>2, <1>4 DEF BrouillonRemplace
<1> QED
  BY <1>3, <1>4

LEMMA EffetAbandonEfface ==
  ASSUME PolitiqueTypeInv, NEW a \in Redacteurs, AbandonEfface(a)
  PROVE  /\ PageAuRepos(a) /\ UNCHANGED <<publications, retouchees, courses, derniere>>
         /\ pages[a].ligne \in Versions
         /\ \/ UNCHANGED versions
            \/ /\ Modifiable(pages[a].ligne) /\ AutresLignes(pages[a].ligne)
               /\ versions'[pages[a].ligne].statut = "effacee"
<1> USE DEF PolitiqueTypeInv, PageAuRepos
<1> DEFINE v == pages[a].ligne
           l == [VersionAbsente EXCEPT !.statut = "effacee"]
<1>1. v \in Versions
  BY DEF AbandonEfface, PagesPleines
<1>2. PageAuRepos(a) /\ UNCHANGED <<publications, retouchees, courses, derniere>>
  BY UnePage, ReposType DEF AbandonEfface, PolitiqueTypeOK
<1>3. l \in Version /\ l.statut = "effacee"
  BY PlafondNaturel DEF Version, VersionAbsente
<1>4. CASE Modifiable(v)
  <2>1. versions' = [versions EXCEPT ![v] = l]
    BY <1>4 DEF AbandonEfface
  <2> HIDE DEF l
  <2> QED
    BY <1>1, <1>2, <1>3, <1>4, <2>1, UneLigne
<1>5. CASE ~Modifiable(v)
  BY <1>1, <1>2, <1>5 DEF AbandonEfface
<1> QED
  BY <1>4, <1>5

LEMMA EffetBrouillonCree ==
  ASSUME PolitiqueTypeInv, NEW a \in Redacteurs, NEW v \in Versions, BrouillonCree(a, v)
  PROVE  /\ PageAuRepos(a) /\ UNCHANGED <<publications, retouchees, courses, derniere>>
         /\ pages[a].pc = "creer" /\ versions[v].statut = "absente"
         /\ \/ UNCHANGED versions
            \/ /\ \A w \in Presentes : versions[w].numero # pages[a].numero
               /\ AutresLignes(v)
               /\ versions'[v].statut = "draft" /\ versions'[v].numero = pages[a].numero
               /\ versions'[v].document \in Documents
<1> USE DEF PolitiqueTypeInv, PageAuRepos
<1> DEFINE l == [statut |-> "draft", numero |-> pages[a].numero,
                 document |-> pages[a].brouillon, sha |-> Neant]
<1>1. pages[a].pc = "creer" /\ versions[v].statut = "absente" /\ pages[a].brouillon \in Documents
  BY DEF BrouillonCree, PagesPleines
<1>2. PageAuRepos(a) /\ UNCHANGED <<publications, retouchees, courses, derniere>>
  BY UnePage, ReposType DEF BrouillonCree, PolitiqueTypeOK
<1>3. /\ l \in Version /\ l.statut = "draft" /\ l.numero = pages[a].numero
      /\ l.document \in Documents
  BY <1>1 DEF Version, PolitiqueTypeOK, Page
<1>4. CASE \E w \in Presentes : versions[w].numero = pages[a].numero
  BY <1>1, <1>2, <1>4 DEF BrouillonCree
<1>5. CASE ~\E w \in Presentes : versions[w].numero = pages[a].numero
  <2>1. versions' = [versions EXCEPT ![v] = l]
    BY <1>5 DEF BrouillonCree
  <2> HIDE DEF l
  <2> QED
    BY <1>1, <1>2, <1>3, <1>5, <2>1, UneLigne
<1> QED
  BY <1>4, <1>5

-----------------------------------------------------------------------------
(* The typing of the pages and the rows.                                    *)

LEMMA PolitiqueInitial == PolitiqueInit => PolitiqueTypeInv
<1> SUFFICES ASSUME PolitiqueInit
             PROVE  PolitiqueTypeInv
  OBVIOUS
<1>1. VersionAbsente \in Version
  BY PlafondNaturel DEF VersionAbsente, Version
<1>2. [pc |-> "repos", brouillon |-> Neant, ligne |-> Neant, lu |-> Neant, numero |-> 0] \in Page
  BY PlafondNaturel DEF Page
<1>3. PolitiqueTypeOK
  BY <1>1, <1>2 DEF PolitiqueInit, PolitiqueTypeOK
<1>4. LignesPleines /\ PagesPleines
  BY DEF PolitiqueInit, VersionAbsente, LignesPleines, PagesPleines, Presentes, Brouillons, Publiees
<1> QED
  BY <1>3, <1>4 DEF PolitiqueTypeInv

LEMMA PolitiqueTypeStable ==
  ASSUME PolitiqueTypeInv, [PolitiqueNext]_politiqueVars
  PROVE  PolitiqueTypeInv'
<1> USE DEF PolitiqueTypeInv, PolitiqueTypeOK, LignesPleines, PagesPleines, AutresPages, PageAuRepos,
            LignesIntactes, AutresLignes, Modifiable, Presentes, Brouillons, Publiees
<1>1. ASSUME NEW a \in Redacteurs, 
             Charger(a) \/ Dupliquer(a) \/ (\E d \in Documents : Editer(a, d)) \/ RedactionRompue(a)
      PROVE  PolitiqueTypeInv'
  <2>1. PolitiqueTypeOK'
    BY <1>1, EffetEcran
  <2>2. LignesPleines'
    BY <1>1, EffetEcran
  <2>3. PagesPleines'
    BY <1>1, EffetEcran
  <2> QED
    BY <2>1, <2>2, <2>3 DEF PolitiqueTypeInv
<1>2. ASSUME NEW a \in Redacteurs, BrouillonLit(a)
      PROVE  PolitiqueTypeInv'
  <2>1. PolitiqueTypeOK'
    BY <1>2, EffetBrouillonLit
  <2>2. LignesPleines'
    BY <1>2, EffetBrouillonLit
  <2>3. PagesPleines'
    BY <1>2, EffetBrouillonLit
  <2> QED
    BY <2>1, <2>2, <2>3 DEF PolitiqueTypeInv
<1>3. ASSUME NEW a \in Redacteurs, BrouillonNumerote(a)
      PROVE  PolitiqueTypeInv'
  <2>1. PolitiqueTypeOK'
    BY <1>3, EffetBrouillonNumerote
  <2>2. LignesPleines'
    BY <1>3, EffetBrouillonNumerote
  <2>3. PagesPleines'
    BY <1>3, EffetBrouillonNumerote, ApresNumero
  <2> QED
    BY <2>1, <2>2, <2>3 DEF PolitiqueTypeInv
<1>4. ASSUME NEW a \in Redacteurs, NEW v \in Versions, BrouillonCree(a, v)
      PROVE  PolitiqueTypeInv'
  <2>1. PolitiqueTypeOK'
    BY <1>4, EffetBrouillonCree
  <2>2. LignesPleines'
    BY <1>4, EffetBrouillonCree
  <2>3. PagesPleines'
    BY <1>4, EffetBrouillonCree
  <2> QED
    BY <2>1, <2>2, <2>3 DEF PolitiqueTypeInv
<1>5. ASSUME NEW a \in Redacteurs, BrouillonRemplace(a)
      PROVE  PolitiqueTypeInv'
  <2>1. PolitiqueTypeOK'
    BY <1>5, EffetBrouillonRemplace
  <2>2. LignesPleines'
    BY <1>5, EffetBrouillonRemplace
  <2>3. PagesPleines'
    BY <1>5, EffetBrouillonRemplace
  <2> QED
    BY <2>1, <2>2, <2>3 DEF PolitiqueTypeInv
<1>6. ASSUME NEW a \in Redacteurs, NEW v \in Versions, AbandonLit(a, v) \/ PublierLit(a, v)
      PROVE  PolitiqueTypeInv'
  <2>1. PolitiqueTypeOK'
    BY <1>6, EffetLit
  <2>2. LignesPleines'
    BY <1>6, EffetLit
  <2>3. PagesPleines'
    BY <1>6, EffetLit
  <2> QED
    BY <2>1, <2>2, <2>3 DEF PolitiqueTypeInv
<1>7. ASSUME NEW a \in Redacteurs, AbandonEfface(a)
      PROVE  PolitiqueTypeInv'
  <2>1. PolitiqueTypeOK'
    BY <1>7, EffetAbandonEfface
  <2>2. LignesPleines'
    BY <1>7, EffetAbandonEfface
  <2>3. PagesPleines'
    BY <1>7, EffetAbandonEfface
  <2> QED
    BY <2>1, <2>2, <2>3 DEF PolitiqueTypeInv
<1>8. ASSUME NEW a \in Redacteurs, PublierCompare(a)
      PROVE  PolitiqueTypeInv'
  <2>1. PolitiqueTypeOK'
    BY <1>8, EffetPublierCompare
  <2>2. LignesPleines'
    BY <1>8, EffetPublierCompare
  <2>3. PagesPleines'
    BY <1>8, EffetPublierCompare
  <2> QED
    BY <2>1, <2>2, <2>3 DEF PolitiqueTypeInv
<1>9. ASSUME NEW a \in Redacteurs, PublierEcrit(a)
      PROVE  PolitiqueTypeInv'
  <2>1. PolitiqueTypeOK'
    BY <1>9, EffetPublierEcrit
  <2>2. LignesPleines'
    BY <1>9, EffetPublierEcrit
  <2>3. PagesPleines'
    BY <1>9, EffetPublierEcrit
  <2> QED
    BY <2>1, <2>2, <2>3 DEF PolitiqueTypeInv
<1>10. ASSUME NEW a \in Redacteurs, PublierTrace(a)
      PROVE  PolitiqueTypeInv'
  <2>1. PolitiqueTypeOK'
    <3>1. /\ pages[a] \in Page /\ versions[pages[a].ligne] \in Version /\ pages[a].lu \in Documents
          /\ versions[pages[a].ligne].numero # 0
      BY <1>10, EffetPublierTrace
    <3>2. /\ versions[pages[a].ligne].numero \in 1..Cardinality(Versions)
          /\ pages[a].numero \in 0..Cardinality(Versions)
      BY <3>1, PlafondNaturel DEF Version, Page
    <3> QED
      BY <1>10, <3>1, <3>2, EffetPublierTrace
  <2>2. LignesPleines'
    BY <1>10, EffetPublierTrace
  <2>3. PagesPleines'
    BY <1>10, EffetPublierTrace
  <2> QED
    BY <2>1, <2>2, <2>3 DEF PolitiqueTypeInv
<1>11. ASSUME UNCHANGED politiqueVars
      PROVE  PolitiqueTypeInv'
  <2>1. PolitiqueTypeOK'
    BY <1>11 DEF politiqueVars
  <2>2. LignesPleines'
    BY <1>11 DEF politiqueVars
  <2>3. PagesPleines'
    BY <1>11 DEF politiqueVars
  <2> QED
    BY <2>1, <2>2, <2>3 DEF PolitiqueTypeInv
<1> HIDE DEF PolitiqueTypeInv, PolitiqueTypeOK, LignesPleines, PagesPleines, AutresPages, PageAuRepos,
             LignesIntactes, AutresLignes, Modifiable, Presentes, Brouillons, Publiees
<1> QED
  BY <1>1, <1>2, <1>3, <1>4, <1>5, <1>6, <1>7, <1>8, <1>9, <1>10, <1>11 DEF PolitiqueNext

-----------------------------------------------------------------------------
(* What is published stays as the journal says it.                          *)

LEMMA OpposableStable ==
  ASSUME PolitiqueTypeInv', OpposableInv, [PolitiqueNext]_politiqueVars
  PROVE  OpposableInv'
<1> USE DEF PolitiqueTypeInv, PolitiqueTypeOK, LignesPleines, PagesPleines, OpposableInv,
            NumerosUniques, LuFidele, EmpreintesTenues, JournalVrai, Numero, AutresPages,
            PageAuRepos, LignesIntactes, AutresLignes, Modifiable, Presentes, Brouillons,
            Publiees
<1>1. ASSUME NEW a \in Redacteurs, 
             Charger(a) \/ Dupliquer(a) \/ (\E d \in Documents : Editer(a, d)) \/ RedactionRompue(a)
      PROVE  OpposableInv'
  <2>1. PolitiqueTypeInv'
    OBVIOUS
  <2>2. NumerosUniques'
    BY <1>1, EffetEcran
  <2>3. LuFidele'
    BY <1>1, EffetEcran
  <2>4. EmpreintesTenues'
    BY <1>1, EffetEcran
  <2>5. JournalVrai'
    BY <1>1, EffetEcran
  <2> QED
    BY <2>1, <2>2, <2>3, <2>4, <2>5 DEF OpposableInv
<1>2. ASSUME NEW a \in Redacteurs, BrouillonLit(a)
      PROVE  OpposableInv'
  <2>1. PolitiqueTypeInv'
    OBVIOUS
  <2>2. NumerosUniques'
    BY <1>2, EffetBrouillonLit
  <2>3. LuFidele'
    BY <1>2, EffetBrouillonLit
  <2>4. EmpreintesTenues'
    BY <1>2, EffetBrouillonLit
  <2>5. JournalVrai'
    BY <1>2, EffetBrouillonLit
  <2> QED
    BY <2>1, <2>2, <2>3, <2>4, <2>5 DEF OpposableInv
<1>3. ASSUME NEW a \in Redacteurs, BrouillonNumerote(a)
      PROVE  OpposableInv'
  <2>1. PolitiqueTypeInv'
    OBVIOUS
  <2>2. NumerosUniques'
    BY <1>3, EffetBrouillonNumerote
  <2>3. LuFidele'
    BY <1>3, EffetBrouillonNumerote
  <2>4. EmpreintesTenues'
    BY <1>3, EffetBrouillonNumerote
  <2>5. JournalVrai'
    BY <1>3, EffetBrouillonNumerote
  <2> QED
    BY <2>1, <2>2, <2>3, <2>4, <2>5 DEF OpposableInv
<1>4. ASSUME NEW a \in Redacteurs, NEW v \in Versions, BrouillonCree(a, v)
      PROVE  OpposableInv'
  <2>1. PolitiqueTypeInv'
    OBVIOUS
  <2>2. NumerosUniques'
    BY <1>4, EffetBrouillonCree
  <2>3. LuFidele'
    BY <1>4, EffetBrouillonCree
  <2>4. EmpreintesTenues'
    BY <1>4, EffetBrouillonCree
  <2>5. JournalVrai'
    BY <1>4, EffetBrouillonCree
  <2> QED
    BY <2>1, <2>2, <2>3, <2>4, <2>5 DEF OpposableInv
<1>5. ASSUME NEW a \in Redacteurs, BrouillonRemplace(a)
      PROVE  OpposableInv'
  <2>1. PolitiqueTypeInv'
    OBVIOUS
  <2>2. NumerosUniques'
    BY <1>5, EffetBrouillonRemplace
  <2>3. LuFidele'
    BY <1>5, EffetBrouillonRemplace DEF Tenue
  <2>4. EmpreintesTenues'
    BY <1>5, EffetBrouillonRemplace
  <2>5. JournalVrai'
    BY <1>5, EffetBrouillonRemplace
  <2> QED
    BY <2>1, <2>2, <2>3, <2>4, <2>5 DEF OpposableInv
<1>6. ASSUME NEW a \in Redacteurs, NEW v \in Versions, AbandonLit(a, v) \/ PublierLit(a, v)
      PROVE  OpposableInv'
  <2>1. PolitiqueTypeInv'
    OBVIOUS
  <2>2. NumerosUniques'
    BY <1>6, EffetLit
  <2>3. LuFidele'
    BY <1>6, EffetLit
  <2>4. EmpreintesTenues'
    BY <1>6, EffetLit
  <2>5. JournalVrai'
    BY <1>6, EffetLit
  <2> QED
    BY <2>1, <2>2, <2>3, <2>4, <2>5 DEF OpposableInv
<1>7. ASSUME NEW a \in Redacteurs, AbandonEfface(a)
      PROVE  OpposableInv'
  <2>1. PolitiqueTypeInv'
    OBVIOUS
  <2>2. NumerosUniques'
    BY <1>7, EffetAbandonEfface
  <2>3. LuFidele'
    BY <1>7, EffetAbandonEfface
  <2>4. EmpreintesTenues'
    BY <1>7, EffetAbandonEfface
  <2>5. JournalVrai'
    BY <1>7, EffetAbandonEfface
  <2> QED
    BY <2>1, <2>2, <2>3, <2>4, <2>5 DEF OpposableInv
<1>8. ASSUME NEW a \in Redacteurs, PublierCompare(a)
      PROVE  OpposableInv'
  <2>1. PolitiqueTypeInv'
    OBVIOUS
  <2>2. NumerosUniques'
    BY <1>8, EffetPublierCompare
  <2>3. LuFidele'
    BY <1>8, EffetPublierCompare
  <2>4. EmpreintesTenues'
    BY <1>8, EffetPublierCompare
  <2>5. JournalVrai'
    BY <1>8, EffetPublierCompare, EnVigueurPubliee
  <2> QED
    BY <2>1, <2>2, <2>3, <2>4, <2>5 DEF OpposableInv
<1>9. ASSUME NEW a \in Redacteurs, PublierEcrit(a)
      PROVE  OpposableInv'
  <2>1. PolitiqueTypeInv'
    OBVIOUS
  <2>2. NumerosUniques'
    BY <1>9, EffetPublierEcrit
  <2>3. LuFidele'
    BY <1>9, EffetPublierEcrit
  <2>4. EmpreintesTenues'
    BY <1>9, EffetPublierEcrit
  <2>5. JournalVrai'
    BY <1>9, EffetPublierEcrit
  <2> QED
    BY <2>1, <2>2, <2>3, <2>4, <2>5 DEF OpposableInv
<1>10. ASSUME NEW a \in Redacteurs, PublierTrace(a)
      PROVE  OpposableInv'
  <2>1. PolitiqueTypeInv'
    OBVIOUS
  <2>2. NumerosUniques'
    BY <1>10, EffetPublierTrace
  <2>3. LuFidele'
    BY <1>10, EffetPublierTrace
  <2>4. EmpreintesTenues'
    BY <1>10, EffetPublierTrace
  <2>5. JournalVrai'
    BY <1>10, EffetPublierTrace
  <2> QED
    BY <2>1, <2>2, <2>3, <2>4, <2>5 DEF OpposableInv
<1>11. ASSUME UNCHANGED politiqueVars
      PROVE  OpposableInv'
  <2>1. PolitiqueTypeInv'
    OBVIOUS
  <2>2. NumerosUniques'
    BY <1>11 DEF politiqueVars
  <2>3. LuFidele'
    BY <1>11 DEF politiqueVars
  <2>4. EmpreintesTenues'
    BY <1>11 DEF politiqueVars
  <2>5. JournalVrai'
    BY <1>11 DEF politiqueVars
  <2> QED
    BY <2>1, <2>2, <2>3, <2>4, <2>5 DEF OpposableInv
<1> HIDE DEF PolitiqueTypeInv, PolitiqueTypeOK, LignesPleines, PagesPleines, OpposableInv,
             NumerosUniques, LuFidele, EmpreintesTenues, JournalVrai, Numero, AutresPages,
             PageAuRepos, LignesIntactes, AutresLignes, Modifiable, Presentes, Brouillons,
             Publiees
<1> QED
  BY <1>1, <1>2, <1>3, <1>4, <1>5, <1>6, <1>7, <1>8, <1>9, <1>10, <1>11 DEF PolitiqueNext

LEMMA OpposableInvariant == PolitiqueSpec => []OpposableInv
<1>1. PolitiqueInit => OpposableInv
  <2>1. PolitiqueInit => NumerosUniques /\ LuFidele /\ EmpreintesTenues /\ JournalVrai
    BY DEF PolitiqueInit, VersionAbsente, Modifiable, Presentes, Brouillons, Publiees,
           NumerosUniques, LuFidele, EmpreintesTenues, JournalVrai
  <2> QED
    BY <2>1, PolitiqueInitial DEF OpposableInv
<1>2. OpposableInv /\ [PolitiqueNext]_politiqueVars => OpposableInv'
  BY PolitiqueTypeStable, OpposableStable DEF OpposableInv
<1> QED
  BY <1>1, <1>2, PTL DEF PolitiqueSpec

-----------------------------------------------------------------------------
(* Which version is in force.                                               *)

LEMMA NumerosNaturels ==
  ASSUME PolitiqueTypeOK
  PROVE  \A v \in Versions : versions[v].numero \in Nat
BY PlafondNaturel DEF PolitiqueTypeOK, Version

LEMMA LaDerniere ==
  ASSUME PolitiqueTypeOK, NumerosUniques, Ordonnees
  PROVE  EnVigueur = derniere
<1>1. CASE Publiees = {}
  BY <1>1 DEF EnVigueur, Ordonnees
<1>2. CASE Publiees # {}
  <2>1. /\ EnVigueur \in Publiees
        /\ \A w \in Publiees : versions[w].numero <= versions[EnVigueur].numero
    BY <1>2, HautePresente DEF EnVigueur, Publiees
  <2>2. derniere \in Publiees /\ \A w \in Publiees : versions[w].numero <= versions[derniere].numero
    BY <1>2 DEF Ordonnees, Sommet
  <2>3. versions[EnVigueur].numero = versions[derniere].numero
    BY <2>1, <2>2, NumerosNaturels DEF Publiees
  <2> QED
    BY <2>1, <2>2, <2>3 DEF NumerosUniques, Presentes
<1> QED
  BY <1>1, <1>2

LEMMA EnVigueurStable ==
  ASSUME PolitiqueTypeInv, PolitiqueTypeInv', NumerosUniques, NumerosUniques', EnVigueurInv, ~courses',
         [PolitiqueNext]_politiqueVars
  PROVE  UnSeulBrouillon' /\ Ordonnees' /\ Comparee' /\ Distinctes'
<1> DEFINE Apres == UnSeulBrouillon' /\ Ordonnees' /\ Comparee' /\ Distinctes'
<1> HIDE DEF Apres
<1>N. /\ \A v \in Versions : versions[v].numero \in Nat
      /\ \A v \in Versions : versions'[v].numero \in Nat
  BY NumerosNaturels, PlafondNaturel DEF PolitiqueTypeInv, PolitiqueTypeOK, Version
<1>V. ~courses => UnSeulBrouillon /\ Ordonnees /\ Comparee /\ Distinctes
  BY DEF EnVigueurInv
<1> USE DEF EnCreation, Sommet, UnSeulBrouillon, Ordonnees, Comparee, Distinctes, AutresPages,
            PageAuRepos, LignesIntactes, AutresLignes, Modifiable, Presentes, Brouillons,
            Publiees
<1>1. ASSUME NEW a \in Redacteurs, 
             Charger(a) \/ Dupliquer(a) \/ (\E d \in Documents : Editer(a, d)) \/ RedactionRompue(a)
      PROVE  Apres
  <2>1. UnSeulBrouillon'
    BY <1>1, <1>N, <1>V, EffetEcran
  <2>2. Ordonnees'
    BY <1>1, <1>N, <1>V, EffetEcran
  <2>3. Comparee'
    BY <1>1, <1>N, <1>V, EffetEcran
  <2>4. Distinctes'
    BY <1>1, <1>N, <1>V, EffetEcran
  <2> QED
    BY <2>1, <2>2, <2>3, <2>4 DEF Apres
<1>2. ASSUME NEW a \in Redacteurs, BrouillonLit(a)
      PROVE  Apres
  <2>1. UnSeulBrouillon'
    <3>1. CASE pages'[a].pc = "remplacer" /\ courses' = courses
      BY <1>2, <1>V, <3>1, EffetBrouillonLit
    <3>2. CASE /\ pages'[a].pc = "numeroter" /\ Brouillons = {}
               /\ courses' = (courses \/ \E b \in Redacteurs \ {a} : EnCreation(b))
      <4>1. ~courses /\ \A b \in Redacteurs \ {a} : ~EnCreation(b)
        <5> HIDE DEF EnCreation
        <5> QED
          BY <3>2
      <4> QED
        BY <1>2, <1>V, <3>2, <4>1, EffetBrouillonLit
    <3> QED
      BY <1>2, <3>1, <3>2, EffetBrouillonLit
  <2>2. Ordonnees'
    BY <1>2, <1>N, <1>V, EffetBrouillonLit
  <2>3. Comparee'
    BY <1>2, <1>N, <1>V, EffetBrouillonLit
  <2>4. Distinctes'
    BY <1>2, <1>N, <1>V, EffetBrouillonLit
  <2> QED
    BY <2>1, <2>2, <2>3, <2>4 DEF Apres
<1>3. ASSUME NEW a \in Redacteurs, BrouillonNumerote(a)
      PROVE  Apres
  <2>1. UnSeulBrouillon'
    <3>1. \A v \in Publiees : versions[v].numero < ProchaineVersion
      BY ApresNumero DEF PolitiqueTypeInv
    <3>2. /\ pages[a].pc = "numeroter" /\ pages'[a].pc = "creer"
          /\ pages'[a].numero = ProchaineVersion
          /\ UNCHANGED versions /\ ~courses
          /\ \A b \in Redacteurs : b # a => pages'[b] = pages[b]
      BY <1>3, EffetBrouillonNumerote
    <3>3. \A b \in Redacteurs : EnCreation(b)' <=> EnCreation(b)
      BY <3>2
    <3>4. \A b \in Redacteurs : pages'[b].pc = "creer" =>
            b = a \/ (pages[b].pc = "creer" /\ pages'[b].numero = pages[b].numero)
      BY <3>2
    <3> QED
      BY <1>V, <3>1, <3>2, <3>3, <3>4
  <2>2. Ordonnees'
    BY <1>3, <1>N, <1>V, EffetBrouillonNumerote
  <2>3. Comparee'
    BY <1>3, <1>N, <1>V, EffetBrouillonNumerote
  <2>4. Distinctes'
    BY <1>3, <1>N, <1>V, EffetBrouillonNumerote
  <2> QED
    BY <2>1, <2>2, <2>3, <2>4 DEF Apres
<1>4. ASSUME NEW a \in Redacteurs, NEW v \in Versions, BrouillonCree(a, v)
      PROVE  Apres
  <2>1. UnSeulBrouillon'
    BY <1>4, <1>N, <1>V, EffetBrouillonCree
  <2>2. Ordonnees'
    BY <1>4, <1>N, <1>V, EffetBrouillonCree
  <2>3. Comparee'
    <3> SUFFICES ASSUME NEW b \in Redacteurs, pages'[b].pc = "publier",
                        Modifiable(pages[b].ligne)', Publiees' # {}
                 PROVE  versions'[derniere'].sha # pages'[b].lu
      OBVIOUS
    <3>1. b # a /\ pages'[b] = pages[b] /\ derniere' = derniere /\ ~courses
      BY <1>4, EffetBrouillonCree
    <3>2. pages[b].ligne \in Versions /\ versions[pages[b].ligne].statut # "absente"
      BY <3>1 DEF PolitiqueTypeInv, PagesPleines
    <3>3. Publiees' = Publiees
      BY <1>4, EffetBrouillonCree
    <3>4. derniere \in Publiees /\ versions'[derniere] = versions[derniere]
      BY <1>4, <1>V, <3>1, <3>3, EffetBrouillonCree
    <3>5. Modifiable(pages[b].ligne)
      BY <1>4, <3>1, <3>2, EffetBrouillonCree
    <3> QED
      BY <1>V, <3>1, <3>3, <3>4, <3>5
  <2>4. Distinctes'
    BY <1>4, <1>N, <1>V, EffetBrouillonCree
  <2> QED
    BY <2>1, <2>2, <2>3, <2>4 DEF Apres
<1>5. ASSUME NEW a \in Redacteurs, BrouillonRemplace(a)
      PROVE  Apres
  <2>1. UnSeulBrouillon'
    BY <1>5, <1>N, <1>V, EffetBrouillonRemplace
  <2>2. Ordonnees'
    BY <1>5, <1>N, <1>V, EffetBrouillonRemplace
  <2>3. Comparee'
    <3> SUFFICES ASSUME NEW b \in Redacteurs, pages'[b].pc = "publier",
                        Modifiable(pages[b].ligne)', Publiees' # {}
                 PROVE  versions'[derniere'].sha # pages'[b].lu
      OBVIOUS
    <3>1. b # a /\ pages'[b] = pages[b] /\ derniere' = derniere /\ ~courses
      BY <1>5, EffetBrouillonRemplace
    <3>2. pages[b].ligne \in Versions /\ versions[pages[b].ligne].statut # "absente"
      BY <3>1 DEF PolitiqueTypeInv, PagesPleines
    <3>3. Publiees' = Publiees
      BY <1>5, EffetBrouillonRemplace
    <3>4. derniere \in Publiees /\ versions'[derniere] = versions[derniere]
      BY <1>5, <1>V, <3>1, <3>3, EffetBrouillonRemplace
    <3>5. Modifiable(pages[b].ligne)
      BY <1>5, <3>1, <3>2, EffetBrouillonRemplace
    <3> QED
      BY <1>V, <3>1, <3>3, <3>4, <3>5
  <2>4. Distinctes'
    BY <1>5, <1>N, <1>V, EffetBrouillonRemplace
  <2> QED
    BY <2>1, <2>2, <2>3, <2>4 DEF Apres
<1>6. ASSUME NEW a \in Redacteurs, NEW v \in Versions, AbandonLit(a, v) \/ PublierLit(a, v)
      PROVE  Apres
  <2>1. UnSeulBrouillon'
    BY <1>6, <1>N, <1>V, EffetLit
  <2>2. Ordonnees'
    BY <1>6, <1>N, <1>V, EffetLit
  <2>3. Comparee'
    BY <1>6, <1>N, <1>V, EffetLit
  <2>4. Distinctes'
    BY <1>6, <1>N, <1>V, EffetLit
  <2> QED
    BY <2>1, <2>2, <2>3, <2>4 DEF Apres
<1>7. ASSUME NEW a \in Redacteurs, AbandonEfface(a)
      PROVE  Apres
  <2>1. UnSeulBrouillon'
    BY <1>7, <1>N, <1>V, EffetAbandonEfface
  <2>2. Ordonnees'
    BY <1>7, <1>N, <1>V, EffetAbandonEfface
  <2>3. Comparee'
    <3> SUFFICES ASSUME NEW b \in Redacteurs, pages'[b].pc = "publier",
                        Modifiable(pages[b].ligne)', Publiees' # {}
                 PROVE  versions'[derniere'].sha # pages'[b].lu
      OBVIOUS
    <3>1. b # a /\ pages'[b] = pages[b] /\ derniere' = derniere /\ ~courses
      BY <1>7, EffetAbandonEfface
    <3>2. pages[b].ligne \in Versions /\ versions[pages[b].ligne].statut # "absente"
      BY <3>1 DEF PolitiqueTypeInv, PagesPleines
    <3>3. Publiees' = Publiees
      BY <1>7, EffetAbandonEfface
    <3>4. derniere \in Publiees /\ versions'[derniere] = versions[derniere]
      BY <1>7, <1>V, <3>1, <3>3, EffetAbandonEfface
    <3>5. Modifiable(pages[b].ligne)
      BY <1>7, <3>1, <3>2, EffetAbandonEfface
    <3> QED
      BY <1>V, <3>1, <3>3, <3>4, <3>5
  <2>4. Distinctes'
    BY <1>7, <1>N, <1>V, EffetAbandonEfface
  <2> QED
    BY <2>1, <2>2, <2>3, <2>4 DEF Apres
<1>8. ASSUME NEW a \in Redacteurs, PublierCompare(a)
      PROVE  Apres
  <2>1. UnSeulBrouillon'
    BY <1>8, <1>N, <1>V, EffetPublierCompare
  <2>2. Ordonnees'
    BY <1>8, <1>N, <1>V, EffetPublierCompare
  <2>3. Comparee'
    <3> SUFFICES ASSUME NEW b \in Redacteurs, pages'[b].pc = "publier",
                        Modifiable(pages[b].ligne)', Publiees' # {}
                 PROVE  versions'[derniere'].sha # pages'[b].lu
      OBVIOUS
    <3>1. LignesIntactes /\ ~courses
      BY <1>8, EffetPublierCompare
    <3>2. EnVigueur = derniere /\ EnVigueur # Neant
      <4>1. derniere \in Versions
        BY <1>V, <3>1
      <4> QED
        BY <1>V, <3>1, <4>1, LaDerniere, PolitiqueAssumption DEF PolitiqueTypeInv, PolitiqueAssumption
    <3>3. CASE b = a
      BY <1>8, <3>1, <3>2, <3>3, EffetPublierCompare
    <3>4. CASE b # a
      BY <1>8, <1>V, <3>1, <3>4, EffetPublierCompare
    <3> QED
      BY <3>3, <3>4
  <2>4. Distinctes'
    BY <1>8, <1>N, <1>V, EffetPublierCompare
  <2> QED
    BY <2>1, <2>2, <2>3, <2>4 DEF Apres
<1>9. ASSUME NEW a \in Redacteurs, PublierEcrit(a)
      PROVE  Apres
  <2>1. UnSeulBrouillon'
    BY <1>9, <1>N, <1>V, EffetPublierEcrit
  <2>2. Ordonnees'
    BY <1>9, <1>N, <1>V, EffetPublierEcrit
  <2>3. Comparee'
    <3>1. CASE pages'[a].pc = "repos"
      BY <1>9, <1>V, <3>1, EffetPublierEcrit
    <3>2. CASE pages'[a].pc = "tracer"
      <4>1. pages[a].ligne \in Brouillons /\ \A v \in Brouillons : v = pages[a].ligne
        BY <1>9, <1>V, <3>2, EffetPublierEcrit
      <4>2. \A b \in Redacteurs : pages'[b].pc = "publier" => pages'[b].ligne \in Versions
        BY DEF PolitiqueTypeInv, PagesPleines
      <4>3. Brouillons' = {}
        BY <1>9, <3>2, <4>1, EffetPublierEcrit
      <4> QED
        BY <4>2, <4>3
    <3> QED
      BY <1>9, <3>1, <3>2, EffetPublierEcrit
  <2>4. Distinctes'
    <3>1. CASE pages'[a].pc = "repos"
      BY <1>9, <1>V, <3>1, EffetPublierEcrit
    <3>2. CASE pages'[a].pc = "tracer"
      <4> DEFINE n == pages[a].ligne
      <4>1. /\ n \in Brouillons /\ AutresLignes(n) /\ derniere' = n /\ Publiees' = Publiees \cup {n}
            /\ versions'[n].sha = pages[a].lu /\ versions'[n].numero = versions[n].numero
            /\ pages[a].pc = "publier" /\ ~courses
        BY <1>9, <3>2, EffetPublierEcrit
      <4> SUFFICES ASSUME NEW v \in Publiees, versions[v].sha = pages[a].lu
                   PROVE  \E w \in Publiees :
                            /\ versions[v].numero < versions[w].numero
                            /\ versions[w].numero < versions[n].numero
        <5>1. \A v \in Publiees : v # n /\ versions'[v] = versions[v]
          BY <4>1
        <5> HIDE DEF n
        <5> QED
          BY <4>1, <5>1 DEF n
      <4>2. /\ derniere \in Publiees /\ versions[v].numero <= versions[derniere].numero
            /\ versions[derniere].numero < versions[n].numero
        BY <1>V, <4>1
      <4>3. versions[derniere].sha # pages[a].lu
        BY <1>V, <4>1
      <4>4. versions[v].numero # versions[derniere].numero
        BY <4>2, <4>3 DEF NumerosUniques
      <4> QED
        BY <1>N, <4>2, <4>4
    <3> QED
      BY <1>9, <3>1, <3>2, EffetPublierEcrit
  <2> QED
    BY <2>1, <2>2, <2>3, <2>4 DEF Apres
<1>10. ASSUME NEW a \in Redacteurs, PublierTrace(a)
      PROVE  Apres
  <2>1. UnSeulBrouillon'
    BY <1>10, <1>N, <1>V, EffetPublierTrace
  <2>2. Ordonnees'
    BY <1>10, <1>N, <1>V, EffetPublierTrace
  <2>3. Comparee'
    BY <1>10, <1>N, <1>V, EffetPublierTrace
  <2>4. Distinctes'
    BY <1>10, <1>N, <1>V, EffetPublierTrace
  <2> QED
    BY <2>1, <2>2, <2>3, <2>4 DEF Apres
<1>11. ASSUME UNCHANGED politiqueVars
      PROVE  Apres
  <2>1. UnSeulBrouillon'
    BY <1>11, <1>N, <1>V DEF politiqueVars
  <2>2. Ordonnees'
    BY <1>11, <1>N, <1>V DEF politiqueVars
  <2>3. Comparee'
    BY <1>11, <1>N, <1>V DEF politiqueVars
  <2>4. Distinctes'
    BY <1>11, <1>N, <1>V DEF politiqueVars
  <2> QED
    BY <2>1, <2>2, <2>3, <2>4 DEF Apres
<1> QED
  <2> HIDE DEF EnCreation, Sommet, UnSeulBrouillon, Ordonnees, Comparee, Distinctes,
               AutresPages, PageAuRepos, LignesIntactes, AutresLignes, Modifiable, Presentes,
               Brouillons, Publiees
  <2> QED
    BY <1>1, <1>2, <1>3, <1>4, <1>5, <1>6, <1>7, <1>8, <1>9, <1>10, <1>11 DEF Apres, PolitiqueNext

LEMMA EnVigueurInvariant == PolitiqueSpec => [](OpposableInv /\ EnVigueurInv)
<1>1. PolitiqueInit => EnVigueurInv
  BY DEF PolitiqueInit, VersionAbsente, EnCreation, Modifiable, Brouillons, Publiees,
         UnSeulBrouillon, Ordonnees, Comparee, Distinctes, EnVigueurInv
<1>2. OpposableInv /\ OpposableInv' /\ EnVigueurInv /\ [PolitiqueNext]_politiqueVars =>
        EnVigueurInv'
  BY EnVigueurStable DEF OpposableInv, EnVigueurInv
<1> QED
  BY <1>1, <1>2, OpposableInvariant, PTL DEF PolitiqueSpec

-----------------------------------------------------------------------------
(* The editor, and the engine that the simulator runs beside it.            *)

(* The least index of a set of indices.                                     *)
LEMMA PremierIndice ==
  ASSUME NEW n \in Nat, NEW I, I \subseteq 1..n, I # {}
  PROVE  Suites!Min(I) \in I
<1>1. I \subseteq Nat
  OBVIOUS
<1> DEFINE R == {ss \in Nat \X Nat : ss[1] < ss[2]}
<1>2. IsWellFoundedOn(R, Nat)
  BY NatLessThanWellFounded DEF OpToRel
<1>3. \A x, y \in Nat : x < y => <<x, y>> \in R
  OBVIOUS
<1> HIDE DEF R
<1>4. PICK m \in I : \A x \in I : ~(<<x, m>> \in R)
  BY <1>1, <1>2, WFMin
<1>5. \A x \in I : m <= x
  <2> SUFFICES ASSUME NEW x \in I PROVE m <= x
    OBVIOUS
  <2>1. x \in Nat /\ m \in Nat
    BY <1>1
  <2>2. ~(x < m)
    BY <1>3, <1>4, <2>1
  <2> QED
    BY <2>1, <2>2
<1> QED
  BY <1>5 DEF Suites!Min

(* A rule that does not sample has no rate.                                 *)
RegleSaine == {r \in Regle : r.decision # "sample" => r.taux = Vide}

EditeurInv ==
  document \in [parDefaut : Decisions, tauxParDefaut : TauxPossibles, exclusions : Seq(Motifs),
                listes : Seq(Liste), regles : Seq(RegleSaine)]

LEMMA SansUn ==
  ASSUME NEW E, NEW s \in Seq(E), NEW i \in DOMAIN s
  PROVE  Suites!RemoveAt(s, i) \in Seq(E)
BY DEF Suites!RemoveAt

LEMMA EditeurInitial == EditeurInit => EditeurInv
BY DEF EditeurInit, EditeurInv, PolitiqueParDefaut, Decisions, TauxPossibles

(* A change of one rule that leaves it sane.                                *)
LEMMA RegleChangee ==
  ASSUME EditeurInv, NEW i \in DOMAIN document.regles, NEW r \in RegleSaine,
         document' = [document EXCEPT !.regles = [@ EXCEPT ![i] = r]]
  PROVE  EditeurInv'
<1>1. document.regles \in Seq(RegleSaine)
  BY DEF EditeurInv
<1>2. [document.regles EXCEPT ![i] = r] \in Seq(RegleSaine)
  BY <1>1
<1> QED
  BY <1>2 DEF EditeurInv

LEMMA UneRegle ==
  ASSUME EditeurInv, NEW i \in DOMAIN document.regles
  PROVE  document.regles[i] \in RegleSaine
<1>1. document.regles \in Seq(RegleSaine)
  BY DEF EditeurInv
<1> QED
  BY <1>1

LEMMA EditeurStable == EditeurInv /\ [EditeurNext]_editeurVars => EditeurInv'
<1> SUFFICES ASSUME EditeurInv, [EditeurNext]_editeurVars PROVE EditeurInv'
  OBVIOUS
<1> USE DEF EditeurInv
<1>1. CASE ChangerDefaut
  BY <1>1 DEF ChangerDefaut, TauxPossibles
<1>2. CASE ChangerExclusions
  <2>1. PICK s \in {<<>>} \cup {<<m>> : m \in Motifs} : document' = [document EXCEPT !.exclusions = s]
    BY <1>2 DEF ChangerExclusions
  <2>2. ASSUME NEW m \in Motifs PROVE <<m>> \in Seq(Motifs)
    OBVIOUS
  <2>3. <<>> \in Seq(Motifs)
    OBVIOUS
  <2>4. ASSUME s = <<>> PROVE s \in Seq(Motifs)
    BY <2>3, <2>4
  <2>5. ASSUME s \in {<<m>> : m \in Motifs} PROVE s \in Seq(Motifs)
    <3>1. PICK m \in Motifs : s = <<m>>
      BY <2>5
    <3> QED
      BY <2>2, <3>1
  <2>6. s \in Seq(Motifs)
    BY <2>4, <2>5
  <2> QED
    BY <2>1, <2>6
<1>3. CASE ChangerListes
  <2>0. document.listes \in Seq(Liste)
    OBVIOUS
  <2>1. ASSUME NEW n \in Noms,
               document' = [document EXCEPT !.listes = Append(@, [nom |-> n, numeros |-> <<>>])]
        PROVE  EditeurInv'
    <3>1. Append(document.listes, [nom |-> n, numeros |-> <<>>]) \in Seq(Liste)
      BY <2>0 DEF Liste
    <3> QED
      BY <2>1, <3>1
  <2>2. ASSUME NEW i \in DOMAIN document.listes, NEW m \in Motifs,
               document' = [document EXCEPT !.listes[i].numeros = <<m>>]
        PROVE  EditeurInv'
    <3>0. document.listes[i] \in Liste /\ <<m>> \in Seq(Motifs)
      BY <2>0
    <3>1. [document.listes[i] EXCEPT !.numeros = <<m>>] \in Liste
      BY <3>0 DEF Liste
    <3>2. [document.listes EXCEPT ![i] = [document.listes[i] EXCEPT !.numeros = <<m>>]] \in Seq(Liste)
      BY <2>0, <3>1
    <3>3. document' = [document EXCEPT !.listes =
                         [document.listes EXCEPT ![i] = [document.listes[i] EXCEPT !.numeros = <<m>>]]]
      BY <2>2
    <3> QED
      BY <3>2, <3>3
  <2>3. ASSUME NEW i \in DOMAIN document.listes,
               document' = [document EXCEPT !.listes = Suites!RemoveAt(@, i)]
        PROVE  EditeurInv'
    <3>1. Suites!RemoveAt(document.listes, i) \in Seq(Liste)
      BY <2>0, SansUn
    <3> QED
      BY <2>3, <3>1
  <2> QED
    BY <1>3, <2>1, <2>2, <2>3 DEF ChangerListes
<1>4. CASE AjouterRegle
  <2>1. RegleVide \in RegleSaine
    BY DEF RegleVide, RegleSaine, Regle, Criteres, Valeurs, Decisions, TauxPossibles
  <2>2. Append(document.regles, RegleVide) \in Seq(RegleSaine)
    BY <2>1
  <2> QED
    BY <1>4, <2>2 DEF AjouterRegle
<1>5. ASSUME NEW i \in DOMAIN document.regles,
             \/ SupprimerRegle(i) \/ DeplacerRegle(i) \/ NommerRegle(i)
             \/ \E c \in Criteres : ChangerCritere(i, c)
             \/ ChangerValeur(i)
             \/ \E d \in Decisions : ChangerDecision(i, d)
             \/ ChangerTaux(i)
      PROVE  EditeurInv'
  <2> DEFINE r == document.regles[i]
  <2>0. document.regles \in Seq(RegleSaine) /\ r \in RegleSaine
    BY UneRegle
  <2>1. CASE SupprimerRegle(i)
    <3>1. Suites!RemoveAt(document.regles, i) \in Seq(RegleSaine)
      BY <2>0, SansUn
    <3> QED
      BY <2>1, <3>1 DEF SupprimerRegle
  <2>2. CASE DeplacerRegle(i)
    <3>1. i + 1 \in DOMAIN document.regles
      BY <2>2 DEF DeplacerRegle
    <3>2. document.regles[i + 1] \in RegleSaine
      BY <3>1, UneRegle
    <3>3. [document.regles EXCEPT ![i] = document.regles[i + 1], ![i + 1] = r] \in Seq(RegleSaine)
      BY <2>0, <3>1, <3>2
    <3>4. document' = [document EXCEPT !.regles =
            [document.regles EXCEPT ![i] = document.regles[i + 1], ![i + 1] = r]]
      BY <2>2 DEF DeplacerRegle
    <3> QED
      BY <3>3, <3>4
  <2>3. CASE NommerRegle(i)
    <3>1. PICK l \in Libelles \cup {Vide} : document' = [document EXCEPT !.regles[i].libelle = l]
      BY <2>3 DEF NommerRegle
    <3>2. [r EXCEPT !.libelle = l] \in RegleSaine
      BY <2>0 DEF RegleSaine, Regle
    <3>3. document' = [document EXCEPT !.regles = [@ EXCEPT ![i] = [r EXCEPT !.libelle = l]]]
      BY <3>1
    <3> QED
      BY <3>2, <3>3, RegleChangee
  <2>4. ASSUME NEW c \in Criteres, ChangerCritere(i, c) PROVE EditeurInv'
    <3>1. [r EXCEPT !.critere = c, !.valeur = Vide] \in RegleSaine
      BY <2>0 DEF RegleSaine, Regle, Valeurs
    <3>2. document' = [document EXCEPT !.regles =
            [@ EXCEPT ![i] = [r EXCEPT !.critere = c, !.valeur = Vide]]]
      BY <2>4 DEF ChangerCritere
    <3> QED
      BY <3>1, <3>2, RegleChangee
  <2>5. CASE ChangerValeur(i)
    <3>1. PICK v \in Choix(r.critere) \cup {Vide} : document' = [document EXCEPT !.regles[i].valeur = v]
      BY <2>5 DEF ChangerValeur
    <3>2. \A l \in Suites!Range(document.listes) : l.nom \in Noms
      <4>1. document.listes \in Seq(Liste)
        OBVIOUS
      <4>2. \A j \in DOMAIN document.listes : document.listes[j] \in Liste
        BY <4>1
      <4> QED
        BY <4>2 DEF Suites!Range, Liste
    <3>3. r.critere \in Criteres
      BY <2>0 DEF RegleSaine, Regle
    <3>4. v \in Valeurs
      <4>1. r.critere = "liste" => Choix(r.critere) \subseteq Noms
        <5> SUFFICES ASSUME r.critere = "liste", NEW v1 \in Choix(r.critere) PROVE v1 \in Noms
          OBVIOUS
        <5>1. Choix(r.critere) = {l.nom : l \in Suites!Range(document.listes)}
          BY DEF Choix
        <5> QED
          BY <5>1, <3>2
      <4>2. r.critere # "liste" => Choix(r.critere) \subseteq Motifs \cup Directions \cup CategoriesAppel
        BY <3>3 DEF Choix, Criteres
      <4> QED
        BY <3>1, <4>1, <4>2 DEF Valeurs
    <3>5. [r EXCEPT !.valeur = v] \in RegleSaine
      BY <2>0, <3>4 DEF RegleSaine, Regle
    <3>6. document' = [document EXCEPT !.regles = [@ EXCEPT ![i] = [r EXCEPT !.valeur = v]]]
      BY <3>1
    <3> QED
      BY <3>5, <3>6, RegleChangee
  <2>6. ASSUME NEW d \in Decisions, ChangerDecision(i, d) PROVE EditeurInv'
    <3> DEFINE t == IF d # "sample" THEN Vide ELSE IF r.taux = Vide THEN TauxPropose ELSE r.taux
    <3>1. t \in TauxPossibles /\ (d # "sample" => t = Vide)
      BY <2>0 DEF RegleSaine, Regle, TauxPossibles
    <3>2. document' = [document EXCEPT !.regles =
            [@ EXCEPT ![i] = [r EXCEPT !.decision = d, !.taux = t]]]
      BY <2>6 DEF ChangerDecision
    <3> HIDE DEF t
    <3>3. [r EXCEPT !.decision = d, !.taux = t] \in RegleSaine
      BY <2>0, <3>1 DEF RegleSaine, Regle
    <3> QED
      BY <3>2, <3>3, RegleChangee
  <2>7. CASE ChangerTaux(i)
    <3>1. PICK t \in TauxSaisis \cup {Vide} : document' = [document EXCEPT !.regles[i].taux = t]
      BY <2>7 DEF ChangerTaux
    <3>2. r.decision = "sample"
      BY <2>7 DEF ChangerTaux
    <3>3. [r EXCEPT !.taux = t] \in RegleSaine
      BY <2>0, <3>2 DEF RegleSaine, Regle, TauxPossibles
    <3>4. document' = [document EXCEPT !.regles = [@ EXCEPT ![i] = [r EXCEPT !.taux = t]]]
      BY <3>1
    <3> QED
      BY <3>3, <3>4, RegleChangee
  <2> QED
    BY <1>5, <2>1, <2>2, <2>3, <2>4, <2>5, <2>6, <2>7
<1>6. CASE UNCHANGED editeurVars
  BY <1>6 DEF editeurVars
<1> QED
  BY <1>1, <1>2, <1>3, <1>4, <1>5, <1>6 DEF EditeurNext

(* The first pattern that an exclusion has in common with a call.           *)
LEMMA PremiereExclusion ==
  ASSUME NEW s \in Seq(Motifs), NEW a, NEW m, m = Premier(s, LAMBDA x : Touche(x, a))
  PROVE  \/ m = Vide /\ \A x \in Suites!Range(s) : ~Touche(x, a)
         \/ m # Vide /\ m \in Suites!Range(s) /\ Touche(m, a)
<1> DEFINE I == {i \in 1..Len(s) : Touche(s[i], a)}
<1>0. Len(s) \in Nat /\ DOMAIN s = 1..Len(s)
  OBVIOUS
<1>1. m = IF I # {} THEN s[Suites!Min(I)] ELSE Vide
  BY DEF Premier
<1>2. \A i \in 1..Len(s) : i \in I <=> Touche(s[i], a)
  OBVIOUS
<1>3. I \subseteq 1..Len(s)
  OBVIOUS
<1> HIDE DEF I
<1>4. CASE I = {}
  BY <1>0, <1>1, <1>2, <1>4 DEF Suites!Range
<1>5. CASE I # {}
  <2>1. Suites!Min(I) \in I
    BY <1>0, <1>3, <1>5, PremierIndice
  <2>2. Suites!Min(I) \in 1..Len(s)
    BY <2>1, <1>3
  <2>3. m = s[Suites!Min(I)] /\ Touche(m, a)
    BY <1>1, <1>2, <1>5, <2>1, <2>2
  <2>4. m \in Motifs
    BY <2>3, <2>2
  <2> QED
    BY <1>0, <2>2, <2>3, <2>4, EditeurAssumption DEF Suites!Range, EditeurAssumption
<1> QED
  BY <1>4, <1>5

LEMMA PremiereRegle ==
  ASSUME NEW s \in Seq(Regle), NEW a, NEW p, NEW r,
         r = Premier(s, LAMBDA x : CritereCorrespond(x, a, p))
  PROVE  \/ r = Vide /\ \A x \in Suites!Range(s) : ~CritereCorrespond(x, a, p)
         \/ r # Vide /\ r \in Suites!Range(s) /\ CritereCorrespond(r, a, p)
<1> DEFINE I == {i \in 1..Len(s) : CritereCorrespond(s[i], a, p)}
<1>0. Len(s) \in Nat /\ DOMAIN s = 1..Len(s)
  OBVIOUS
<1>1. r = IF I # {} THEN s[Suites!Min(I)] ELSE Vide
  BY DEF Premier
<1>2. \A i \in 1..Len(s) : i \in I <=> CritereCorrespond(s[i], a, p)
  OBVIOUS
<1>3. I \subseteq 1..Len(s)
  OBVIOUS
<1> HIDE DEF I
<1>4. CASE I = {}
  BY <1>0, <1>1, <1>2, <1>4 DEF Suites!Range
<1>5. CASE I # {}
  <2>1. Suites!Min(I) \in I
    BY <1>0, <1>3, <1>5, PremierIndice
  <2>2. Suites!Min(I) \in 1..Len(s)
    BY <2>1, <1>3
  <2>3. r = s[Suites!Min(I)] /\ CritereCorrespond(r, a, p)
    BY <1>1, <1>2, <1>5, <2>1, <2>2
  <2>4. r \in Regle
    BY <2>3, <2>2
  <2> QED
    BY <1>0, <2>2, <2>3, <2>4, EditeurAssumption DEF Suites!Range, EditeurAssumption
<1> QED
  BY <1>4, <1>5

(* A criterion reads the lists of the policy and nothing else of it.        *)
LEMMA CritereLitLesListes ==
  ASSUME NEW r, NEW a, NEW p, NEW q, p.listes = q.listes
  PROVE  CritereCorrespond(r, a, p) <=> CritereCorrespond(r, a, q)
BY DEF CritereCorrespond, Premier

(* What the engine found for a policy whose exclusions and rules are known. *)
Conclusion(p, a, m, r) ==
  /\ m # Vide => Decider(p, a) =
       [enregistrer |-> FALSE, decision |-> "never", origine |-> "exclusion", par |-> m,
        taux |-> Vide]
  /\ m = Vide /\ r # Vide => Decider(p, a) =
       [enregistrer |-> Appliquer(r.decision, a, r.taux, r.libelle),
        decision |-> r.decision, origine |-> "regle", par |-> r, taux |-> r.taux]
  /\ m = Vide /\ r = Vide => Decider(p, a) =
       [enregistrer |-> Appliquer(p.parDefaut, a, p.tauxParDefaut, CleDefaut),
        decision |-> p.parDefaut, origine |-> "defaut", par |-> Vide, taux |-> p.tauxParDefaut]

LEMMA MoteurConclut ==
  ASSUME NEW p, NEW a, p.exclusions \in Seq(Motifs), p.regles \in Seq(Regle)
  PROVE  \E m, r :
           /\ \/ m = Vide /\ \A x \in Suites!Range(p.exclusions) : ~Touche(x, a)
              \/ m # Vide /\ m \in Suites!Range(p.exclusions) /\ Touche(m, a)
           /\ \/ r = Vide /\ \A x \in Suites!Range(p.regles) : ~CritereCorrespond(x, a, p)
              \/ r # Vide /\ r \in Suites!Range(p.regles) /\ CritereCorrespond(r, a, p)
           /\ Conclusion(p, a, m, r)
<1> DEFINE m == Premier(p.exclusions, LAMBDA x : Touche(x, a))
           r == Premier(p.regles, LAMBDA x : CritereCorrespond(x, a, p))
<1>1. Conclusion(p, a, m, r)
  BY DEF Conclusion, Decider
<1>2. \/ m = Vide /\ \A x \in Suites!Range(p.exclusions) : ~Touche(x, a)
      \/ m # Vide /\ m \in Suites!Range(p.exclusions) /\ Touche(m, a)
  BY PremiereExclusion
<1>3. \/ r = Vide /\ \A x \in Suites!Range(p.regles) : ~CritereCorrespond(x, a, p)
      \/ r # Vide /\ r \in Suites!Range(p.regles) /\ CritereCorrespond(r, a, p)
  BY PremiereRegle
<1> HIDE DEF m, r
<1> QED
  BY <1>1, <1>2, <1>3

LEMMA MoteurOpposable == EditeurInv => DecisionOpposable
<1> SUFFICES ASSUME EditeurInv PROVE DecisionOpposable
  OBVIOUS
<1>1. /\ document.exclusions \in Seq(Motifs) /\ document.regles \in Seq(RegleSaine)
      /\ document.listes \in Seq(Liste)
  BY DEF EditeurInv
<1>2. \A x \in Suites!Range(document.regles) : x \in Regle /\ (x.decision # "sample" => x.taux = Vide)
  BY <1>1 DEF Suites!Range, RegleSaine
<1>3. document.regles \in Seq(Regle)
  BY <1>1 DEF RegleSaine
<1>4. ASSUME NEW a \in Appels
      PROVE  LET d == Verdict(a) IN
             /\ (\E m \in Suites!Range(document.exclusions) : Touche(m, a)) => ~d.enregistrer
             /\ Decider(Reduite(document, d), a) = d
             /\ Valide(document) =>
                  /\ d.decision = "sample" => d.taux \in Taux
                  /\ Renonce(document) \/ d.enregistrer
  <2> DEFINE d == Verdict(a)
             q == Reduite(document, d)
  <2>1. PICK m, r :
           /\ \/ m = Vide /\ \A x \in Suites!Range(document.exclusions) : ~Touche(x, a)
              \/ m # Vide /\ m \in Suites!Range(document.exclusions) /\ Touche(m, a)
           /\ \/ r = Vide /\ \A x \in Suites!Range(document.regles) : ~CritereCorrespond(x, a, document)
              \/ r # Vide /\ r \in Suites!Range(document.regles) /\ CritereCorrespond(r, a, document)
           /\ Conclusion(document, a, m, r)
    BY <1>1, <1>3, MoteurConclut
  <2>2. d = Decider(document, a)
    BY DEF Verdict
  <2> HIDE DEF d
  <2>3. (\E x \in Suites!Range(document.exclusions) : Touche(x, a)) => ~d.enregistrer
    BY <2>1, <2>2 DEF Conclusion
  <2>4. ASSUME Valide(document)
        PROVE  /\ d.decision = "sample" => d.taux \in Taux
               /\ Renonce(document) \/ d.enregistrer
    <3>1. CASE m # Vide
      <4>1. document.exclusions # <<>>
        BY <2>1, <3>1 DEF Suites!Range
      <4> QED
        BY <2>1, <2>2, <3>1, <4>1 DEF Conclusion, Renonce
    <3>2. CASE m = Vide /\ r # Vide
      BY <2>1, <2>2, <2>4, <3>2 DEF Conclusion, Renonce, Valide, RegleValide, Appliquer
    <3>3. CASE m = Vide /\ r = Vide
      BY <2>1, <2>2, <2>4, <3>3 DEF Conclusion, Renonce, Valide, Appliquer
    <3> QED
      BY <3>1, <3>2, <3>3
  <2>5. Decider(q, a) = d
    <3>1. /\ q.exclusions = IF d.origine = "exclusion" THEN <<d.par>> ELSE <<>>
          /\ q.regles = IF d.origine = "regle" THEN <<d.par>> ELSE <<>>
          /\ q.listes = document.listes /\ q.parDefaut = document.parDefaut
          /\ q.tauxParDefaut = document.tauxParDefaut
      BY DEF Reduite, EditeurInv
    <3> HIDE DEF q
    <3>2. \A x \in Suites!Range(document.exclusions) : x \in Motifs
      BY <1>1 DEF Suites!Range
    <3>3. q.exclusions \in Seq(Motifs) /\ q.regles \in Seq(Regle)
      BY <1>2, <2>1, <2>2, <3>1, <3>2 DEF Conclusion
    <3>4. PICK n, s :
           /\ \/ n = Vide /\ \A x \in Suites!Range(q.exclusions) : ~Touche(x, a)
              \/ n # Vide /\ n \in Suites!Range(q.exclusions) /\ Touche(n, a)
           /\ \/ s = Vide /\ \A x \in Suites!Range(q.regles) : ~CritereCorrespond(x, a, q)
              \/ s # Vide /\ s \in Suites!Range(q.regles) /\ CritereCorrespond(s, a, q)
           /\ Conclusion(q, a, n, s)
      BY <3>3, MoteurConclut
    <3>5. Suites!Range(<<>>) = {} /\ \A x : Suites!Range(<<x>>) = {x}
      BY DEF Suites!Range
    <3>6. CASE m # Vide
      <4>1. d.origine = "exclusion" /\ d.par = m
        BY <2>1, <2>2, <3>6 DEF Conclusion
      <4>2. n = m
        BY <2>1, <3>1, <3>4, <3>5, <3>6, <4>1
      <4> QED
        BY <2>1, <2>2, <3>4, <3>6, <4>2 DEF Conclusion
    <3>7. CASE m = Vide /\ r # Vide
      <4>1. d.origine = "regle" /\ d.par = r
        BY <2>1, <2>2, <3>7 DEF Conclusion
      <4>2. n = Vide
        BY <3>1, <3>4, <3>5, <4>1
      <4>3. CritereCorrespond(r, a, q)
        BY <2>1, <3>1, <3>7, CritereLitLesListes
      <4>4. s = r
        BY <3>1, <3>4, <3>5, <3>7, <4>1, <4>3
      <4> QED
        BY <2>1, <2>2, <3>4, <3>7, <4>2, <4>4 DEF Conclusion
    <3>8. CASE m = Vide /\ r = Vide
      <4>1. d.origine = "defaut"
        BY <2>1, <2>2, <3>8 DEF Conclusion
      <4>2. n = Vide /\ s = Vide
        BY <3>1, <3>4, <3>5, <4>1
      <4> QED
        BY <2>1, <2>2, <3>1, <3>4, <3>8, <4>2 DEF Conclusion
    <3> QED
      BY <3>6, <3>7, <3>8
  <2>6. d = Verdict(a)
    BY DEF d
  <2>7. /\ (\E x \in Suites!Range(document.exclusions) : Touche(x, a)) => ~d.enregistrer
        /\ Decider(Reduite(document, d), a) = d
        /\ Valide(document) =>
             /\ d.decision = "sample" => d.taux \in Taux
             /\ Renonce(document) \/ d.enregistrer
    BY <2>3, <2>4, <2>5
  <2> QED
    BY <2>6, <2>7
<1> QED
  BY <1>2, <1>4 DEF DecisionOpposable

-----------------------------------------------------------------------------
(* Every state of the policy is well typed: in particular, no number is     *)
(* ever given beyond one per row (schema.prisma, recording_policy_versions).*)
THEOREM PolitiqueType == PolitiqueSpec => []PolitiqueTypeOK
<1>1. OpposableInv => PolitiqueTypeOK
  BY DEF OpposableInv, PolitiqueTypeInv
<1> QED
  BY <1>1, OpposableInvariant, PTL

(* A published version can be opposed to anyone, whatever requests crossed: *)
(* its fingerprint is that of its document, unless the draft was written    *)
(* over while a publication held it, and the journal stays true of it       *)
(* (policy.service.ts:188, schema.prisma:556-558).                          *)
THEOREM Opposabilite == PolitiqueSpec => []PolitiqueOpposable
<1>1. OpposableInv => PolitiqueOpposable
  BY DEF OpposableInv, NumerosUniques, EmpreintesTenues, JournalVrai, Numero, PolitiqueOpposable
<1> QED
  BY <1>1, OpposableInvariant, PTL

(* As long as no two creations of a draft overlapped, there is one draft,   *)
(* the version in force is the one published last, and it differs from the  *)
(* one before it (policy.service.ts:91-95, 118-121, 201-208).               *)
THEOREM VersionEnVigueur == PolitiqueSpec => []EnVigueurDerniere
<1>1. OpposableInv /\ EnVigueurInv => EnVigueurDerniere
  <2> SUFFICES ASSUME OpposableInv, EnVigueurInv, ~courses
               PROVE  /\ Cardinality(Brouillons) <= 1
                      /\ EnVigueur = derniere
                      /\ Distinctes
    BY DEF EnVigueurDerniere, Distinctes
  <2>1. UnSeulBrouillon /\ Ordonnees /\ Distinctes
    BY DEF EnVigueurInv
  <2>2. EnVigueur = derniere
    BY <2>1, LaDerniere DEF OpposableInv, PolitiqueTypeInv
  <2>3. CASE Brouillons = {}
    BY <2>1, <2>2, <2>3, FS_EmptySet
  <2>4. ASSUME NEW v \in Brouillons
        PROVE  Cardinality(Brouillons) <= 1
    <3>1. Brouillons = {v}
      BY <2>1 DEF UnSeulBrouillon
    <3>2. Cardinality({v}) = 1
      BY FS_Singleton
    <3> QED
      BY <3>1, <3>2
  <2> QED
    BY <2>1, <2>2, <2>3, <2>4
<1> QED
  BY <1>1, EnVigueurInvariant, PTL

(* Whatever was typed into a draft, moved or deleted, a decision of the     *)
(* engine can be defended: an excluded number is never recorded, what the   *)
(* reason cites is enough to decide the same, a document accepted samples   *)
(* at a legal rate and records every call unless the journal says that it   *)
(* gives up some (decision.ts:118-140, contract.ts:123-172).                *)
THEOREM DecisionDefendable == EditeurSpec => []DecisionOpposable
<1>1. EditeurInit => EditeurInv
  BY EditeurInitial
<1>2. EditeurInv /\ [EditeurNext]_editeurVars => EditeurInv'
  BY EditeurStable
<1>3. EditeurInv => DecisionOpposable
  BY MoteurOpposable
<1> QED
  BY <1>1, <1>2, <1>3, PTL DEF EditeurSpec
=============================================================================
