--------------------------- MODULE InstanceProofs ---------------------------
(***************************************************************************)
(* What the pages of the portal show, what the session of a tab keeps and   *)
(* what the limiter of logins lets through, for any number of calls,        *)
(* searches, pages, events, accounts, tokens, addresses and requests        *)
(* awaiting an answer; and the types of all the subjects of an instance.    *)
(***************************************************************************)
EXTENDS Instance, ConservationProofs, PolitiqueProofs, ReglagesProofs

-----------------------------------------------------------------------------
(* The page of the journal.                                                 *)

JournalTypeInv ==
  /\ ecran \in [page : Pages, filtres : Filtres, donnees : Feuille \cup {AucunePage},
                pages : Nat, chargement : BOOLEAN, erreur : BOOLEAN]
  /\ appel \in [etat : {"aucun", "envoye", "rendu", "refuse"}, page : Pages,
                filtres : Filtres, pages : Nat]
  /\ extraction \in [pc : {"aucune", "compter", "lire", "tracer", "rendue", "refusee"},
                     filtres : Filtres, total : Nat, lignes : Nat, manque : BOOLEAN,
                     croise : BOOLEAN]
  /\ extrait \in [tronque : BOOLEAN, manque : BOOLEAN, croise : BOOLEAN]
  /\ evenements \in [autres : Nat, exports : Nat]
  /\ masquee \in BOOLEAN

(* The list awaited is that of the page and the filters in place.           *)
AttenteTenue ==
  appel.etat # "aucun" =>
    ecran.chargement /\ appel.page = ecran.page /\ appel.filtres = ecran.filtres

(* The count of an extraction is behind the journal until its rows are      *)
(* read; then an extract smaller than its count is full.                    *)
CompteTenu ==
  /\ extraction.pc = "lire" => extraction.total <= Nombre(extraction.filtres)
  /\ extraction.pc \in {"tracer", "rendue"} =>
       /\ Tronque => extraction.manque
       /\ extraction.manque /\ ~extraction.croise => Tronque

JournalInv == JournalTypeInv /\ AttenteTenue /\ CompteTenu /\ JournalTenu

LEMMA NombreType ==
  ASSUME JournalTypeInv, NEW f \in Filtres
  PROVE  Nombre(f) \in Nat
BY LectureJournalAssumption DEF JournalTypeInv, Nombre, Filtres, LectureJournalAssumption

LEMMA PageCountType ==
  ASSUME NEW n \in Nat
  PROVE  PageCount(n) \in Nat
<1>1. n + Taille - 1 \in Nat /\ Taille \in Nat \ {0}
  BY LectureJournalAssumption DEF LectureJournalAssumption
<1>2. \A x \in Nat, t \in Nat \ {0} : x \div t \in Nat
  OBVIOUS
<1> QED
  BY <1>1, <1>2 DEF PageCount

LEMMA JournalInitial == LectureJournalInit => JournalInv
<1> SUFFICES ASSUME LectureJournalInit PROVE JournalInv
  OBVIOUS
<1>1. 1 \in Pages /\ Tout \in Filtres
  BY LectureJournalAssumption DEF Pages, Filtres, LectureJournalAssumption
<1>2. PICK n \in 0..(Taille + 1) : evenements = [autres |-> n, exports |-> 0]
  BY DEF LectureJournalInit
<1>3. n \in Nat
  BY <1>2, LectureJournalAssumption DEF LectureJournalAssumption
<1>4. JournalTypeInv
  BY <1>1, <1>2, <1>3
     DEF LectureJournalInit, JournalTypeInv, AucunAppel, AucuneExtraction
<1>5. AttenteTenue /\ CompteTenu
  BY DEF LectureJournalInit, AttenteTenue, CompteTenu, AucunAppel, AucuneExtraction
<1>6. JournalTenu
  BY DEF LectureJournalInit, JournalTenu
<1> QED
  BY <1>4, <1>5, <1>6 DEF JournalInv

(* The journal only grows.                                                  *)
LEMMA JournalCroit ==
  ASSUME JournalTypeInv, NEW f \in Filtres,
         \/ evenements' = [evenements EXCEPT !.autres = @ + 1]
         \/ evenements' = [evenements EXCEPT !.exports = @ + 1]
  PROVE  /\ evenements' \in [autres : Nat, exports : Nat]
         /\ Nombre(f)' \in Nat /\ Nombre(f) <= Nombre(f)'
<1>1. /\ evenements' \in [autres : Nat, exports : Nat]
      /\ evenements.autres <= evenements'.autres /\ evenements.exports <= evenements'.exports
  BY DEF JournalTypeInv
<1>2. evenements.autres \in Nat /\ evenements.exports \in Nat
      /\ evenements'.autres \in Nat /\ evenements'.exports \in Nat
  BY <1>1 DEF JournalTypeInv
<1> QED
  BY <1>1, <1>2, LectureJournalAssumption DEF Nombre, Filtres, LectureJournalAssumption

LEMMA JournalStable == JournalInv /\ [LectureJournalNext]_lectureJournalVars => JournalInv'
<1> SUFFICES ASSUME JournalInv, [LectureJournalNext]_lectureJournalVars
             PROVE  JournalInv'
  OBVIOUS
<1> USE DEF JournalInv
<1>1. 1 \in Pages
  BY LectureJournalAssumption DEF Pages, LectureJournalAssumption
<1>2. ASSUME NEW p \in Pages, NEW f \in Filtres, Demander(p, f)
      PROVE  JournalInv'
  <2>1. JournalTypeInv'
    BY <1>2 DEF Demander, JournalTypeInv, AucunAppel
  <2>2. AttenteTenue'
    BY <1>2 DEF Demander, JournalTypeInv, AttenteTenue, AucunAppel
  <2>3. CompteTenu'
    BY <1>2 DEF Demander, CompteTenu, Nombre, Tronque
  <2>4. JournalTenu'
    BY <1>2 DEF Demander, JournalTypeInv, JournalTenu
  <2> QED
    BY <2>1, <2>2, <2>3, <2>4
<1>3. CASE \E f \in Filtres : Filtrer(f)
  BY <1>1, <1>2, <1>3 DEF Filtrer
<1>4. CASE \E p \in Pages : TournerLaPage(p)
  <2>1. ecran.filtres \in Filtres
    BY DEF JournalTypeInv
  <2> QED
    BY <1>2, <1>4, <2>1 DEF TournerLaPage
<1>5. CASE Lister
  <2>1. PageCount(Nombre(appel.filtres)) \in Nat
    BY NombreType, PageCountType DEF JournalTypeInv
  <2>2. JournalTypeInv'
    BY <1>5, <2>1 DEF Lister, JournalTypeInv
  <2>3. AttenteTenue'
    BY <1>5 DEF Lister, JournalTypeInv, AttenteTenue
  <2>4. CompteTenu' /\ JournalTenu'
    BY <1>5 DEF Lister, CompteTenu, Nombre, Tronque, JournalTenu, AJour
  <2> QED
    BY <2>2, <2>3, <2>4
<1>6. CASE ListeRompue
  <2>1. JournalTypeInv'
    BY <1>6 DEF ListeRompue, JournalTypeInv
  <2>2. AttenteTenue'
    BY <1>6 DEF ListeRompue, JournalTypeInv, AttenteTenue
  <2>3. CompteTenu' /\ JournalTenu'
    BY <1>6 DEF ListeRompue, CompteTenu, Nombre, Tronque, JournalTenu, AJour
  <2> QED
    BY <2>1, <2>2, <2>3
<1>7. CASE RecevoirLaListe
  <2>1. AucunAppel \in [etat : {"aucun", "envoye", "rendu", "refuse"}, page : Pages,
                        filtres : Filtres, pages : Nat]
    BY <1>1 DEF AucunAppel, Filtres
  <2>2. JournalTypeInv'
    <3>1. ecran' \in [page : Pages, filtres : Filtres, donnees : Feuille \cup {AucunePage},
                      pages : Nat, chargement : BOOLEAN, erreur : BOOLEAN]
      <4>1. CASE appel.etat = "refuse"
        BY <1>7, <4>1 DEF RecevoirLaListe, JournalTypeInv
      <4>2. CASE appel.etat = "rendu"
        <5> DEFINE d == [page |-> appel.page, filtres |-> appel.filtres]
        <5>1. d \in Feuille /\ appel.pages \in Nat
          BY DEF JournalTypeInv, Feuille
        <5>2. ecran' = [ecran EXCEPT !.chargement = FALSE, !.pages = appel.pages, !.donnees = d]
          BY <1>7, <4>2 DEF RecevoirLaListe
        <5> HIDE DEF d
        <5> QED
          BY <5>1, <5>2 DEF JournalTypeInv
      <4> QED
        BY <1>7, <4>1, <4>2 DEF RecevoirLaListe
    <3>2. masquee' \in BOOLEAN
      BY <1>7 DEF RecevoirLaListe, JournalTypeInv
    <3> QED
      BY <1>7, <2>1, <3>1, <3>2 DEF RecevoirLaListe, JournalTypeInv, AucunAppel
  <2>3. AttenteTenue' /\ CompteTenu'
    BY <1>7 DEF RecevoirLaListe, AttenteTenue, CompteTenu, Nombre, Tronque, AucunAppel
  <2>4. JournalTenu'
    <3>1. CASE appel.etat = "refuse"
      BY <1>7, <3>1 DEF RecevoirLaListe, JournalTypeInv, JournalTenu
    <3>2. CASE appel.etat = "rendu"
      BY <1>7, <3>2 DEF RecevoirLaListe, JournalTypeInv, AttenteTenue, JournalTenu, AJour
    <3> QED
      BY <1>7, <3>1, <3>2 DEF RecevoirLaListe
  <2> QED
    BY <2>2, <2>3, <2>4
<1>8. CASE Extraire
  <2>1. JournalTypeInv'
    BY <1>8 DEF Extraire, JournalTypeInv, AucuneExtraction
  <2>2. AttenteTenue' /\ CompteTenu'
    BY <1>8 DEF Extraire, JournalTypeInv, AttenteTenue, CompteTenu, AucuneExtraction
  <2>3. JournalTenu'
    BY <1>8 DEF Extraire, JournalTypeInv, JournalTenu, AJour
  <2> QED
    BY <2>1, <2>2, <2>3
<1>9. CASE Compter
  <2>1. Nombre(extraction.filtres) \in Nat
    BY NombreType DEF JournalTypeInv
  <2>2. JournalTypeInv'
    BY <1>9, <2>1 DEF Compter, JournalTypeInv
  <2>3. CompteTenu'
    <3>1. CASE Interdit(extraction.filtres)
      BY <1>9, <3>1 DEF Compter, JournalTypeInv, CompteTenu
    <3>2. CASE ~Interdit(extraction.filtres)
      <4>1. /\ extraction'.pc = "lire" /\ extraction'.filtres = extraction.filtres
            /\ extraction'.total = Nombre(extraction.filtres)
        BY <1>9, <3>2 DEF Compter, JournalTypeInv
      <4>2. Nombre(extraction.filtres)' = Nombre(extraction.filtres)
        BY <1>9, <4>1 DEF Compter, Nombre
      <4> QED
        BY <2>1, <4>1, <4>2 DEF CompteTenu
    <3> QED
      BY <3>1, <3>2
  <2>4. AttenteTenue' /\ JournalTenu'
    BY <1>9 DEF Compter, AttenteTenue, JournalTenu, AJour
  <2> QED
    BY <2>2, <2>3, <2>4
<1>10. CASE LireLesLignes
  <2> DEFINE n == Nombre(extraction.filtres)
             l == LePlusPetit(n, MaxLignes)
  <2>1. n \in Nat
    BY NombreType DEF JournalTypeInv
  <2>2. MaxLignes \in Nat /\ extraction.total \in Nat /\ extraction.total <= n
    BY <1>10, LectureJournalAssumption
       DEF LectureJournalAssumption, LireLesLignes, JournalTypeInv, CompteTenu
  <2>3. /\ l \in Nat
        /\ extraction.total > l => n > MaxLignes
        /\ n > MaxLignes /\ n = extraction.total => extraction.total > l
    BY <2>1, <2>2 DEF LePlusPetit
  <2>4. extraction' = [extraction EXCEPT !.pc = "tracer", !.lignes = l,
                                         !.manque = n > MaxLignes,
                                         !.croise = n # extraction.total]
    BY <1>10 DEF LireLesLignes
  <2> HIDE DEF n, l
  <2>5. /\ extraction' \in [pc : {"aucune", "compter", "lire", "tracer", "rendue", "refusee"},
                            filtres : Filtres, total : Nat, lignes : Nat, manque : BOOLEAN,
                            croise : BOOLEAN]
        /\ extraction'.pc = "tracer" /\ extraction'.lignes = l
        /\ extraction'.total = extraction.total
        /\ extraction'.manque = (n > MaxLignes)
        /\ extraction'.croise = (n # extraction.total)
    <3>1. (n > MaxLignes) \in BOOLEAN /\ (n # extraction.total) \in BOOLEAN
      OBVIOUS
    <3> QED
      BY <2>3, <2>4, <3>1, Zenon DEF JournalTypeInv
  <2>6. JournalTypeInv'
    BY <1>10, <2>5 DEF LireLesLignes, JournalTypeInv
  <2>7. CompteTenu'
    BY <2>3, <2>5 DEF CompteTenu, Tronque
  <2>8. AttenteTenue' /\ JournalTenu'
    BY <1>10 DEF LireLesLignes, AttenteTenue, JournalTenu, AJour
  <2> QED
    BY <2>6, <2>7, <2>8
<1>11. CASE TracerLExtrait
  <2>1. evenements' \in [autres : Nat, exports : Nat]
    BY <1>11, JournalCroit DEF TracerLExtrait, JournalTypeInv
  <2>2. JournalTypeInv'
    BY <1>11, <2>1 DEF TracerLExtrait, JournalTypeInv
  <2>3. CompteTenu'
    BY <1>11 DEF TracerLExtrait, JournalTypeInv, CompteTenu, Tronque
  <2>4. AttenteTenue' /\ JournalTenu'
    BY <1>11 DEF TracerLExtrait, AttenteTenue, JournalTenu, AJour
  <2> QED
    BY <2>2, <2>3, <2>4
<1>12. CASE ExtractionRompue
  <2>1. JournalTypeInv' /\ CompteTenu'
    BY <1>12 DEF ExtractionRompue, JournalTypeInv, CompteTenu
  <2>2. AttenteTenue' /\ JournalTenu'
    BY <1>12 DEF ExtractionRompue, AttenteTenue, JournalTenu, AJour
  <2> QED
    BY <2>1, <2>2
<1>13. CASE RecevoirLExtrait
  <2>1. extraction'.pc = "aucune" /\ extraction' = AucuneExtraction
    BY <1>13 DEF RecevoirLExtrait, AucuneExtraction
  <2>2. CompteTenu'
    BY <2>1 DEF CompteTenu
  <2>3. CASE extraction.pc = "rendue"
    <3>1. Tronque \in BOOLEAN
      BY DEF Tronque, JournalTypeInv
    <3>2. JournalTypeInv'
      BY <1>13, <2>1, <2>3, <3>1 DEF RecevoirLExtrait, JournalTypeInv, AucuneExtraction, Filtres
    <3>3. AttenteTenue'
      BY <1>13, <2>3 DEF RecevoirLExtrait, AttenteTenue
    <3>4. JournalTenu'
      BY <1>13, <2>3 DEF RecevoirLExtrait, JournalTypeInv, JournalTenu, AJour, CompteTenu
    <3> QED
      BY <2>2, <3>2, <3>3, <3>4
  <2>4. CASE extraction.pc # "rendue"
    <3>1. JournalTypeInv'
      <4>1. ecran' = [ecran EXCEPT !.erreur = TRUE] /\ extrait' = extrait
        BY <1>13, <2>4 DEF RecevoirLExtrait
      <4>2. UNCHANGED <<appel, evenements, masquee>>
        BY <1>13 DEF RecevoirLExtrait
      <4> QED
        BY <2>1, <4>1, <4>2 DEF JournalTypeInv, AucuneExtraction, Filtres
    <3>2. AttenteTenue' /\ JournalTenu'
      BY <1>13, <2>4 DEF RecevoirLExtrait, JournalTypeInv, AttenteTenue, JournalTenu
    <3> QED
      BY <2>2, <3>1, <3>2
  <2> QED
    BY <2>3, <2>4
<1>14. CASE Consigner
  <2>1. evenements' \in [autres : Nat, exports : Nat]
    BY <1>14, JournalCroit DEF Consigner, JournalTypeInv
  <2>2. JournalTypeInv'
    BY <1>14, <2>1 DEF Consigner, JournalTypeInv
  <2>3. CompteTenu'
    <3>1. CASE extraction.pc = "lire"
      <4> DEFINE f == extraction.filtres
      <4>1. f \in Filtres /\ f' = f
        BY <1>14 DEF Consigner, JournalTypeInv
      <4>2. Nombre(f) \in Nat /\ extraction.total \in Nat
        BY <4>1, NombreType DEF JournalTypeInv
      <4>3. \A g \in Filtres : Nombre(g)' \in Nat /\ Nombre(g) <= Nombre(g)'
        BY <1>14, JournalCroit DEF Consigner
      <4>4. extraction' = extraction /\ extraction.total <= Nombre(f)
        BY <1>14, <3>1 DEF Consigner, CompteTenu
      <4>5. extraction'.total <= Nombre(f)'
        BY <4>1, <4>2, <4>3, <4>4
      <4> QED
        BY <3>1, <4>4, <4>5 DEF CompteTenu
    <3>2. CASE extraction.pc # "lire"
      BY <1>14, <3>2 DEF Consigner, CompteTenu, Tronque
    <3> QED
      BY <3>1, <3>2
  <2>4. AttenteTenue' /\ JournalTenu'
    BY <1>14 DEF Consigner, AttenteTenue, JournalTenu, AJour
  <2> QED
    BY <2>2, <2>3, <2>4
<1>15. CASE UNCHANGED lectureJournalVars
  <2>1. JournalTypeInv' /\ AttenteTenue'
    BY <1>15 DEF lectureJournalVars, JournalTypeInv, AttenteTenue
  <2>2. CompteTenu'
    BY <1>15 DEF lectureJournalVars, CompteTenu, Nombre, Tronque
  <2>3. JournalTenu'
    BY <1>15 DEF lectureJournalVars, JournalTenu, AJour
  <2> QED
    BY <2>1, <2>2, <2>3
<1> QED
  BY <1>3, <1>4, <1>5, <1>6, <1>7, <1>8, <1>9, <1>10, <1>11, <1>12, <1>13, <1>14, <1>15
     DEF LectureJournalNext

LEMMA JournalInvariant == LectureJournalSpec => []JournalInv
BY JournalInitial, JournalStable, PTL DEF LectureJournalSpec

LEMMA JournalSuit == JournalInv => LectureJournalTypeOK /\ JournalTenu
BY DEF JournalInv, JournalTypeInv, LectureJournalTypeOK

-----------------------------------------------------------------------------
(* The page of the calls.  What is awaited for the list is for the page and *)
(* the criteria in place until "derangee", and what is awaited for the      *)
(* sheet is about its call until "glissee"; an answer for a sheet that was  *)
(* closed changes nothing of the next one.                                  *)

DemandeEnVol ==
  [genre : Genres, appel : Consultables \cup {Rien}, vue : Vue \cup {Rien},
   suite : BOOLEAN, accepte : BOOLEAN]

EstVoyage(x) ==
  /\ x \in [demande : DemandeEnVol, rang : {x.rang}, etat : Etats, vive : BOOLEAN,
            active : BOOLEAN]
  /\ x.demande.genre # "liste" => x.demande.appel \in Consultables

ListeType ==
  liste \in [page : 1..NbPages, filtres : Recherches, donnees : Vue \cup {Rien},
             chargement : BOOLEAN, erreur : BOOLEAN]
FicheType ==
  /\ fiche \in [appel : Consultables \cup {Rien}, source : Consultables \cup {Rien},
                ouverture : BOOLEAN, exporte : BOOLEAN, integrite : Consultables \cup {Rien},
                holds : Conservation \cup {Rien}, envoi : BOOLEAN,
                formulaire : {"aucun", "pose", "levee"}, sansContre : BOOLEAN]
  /\ fiche.formulaire # "aucun" => fiche.appel \in Consultables
ConsultationTypeInv ==
  /\ ListeType /\ FicheType
  /\ \A x \in enVol : EstVoyage(x)
  /\ gardes \subseteq Consultables
  /\ derangee \in BOOLEAN /\ glissee \in BOOLEAN

(* What will end as the answer to a list, and what is about the open sheet. *)
PourLaListe(x) == x.demande.genre \in {"liste", "pose", "levee"} \/ x.demande.suite
PourLaFiche(x) == x.vive /\ x.demande.genre # "liste"

ListeSuivie ==
  ~derangee =>
    /\ ~liste.chargement /\ ~liste.erreur => liste.donnees = VueCourante
    /\ \A x \in enVol : PourLaListe(x) => x.demande.vue = VueCourante

FicheSuivie ==
  ~glissee =>
    /\ fiche.source \in {Rien, fiche.appel} /\ fiche.integrite \in {Rien, fiche.appel}
    /\ \A x \in enVol : PourLaFiche(x) => x.demande.appel = fiche.appel
    /\ \/ fiche.holds = Rien \/ fiche.holds.appel = fiche.appel
       \/ \E x \in enVol :
            PourLaFiche(x) /\ x.demande.genre = "holds" /\ x.demande.appel = fiche.appel

ConsultationInv == ConsultationTypeInv /\ ListeSuivie /\ FicheSuivie

(* A request just made, whatever the rank that tells it apart.              *)
Nouveau(v, d) ==
  /\ v = [demande |-> d, rang |-> v.rang, etat |-> "envoyee", vive |-> TRUE, active |-> FALSE]
  /\ v.demande = d /\ v.etat = "envoyee" /\ v.vive = TRUE /\ v.active = FALSE

LEMMA Depart ==
  ASSUME NEW vol, NEW d
  PROVE  \E v : Avec(vol, d) = vol \cup {v} /\ Nouveau(v, d)
<1> DEFINE n == CHOOSE n \in 1..MaxEnVol + 1 :
                  /\ n \notin {x.rang : x \in {y \in vol : y.demande = d}}
                  /\ \A k \in 1..(n - 1) : k \in {x.rang : x \in {y \in vol : y.demande = d}}
           v == Voyage(d, n)
<1>1. Avec(vol, d) = vol \cup {v}
  BY Zenon DEF Avec
<1> HIDE DEF n
<1>2. v.rang = n /\ v = [demande |-> d, rang |-> n, etat |-> "envoyee", vive |-> TRUE,
                          active |-> FALSE]
  BY DEF Voyage
<1>3. v.demande = d /\ v.etat = "envoyee" /\ v.vive = TRUE /\ v.active = FALSE
  BY DEF Voyage
<1> HIDE DEF v
<1> QED
  BY <1>1, <1>2, <1>3 DEF Nouveau

LEMMA DepartType ==
  ASSUME NEW v, NEW d \in DemandeEnVol, d.genre # "liste" => d.appel \in Consultables,
         Nouveau(v, d)
  PROVE  EstVoyage(v) /\ v.demande = d /\ v.vive
BY DEF Nouveau, EstVoyage, Etats

LEMMA DemandesType ==
  ASSUME ConsultationTypeInv
  PROVE  /\ VueCourante \in Vue
         /\ \A v \in Vue \cup {Rien} : DemandeListe(v) \in DemandeEnVol
         /\ \A a \in Consultables, v \in Vue \cup {Rien} : DemandeHolds(a, v) \in DemandeEnVol
         /\ fiche.appel \in Consultables =>
              /\ \A g \in Genres : DemandeDeLecture(g) \in DemandeEnVol
              /\ \A g \in Genres, b \in BOOLEAN : DemandeDActe(g, b) \in DemandeEnVol
<1>1. VueCourante \in Vue
  BY DEF ConsultationTypeInv, ListeType, VueCourante, Vue
<1>2. \A g \in Genres, a \in Consultables \cup {Rien}, v \in Vue \cup {Rien},
         s \in BOOLEAN, b \in BOOLEAN : Question(g, a, v, s, b) \in DemandeEnVol
  BY DEF Question, DemandeEnVol
<1>3. \A v \in Vue \cup {Rien} : DemandeListe(v) \in DemandeEnVol
  BY <1>2 DEF DemandeListe, Genres
<1>4. \A a \in Consultables, v \in Vue \cup {Rien} : DemandeHolds(a, v) \in DemandeEnVol
  <2>1. \A v : (v # Rien) \in BOOLEAN
    OBVIOUS
  <2> QED
    BY <1>2, <2>1 DEF DemandeHolds, Genres
<1>5. fiche.appel \in Consultables =>
        /\ \A g \in Genres : DemandeDeLecture(g) \in DemandeEnVol
        /\ \A g \in Genres, b \in BOOLEAN : DemandeDActe(g, b) \in DemandeEnVol
  BY <1>1, <1>2 DEF DemandeDeLecture, DemandeDActe
<1> QED
  BY <1>1, <1>3, <1>4, <1>5

LEMMA FicheVideType == FicheDe(Rien) \in
               [appel : Consultables \cup {Rien}, source : Consultables \cup {Rien},
                ouverture : BOOLEAN, exporte : BOOLEAN, integrite : Consultables \cup {Rien},
                holds : Conservation \cup {Rien}, envoi : BOOLEAN,
                formulaire : {"aucun", "pose", "levee"}, sansContre : BOOLEAN]
BY DEF FicheDe

LEMMA ConsultationInitial == ConsultationInit => ConsultationInv
<1> SUFFICES ASSUME ConsultationInit PROVE ConsultationInv
  OBVIOUS
<1> DEFINE vue == [page |-> 1, filtres |-> SansCritere]
           x == Voyage(DemandeListe(vue), 1)
<1>1. vue \in Vue /\ vue = VueCourante
  BY ConsultationAssumption DEF ConsultationInit, ConsultationAssumption, Vue, VueCourante
<1>2. enVol = {x}
  BY DEF ConsultationInit
<1>3. DemandeListe(vue) \in DemandeEnVol /\ DemandeListe(vue).vue = vue
      /\ DemandeListe(vue).genre = "liste"
  BY <1>1 DEF DemandeListe, Question, DemandeEnVol, Genres
<1>4. EstVoyage(x) /\ x.demande = DemandeListe(vue)
  BY <1>3 DEF Voyage, EstVoyage, Etats
<1>5. ListeType
  BY ConsultationAssumption DEF ConsultationInit, ConsultationAssumption, ListeType
<1>6. FicheType
  BY FicheVideType DEF ConsultationInit, FicheType, FicheDe
<1>7. ConsultationTypeInv
  BY <1>2, <1>4, <1>5, <1>6 DEF ConsultationInit, ConsultationTypeInv
<1>8. ListeSuivie
  BY <1>1, <1>2, <1>3, <1>4 DEF ConsultationInit, ListeSuivie
<1>9. FicheSuivie
  BY <1>2, <1>3, <1>4 DEF ConsultationInit, FicheSuivie, FicheDe, PourLaFiche
<1> QED
  BY <1>7, <1>8, <1>9 DEF ConsultationInv

(* An answer on its way leaves the demand it answers.                       *)
LEMMA ListeHeritee ==
  ASSUME ListeSuivie, UNCHANGED <<liste, derangee>>,
         \A y \in enVol' : PourLaListe(y) =>
           \E x \in enVol : PourLaListe(x) /\ y.demande.vue = x.demande.vue
  PROVE  ListeSuivie'
BY DEF ListeSuivie, VueCourante

LEMMA FicheHeritee ==
  ASSUME FicheSuivie, UNCHANGED glissee, fiche'.appel = fiche.appel,
         fiche'.source \in {fiche.source, Rien, fiche.appel},
         fiche'.integrite \in {fiche.integrite, Rien, fiche.appel},
         \A y \in enVol' : PourLaFiche(y) =>
           \/ y.demande.appel = fiche.appel
           \/ \E x \in enVol : PourLaFiche(x) /\ y.demande.appel = x.demande.appel,
         \/ fiche'.holds = Rien \/ fiche'.holds.appel = fiche.appel
         \/ /\ fiche'.holds = fiche.holds
            /\ \A x \in enVol : PourLaFiche(x) /\ x.demande.genre = "holds" =>
                 \E y \in enVol' : /\ PourLaFiche(y) /\ y.demande.genre = "holds"
                                   /\ y.demande.appel = x.demande.appel
  PROVE  FicheSuivie'
BY DEF FicheSuivie

LEMMA EteindreType ==
  ASSUME NEW x, EstVoyage(x)
  PROVE  /\ EstVoyage([x EXCEPT !.vive = TRUE]) /\ EstVoyage([x EXCEPT !.vive = FALSE])
         /\ [x EXCEPT !.vive = TRUE].demande = x.demande
         /\ [x EXCEPT !.vive = FALSE].demande = x.demande
         /\ [x EXCEPT !.vive = FALSE].vive = FALSE
BY DEF EstVoyage

(* A search, or the closing of the sheet: of what was asked for it, the     *)
(* acts and their reload remain, and no longer touch a sheet.               *)
LEMMA OrphelinesDe ==
  ASSUME ConsultationTypeInv, NEW y \in Orphelines(enVol)
  PROVE  EstVoyage(y) /\ ~PourLaFiche(y) /\ \E x \in enVol : y.demande = x.demande
<1>1. PICK x \in enVol : y = [x EXCEPT !.vive = x.demande.genre = "liste"]
  BY DEF Orphelines
<1>2. EstVoyage(x)
  BY DEF ConsultationTypeInv
<1>3. CASE x.demande.genre = "liste"
  <2>1. y = [x EXCEPT !.vive = TRUE]
    BY <1>1, <1>3
  <2>2. EstVoyage(y) /\ y.demande = x.demande
    BY <1>2, <2>1, EteindreType
  <2> QED
    BY <1>3, <2>2 DEF PourLaFiche
<1>4. CASE x.demande.genre # "liste"
  <2>1. y = [x EXCEPT !.vive = FALSE]
    BY <1>1, <1>4
  <2> QED
    BY <1>2, <1>4, <2>1, EteindreType DEF PourLaFiche
<1> QED
  BY <1>3, <1>4

LEMMA RechercherStable ==
  ASSUME ConsultationInv, NEW f \in Recherches, Rechercher(f)
  PROVE  ConsultationInv'
<1> USE DEF ConsultationInv
<1> DEFINE vue == [page |-> 1, filtres |-> f]
           d == DemandeListe(vue)
<1>1. vue \in Vue
  BY ConsultationAssumption DEF ConsultationAssumption, Vue
<1>2. d \in DemandeEnVol /\ d.genre = "liste" /\ d.vue = vue
  BY <1>1, DemandesType DEF DemandeListe, Question
<1>3. PICK v : enVol' = Orphelines(enVol) \cup {v} /\ Nouveau(v, d)
  <2>1. enVol' = Avec(Orphelines(enVol), d)
    BY DEF Rechercher
  <2> QED
    BY <2>1, Depart
<1>4. EstVoyage(v) /\ v.demande = d /\ v.vive
  BY <1>2, <1>3, DepartType
<1>5. liste' = [liste EXCEPT !.page = 1, !.filtres = f, !.chargement = TRUE, !.erreur = FALSE]
  BY DEF Rechercher, EnChargement, ConsultationTypeInv, ListeType
<1>6. ListeType' /\ VueCourante' = vue
  <2>1. 1 \in 1..NbPages
    BY ConsultationAssumption DEF ConsultationAssumption
  <2>2. /\ liste'.page = 1 /\ liste'.filtres = f
        /\ ListeType'
    BY <1>5, <2>1 DEF ConsultationTypeInv, ListeType
  <2> QED
    BY <2>2 DEF VueCourante
<1>7. FicheType'
  BY FicheVideType DEF Rechercher, FicheType, FicheDe
<1>8. ConsultationTypeInv'
  <2>1. \A x \in enVol' : EstVoyage(x)
    BY <1>3, <1>4, OrphelinesDe
  <2>2. derangee' \in BOOLEAN /\ UNCHANGED <<gardes, glissee>>
    BY DEF Rechercher, ConsultationTypeInv
  <2> QED
    BY <1>6, <1>7, <2>1, <2>2 DEF ConsultationTypeInv
<1>9. ListeSuivie'
  <2> SUFFICES ASSUME ~derangee' PROVE /\ liste'.chargement
                                       /\ \A x \in enVol' : PourLaListe(x) =>
                                            x.demande.vue = vue
    BY <1>6 DEF ListeSuivie
  <2>1. liste'.chargement
    BY <1>5 DEF ConsultationTypeInv, ListeType
  <2>2. EnAttente = {} /\ ActesEnCours = {}
    BY DEF Rechercher
  <2>3. \A x \in enVol : ~PourLaListe(x)
    BY <2>2 DEF EnAttente, ActesEnCours, PourLaListe
  <2>4. \A x \in Orphelines(enVol) : ~PourLaListe(x)
    BY <2>3, OrphelinesDe DEF PourLaListe
  <2> QED
    BY <1>2, <1>3, <1>4, <2>1, <2>4
<1>10. FicheSuivie'
  <2>1. \A x \in enVol' : ~PourLaFiche(x)
    BY <1>2, <1>3, <1>4, OrphelinesDe DEF PourLaFiche
  <2> QED
    BY <2>1 DEF Rechercher, FicheSuivie, FicheDe
<1> QED
  BY <1>8, <1>9, <1>10

LEMMA TournerStable ==
  ASSUME ConsultationInv, NEW p \in 1..NbPages, Tourner(p)
  PROVE  ConsultationInv'
<1> USE DEF ConsultationInv
<1> DEFINE vue == [page |-> p, filtres |-> liste.filtres]
           d == DemandeListe(vue)
<1>1. vue \in Vue
  BY DEF ConsultationTypeInv, ListeType, Vue
<1>2. d \in DemandeEnVol /\ d.genre = "liste" /\ d.vue = vue
  BY <1>1, DemandesType DEF DemandeListe, Question
<1>3. PICK v : enVol' = enVol \cup {v} /\ Nouveau(v, d)
  <2>1. enVol' = Avec(enVol, d)
    BY DEF Tourner
  <2> QED
    BY <2>1, Depart
<1>4. EstVoyage(v) /\ v.demande = d /\ v.vive
  BY <1>2, <1>3, DepartType
<1>5. liste' = [liste EXCEPT !.page = p, !.chargement = TRUE, !.erreur = FALSE]
  BY DEF Tourner, EnChargement, ConsultationTypeInv, ListeType
<1>6. ListeType' /\ VueCourante' = vue
  BY <1>5 DEF ConsultationTypeInv, ListeType, VueCourante
<1>7. ConsultationTypeInv'
  <2>1. derangee' \in BOOLEAN /\ UNCHANGED <<fiche, gardes, glissee>>
    BY DEF Tourner, ConsultationTypeInv
  <2> QED
    BY <1>3, <1>4, <1>6, <2>1 DEF ConsultationTypeInv, FicheType
<1>8. ListeSuivie'
  <2> SUFFICES ASSUME ~derangee' PROVE /\ liste'.chargement
                                       /\ \A x \in enVol' : PourLaListe(x) =>
                                            x.demande.vue = vue
    BY <1>6 DEF ListeSuivie
  <2>1. liste'.chargement
    BY <1>5 DEF ConsultationTypeInv, ListeType
  <2>2. EnAttente = {} /\ ActesEnCours = {}
    BY DEF Tourner
  <2>3. \A x \in enVol : ~PourLaListe(x)
    BY <2>2 DEF EnAttente, ActesEnCours, PourLaListe
  <2> QED
    BY <1>2, <1>3, <1>4, <2>1, <2>3
<1>9. FicheSuivie'
  BY <1>2, <1>3, <1>4, FicheHeritee DEF Tourner, PourLaFiche
<1> QED
  BY <1>7, <1>8, <1>9

LEMMA ConsulterStable ==
  ASSUME ConsultationInv, NEW a \in Consultables, Consulter(a)
  PROVE  ConsultationInv'
<1> USE DEF ConsultationInv
<1> DEFINE d == DemandeHolds(a, Rien)
<1>1. d \in DemandeEnVol /\ d.genre = "holds" /\ d.appel = a /\ d.suite = FALSE
  BY DemandesType DEF DemandeHolds, Question
<1>2. PICK v : enVol' = enVol \cup {v} /\ Nouveau(v, d)
  <2>1. enVol' = Avec(enVol, d)
    BY DEF Consulter
  <2> QED
    BY <2>1, Depart
<1>3. EstVoyage(v) /\ v.demande = d /\ v.vive
  BY <1>1, <1>2, DepartType
<1>4. FicheType' /\ fiche'.appel = a /\ fiche'.source = Rien /\ fiche'.integrite = Rien
  BY DEF Consulter, ConsultationTypeInv, FicheType
<1>5. ConsultationTypeInv'
  <2>1. glissee' \in BOOLEAN /\ UNCHANGED <<liste, gardes, derangee>>
    BY DEF Consulter, ConsultationTypeInv
  <2> QED
    BY <1>2, <1>3, <1>4, <2>1 DEF ConsultationTypeInv, ListeType
<1>6. ListeSuivie'
  BY <1>1, <1>2, <1>3, ListeHeritee DEF Consulter, PourLaListe
<1>7. FicheSuivie'
  <2> SUFFICES ASSUME ~glissee' PROVE \A x \in enVol' : PourLaFiche(x) => x.demande.appel = a
    BY <1>1, <1>2, <1>3, <1>4 DEF FicheSuivie, PourLaFiche
  <2>1. AttendDeLaFiche = {}
    BY DEF Consulter
  <2>2. \A x \in enVol : ~PourLaFiche(x)
    BY <2>1 DEF AttendDeLaFiche, PourLaFiche
  <2> QED
    BY <1>1, <1>2, <1>3, <2>2
<1> QED
  BY <1>5, <1>6, <1>7

LEMMA FermerStable ==
  ASSUME ConsultationInv, Fermer
  PROVE  ConsultationInv'
<1> USE DEF ConsultationInv
<1>1. enVol' = Orphelines(enVol) /\ UNCHANGED <<liste, gardes, derangee, glissee>>
  BY DEF Fermer
<1>2. FicheType'
  BY FicheVideType DEF Fermer, FicheType, FicheDe
<1>3. ConsultationTypeInv'
  BY <1>1, <1>2, OrphelinesDe DEF ConsultationTypeInv, ListeType
<1>4. ListeSuivie'
  <2>1. \A y \in enVol' : PourLaListe(y) =>
          \E x \in enVol : PourLaListe(x) /\ y.demande.vue = x.demande.vue
    BY <1>1, OrphelinesDe DEF PourLaListe
  <2> QED
    BY <1>1, <2>1, ListeHeritee
<1>5. FicheSuivie'
  <2>1. \A x \in enVol' : ~PourLaFiche(x)
    BY <1>1, OrphelinesDe
  <2> QED
    BY <2>1 DEF Fermer, FicheSuivie, FicheDe
<1> QED
  BY <1>3, <1>4, <1>5

(* Something is asked for the open sheet.                                   *)
LEMMA DemandeStable ==
  ASSUME ConsultationInv, NEW d \in DemandeEnVol, d.genre # "liste", d.appel = fiche.appel,
         fiche.appel \in Consultables, ~d.suite,
         d.genre \in {"pose", "levee"} => d.vue = VueCourante,
         enVol' = Avec(enVol, d),
         FicheType', fiche'.appel = fiche.appel, fiche'.source = fiche.source,
         fiche'.integrite \in {fiche.integrite, Rien}, fiche'.holds = fiche.holds,
         UNCHANGED <<liste, gardes, derangee, glissee>>
  PROVE  ConsultationInv'
<1> USE DEF ConsultationInv
<1>1. PICK v : enVol' = enVol \cup {v} /\ Nouveau(v, d)
  BY Depart
<1>2. EstVoyage(v) /\ v.demande = d /\ v.vive
  BY <1>1, DepartType
<1>3. ConsultationTypeInv'
  BY <1>1, <1>2 DEF ConsultationTypeInv, ListeType
<1>4. ListeSuivie'
  BY <1>1, <1>2 DEF ListeSuivie, PourLaListe, VueCourante
<1>5. FicheSuivie'
  <2>1. \A y \in enVol' : PourLaFiche(y) =>
          \/ y.demande.appel = fiche.appel
          \/ \E x \in enVol : PourLaFiche(x) /\ y.demande.appel = x.demande.appel
    BY <1>1, <1>2
  <2>2. \A x \in enVol : x \in enVol'
    BY <1>1
  <2> QED
    BY <2>1, <2>2, FicheHeritee
<1> QED
  BY <1>3, <1>4, <1>5

LEMMA ClicsStables ==
  ASSUME ConsultationInv,
         Ecouter \/ (\E a \in Consultables : Exporter(a)) \/ Soumettre \/ Formulaire
  PROVE  ConsultationInv'
<1> USE DEF ConsultationInv
<1>1. CASE Ecouter
  <2>1. fiche.appel \in Consultables /\ FicheType'
    BY <1>1 DEF Ecouter, ConsultationTypeInv, FicheType
  <2>2. /\ fiche'.appel = fiche.appel /\ fiche'.source = fiche.source
        /\ fiche'.integrite = fiche.integrite /\ fiche'.holds = fiche.holds
    BY <1>1 DEF Ecouter, ConsultationTypeInv, FicheType
  <2>3. DemandeDeLecture("ecoute") \in DemandeEnVol
    BY <2>1, DemandesType DEF Genres
  <2>4. /\ DemandeDeLecture("ecoute").genre = "ecoute" /\ ~DemandeDeLecture("ecoute").suite
        /\ DemandeDeLecture("ecoute").appel = fiche.appel
    BY DEF DemandeDeLecture, Question
  <2> QED
    BY <1>1, <2>1, <2>2, <2>3, <2>4, DemandeStable DEF Ecouter
<1>2. CASE \E a \in Consultables : Exporter(a)
  <2>1. fiche.appel \in Consultables /\ FicheType'
    BY <1>2 DEF Exporter, ConsultationTypeInv, FicheType
  <2>2. /\ fiche'.appel = fiche.appel /\ fiche'.source = fiche.source
        /\ fiche'.integrite = Rien /\ fiche'.holds = fiche.holds
    BY <1>2 DEF Exporter, ConsultationTypeInv, FicheType
  <2>3. DemandeDeLecture("export") \in DemandeEnVol
    BY <2>1, DemandesType DEF Genres
  <2>4. /\ DemandeDeLecture("export").genre = "export" /\ ~DemandeDeLecture("export").suite
        /\ DemandeDeLecture("export").appel = fiche.appel
    BY DEF DemandeDeLecture, Question
  <2> QED
    BY <1>2, <2>1, <2>2, <2>3, <2>4, DemandeStable DEF Exporter
<1>3. CASE Soumettre
  <2> DEFINE g == fiche.formulaire
             b == fiche.formulaire = "levee" /\ fiche.sansContre
             d == DemandeDActe(g, b)
  <2>1. fiche.appel \in Consultables /\ FicheType' /\ g \in {"pose", "levee"}
    BY <1>3 DEF Soumettre, ConsultationTypeInv, FicheType
  <2>2. /\ fiche'.appel = fiche.appel /\ fiche'.source = fiche.source
        /\ fiche'.integrite = fiche.integrite /\ fiche'.holds = fiche.holds
    BY <1>3 DEF Soumettre, ConsultationTypeInv, FicheType
  <2>3. d \in DemandeEnVol
    <3>1. b \in BOOLEAN
      BY DEF ConsultationTypeInv, FicheType
    <3> QED
      BY <2>1, <3>1, DemandesType DEF Genres
  <2>4. d.genre = g /\ ~d.suite /\ d.appel = fiche.appel /\ d.vue = VueCourante
    BY DEF DemandeDActe, Question
  <2>5. enVol' = Avec(enVol, d) /\ UNCHANGED <<liste, gardes, derangee, glissee>>
    BY <1>3 DEF Soumettre
  <2> HIDE DEF d
  <2> QED
    BY <2>1, <2>2, <2>3, <2>4, <2>5, DemandeStable
<1>4. CASE Formulaire
  <2>1. /\ FicheType' /\ fiche'.appel = fiche.appel /\ fiche'.source = fiche.source
        /\ fiche'.integrite = fiche.integrite /\ fiche'.holds = fiche.holds
    BY <1>4 DEF Formulaire, ConsultationTypeInv, FicheType
  <2>2. UNCHANGED <<liste, enVol, gardes, derangee, glissee>>
    BY <1>4 DEF Formulaire
  <2>3. ConsultationTypeInv'
    BY <2>1, <2>2 DEF ConsultationTypeInv, ListeType
  <2>4. ListeSuivie'
    BY <2>2, ListeHeritee
  <2>5. FicheSuivie'
    BY <2>1, <2>2, FicheHeritee
  <2> QED
    BY <2>3, <2>4, <2>5
<1> QED
  BY <1>1, <1>2, <1>3, <1>4

(* The service, or a failure, answers a request.                            *)
LEMMA ReponseStable ==
  ASSUME ConsultationInv, NEW x \in enVol, NEW y,
         EstVoyage(y), y.demande = x.demande, y.vive = x.vive,
         enVol' = (enVol \ {x}) \cup {y}, gardes' \subseteq Consultables,
         UNCHANGED <<liste, fiche, derangee, glissee>>
  PROVE  ConsultationInv'
<1> USE DEF ConsultationInv
<1>1. ConsultationTypeInv'
  BY DEF ConsultationTypeInv, ListeType, FicheType
<1>2. ListeSuivie'
  BY ListeHeritee DEF PourLaListe
<1>3. FicheSuivie'
  <2>1. \A z \in enVol' : PourLaFiche(z) =>
          \E w \in enVol : PourLaFiche(w) /\ z.demande.appel = w.demande.appel
    BY DEF PourLaFiche
  <2>2. \A z \in enVol : PourLaFiche(z) /\ z.demande.genre = "holds" =>
          \E w \in enVol' : /\ PourLaFiche(w) /\ w.demande.genre = "holds"
                            /\ w.demande.appel = z.demande.appel
    BY DEF PourLaFiche
  <2> QED
    BY <2>1, <2>2, FicheHeritee
<1> QED
  BY <1>1, <1>2, <1>3

LEMMA ReponseType ==
  ASSUME NEW x, EstVoyage(x), NEW e \in Etats, NEW b \in BOOLEAN
  PROVE  /\ EstVoyage([x EXCEPT !.etat = e])
         /\ [x EXCEPT !.etat = e].demande = x.demande /\ [x EXCEPT !.etat = e].vive = x.vive
         /\ EstVoyage([x EXCEPT !.etat = e, !.active = b])
         /\ [x EXCEPT !.etat = e, !.active = b].demande = x.demande
         /\ [x EXCEPT !.etat = e, !.active = b].vive = x.vive
BY DEF EstVoyage

LEMMA ServirStable ==
  ASSUME ConsultationInv, NEW x \in enVol, Servir(x) \/ Rompre(x)
  PROVE  ConsultationInv'
<1>1. EstVoyage(x) /\ gardes \subseteq Consultables
  BY DEF ConsultationInv, ConsultationTypeInv
<1>2. UNCHANGED <<liste, fiche, derangee, glissee>> /\ gardes' \subseteq Consultables
  <2>1. CASE Servir(x)
    <3>1. x.demande.genre \in Genres
          /\ (x.demande.genre # "liste" => x.demande.appel \in Consultables)
      BY <1>1 DEF EstVoyage, DemandeEnVol
    <3> QED
      BY <1>1, <2>1, <3>1 DEF Servir, Genres
  <2>2. CASE Rompre(x)
    BY <1>1, <2>2 DEF Rompre
  <2> QED
    BY <2>1, <2>2
<1>3. \E e \in Etats, b \in BOOLEAN :
        \/ enVol' = (enVol \ {x}) \cup {[x EXCEPT !.etat = e]}
        \/ enVol' = (enVol \ {x}) \cup {[x EXCEPT !.etat = e, !.active = b]}
  <2>1. CASE Servir(x)
    <3>1. x.demande.genre \in Genres
      BY <1>1 DEF EstVoyage, DemandeEnVol
    <3>2. (x.demande.appel \in gardes) \in BOOLEAN
      OBVIOUS
    <3>3. CASE x.demande.genre = "holds"
      BY <2>1, <3>2, <3>3 DEF Servir, Etats
    <3>4. CASE x.demande.genre # "holds"
      BY <2>1, <3>1, <3>4 DEF Servir, Genres, Etats
    <3> QED
      BY <3>3, <3>4
  <2>2. CASE Rompre(x)
    BY <2>2 DEF Rompre, Etats
  <2> QED
    BY <2>1, <2>2
<1>4. PICK e \in Etats, b \in BOOLEAN :
        \/ enVol' = (enVol \ {x}) \cup {[x EXCEPT !.etat = e]}
        \/ enVol' = (enVol \ {x}) \cup {[x EXCEPT !.etat = e, !.active = b]}
  BY <1>3
<1>5. \E y : /\ EstVoyage(y) /\ y.demande = x.demande /\ y.vive = x.vive
             /\ enVol' = (enVol \ {x}) \cup {y}
  BY <1>1, <1>4, ReponseType
<1> QED
  BY <1>2, <1>5, ReponseStable

-----------------------------------------------------------------------------
(* Of the answers.                                                          *)

LEMMA RecevoirListeStable ==
  ASSUME ConsultationInv, NEW x \in enVol, RecevoirListe(x)
  PROVE  ConsultationInv'
<1> USE DEF ConsultationInv
<1>1. EstVoyage(x) /\ x.demande.vue \in Vue \cup {Rien}
  BY DEF ConsultationTypeInv, EstVoyage, DemandeEnVol
<1>2. /\ ListeType' /\ VueCourante' = VueCourante /\ ~liste'.chargement
      /\ x.etat # "rendue" => liste'.erreur
      /\ x.etat = "rendue" => liste'.donnees = x.demande.vue
  BY <1>1 DEF RecevoirListe, ConsultationTypeInv, ListeType, VueCourante
<1>3. enVol' = enVol \ {x} /\ UNCHANGED <<fiche, gardes, derangee, glissee>>
  BY DEF RecevoirListe
<1>4. ConsultationTypeInv'
  BY <1>2, <1>3 DEF ConsultationTypeInv, FicheType
<1>5. ListeSuivie'
  <2>1. PourLaListe(x)
    BY DEF RecevoirListe, PourLaListe
  <2> QED
    BY <1>2, <1>3, <2>1 DEF ListeSuivie
<1>6. FicheSuivie'
  <2>1. x.demande.genre = "liste"
    BY DEF RecevoirListe
  <2>2. \A y \in enVol : y.demande.genre = "holds" => y \in enVol'
    BY <1>3, <2>1
  <2> QED
    BY <1>3, <2>2, FicheHeritee
<1> QED
  BY <1>4, <1>5, <1>6

LEMMA RecevoirLectureStable ==
  ASSUME ConsultationInv, NEW x \in enVol, RecevoirLecture(x)
  PROVE  ConsultationInv'
<1> USE DEF ConsultationInv
<1>1. EstVoyage(x) /\ x.demande.genre \in {"ecoute", "export"}
  BY DEF ConsultationTypeInv, RecevoirLecture
<1>2. x.demande.appel \in Consultables
  BY <1>1 DEF EstVoyage
<1>3. /\ FicheType' /\ fiche'.appel = fiche.appel /\ fiche'.holds = fiche.holds
      /\ fiche'.source = fiche.source \/ (x.vive /\ fiche'.source = x.demande.appel)
      /\ fiche'.integrite = fiche.integrite \/ (x.vive /\ fiche'.integrite = x.demande.appel)
  <2>1. CASE ~x.vive
    BY <2>1 DEF RecevoirLecture, ConsultationTypeInv, FicheType
  <2>2. CASE x.vive /\ x.demande.genre = "ecoute"
    BY <1>2, <2>2 DEF RecevoirLecture, ConsultationTypeInv, FicheType
  <2>3. CASE x.vive /\ x.demande.genre = "export"
    BY <1>2, <2>3 DEF RecevoirLecture, ConsultationTypeInv, FicheType
  <2> QED
    BY <1>1, <2>1, <2>2, <2>3
<1>4. enVol' = enVol \ {x} /\ UNCHANGED <<liste, gardes, derangee, glissee>>
  BY DEF RecevoirLecture
<1>5. ConsultationTypeInv'
  BY <1>3, <1>4 DEF ConsultationTypeInv, ListeType
<1>6. ListeSuivie'
  BY <1>4, ListeHeritee
<1>7. FicheSuivie'
  <2>1. \A y \in enVol : y.demande.genre = "holds" => y \in enVol'
    BY <1>1, <1>4
  <2>2. ~glissee /\ x.vive => x.demande.appel = fiche.appel
    BY <1>1 DEF FicheSuivie, PourLaFiche
  <2>3. CASE glissee
    BY <1>4, <2>3 DEF FicheSuivie
  <2>4. CASE ~glissee
    BY <1>3, <1>4, <2>1, <2>2, <2>4, FicheHeritee
  <2> QED
    BY <2>3, <2>4
<1> QED
  BY <1>5, <1>6, <1>7

LEMMA RecevoirHoldsStable ==
  ASSUME ConsultationInv, NEW x \in enVol, RecevoirHolds(x)
  PROVE  ConsultationInv'
<1> USE DEF ConsultationInv
<1>1. EstVoyage(x) /\ x.demande.genre = "holds"
  BY DEF ConsultationTypeInv, RecevoirHolds
<1>2. x.demande.appel \in Consultables /\ x.active \in BOOLEAN
      /\ x.demande.vue \in Vue \cup {Rien}
  BY <1>1 DEF EstVoyage, DemandeEnVol
<1>3. /\ FicheType' /\ fiche'.appel = fiche.appel /\ fiche'.source = fiche.source
      /\ fiche'.integrite = fiche.integrite
      /\ ~x.vive => fiche' = fiche
      /\ x.vive => fiche'.holds = Rien \/ fiche'.holds.appel = x.demande.appel
  <2>1. [appel |-> x.demande.appel, active |-> x.active] \in Conservation
    BY <1>2 DEF Conservation
  <2>2. CASE ~x.vive
    BY <2>2 DEF RecevoirHolds, ConsultationTypeInv, FicheType
  <2>3. CASE x.vive /\ x.etat # "rendue"
    BY <2>3 DEF RecevoirHolds, ConsultationTypeInv, FicheType
  <2>4. CASE x.vive /\ x.etat = "rendue"
    BY <2>1, <2>4 DEF RecevoirHolds, ConsultationTypeInv, FicheType
  <2> QED
    BY <2>2, <2>3, <2>4
<1>4. /\ enVol \ {x} \subseteq enVol'
      /\ \A v \in enVol' : \/ v \in enVol \ {x}
                          \/ /\ EstVoyage(v) /\ v.demande.genre = "liste"
                             /\ x.demande.suite /\ v.demande.vue = x.demande.vue
      /\ ListeType' /\ VueCourante' = VueCourante
      /\ liste' = liste \/ liste'.chargement
  <2>1. CASE x.demande.suite
    <3> DEFINE d == DemandeListe(x.demande.vue)
    <3>1. d \in DemandeEnVol /\ d.genre = "liste" /\ d.vue = x.demande.vue
      BY <1>2, DemandesType DEF DemandeListe, Question
    <3>2. PICK v : enVol' = (enVol \ {x}) \cup {v} /\ Nouveau(v, d)
      <4>1. enVol' = Avec(enVol \ {x}, d)
        BY <2>1 DEF RecevoirHolds
      <4> QED
        BY <4>1, Depart
    <3>3. EstVoyage(v) /\ v.demande = d
      BY <3>1, <3>2, DepartType
    <3>4. liste' = [liste EXCEPT !.chargement = TRUE, !.erreur = FALSE]
      BY <2>1 DEF RecevoirHolds, EnChargement
    <3>5. ListeType' /\ VueCourante' = VueCourante /\ liste'.chargement
      BY <3>4 DEF ConsultationTypeInv, ListeType, VueCourante
    <3> QED
      BY <2>1, <3>1, <3>2, <3>3, <3>5
  <2>2. CASE ~x.demande.suite
    <3>1. enVol' = enVol \ {x} /\ liste' = liste
      BY <2>2 DEF RecevoirHolds
    <3>2. ListeType' /\ VueCourante' = VueCourante
      BY <3>1 DEF ConsultationTypeInv, ListeType, VueCourante
    <3> QED
      BY <3>1, <3>2
  <2> QED
    BY <2>1, <2>2
<1>5. UNCHANGED <<gardes, derangee, glissee>>
  BY DEF RecevoirHolds
<1>6. ConsultationTypeInv'
  BY <1>3, <1>4, <1>5 DEF ConsultationTypeInv
<1>7. ListeSuivie'
  BY <1>4, <1>5 DEF ListeSuivie, PourLaListe
<1>8. FicheSuivie'
  <2>1. \A y \in enVol' : PourLaFiche(y) => y \in enVol
    BY <1>4 DEF PourLaFiche
  <2>2. CASE glissee
    BY <1>5, <2>2 DEF FicheSuivie
  <2>3. CASE ~glissee /\ x.vive
    <3>1. x.demande.appel = fiche.appel
      BY <1>1, <2>3 DEF FicheSuivie, PourLaFiche
    <3> QED
      BY <1>3, <1>5, <2>1, <2>3, <3>1, FicheHeritee
  <2>4. CASE ~glissee /\ ~x.vive
    <3>1. \A y \in enVol : PourLaFiche(y) => y \in enVol'
      BY <1>4, <2>4 DEF PourLaFiche
    <3> QED
      BY <1>3, <1>5, <2>1, <2>4, <3>1, FicheHeritee
  <2> QED
    BY <1>1, <2>2, <2>3, <2>4
<1> QED
  BY <1>6, <1>7, <1>8

LEMMA RecevoirActeStable ==
  ASSUME ConsultationInv, NEW x \in enVol, RecevoirActe(x)
  PROVE  ConsultationInv'
<1> USE DEF ConsultationInv
<1>1. EstVoyage(x) /\ x.demande.genre \in {"pose", "levee"}
  BY DEF ConsultationTypeInv, RecevoirActe
<1>2. x.demande.appel \in Consultables /\ x.demande.vue \in Vue \cup {Rien}
  BY <1>1 DEF EstVoyage, DemandeEnVol
<1>3. /\ FicheType' /\ fiche'.appel = fiche.appel /\ fiche'.source = fiche.source
      /\ fiche'.integrite = fiche.integrite /\ fiche'.holds = fiche.holds
  <2>1. (x.demande.genre = "pose") \in BOOLEAN /\ (x.etat = "seul") \in BOOLEAN
    OBVIOUS
  <2>2. CASE ~x.vive
    BY <2>2 DEF RecevoirActe, ConsultationTypeInv, FicheType
  <2>3. CASE x.vive /\ x.etat = "rendue"
    BY <2>1, <2>3 DEF RecevoirActe, ConsultationTypeInv, FicheType
  <2>4. CASE x.vive /\ x.etat # "rendue"
    BY <2>1, <2>4 DEF RecevoirActe, ConsultationTypeInv, FicheType
  <2> QED
    BY <2>2, <2>3, <2>4
<1>4. UNCHANGED <<liste, gardes, derangee, glissee>>
  BY DEF RecevoirActe
<1>5. \E S : /\ enVol' = (enVol \ {x}) \cup S
             /\ \A v \in S : \/ v \in enVol
                            \/ /\ EstVoyage(v) /\ (v.vive => x.vive)
                               /\ v.demande.appel = x.demande.appel
                               /\ v.demande.vue = x.demande.vue
  <2>1. CASE x.etat # "rendue"
    BY <2>1 DEF RecevoirActe
  <2>2. CASE x.etat = "rendue"
    <3> DEFINE d == DemandeHolds(x.demande.appel, x.demande.vue)
    <3>1. d \in DemandeEnVol /\ d.genre = "holds" /\ d.vue = x.demande.vue
          /\ d.appel = x.demande.appel
      BY <1>2, DemandesType DEF DemandeHolds, Question
    <3>2. PICK v : Avec(enVol \ {x}, d) = (enVol \ {x}) \cup {v} /\ Nouveau(v, d)
      BY Depart
    <3>3. EstVoyage(v) /\ v.demande = d
      BY <1>2, <3>1, <3>2, DepartType
    <3>4. CASE x.vive
      BY <2>2, <3>1, <3>2, <3>3, <3>4 DEF RecevoirActe
    <3>5. CASE ~x.vive
      <4> DEFINE w == IF v \in enVol THEN v ELSE [v EXCEPT !.vive = FALSE]
      <4>1. enVol' = {IF y \in enVol THEN y ELSE [y EXCEPT !.vive = FALSE] :
                        y \in (enVol \ {x}) \cup {v}}
        BY <2>2, <3>2, <3>5 DEF RecevoirActe
      <4>2. enVol' = (enVol \ {x}) \cup {w}
        BY <4>1
      <4>3. EstVoyage([v EXCEPT !.vive = FALSE]) /\ [v EXCEPT !.vive = FALSE].demande = d
            /\ [v EXCEPT !.vive = FALSE].vive = FALSE
        BY <3>3, EteindreType
      <4>4. w \in enVol \/ (EstVoyage(w) /\ w.demande = d /\ w.vive = FALSE)
        BY <4>3
      <4> HIDE DEF w
      <4> QED
        BY <3>1, <4>2, <4>4
    <3> QED
      BY <1>1, <3>4, <3>5 DEF EstVoyage
  <2> QED
    BY <2>1, <2>2
<1>6. ConsultationTypeInv'
  BY <1>3, <1>4, <1>5 DEF ConsultationTypeInv, ListeType
<1>7. ListeSuivie'
  <2>1. PourLaListe(x)
    BY <1>1 DEF PourLaListe
  <2> QED
    BY <1>4, <1>5, <2>1 DEF ListeSuivie, VueCourante
<1>8. FicheSuivie'
  <2>1. \A y \in enVol' : PourLaFiche(y) =>
          \E z \in enVol : PourLaFiche(z) /\ y.demande.appel = z.demande.appel
    BY <1>1, <1>5 DEF PourLaFiche
  <2>2. \A y \in enVol : y.demande.genre = "holds" => y \in enVol'
    BY <1>1, <1>5
  <2> QED
    BY <1>3, <1>4, <2>1, <2>2, FicheHeritee
<1> QED
  BY <1>6, <1>7, <1>8

LEMMA ConsultationStable ==
  ConsultationInv /\ [ConsultationNext]_consultationVars => ConsultationInv'
<1> SUFFICES ASSUME ConsultationInv, [ConsultationNext]_consultationVars
             PROVE  ConsultationInv'
  OBVIOUS
<1>1. CASE ConsultationNext
  BY <1>1, RechercherStable, TournerStable, ConsulterStable, FermerStable, ClicsStables,
     ServirStable, RecevoirListeStable, RecevoirHoldsStable, RecevoirLectureStable,
     RecevoirActeStable
     DEF ConsultationNext
<1>2. CASE UNCHANGED consultationVars
  BY <1>2 DEF consultationVars, ConsultationInv, ConsultationTypeInv, ListeType, FicheType,
              ListeSuivie, FicheSuivie, VueCourante
<1> QED
  BY <1>1, <1>2

LEMMA ConsultationInvariant == ConsultationSpec => []ConsultationInv
BY ConsultationInitial, ConsultationStable, PTL DEF ConsultationSpec

LEMMA ConsultationTenue ==
  ConsultationInv => ConsultationTypeOK /\ ListeTenue /\ FicheTenue
<1> SUFFICES ASSUME ConsultationInv
             PROVE  ConsultationTypeOK /\ ListeTenue /\ FicheTenue
  OBVIOUS
<1>1. ConsultationTypeOK
  BY DEF ConsultationInv, ConsultationTypeInv, ListeType, FicheType, EstVoyage, DemandeEnVol,
         ConsultationTypeOK
<1>2. ListeTenue /\ FicheTenue
  BY DEF ConsultationInv, ListeSuivie, FicheSuivie, ListeTenue, FicheTenue
<1> QED
  BY <1>1, <1>2

-----------------------------------------------------------------------------
(* The session of a tab.  A pair that something names was issued; an answer *)
(* says what its stage says.                                                *)
Emise(i) == i # 0 => paires[i].compte \in Utilisateurs
Nommees ==
  /\ \A i \in Paires : paires[i].valide \/ paires[i].vivante => Emise(i)
  /\ Emise(onglet.jetons)
  /\ \A k \in Creneaux : Emise(appels[k].avec) /\ Emise(appels[k].paire)
RetoursSains ==
  \A k \in Creneaux :
    /\ appels[k].fn \notin {"connexion", "changer"} \/ appels[k].etape = "profil" =>
         appels[k].paire = 0
    /\ appels[k].fn = "connexion" /\ appels[k].etape = "premiere" =>
         appels[k].compte \in Utilisateurs
    /\ appels[k].etat = "rendu" /\ appels[k].etape = "profil" => appels[k].profil \in Profil
    /\ appels[k].etat = "rendu" /\ appels[k].etape = "premiere"
         /\ appels[k].fn \in {"connexion", "changer"} => appels[k].paire # 0
    /\ appels[k].etape = "profil" => appels[k].fn \in {"restaurer", "connexion", "changer"}
    /\ appels[k].fn = "restaurer" => appels[k].etape = "profil"

PortailTypeInv == PortailTypeOK /\ Nommees /\ RetoursSains

(* As long as no act crosses another, a login, a change and a restoration   *)
(* are alone in flight, and carry the tokens of the tab.                    *)
Seul(k) == \A j \in Creneaux : appels[j].fn # "aucune" => j = k

AppelTenu(k) ==
  /\ appels[k].fn \in {"restaurer", "connexion", "changer"} => Seul(k)
  /\ appels[k].fn \in {"restaurer", "connexion"} => onglet.profil = Personne
  /\ appels[k].fn = "restaurer" => onglet.chargement
  /\ appels[k].fn = "changer" =>
       onglet.profil # Personne /\ onglet.profil.provisoire /\ onglet.envoi
  /\ appels[k].fn = "connexion" /\ appels[k].etape = "premiere" => onglet.jetons = 0
  /\ appels[k].fn = "changer" /\ appels[k].etape = "premiere" => appels[k].avec = onglet.jetons
  /\ appels[k].fn = "deconnexion" => onglet.jetons \in {0, appels[k].avec}
  /\ appels[k].etape = "profil" => appels[k].avec = onglet.jetons /\ onglet.jetons # 0
  /\ appels[k].fn = "changer" /\ appels[k].etape = "profil" =>
       ~paires[onglet.jetons].provisoire

(* What the service answered is still true when it is applied.              *)
ReponseTenue(k) ==
  appels[k].etat = "rendu" =>
    /\ appels[k].fn = "connexion" /\ appels[k].etape = "premiere" =>
         (paires[appels[k].paire].provisoire => paires[appels[k].paire].compte \in provisoires)
    /\ appels[k].fn = "changer" /\ appels[k].etape = "premiere" =>
         /\ ~paires[onglet.jetons].vivante /\ ~paires[appels[k].paire].provisoire
         /\ paires[appels[k].paire].compte = onglet.profil.compte
    /\ appels[k].etape = "profil" =>
         /\ appels[k].profil.compte = paires[appels[k].avec].compte
         /\ appels[k].profil.compte \in provisoires => appels[k].profil.provisoire
    /\ appels[k].fn = "deconnexion" =>
         onglet.jetons = 0 \/ ~paires[onglet.jetons].vivante

ChangementServi ==
  \E k \in Creneaux :
    appels[k].fn = "changer" /\ appels[k].etape = "premiere" /\ appels[k].etat = "rendu"

OngletTenu ==
  /\ onglet.profil # Personne =>
       /\ onglet.jetons # 0 /\ paires[onglet.jetons].compte = onglet.profil.compte
       /\ onglet.profil.compte \in provisoires => onglet.profil.provisoire
  /\ onglet.profil = Personne /\ ~EnCours(Fonctions) => onglet.jetons = 0
  /\ onglet.jetons # 0 /\ paires[onglet.jetons].provisoire /\ ~demiChange =>
       paires[onglet.jetons].compte \in provisoires \/ ChangementServi

PairesTenues ==
  \A i \in Paires \ perdus :
    paires[i].vivante => i = onglet.jetons \/ \E k \in Creneaux : i \in PaireRendue(k)

SessionInv ==
  ~croisee =>
    /\ \A k \in Creneaux : AppelTenu(k) /\ ReponseTenue(k)
    /\ OngletTenu /\ PairesTenues

-----------------------------------------------------------------------------

Retour ==
  [fn : {"aucune", "restaurer", "connexion", "changer", "deconnexion"},
   etape : {"premiere", "profil"}, compte : Utilisateurs \cup {Personne},
   avec : 0..NbPaires, etat : {"envoye", "rendu", "refuse"}, vive : BOOLEAN,
   paire : 0..NbPaires, profil : Profil \cup {Personne}]
Paire ==
  [compte : Utilisateurs \cup {Personne}, provisoire : BOOLEAN, valide : BOOLEAN,
   vivante : BOOLEAN]

LEMMA TypesDuPortail ==
  PortailTypeOK <=>
    /\ paires \in [Paires -> Paire] /\ provisoires \subseteq Utilisateurs
    /\ onglet \in [jetons : 0..NbPaires, profil : Profil \cup {Personne},
                   chargement : BOOLEAN, envoi : BOOLEAN]
    /\ appels \in [Creneaux -> Retour]
    /\ croisee \in BOOLEAN /\ perdus \subseteq Paires /\ demiChange \in BOOLEAN
BY DEF PortailTypeOK, Retour, Paire

LEMMA BornesDuPortail ==
  /\ 0 \in 0..NbPaires /\ 0 \notin Paires /\ Paires \subseteq 0..NbPaires
  /\ \A i \in 0..NbPaires : i # 0 => i \in Paires
  /\ 1 \in Creneaux /\ Personne \notin Utilisateurs /\ Personne \notin Profil
BY PortailAssumption DEF PortailAssumption, Paires, Creneaux

LEMMA AppelType ==
  ASSUME PortailTypeOK, NEW fn \in {"restaurer", "connexion", "changer", "deconnexion"},
         NEW e \in {"premiere", "profil"}, NEW c \in Utilisateurs \cup {Personne}
  PROVE  /\ AucunRetour \in Retour
         /\ Appel(fn, e, c) \in Retour
         /\ Appel(fn, e, c) = [AucunRetour EXCEPT !.fn = fn, !.etape = e, !.compte = c,
                                                  !.avec = onglet.jetons]
BY BornesDuPortail, TypesDuPortail DEF AucunRetour, Appel, Retour

LEMMA AppelChamps ==
  ASSUME PortailTypeOK, NEW fn \in {"restaurer", "connexion", "changer", "deconnexion"},
         NEW e \in {"premiere", "profil"}, NEW c \in Utilisateurs \cup {Personne}
  PROVE  LET a == Appel(fn, e, c) IN
         /\ a.fn = fn /\ a.etape = e /\ a.compte = c /\ a.avec = onglet.jetons
         /\ a.etat = "envoye" /\ a.paire = 0
BY DEF AucunRetour, Appel

LEMMA PortailInitial == PortailInit => PortailTypeInv /\ SessionInv
<1> SUFFICES ASSUME PortailInit PROVE PortailTypeInv /\ SessionInv
  OBVIOUS
<1>1. AucunRetour \in Retour /\ PasEmise \in Paire
  BY BornesDuPortail DEF AucunRetour, Retour, PasEmise, Paire
<1>2. PortailTypeOK
  BY <1>1, BornesDuPortail, TypesDuPortail DEF PortailInit
<1>3. /\ \A k \in Creneaux : /\ appels[k].fn = "aucune" /\ appels[k].etape = "premiere"
                             /\ appels[k].etat = "envoye" /\ appels[k].paire = 0
                             /\ appels[k].avec = 0
      /\ \A i \in Paires : ~paires[i].valide /\ ~paires[i].vivante
      /\ onglet.jetons = 0 /\ onglet.profil = Personne
  BY DEF PortailInit, AucunRetour, PasEmise
<1>4. PortailTypeInv
  BY <1>2, <1>3 DEF PortailTypeInv, Nommees, Emise, RetoursSains
<1>5. SessionInv
  BY <1>3 DEF SessionInv, AppelTenu, ReponseTenue, OngletTenu, PairesTenues
<1> QED
  BY <1>4, <1>5

(* What the parts of the actions do to a function awaiting an answer, but   *)
(* for the screen it belongs to.                                            *)
MemeRetour(j) ==
  /\ appels'[j].fn = appels[j].fn /\ appels'[j].etape = appels[j].etape
  /\ appels'[j].compte = appels[j].compte /\ appels'[j].avec = appels[j].avec
  /\ appels'[j].etat = appels[j].etat /\ appels'[j].paire = appels[j].paire
  /\ appels'[j].profil = appels[j].profil

AutresRetours(k) == \A j \in Creneaux : j # k => MemeRetour(j)

RetourVide(k) ==
  /\ appels'[k].fn = "aucune" /\ appels'[k].etape = "premiere" /\ appels'[k].avec = 0
  /\ appels'[k].etat = "envoye" /\ appels'[k].paire = 0

EtatOnglet == [jetons : 0..NbPaires, profil : Profil \cup {Personne}, chargement : BOOLEAN,
           envoi : BOOLEAN]

LEMMA LancerEffet ==
  ASSUME PortailTypeOK, NEW k \in Creneaux, NEW c \in Utilisateurs \cup {Personne},
         NEW fn \in {"connexion", "changer", "deconnexion"}, Lancer(k, fn, "premiere", c)
  PROVE  /\ appels' \in [Creneaux -> Retour] /\ AutresRetours(k) /\ appels[k].fn = "aucune"
         /\ appels'[k].fn = fn /\ appels'[k].etape = "premiere" /\ appels'[k].compte = c
         /\ appels'[k].avec = onglet.jetons /\ appels'[k].etat = "envoye"
         /\ appels'[k].paire = 0
         /\ UNCHANGED <<paires, provisoires, perdus, demiChange>>
<1> DEFINE a == Appel(fn, "premiere", c)
<1>1. /\ a \in Retour /\ a.fn = fn /\ a.etape = "premiere" /\ a.compte = c
      /\ a.avec = onglet.jetons /\ a.etat = "envoye" /\ a.paire = 0
  <2>1. fn \in {"restaurer", "connexion", "changer", "deconnexion"}
        /\ "premiere" \in {"premiere", "profil"}
    OBVIOUS
  <2>2. a \in Retour
    BY <2>1, AppelType
  <2> QED
    BY <2>2 DEF Appel, AucunRetour
<1> HIDE DEF a
<1>2. appels' = [appels EXCEPT ![k] = a] /\ appels \in [Creneaux -> Retour]
  BY TypesDuPortail DEF Lancer, a
<1> QED
  BY <1>1, <1>2 DEF Lancer, Libre, AutresRetours, MemeRetour

LEMMA RendreEffet ==
  ASSUME PortailTypeOK, NEW k \in Creneaux, NEW i \in 0..NbPaires,
         NEW p \in Profil \cup {Personne}, Rendre(k, i, p)
  PROVE  /\ appels' \in [Creneaux -> Retour] /\ AutresRetours(k)
         /\ appels'[k].fn = appels[k].fn /\ appels'[k].etape = appels[k].etape
         /\ appels'[k].compte = appels[k].compte /\ appels'[k].avec = appels[k].avec
         /\ appels'[k].etat = "rendu" /\ appels'[k].paire = i /\ appels'[k].profil = p
<1>1. appels \in [Creneaux -> Retour]
  BY TypesDuPortail
<1>2. DEFINE r == [appels[k] EXCEPT !.etat = "rendu", !.paire = i, !.profil = p]
<1>3. r \in Retour /\ r.fn = appels[k].fn /\ r.etape = appels[k].etape
      /\ r.compte = appels[k].compte /\ r.avec = appels[k].avec
      /\ r.etat = "rendu" /\ r.paire = i /\ r.profil = p
  BY <1>1 DEF Retour
<1>4. appels' = [appels EXCEPT ![k] = r]
  BY <1>1 DEF Rendre
<1> HIDE DEF r
<1> QED
  BY <1>1, <1>3, <1>4 DEF AutresRetours, MemeRetour

LEMMA FinisEffet ==
  ASSUME PortailTypeOK, NEW k \in Creneaux
  PROVE  /\ Finis(k) \in [Creneaux -> Retour]
         /\ \A j \in Creneaux : j # k => Finis(k)[j] = appels[j]
         /\ Finis(k)[k].fn = "aucune" /\ Finis(k)[k].etape = "premiere"
         /\ Finis(k)[k].avec = 0 /\ Finis(k)[k].etat = "envoye" /\ Finis(k)[k].paire = 0
<1>1. AucunRetour \in Retour /\ appels \in [Creneaux -> Retour]
  BY BornesDuPortail, TypesDuPortail DEF AucunRetour, Retour
<1>2. /\ AucunRetour.fn = "aucune" /\ AucunRetour.etape = "premiere"
      /\ AucunRetour.avec = 0 /\ AucunRetour.etat = "envoye" /\ AucunRetour.paire = 0
  BY DEF AucunRetour
<1> QED
  BY <1>1, <1>2 DEF Finis

LEMMA MontrerEffet ==
  ASSUME PortailTypeOK, NEW k \in Creneaux, NEW p \in Profil \cup {Personne},
         NEW t \in 0..NbPaires, NEW fini \in BOOLEAN, Montrer(p, t, Finis(k), fini)
  PROVE  /\ appels' \in [Creneaux -> Retour] /\ AutresRetours(k) /\ RetourVide(k)
         /\ onglet' \in EtatOnglet /\ onglet'.jetons = t /\ onglet'.profil = p
<1>1. onglet \in EtatOnglet
  BY TypesDuPortail DEF EtatOnglet
<1>2. onglet' \in EtatOnglet /\ onglet'.jetons = t /\ onglet'.profil = p
  <2>1. CASE Ecran(p) = Ecran(onglet.profil)
    <3>1. \E b \in BOOLEAN :
            onglet' = [onglet EXCEPT !.profil = p, !.jetons = t, !.chargement = FALSE,
                                     !.envoi = b]
      BY <1>1, <2>1 DEF Montrer, EtatOnglet
    <3> QED
      BY <1>1, <3>1 DEF EtatOnglet
  <2>2. CASE Ecran(p) # Ecran(onglet.profil)
    BY <1>1, <2>2 DEF Montrer, EtatOnglet
  <2> QED
    BY <2>1, <2>2
<1>3. appels' \in [Creneaux -> Retour] /\ AutresRetours(k) /\ RetourVide(k)
  <2>1. CASE appels' = Finis(k)
    BY <2>1, FinisEffet DEF AutresRetours, MemeRetour, RetourVide
  <2>2. CASE appels' = [j \in Creneaux |->
                          [Finis(k)[j] EXCEPT !.vive = Finis(k)[j].fn = "aucune"]]
    <3>1. \A j \in Creneaux :
            LET a == Finis(k)[j]
                b == [a EXCEPT !.vive = a.fn = "aucune"] IN
            /\ b \in Retour /\ b.fn = a.fn /\ b.etape = a.etape /\ b.compte = a.compte
            /\ b.avec = a.avec /\ b.etat = a.etat /\ b.paire = a.paire /\ b.profil = a.profil
      <4>1. \A a \in Retour : LET b == [a EXCEPT !.vive = a.fn = "aucune"] IN
               /\ b \in Retour /\ b.fn = a.fn /\ b.etape = a.etape /\ b.compte = a.compte
               /\ b.avec = a.avec /\ b.etat = a.etat /\ b.paire = a.paire
               /\ b.profil = a.profil
        BY DEF Retour
      <4> QED
        BY <4>1, FinisEffet
    <3>2. \A j \in Creneaux :
            /\ appels'[j] \in Retour /\ appels'[j].fn = Finis(k)[j].fn
            /\ appels'[j].etape = Finis(k)[j].etape /\ appels'[j].compte = Finis(k)[j].compte
            /\ appels'[j].avec = Finis(k)[j].avec /\ appels'[j].etat = Finis(k)[j].etat
            /\ appels'[j].paire = Finis(k)[j].paire /\ appels'[j].profil = Finis(k)[j].profil
      BY <2>2, <3>1
    <3>3. appels' \in [Creneaux -> Retour]
      BY <2>2, <3>1
    <3> QED
      BY <3>2, <3>3, FinisEffet DEF AutresRetours, MemeRetour, RetourVide
  <2> QED
    BY <2>1, <2>2 DEF Montrer
<1> QED
  BY <1>2, <1>3

LEMMA EmettreEffet ==
  ASSUME PortailTypeOK, NEW i \in Paires, NEW c \in Utilisateurs, NEW b \in BOOLEAN,
         NEW avant \in [Paires -> Paire], Emettre(i, c, b, avant)
  PROVE  /\ paires' \in [Paires -> Paire] /\ paires[i].compte = Personne
         /\ \A j \in Paires : j # i => paires'[j] = avant[j]
         /\ paires'[i].compte = c /\ paires'[i].provisoire = b /\ paires'[i].valide
         /\ paires'[i].vivante
BY DEF Emettre, Paire

PortailInv == PortailTypeInv /\ SessionInv

(* A live pair is still held, on its way, or counted as lost.               *)
LEMMA PairesSuivies ==
  ASSUME PairesTenues, NEW k \in Creneaux, AutresRetours(k), perdus \subseteq perdus',
         \A i \in PaireRendue(k) :
           i \in PaireRendue(k)' \/ i = onglet'.jetons \/ i \in perdus',
         \A i \in Paires \ perdus' :
           paires'[i].vivante =>
             \/ i \in PaireRendue(k)'
             \/ paires[i].vivante /\ (i = onglet.jetons => i = onglet'.jetons)
  PROVE  PairesTenues'
<1> SUFFICES ASSUME NEW i \in Paires \ perdus', paires'[i].vivante
             PROVE  i = onglet'.jetons \/ \E j \in Creneaux : i \in PaireRendue(j)'
  BY DEF PairesTenues
<1>1. \A j \in Creneaux : j # k => PaireRendue(j)' = PaireRendue(j)
  BY DEF AutresRetours, MemeRetour, PaireRendue
<1>2. CASE i \in PaireRendue(k)'
  BY <1>2
<1>3. CASE paires[i].vivante /\ (i = onglet.jetons => i = onglet'.jetons)
  <2>1. i = onglet.jetons \/ \E j \in Creneaux : i \in PaireRendue(j)
    BY <1>3 DEF PairesTenues
  <2> QED
    BY <1>1, <1>3, <2>1
<1> QED
  BY <1>2, <1>3

LEMMA ConnexionStable ==
  ASSUME PortailInv, NEW k \in Creneaux, NEW c \in Utilisateurs, Connexion(k, c)
  PROVE  PortailInv'
<1> USE DEF PortailInv
<1>1. /\ appels' \in [Creneaux -> Retour] /\ AutresRetours(k) /\ appels[k].fn = "aucune"
      /\ appels'[k].fn = "connexion" /\ appels'[k].etape = "premiere"
      /\ appels'[k].compte = c /\ appels'[k].avec = onglet.jetons
      /\ appels'[k].etat = "envoye" /\ appels'[k].paire = 0
      /\ UNCHANGED <<paires, provisoires, perdus, demiChange>>
  BY LancerEffet DEF Connexion, PortailTypeInv
<1>2. /\ onglet' \in EtatOnglet /\ onglet'.jetons = onglet.jetons
      /\ onglet'.profil = onglet.profil /\ onglet.profil = Personne
      /\ croisee' \in BOOLEAN
      /\ ~croisee' => ~croisee /\ \A j \in Creneaux : appels[j].fn \notin Fonctions
  BY TypesDuPortail DEF Connexion, EtatOnglet, Ecran, EnCours, PortailTypeInv
<1>3. \A j \in Creneaux : appels[j].fn \in Fonctions \cup {"aucune"}
  BY TypesDuPortail DEF PortailTypeInv, Retour, Fonctions
<1>4. PortailTypeInv'
  <2>1. PortailTypeOK'
    BY <1>1, <1>2, TypesDuPortail DEF PortailTypeInv, PortailTypeOK, EtatOnglet, Retour
  <2>2. Nommees'
    BY <1>1, <1>2 DEF PortailTypeInv, Nommees, Emise, AutresRetours, MemeRetour
  <2>3. RetoursSains'
    BY <1>1 DEF PortailTypeInv, RetoursSains, AutresRetours, MemeRetour
  <2> QED
    BY <2>1, <2>2, <2>3 DEF PortailTypeInv
<1>5. SessionInv'
  <2> SUFFICES ASSUME ~croisee'
               PROVE  /\ \A j \in Creneaux : AppelTenu(j)' /\ ReponseTenue(j)'
                      /\ OngletTenu' /\ PairesTenues'
    BY DEF SessionInv
  <2>1. ~croisee /\ \A j \in Creneaux : appels[j].fn = "aucune"
    BY <1>2, <1>3
  <2>2. \A j \in Creneaux : j # k => appels'[j].fn = "aucune"
    BY <1>1, <2>1 DEF AutresRetours, MemeRetour
  <2>3. onglet.jetons = 0
    BY <1>2, <2>1 DEF SessionInv, OngletTenu, EnCours, Fonctions
  <2>4. \A j \in Creneaux : AppelTenu(j)' /\ ReponseTenue(j)'
    <3>1. AppelTenu(k)' /\ ReponseTenue(k)'
      BY <1>1, <1>2, <2>2, <2>3 DEF AppelTenu, ReponseTenue, Seul
    <3>2. ASSUME NEW j \in Creneaux, j # k PROVE AppelTenu(j)' /\ ReponseTenue(j)'
      <4>1. appels'[j].fn = "aucune" /\ appels'[j].etape = "premiere"
        BY <1>1, <2>1, <3>2
           DEF PortailTypeInv, RetoursSains, AutresRetours, MemeRetour, PortailTypeOK
      <4> QED
        BY <4>1 DEF AppelTenu, ReponseTenue
    <3> QED
      BY <3>1, <3>2
  <2>5. OngletTenu'
    BY <1>1, <1>2, <2>3 DEF OngletTenu, EnCours, Fonctions
  <2>6. PairesTenues'
    <3>1. PaireRendue(k) = {}
      BY <1>1 DEF PortailTypeInv, RetoursSains, PaireRendue
    <3> QED
      BY <1>1, <1>2, <2>1, <3>1, PairesSuivies DEF SessionInv
  <2> QED
    BY <2>4, <2>5, <2>6
<1> QED
  BY <1>4, <1>5

LEMMA ChangerMotDePasseStable ==
  ASSUME PortailInv, NEW k \in Creneaux, ChangerMotDePasse(k)
  PROVE  PortailInv'
<1> USE DEF PortailInv
<1>1. onglet.profil \in Profil /\ onglet.profil # Personne /\ onglet.profil.provisoire
      /\ ~onglet.envoi
  BY TypesDuPortail DEF ChangerMotDePasse, Ecran, PortailTypeInv
<1>2. /\ appels' \in [Creneaux -> Retour] /\ AutresRetours(k) /\ appels[k].fn = "aucune"
      /\ appels'[k].fn = "changer" /\ appels'[k].etape = "premiere"
      /\ appels'[k].avec = onglet.jetons
      /\ appels'[k].etat = "envoye" /\ appels'[k].paire = 0
      /\ UNCHANGED <<paires, provisoires, perdus, demiChange>>
  BY <1>1, LancerEffet DEF ChangerMotDePasse, PortailTypeInv, Profil
<1>3. /\ onglet' \in EtatOnglet /\ onglet'.jetons = onglet.jetons
      /\ onglet'.profil = onglet.profil /\ onglet'.envoi
      /\ croisee' \in BOOLEAN
      /\ ~croisee' => ~croisee /\ \A j \in Creneaux : appels[j].fn # "deconnexion"
  BY TypesDuPortail DEF ChangerMotDePasse, EtatOnglet, EnCours, PortailTypeInv
<1>4. \A j \in Creneaux : appels[j].fn \in Fonctions \cup {"aucune"}
  BY TypesDuPortail DEF PortailTypeInv, Retour, Fonctions
<1>5. PortailTypeInv'
  <2>1. PortailTypeOK'
    BY <1>2, <1>3, TypesDuPortail DEF PortailTypeInv, PortailTypeOK, EtatOnglet, Retour
  <2>2. Nommees'
    BY <1>2, <1>3 DEF PortailTypeInv, Nommees, Emise, AutresRetours, MemeRetour
  <2>3. RetoursSains'
    BY <1>2 DEF PortailTypeInv, RetoursSains, AutresRetours, MemeRetour
  <2> QED
    BY <2>1, <2>2, <2>3 DEF PortailTypeInv
<1>6. SessionInv'
  <2> SUFFICES ASSUME ~croisee'
               PROVE  /\ \A j \in Creneaux : AppelTenu(j)' /\ ReponseTenue(j)'
                      /\ OngletTenu' /\ PairesTenues'
    BY DEF SessionInv
  <2>1. ~croisee
    BY <1>3
  <2>2. \A j \in Creneaux : appels[j].fn = "aucune"
    BY <1>1, <1>3, <1>4, <2>1 DEF SessionInv, AppelTenu, Fonctions
  <2>3. \A j \in Creneaux : j # k => appels'[j].fn = "aucune"
    BY <1>2, <2>2 DEF AutresRetours, MemeRetour
  <2>4. \A j \in Creneaux : AppelTenu(j)' /\ ReponseTenue(j)'
    <3>1. AppelTenu(k)' /\ ReponseTenue(k)'
      BY <1>1, <1>2, <1>3, <2>3 DEF AppelTenu, ReponseTenue, Seul
    <3>2. ASSUME NEW j \in Creneaux, j # k PROVE AppelTenu(j)' /\ ReponseTenue(j)'
      <4>1. appels'[j].fn = "aucune" /\ appels'[j].etape = "premiere"
        BY <1>2, <2>2, <3>2, TypesDuPortail
           DEF PortailTypeInv, RetoursSains, AutresRetours, MemeRetour, Retour
      <4> QED
        BY <4>1 DEF AppelTenu, ReponseTenue
    <3> QED
      BY <3>1, <3>2
  <2>5. OngletTenu'
    <3>1. ~ChangementServi
      BY <2>2 DEF ChangementServi
    <3> QED
      BY <1>1, <1>2, <1>3, <2>1, <3>1 DEF SessionInv, OngletTenu
  <2>6. PairesTenues'
    <3>1. PaireRendue(k) = {}
      BY <1>2 DEF PortailTypeInv, RetoursSains, PaireRendue
    <3> QED
      BY <1>2, <1>3, <2>1, <3>1, PairesSuivies DEF SessionInv
  <2> QED
    BY <2>4, <2>5, <2>6
<1> QED
  BY <1>5, <1>6

LEMMA DeconnexionStable ==
  ASSUME PortailInv, NEW k \in Creneaux, Deconnexion(k)
  PROVE  PortailInv'
<1> USE DEF PortailInv
<1>1. /\ appels' \in [Creneaux -> Retour] /\ AutresRetours(k) /\ appels[k].fn = "aucune"
      /\ appels'[k].fn = "deconnexion" /\ appels'[k].etape = "premiere"
      /\ appels'[k].avec = onglet.jetons
      /\ appels'[k].etat = "envoye" /\ appels'[k].paire = 0
      /\ UNCHANGED <<paires, provisoires, perdus, demiChange>>
  BY LancerEffet DEF Deconnexion, PortailTypeInv
<1>2. /\ onglet' = onglet /\ onglet.profil # Personne /\ croisee' \in BOOLEAN
      /\ ~croisee' => ~croisee /\ \A j \in Creneaux : appels[j].fn \notin {"changer", "connexion"}
  BY TypesDuPortail DEF Deconnexion, EnCours, PortailTypeInv
<1>3. PortailTypeInv'
  <2>1. PortailTypeOK'
    BY <1>1, <1>2, TypesDuPortail DEF PortailTypeInv, PortailTypeOK, Retour
  <2>2. Nommees'
    BY <1>1, <1>2 DEF PortailTypeInv, Nommees, Emise, AutresRetours, MemeRetour
  <2>3. RetoursSains'
    BY <1>1 DEF PortailTypeInv, RetoursSains, AutresRetours, MemeRetour
  <2> QED
    BY <2>1, <2>2, <2>3 DEF PortailTypeInv
<1>4. SessionInv'
  <2> SUFFICES ASSUME ~croisee'
               PROVE  /\ \A j \in Creneaux : AppelTenu(j)' /\ ReponseTenue(j)'
                      /\ OngletTenu' /\ PairesTenues'
    BY DEF SessionInv
  <2>1. ~croisee
    BY <1>2
  <2>2. \A j \in Creneaux :
          appels[j].fn \in {"aucune", "deconnexion"} /\ appels[j].etape = "premiere"
    BY <1>2, <2>1, TypesDuPortail
       DEF SessionInv, AppelTenu, PortailTypeInv, RetoursSains, Retour
  <2>3. \A j \in Creneaux : AppelTenu(j)' /\ ReponseTenue(j)'
    <3>1. AppelTenu(k)' /\ ReponseTenue(k)'
      BY <1>1, <1>2 DEF AppelTenu, ReponseTenue
    <3>2. ASSUME NEW j \in Creneaux, j # k PROVE AppelTenu(j)' /\ ReponseTenue(j)'
      <4>1. AppelTenu(j) /\ ReponseTenue(j) /\ MemeRetour(j)
        BY <1>1, <2>1, <3>2 DEF SessionInv, AutresRetours
      <4> QED
        BY <1>1, <1>2, <2>2, <4>1 DEF AppelTenu, ReponseTenue, MemeRetour
    <3> QED
      BY <3>1, <3>2
  <2>4. OngletTenu'
    <3>1. ~ChangementServi
      BY <2>2 DEF ChangementServi
    <3> QED
      BY <1>1, <1>2, <2>1, <3>1 DEF SessionInv, OngletTenu
  <2>5. PairesTenues'
    <3>1. PaireRendue(k) = {}
      BY <1>1 DEF PortailTypeInv, RetoursSains, PaireRendue
    <3> QED
      BY <1>1, <1>2, <2>1, <3>1, PairesSuivies DEF SessionInv
  <2> QED
    BY <2>3, <2>4, <2>5
<1> QED
  BY <1>3, <1>4

LEMMA RechargerStable ==
  ASSUME PortailInv, Recharger
  PROVE  PortailInv'
<1> USE DEF PortailInv
<1>1. /\ AucunRetour \in Retour /\ AucunRetour.fn = "aucune" /\ AucunRetour.etape = "premiere"
      /\ AucunRetour.avec = 0 /\ AucunRetour.etat = "envoye" /\ AucunRetour.paire = 0
  BY BornesDuPortail DEF AucunRetour, Retour
<1> DEFINE a == Appel("restaurer", "profil", Personne)
<1>2. /\ a \in Retour /\ a.fn = "restaurer" /\ a.etape = "profil" /\ a.avec = onglet.jetons
      /\ a.etat = "envoye" /\ a.paire = 0
  <2>1. /\ "restaurer" \in {"restaurer", "connexion", "changer", "deconnexion"}
        /\ "profil" \in {"premiere", "profil"} /\ Personne \in Utilisateurs \cup {Personne}
    OBVIOUS
  <2>2. a \in Retour
    BY <2>1, AppelType DEF PortailTypeInv
  <2> QED
    BY <2>2 DEF Appel, AucunRetour
<1> HIDE DEF a
<1>3. /\ appels' \in [Creneaux -> Retour]
      /\ \A j \in Creneaux :
           \/ /\ appels'[j].fn = "aucune" /\ appels'[j].etape = "premiere"
              /\ appels'[j].avec = 0 /\ (j = 1 => onglet.jetons = 0)
           \/ /\ j = 1 /\ onglet.jetons # 0 /\ appels'[j].fn = "restaurer"
              /\ appels'[j].etape = "profil" /\ appels'[j].avec = onglet.jetons
      /\ \A j \in Creneaux : appels'[j].etat = "envoye" /\ appels'[j].paire = 0
  <2>1. appels' = [j \in Creneaux |-> IF j = 1 /\ onglet.jetons # 0 THEN a ELSE AucunRetour]
    BY DEF Recharger, a
  <2> QED
    BY <1>1, <1>2, <2>1
<1>4. /\ onglet' \in EtatOnglet /\ onglet'.jetons = onglet.jetons /\ onglet'.profil = Personne
      /\ onglet'.chargement = (onglet.jetons # 0)
  <2>1. (onglet.jetons # 0) \in BOOLEAN
    OBVIOUS
  <2> QED
    BY <2>1, TypesDuPortail DEF Recharger, EtatOnglet, PortailTypeInv
<1>5. /\ UNCHANGED <<paires, provisoires, croisee>>
      /\ \A k \in Creneaux : PaireRendue(k) \subseteq perdus'
      /\ perdus \subseteq perdus' /\ perdus' \subseteq Paires
      /\ demiChange' \in BOOLEAN /\ (demiChange => demiChange')
      /\ ~demiChange' => ~ChangementServi
  <2>1. \A k \in Creneaux : PaireRendue(k) \subseteq Paires
    BY TypesDuPortail, BornesDuPortail DEF PaireRendue, PortailTypeInv, Retour
  <2>2. /\ perdus' = perdus \cup UNION {PaireRendue(k) : k \in Creneaux}
        /\ UNCHANGED <<paires, provisoires, croisee>>
        /\ demiChange' = (demiChange \/ \E k \in Creneaux :
                            appels[k].fn = "changer" /\ PaireRendue(k) # {})
    BY DEF Recharger
  <2>3. perdus \subseteq perdus' /\ perdus' \subseteq Paires
        /\ \A k \in Creneaux : PaireRendue(k) \subseteq perdus'
    BY <2>1, <2>2, TypesDuPortail DEF PortailTypeInv
  <2>4. demiChange' \in BOOLEAN /\ (demiChange => demiChange')
    BY <2>2, TypesDuPortail DEF PortailTypeInv
  <2>5. ~demiChange' => ~ChangementServi
    BY <2>2 DEF ChangementServi, PaireRendue, PortailTypeInv, RetoursSains
  <2> QED
    BY <2>2, <2>3, <2>4, <2>5
<1>6. PortailTypeInv'
  <2>1. PortailTypeOK'
    BY <1>3, <1>4, <1>5, TypesDuPortail DEF PortailTypeInv, PortailTypeOK, EtatOnglet, Retour, Paire
  <2>2. Nommees'
    BY <1>3, <1>4, <1>5 DEF PortailTypeInv, Nommees, Emise
  <2>3. RetoursSains'
    BY <1>3 DEF RetoursSains
  <2> QED
    BY <2>1, <2>2, <2>3 DEF PortailTypeInv
<1>7. SessionInv'
  <2> SUFFICES ASSUME ~croisee'
               PROVE  /\ \A j \in Creneaux : AppelTenu(j)' /\ ReponseTenue(j)'
                      /\ OngletTenu' /\ PairesTenues'
    BY DEF SessionInv
  <2>1. ~croisee
    BY <1>5
  <2>2. \A j \in Creneaux : AppelTenu(j)' /\ ReponseTenue(j)'
    BY <1>3, <1>4 DEF AppelTenu, ReponseTenue, Seul
  <2>3. OngletTenu'
    <3>1. onglet'.profil = Personne /\ onglet'.jetons = onglet.jetons
      BY <1>4
    <3>2. ~EnCours(Fonctions)' => onglet.jetons = 0
      <4>1. CASE appels'[1].fn = "restaurer"
        BY <4>1, BornesDuPortail DEF EnCours, Fonctions
      <4>2. CASE appels'[1].fn # "restaurer"
        BY <1>3, <4>2, BornesDuPortail
      <4> QED
        BY <4>1, <4>2
    <3>3. ~demiChange' => ~demiChange /\ ~ChangementServi
      BY <1>5
    <3>4. OngletTenu
      BY <2>1 DEF SessionInv
    <3> QED
      BY <1>5, <3>1, <3>2, <3>3, <3>4 DEF OngletTenu
  <2>4. PairesTenues'
    BY <1>4, <1>5, <2>1 DEF SessionInv, PairesTenues
  <2> QED
    BY <2>2, <2>3, <2>4
<1> QED
  BY <1>6, <1>7

-----------------------------------------------------------------------------
(* The service.                                                             *)

LEMMA ServirConnexionStable ==
  ASSUME PortailInv, NEW k \in Creneaux, ServirConnexion(k)
  PROVE  PortailInv'
<1> USE DEF PortailInv
<1> DEFINE c == appels[k].compte
<1>1. c \in Utilisateurs /\ appels[k].fn = "connexion" /\ appels[k].etape = "premiere"
      /\ appels[k].etat = "envoye"
  BY DEF ServirConnexion, PortailTypeInv, RetoursSains
<1>2. PICK i \in Paires : Emettre(i, c, c \in provisoires, paires) /\ Rendre(k, i, Personne)
  BY DEF ServirConnexion
<1>3. UNCHANGED <<provisoires, onglet, croisee, perdus, demiChange>>
  BY DEF ServirConnexion
<1>4. paires \in [Paires -> Paire] /\ (c \in provisoires) \in BOOLEAN
  BY TypesDuPortail DEF PortailTypeInv
<1>5. /\ paires' \in [Paires -> Paire] /\ paires[i].compte = Personne
      /\ \A j \in Paires : j # i => paires'[j] = paires[j]
      /\ paires'[i].compte = c /\ paires'[i].provisoire = (c \in provisoires)
      /\ paires'[i].valide /\ paires'[i].vivante
  <2>1. paires' = [paires EXCEPT ![i] = [compte |-> c, provisoire |-> (c \in provisoires),
                                         valide |-> TRUE, vivante |-> TRUE]]
        /\ paires[i].compte = Personne
    BY <1>2 DEF Emettre
  <2> QED
    BY <1>1, <1>4, <2>1 DEF Paire
<1>6. /\ appels' \in [Creneaux -> Retour] /\ AutresRetours(k)
      /\ appels'[k].fn = "connexion" /\ appels'[k].etape = "premiere"
      /\ appels'[k].compte = c /\ appels'[k].avec = appels[k].avec
      /\ appels'[k].etat = "rendu" /\ appels'[k].paire = i /\ appels'[k].profil = Personne
  BY <1>1, <1>2, RendreEffet, BornesDuPortail DEF PortailTypeInv
<1>7. \A j \in 0..NbPaires : j # 0 /\ paires[j].compte \in Utilisateurs => paires'[j] = paires[j]
  BY <1>5, BornesDuPortail
<1>8. PortailTypeInv'
  <2>1. PortailTypeOK'
    BY <1>3, <1>5, <1>6, TypesDuPortail DEF PortailTypeInv, PortailTypeOK, Paire, Retour
  <2>2. Nommees'
    BY <1>1, <1>3, <1>5, <1>6, <1>7, TypesDuPortail, BornesDuPortail
       DEF PortailTypeInv, Nommees, Emise, AutresRetours, MemeRetour, Retour
  <2>3. RetoursSains'
    BY <1>1, <1>6, BornesDuPortail DEF PortailTypeInv, RetoursSains, AutresRetours, MemeRetour
  <2> QED
    BY <2>1, <2>2, <2>3 DEF PortailTypeInv
<1>9. SessionInv'
  <2> SUFFICES ASSUME ~croisee'
               PROVE  /\ \A j \in Creneaux : AppelTenu(j)' /\ ReponseTenue(j)'
                      /\ OngletTenu' /\ PairesTenues'
    BY DEF SessionInv
  <2>1. ~croisee
    BY <1>3
  <2>2. /\ onglet.jetons = 0 /\ onglet.profil = Personne /\ Seul(k)
    BY <1>1, <2>1 DEF SessionInv, AppelTenu
  <2>3. \A j \in Creneaux : AppelTenu(j)' /\ ReponseTenue(j)'
    <3>1. AppelTenu(k)' /\ ReponseTenue(k)'
      BY <1>3, <1>5, <1>6, <2>2 DEF AppelTenu, ReponseTenue, Seul, AutresRetours, MemeRetour
    <3>2. ASSUME NEW j \in Creneaux, j # k PROVE AppelTenu(j)' /\ ReponseTenue(j)'
      <4>1. appels'[j].fn = "aucune" /\ appels'[j].etape = "premiere"
        BY <1>6, <2>2, <3>2, TypesDuPortail
           DEF PortailTypeInv, RetoursSains, AutresRetours, MemeRetour, Retour, Seul
      <4> QED
        BY <4>1 DEF AppelTenu, ReponseTenue
    <3> QED
      BY <3>1, <3>2
  <2>4. OngletTenu'
    BY <1>3, <1>6, <2>2 DEF OngletTenu, EnCours, Fonctions
  <2>5. PairesTenues'
    <3>1. PaireRendue(k) = {} /\ PaireRendue(k)' = {i}
      BY <1>1, <1>6, BornesDuPortail DEF PaireRendue
    <3> QED
      BY <1>3, <1>5, <1>6, <2>1, <3>1, PairesSuivies DEF SessionInv
  <2> QED
    BY <2>3, <2>4, <2>5
<1> QED
  BY <1>8, <1>9

LEMMA ServirChangementStable ==
  ASSUME PortailInv, NEW k \in Creneaux, ServirChangement(k)
  PROVE  PortailInv'
<1> USE DEF PortailInv
<1> DEFINE c == Porteur(k)
           revoquees == [i \in Paires |-> [paires[i] EXCEPT !.vivante = @ /\ paires[i].compte # c]]
<1>1. /\ appels[k].fn = "changer" /\ appels[k].etape = "premiere" /\ appels[k].etat = "envoye"
      /\ appels[k].avec \in Paires /\ c \in Utilisateurs /\ c = paires[appels[k].avec].compte
  BY TypesDuPortail, BornesDuPortail
     DEF ServirChangement, Presente, Porteur, PortailTypeInv, Nommees, Emise, Retour
<1>2. PICK i \in Paires : Emettre(i, c, FALSE, revoquees) /\ Rendre(k, i, Personne)
  BY DEF ServirChangement
<1>3. provisoires' = provisoires \ {c} /\ UNCHANGED <<onglet, croisee, perdus, demiChange>>
  BY DEF ServirChangement
<1>4. /\ revoquees \in [Paires -> Paire]
      /\ \A j \in Paires : /\ revoquees[j].compte = paires[j].compte
                           /\ revoquees[j].provisoire = paires[j].provisoire
                           /\ revoquees[j].valide = paires[j].valide
                           /\ revoquees[j].vivante => paires[j].vivante /\ paires[j].compte # c
  <2>1. \A j \in Paires : LET r == [paires[j] EXCEPT !.vivante = @ /\ paires[j].compte # c] IN
          /\ r \in Paire /\ r.compte = paires[j].compte
          /\ r.provisoire = paires[j].provisoire /\ r.valide = paires[j].valide
          /\ r.vivante => paires[j].vivante /\ paires[j].compte # c
    BY TypesDuPortail DEF PortailTypeInv, Paire
  <2> QED
    BY <2>1
<1> HIDE DEF revoquees
<1>5. /\ paires' \in [Paires -> Paire] /\ paires[i].compte = Personne
      /\ \A j \in Paires : j # i => paires'[j] = revoquees[j]
      /\ paires'[i].compte = c /\ ~paires'[i].provisoire
      /\ paires'[i].valide /\ paires'[i].vivante
  <2>1. paires' = [revoquees EXCEPT ![i] = [compte |-> c, provisoire |-> FALSE,
                                            valide |-> TRUE, vivante |-> TRUE]]
        /\ paires[i].compte = Personne
    BY <1>2 DEF Emettre
  <2> QED
    BY <1>1, <1>4, <2>1 DEF Paire
<1>6. /\ appels' \in [Creneaux -> Retour] /\ AutresRetours(k)
      /\ appels'[k].fn = "changer" /\ appels'[k].etape = "premiere"
      /\ appels'[k].compte = appels[k].compte /\ appels'[k].avec = appels[k].avec
      /\ appels'[k].etat = "rendu" /\ appels'[k].paire = i /\ appels'[k].profil = Personne
  BY <1>1, <1>2, RendreEffet, BornesDuPortail DEF PortailTypeInv
<1>7. \A j \in 0..NbPaires : j # 0 /\ paires[j].compte \in Utilisateurs =>
        /\ j # i /\ paires'[j].compte = paires[j].compte
        /\ paires'[j].provisoire = paires[j].provisoire
  BY <1>4, <1>5, BornesDuPortail
<1>8. PortailTypeInv'
  <2>1. PortailTypeOK'
    BY <1>3, <1>5, <1>6, TypesDuPortail DEF PortailTypeInv, PortailTypeOK, Paire, Retour
  <2>2. Nommees'
    <3>1. ASSUME NEW j \in 0..NbPaires, Emise(j) PROVE Emise(j)'
      BY <1>7, <3>1 DEF Emise
    <3>2. ASSUME NEW j \in Paires, paires'[j].valide \/ paires'[j].vivante PROVE Emise(j)'
      <4>1. CASE j = i
        BY <1>1, <1>5, <4>1 DEF Emise
      <4>2. CASE j # i
        <5>1. paires[j].valide \/ paires[j].vivante
          BY <1>4, <1>5, <3>2, <4>2
        <5>2. Emise(j) /\ j \in 0..NbPaires
          BY <5>1, BornesDuPortail DEF PortailTypeInv, Nommees
        <5> QED
          BY <3>1, <5>2
      <4> QED
        BY <4>1, <4>2
    <3>3. Emise(onglet.jetons)'
      <4>1. Emise(onglet.jetons) /\ onglet.jetons \in 0..NbPaires /\ onglet' = onglet
        BY <1>3, TypesDuPortail DEF PortailTypeInv, Nommees
      <4> QED
        BY <1>7, <4>1 DEF Emise
    <3>4. ASSUME NEW j \in Creneaux
          PROVE  Emise(appels[j].avec)' /\ Emise(appels[j].paire)'
      <4>1. /\ Emise(appels[j].avec) /\ Emise(appels[j].paire)
            /\ appels[j].avec \in 0..NbPaires /\ appels[j].paire \in 0..NbPaires
        BY TypesDuPortail DEF PortailTypeInv, Nommees, Retour
      <4>2. paires'[i].compte \in Utilisateurs
        BY <1>1, <1>5
      <4>3. appels'[j].avec = appels[j].avec
            /\ (appels'[j].paire = appels[j].paire \/ appels'[j].paire = i)
        BY <1>6 DEF AutresRetours, MemeRetour
      <4> QED
        BY <1>7, <4>1, <4>2, <4>3 DEF Emise
    <3> QED
      BY <3>2, <3>3, <3>4 DEF Nommees
  <2>3. RetoursSains'
    BY <1>1, <1>6, BornesDuPortail DEF PortailTypeInv, RetoursSains, AutresRetours, MemeRetour
  <2> QED
    BY <2>1, <2>2, <2>3 DEF PortailTypeInv
<1>9. SessionInv'
  <2> SUFFICES ASSUME ~croisee'
               PROVE  /\ \A j \in Creneaux : AppelTenu(j)' /\ ReponseTenue(j)'
                      /\ OngletTenu' /\ PairesTenues'
    BY DEF SessionInv
  <2>1. ~croisee
    BY <1>3
  <2>2. /\ onglet.jetons = appels[k].avec /\ onglet.profil # Personne
        /\ onglet.profil.provisoire /\ onglet.envoi /\ Seul(k)
    BY <1>1, <2>1 DEF SessionInv, AppelTenu
  <2>3. /\ onglet.jetons \in Paires /\ paires[onglet.jetons].compte = c /\ onglet.jetons # i
        /\ onglet.profil.compte = c
    BY <1>1, <1>5, <2>1, <2>2, BornesDuPortail DEF SessionInv, OngletTenu
  <2>4. ~paires'[onglet.jetons].vivante /\ paires'[onglet.jetons].compte = c
    BY <1>4, <1>5, <2>3
  <2>5. \A j \in Creneaux : AppelTenu(j)' /\ ReponseTenue(j)'
    <3>1. AppelTenu(k)' /\ ReponseTenue(k)'
      BY <1>3, <1>5, <1>6, <2>2, <2>3, <2>4
         DEF AppelTenu, ReponseTenue, Seul, AutresRetours, MemeRetour
    <3>2. ASSUME NEW j \in Creneaux, j # k PROVE AppelTenu(j)' /\ ReponseTenue(j)'
      <4>1. appels'[j].fn = "aucune" /\ appels'[j].etape = "premiere"
        BY <1>6, <2>2, <3>2, TypesDuPortail
           DEF PortailTypeInv, RetoursSains, AutresRetours, MemeRetour, Retour, Seul
      <4> QED
        BY <4>1 DEF AppelTenu, ReponseTenue
    <3> QED
      BY <3>1, <3>2
  <2>6. OngletTenu'
    <3>1. ChangementServi'
      BY <1>6 DEF ChangementServi
    <3> QED
      BY <1>3, <2>2, <2>3, <2>4, <3>1, BornesDuPortail DEF OngletTenu
  <2>7. PairesTenues'
    <3>1. PaireRendue(k) = {} /\ PaireRendue(k)' = {i}
      BY <1>1, <1>6, BornesDuPortail DEF PaireRendue
    <3> QED
      BY <1>3, <1>4, <1>5, <1>6, <2>1, <3>1, PairesSuivies DEF SessionInv
  <2> QED
    BY <2>5, <2>6, <2>7
<1> QED
  BY <1>8, <1>9

LEMMA ServirDeconnexionStable ==
  ASSUME PortailInv, NEW k \in Creneaux, ServirDeconnexion(k)
  PROVE  PortailInv'
<1> USE DEF PortailInv
<1> DEFINE p == appels[k].avec
<1>1. /\ appels[k].fn = "deconnexion" /\ appels[k].etat = "envoye"
      /\ appels[k].etape = "premiere" /\ p \in Paires
  BY TypesDuPortail, BornesDuPortail
     DEF ServirDeconnexion, Presente, PortailTypeInv, RetoursSains, Retour
<1>2. UNCHANGED <<provisoires, onglet, croisee, perdus, demiChange>>
  BY DEF ServirDeconnexion
<1>3. /\ paires' \in [Paires -> Paire] /\ ~paires'[p].vivante
      /\ \A j \in Paires : /\ paires'[j].compte = paires[j].compte
                           /\ paires'[j].provisoire = paires[j].provisoire
                           /\ paires'[j].valide = paires[j].valide
                           /\ paires'[j].vivante => paires[j].vivante
  <2>1. paires' = [paires EXCEPT ![p] = [paires[p] EXCEPT !.vivante = FALSE]]
        /\ paires \in [Paires -> Paire]
    BY TypesDuPortail DEF ServirDeconnexion, PortailTypeInv
  <2>2. LET r == [paires[p] EXCEPT !.vivante = FALSE] IN
        /\ r \in Paire /\ r.compte = paires[p].compte /\ r.provisoire = paires[p].provisoire
        /\ r.valide = paires[p].valide /\ ~r.vivante
    BY <1>1, <2>1 DEF Paire
  <2> HIDE DEF p
  <2> QED
    BY <1>1, <2>1, <2>2
<1>4. /\ appels' \in [Creneaux -> Retour] /\ AutresRetours(k)
      /\ appels'[k].fn = "deconnexion" /\ appels'[k].etape = "premiere"
      /\ appels'[k].compte = appels[k].compte /\ appels'[k].avec = p
      /\ appels'[k].etat = "rendu" /\ appels'[k].paire = 0 /\ appels'[k].profil = Personne
  BY <1>1, RendreEffet, BornesDuPortail DEF PortailTypeInv, ServirDeconnexion
<1>5. PortailTypeInv'
  <2>1. PortailTypeOK'
    BY <1>2, <1>3, <1>4, TypesDuPortail DEF PortailTypeInv, PortailTypeOK, Paire, Retour
  <2>2. Nommees'
    BY <1>2, <1>3, <1>4, TypesDuPortail, BornesDuPortail
       DEF PortailTypeInv, Nommees, Emise, AutresRetours, MemeRetour, Retour
  <2>3. RetoursSains'
    BY <1>1, <1>4, BornesDuPortail DEF PortailTypeInv, RetoursSains, AutresRetours, MemeRetour
  <2> QED
    BY <2>1, <2>2, <2>3 DEF PortailTypeInv
<1>6. SessionInv'
  <2> SUFFICES ASSUME ~croisee'
               PROVE  /\ \A j \in Creneaux : AppelTenu(j)' /\ ReponseTenue(j)'
                      /\ OngletTenu' /\ PairesTenues'
    BY DEF SessionInv
  <2>1. ~croisee /\ onglet.jetons \in {0, p}
    BY <1>1, <1>2 DEF SessionInv, AppelTenu
  <2>2. \A j \in Creneaux : AppelTenu(j)' /\ ReponseTenue(j)'
    <3>1. AppelTenu(k)' /\ ReponseTenue(k)'
      BY <1>2, <1>3, <1>4, <2>1 DEF AppelTenu, ReponseTenue
    <3>2. ASSUME NEW j \in Creneaux, j # k PROVE AppelTenu(j)' /\ ReponseTenue(j)'
      <4>1. AppelTenu(j) /\ ReponseTenue(j) /\ MemeRetour(j)
        BY <1>4, <2>1, <3>2 DEF SessionInv, AutresRetours
      <4>2. appels[j].fn \in {"aucune", "deconnexion"}
        BY <1>1, <3>2, <2>1, TypesDuPortail DEF SessionInv, AppelTenu, Seul, PortailTypeInv, Retour
      <4>3. appels[j].etape = "premiere"
        BY <4>2, TypesDuPortail DEF PortailTypeInv, RetoursSains, Retour
      <4> QED
        BY <1>2, <1>3, <2>1, <4>1, <4>2, <4>3, BornesDuPortail
           DEF AppelTenu, ReponseTenue, MemeRetour
    <3> QED
      BY <3>1, <3>2
  <2>3. OngletTenu'
    <3>1. EnCours(Fonctions)'
      BY <1>4 DEF EnCours, Fonctions
    <3>2. ~ChangementServi
      BY <1>1, <2>1 DEF ChangementServi, SessionInv, AppelTenu, Seul
    <3>3. onglet.jetons # 0 => onglet.jetons \in Paires
      BY <1>1, <2>1
    <3>4. OngletTenu
      BY <2>1 DEF SessionInv
    <3> QED
      BY <1>2, <1>3, <3>1, <3>2, <3>3, <3>4 DEF OngletTenu
  <2>4. PairesTenues'
    <3>1. PaireRendue(k) = {}
      BY <1>1 DEF PaireRendue
    <3> QED
      BY <1>2, <1>3, <1>4, <2>1, <3>1, PairesSuivies DEF SessionInv
  <2> QED
    BY <2>2, <2>3, <2>4
<1> QED
  BY <1>5, <1>6

LEMMA ServirProfilStable ==
  ASSUME PortailInv, NEW k \in Creneaux, ServirProfil(k)
  PROVE  PortailInv'
<1> USE DEF PortailInv
<1> DEFINE c == Porteur(k)
<1>1. /\ appels[k].etape = "profil" /\ appels[k].etat = "envoye" /\ appels[k].avec \in Paires
      /\ appels[k].fn \in {"restaurer", "connexion", "changer"} /\ appels[k].paire = 0
      /\ c = paires[appels[k].avec].compte /\ c \in Utilisateurs
  BY TypesDuPortail, BornesDuPortail
     DEF ServirProfil, Presente, Porteur, PortailTypeInv, RetoursSains, Nommees, Emise, Retour
<1>2. UNCHANGED <<paires, provisoires, onglet, croisee, perdus, demiChange>>
  BY DEF ServirProfil
<1>3. PICK p \in Profil : Rendre(k, 0, p) /\ p.compte = c /\ (c \in provisoires => p.provisoire)
  <2>1. Rendre(k, 0, [compte |-> c, provisoire |-> (c \in provisoires)])
    BY DEF ServirProfil
  <2>2. (c \in provisoires) \in BOOLEAN
    OBVIOUS
  <2>3. PICK b \in BOOLEAN : b = (c \in provisoires)
    BY <2>2, Zenon
  <2> DEFINE q == [compte |-> c, provisoire |-> b]
  <2>4. Rendre(k, 0, q)
    BY <2>1, <2>3, Zenon
  <2>5. q \in Profil /\ q.compte = c /\ (c \in provisoires => q.provisoire)
    BY <1>1, <2>3 DEF Profil
  <2> HIDE DEF q
  <2> QED
    BY <2>4, <2>5
<1>4. /\ appels' \in [Creneaux -> Retour] /\ AutresRetours(k)
      /\ appels'[k].fn = appels[k].fn /\ appels'[k].etape = "profil"
      /\ appels'[k].compte = appels[k].compte /\ appels'[k].avec = appels[k].avec
      /\ appels'[k].etat = "rendu" /\ appels'[k].paire = 0 /\ appels'[k].profil = p
  BY <1>1, <1>3, RendreEffet, BornesDuPortail DEF PortailTypeInv
<1>5. PortailTypeInv'
  <2>1. PortailTypeOK'
    BY <1>2, <1>4, TypesDuPortail DEF PortailTypeInv, PortailTypeOK, Paire, Retour
  <2>2. Nommees'
    BY <1>2, <1>4 DEF PortailTypeInv, Nommees, Emise, AutresRetours, MemeRetour
  <2>3. RetoursSains'
    BY <1>1, <1>3, <1>4 DEF PortailTypeInv, RetoursSains, AutresRetours, MemeRetour
  <2> QED
    BY <2>1, <2>2, <2>3 DEF PortailTypeInv
<1>6. SessionInv'
  <2> SUFFICES ASSUME ~croisee'
               PROVE  /\ \A j \in Creneaux : AppelTenu(j)' /\ ReponseTenue(j)'
                      /\ OngletTenu' /\ PairesTenues'
    BY DEF SessionInv
  <2>1. ~croisee
    BY <1>2
  <2>2. \A j \in Creneaux : AppelTenu(j)' /\ ReponseTenue(j)'
    <3>1. AppelTenu(k)' /\ ReponseTenue(k)'
      <4>1. AppelTenu(k)
        BY <2>1 DEF SessionInv
      <4>2. AppelTenu(k)'
        BY <1>1, <1>2, <1>4, <4>1 DEF AppelTenu, Seul, AutresRetours, MemeRetour
      <4>3. ReponseTenue(k)'
        BY <1>1, <1>2, <1>3, <1>4 DEF ReponseTenue
      <4> QED
        BY <4>2, <4>3
    <3>2. ASSUME NEW j \in Creneaux, j # k PROVE AppelTenu(j)' /\ ReponseTenue(j)'
      <4>1. appels'[j].fn = "aucune" /\ appels'[j].etape = "premiere"
        BY <1>1, <1>4, <2>1, <3>2, TypesDuPortail
           DEF PortailTypeInv, RetoursSains, AutresRetours, MemeRetour, Retour, Seul, SessionInv,
               AppelTenu
      <4> QED
        BY <4>1 DEF AppelTenu, ReponseTenue
    <3> QED
      BY <3>1, <3>2
  <2>3. OngletTenu'
    <3>1. EnCours(Fonctions)'
      BY <1>1, <1>4 DEF EnCours, Fonctions
    <3>2. ~ChangementServi
      BY <1>1, <2>1 DEF ChangementServi, SessionInv, AppelTenu, Seul
    <3> QED
      BY <1>2, <2>1, <3>1, <3>2 DEF OngletTenu, SessionInv
  <2>4. PairesTenues'
    <3>1. PaireRendue(k) = {}
      BY <1>1 DEF PaireRendue
    <3> QED
      BY <1>2, <1>4, <2>1, <3>1, PairesSuivies DEF SessionInv
  <2> QED
    BY <2>2, <2>3, <2>4
<1> QED
  BY <1>5, <1>6

LEMMA RefuserStable ==
  ASSUME PortailInv, NEW k \in Creneaux, Refuser(k)
  PROVE  PortailInv'
<1> USE DEF PortailInv
<1>1. /\ UNCHANGED <<paires, provisoires, onglet, croisee>>
      /\ appels[k].fn # "aucune" /\ perdus' = perdus \cup PaireRendue(k)
  BY DEF Refuser
<1>2. /\ appels' \in [Creneaux -> Retour] /\ AutresRetours(k)
      /\ appels'[k].fn = appels[k].fn /\ appels'[k].etape = appels[k].etape
      /\ appels'[k].compte = appels[k].compte /\ appels'[k].avec = appels[k].avec
      /\ appels'[k].etat = "refuse" /\ appels'[k].paire = 0
  <2>1. appels \in [Creneaux -> Retour]
    BY TypesDuPortail DEF PortailTypeInv
  <2> DEFINE r == [appels[k] EXCEPT !.etat = "refuse", !.paire = 0, !.profil = Personne]
  <2>2. /\ r \in Retour /\ r.fn = appels[k].fn /\ r.etape = appels[k].etape
        /\ r.compte = appels[k].compte /\ r.avec = appels[k].avec
        /\ r.etat = "refuse" /\ r.paire = 0
    <3>1. appels[k] \in Retour /\ 0 \in 0..NbPaires
      BY <2>1, BornesDuPortail
    <3> QED
      BY <3>1 DEF Retour
  <2>3. appels' = [appels EXCEPT ![k] = r]
    BY <2>1 DEF Refuser
  <2> HIDE DEF r
  <2> QED
    BY <2>1, <2>2, <2>3 DEF AutresRetours, MemeRetour
<1>3. /\ demiChange' \in BOOLEAN /\ (demiChange => demiChange')
      /\ ~demiChange' => ~(appels[k].fn = "changer" /\ PaireRendue(k) # {})
  BY TypesDuPortail DEF Refuser, PortailTypeInv
<1>4. PaireRendue(k) \subseteq Paires /\ PaireRendue(k)' = {}
  BY <1>2, TypesDuPortail, BornesDuPortail DEF PaireRendue, PortailTypeInv, Retour
<1>5. PortailTypeInv'
  <2>1. PortailTypeOK'
    BY <1>1, <1>2, <1>3, <1>4, TypesDuPortail DEF PortailTypeInv, PortailTypeOK, Paire, Retour
  <2>2. Nommees'
    BY <1>1, <1>2 DEF PortailTypeInv, Nommees, Emise, AutresRetours, MemeRetour
  <2>3. RetoursSains'
    BY <1>2 DEF PortailTypeInv, RetoursSains, AutresRetours, MemeRetour
  <2> QED
    BY <2>1, <2>2, <2>3 DEF PortailTypeInv
<1>6. SessionInv'
  <2> SUFFICES ASSUME ~croisee'
               PROVE  /\ \A j \in Creneaux : AppelTenu(j)' /\ ReponseTenue(j)'
                      /\ OngletTenu' /\ PairesTenues'
    BY DEF SessionInv
  <2>1. ~croisee
    BY <1>1
  <2>2. \A j \in Creneaux : appels'[j].fn = appels[j].fn /\ appels'[j].etape = appels[j].etape
                            /\ appels'[j].avec = appels[j].avec
    BY <1>2 DEF AutresRetours, MemeRetour
  <2>3. \A j \in Creneaux : AppelTenu(j)' /\ ReponseTenue(j)'
    <3>1. ASSUME NEW j \in Creneaux PROVE AppelTenu(j)'
      <4>1. AppelTenu(j)
        BY <2>1 DEF SessionInv
      <4> QED
        BY <1>1, <2>2, <4>1 DEF AppelTenu, Seul
    <3>2. ASSUME NEW j \in Creneaux PROVE ReponseTenue(j)'
      <4>1. ReponseTenue(j)
        BY <2>1 DEF SessionInv
      <4>2. CASE j = k
        BY <1>2, <4>2 DEF ReponseTenue
      <4>3. CASE j # k
        BY <1>1, <1>2, <4>1, <4>3 DEF ReponseTenue, AutresRetours, MemeRetour
      <4> QED
        BY <4>2, <4>3
    <3> QED
      BY <3>1, <3>2
  <2>4. OngletTenu'
    <3>1. EnCours(Fonctions)'
      BY <1>1, <1>2, TypesDuPortail DEF EnCours, Fonctions, PortailTypeInv, Retour
    <3>2. ~demiChange' /\ ChangementServi => ChangementServi'
      <4>1. SUFFICES ASSUME NEW j \in Creneaux, ~demiChange',
                            appels[j].fn = "changer", appels[j].etape = "premiere",
                            appels[j].etat = "rendu"
                     PROVE  ChangementServi'
        BY DEF ChangementServi
      <4>2. j # k
        BY <1>3, <4>1 DEF PortailTypeInv, RetoursSains, PaireRendue
      <4> QED
        BY <1>2, <4>1, <4>2 DEF ChangementServi, AutresRetours, MemeRetour
    <3> QED
      BY <1>1, <1>3, <2>1, <3>1, <3>2 DEF OngletTenu, SessionInv
  <2>5. PairesTenues'
    BY <1>1, <1>2, <1>4, <2>1, PairesSuivies DEF SessionInv
  <2> QED
    BY <2>3, <2>4, <2>5
<1> QED
  BY <1>5, <1>6

LEMMA ExpirerStable ==
  ASSUME PortailInv, NEW i \in Paires, Expirer(i)
  PROVE  PortailInv'
<1> USE DEF PortailInv
<1>1. UNCHANGED <<provisoires, onglet, appels, croisee, perdus, demiChange>>
      /\ paires[i].valide
  BY DEF Expirer
<1>2. /\ paires' \in [Paires -> Paire]
      /\ \A j \in Paires : /\ paires'[j].compte = paires[j].compte
                           /\ paires'[j].provisoire = paires[j].provisoire
                           /\ paires'[j].valide => paires[j].valide
                           /\ paires'[j].vivante = paires[j].vivante
  <2>1. paires' = [paires EXCEPT ![i] = [paires[i] EXCEPT !.valide = FALSE]]
        /\ paires \in [Paires -> Paire]
    BY TypesDuPortail DEF Expirer, PortailTypeInv
  <2>2. LET r == [paires[i] EXCEPT !.valide = FALSE] IN
        /\ r \in Paire /\ r.compte = paires[i].compte /\ r.provisoire = paires[i].provisoire
        /\ ~r.valide /\ r.vivante = paires[i].vivante
    BY <2>1 DEF Paire
  <2> QED
    BY <2>1, <2>2
<1>3. PortailTypeInv'
  <2>1. PortailTypeOK'
    BY <1>1, <1>2, TypesDuPortail DEF PortailTypeInv, PortailTypeOK, Paire, Retour
  <2>2. Nommees'
    BY <1>1, <1>2, TypesDuPortail, BornesDuPortail DEF PortailTypeInv, Nommees, Emise, Retour
  <2>3. RetoursSains'
    BY <1>1 DEF PortailTypeInv, RetoursSains
  <2> QED
    BY <2>1, <2>2, <2>3 DEF PortailTypeInv
<1>4. SessionInv'
  <2>1. onglet.jetons # 0 => onglet.jetons \in Paires
    BY TypesDuPortail, BornesDuPortail DEF PortailTypeInv
  <2> SUFFICES ASSUME ~croisee'
               PROVE  /\ \A j \in Creneaux : AppelTenu(j)' /\ ReponseTenue(j)'
                      /\ OngletTenu' /\ PairesTenues'
    BY DEF SessionInv
  <2>2. ~croisee
    BY <1>1
  <2>3. ASSUME NEW j \in Creneaux PROVE AppelTenu(j)' /\ ReponseTenue(j)'
    <3>1. AppelTenu(j) /\ ReponseTenue(j)
      BY <2>2 DEF SessionInv
    <3>2. AppelTenu(j)'
      BY <1>1, <1>2, <2>1, <3>1 DEF AppelTenu, Seul
    <3>3. /\ appels[j].etat = "rendu" /\ appels[j].etape = "premiere"
            /\ appels[j].fn \in {"connexion", "changer"} => appels[j].paire \in Paires
          /\ appels[j].etape = "profil" => appels[j].avec \in Paires
      BY <2>1, <3>1, TypesDuPortail, BornesDuPortail
         DEF PortailTypeInv, RetoursSains, Retour, AppelTenu
    <3>4. appels[j].fn = "changer" /\ appels[j].etape = "premiere" => onglet.jetons \in Paires
      BY <2>1, <2>2, <3>1 DEF AppelTenu, SessionInv, OngletTenu
    <3>5. ReponseTenue(j)'
      BY <1>1, <1>2, <2>1, <3>1, <3>3, <3>4 DEF ReponseTenue
    <3> QED
      BY <3>2, <3>5
  <2>4. OngletTenu'
    <3>1. ChangementServi' = ChangementServi /\ EnCours(Fonctions)' = EnCours(Fonctions)
      BY <1>1 DEF ChangementServi, EnCours
    <3> QED
      BY <1>1, <1>2, <2>1, <2>2, <3>1 DEF OngletTenu, SessionInv
  <2>5. PairesTenues'
    BY <1>1, <1>2, <2>2 DEF PairesTenues, SessionInv, PaireRendue
  <2> QED
    BY <2>3, <2>4, <2>5
<1> QED
  BY <1>3, <1>4

-----------------------------------------------------------------------------
(* The answers.                                                             *)

LEMMA RecevoirPaireStable ==
  ASSUME PortailInv, NEW k \in Creneaux, RecevoirPaire(k)
  PROVE  PortailInv'
<1> USE DEF PortailInv
<1> DEFINE p == appels[k].paire
<1>1. /\ appels[k].etat = "rendu" /\ appels[k].etape = "premiere"
      /\ appels[k].fn \in {"connexion", "changer"} /\ p \in Paires
      /\ paires[p].compte \in Utilisateurs
  BY TypesDuPortail, BornesDuPortail
     DEF RecevoirPaire, PortailTypeInv, RetoursSains, Nommees, Emise, Retour
<1>2. UNCHANGED <<paires, provisoires, croisee, perdus, demiChange>>
  BY DEF RecevoirPaire
<1>3. /\ onglet' \in EtatOnglet /\ onglet'.jetons = p /\ onglet'.profil = onglet.profil
      /\ onglet'.chargement = onglet.chargement /\ onglet'.envoi = onglet.envoi
  BY <1>1, TypesDuPortail, BornesDuPortail DEF RecevoirPaire, EtatOnglet, PortailTypeInv
<1>4. /\ appels' \in [Creneaux -> Retour] /\ AutresRetours(k)
      /\ appels'[k].fn = appels[k].fn /\ appels'[k].etape = "profil"
      /\ appels'[k].avec = p /\ appels'[k].etat = "envoye" /\ appels'[k].paire = 0
  <2>1. appels \in [Creneaux -> Retour] /\ appels[k] \in Retour
    BY TypesDuPortail DEF PortailTypeInv
  <2> DEFINE r == [AucunRetour EXCEPT !.fn = appels[k].fn, !.etape = "profil",
                                      !.avec = appels[k].paire, !.vive = appels[k].vive]
  <2>2. appels' = [appels EXCEPT ![k] = r]
    BY DEF RecevoirPaire
  <2>3. /\ r.fn = appels[k].fn /\ r.etape = "profil" /\ r.avec = p /\ r.etat = "envoye"
        /\ r.paire = 0
    BY DEF AucunRetour
  <2>4. r \in Retour
    <3>1. /\ appels[k].fn \in {"aucune", "restaurer", "connexion", "changer", "deconnexion"}
          /\ appels[k].vive \in BOOLEAN /\ p \in 0..NbPaires /\ 0 \in 0..NbPaires
      BY <1>1, <2>1, BornesDuPortail DEF Retour
    <3> QED
      BY <3>1 DEF Retour, AucunRetour
  <2> HIDE DEF r
  <2> QED
    BY <2>1, <2>2, <2>3, <2>4 DEF AutresRetours, MemeRetour
<1>5. PortailTypeInv'
  <2>1. PortailTypeOK'
    BY <1>2, <1>3, <1>4, TypesDuPortail
       DEF PortailTypeInv, PortailTypeOK, Paire, Retour, EtatOnglet
  <2>2. Nommees'
    BY <1>1, <1>2, <1>3, <1>4 DEF PortailTypeInv, Nommees, Emise, AutresRetours, MemeRetour
  <2>3. RetoursSains'
    BY <1>1, <1>4 DEF PortailTypeInv, RetoursSains, AutresRetours, MemeRetour
  <2> QED
    BY <2>1, <2>2, <2>3 DEF PortailTypeInv
<1>6. SessionInv'
  <2> SUFFICES ASSUME ~croisee'
               PROVE  /\ \A j \in Creneaux : AppelTenu(j)' /\ ReponseTenue(j)'
                      /\ OngletTenu' /\ PairesTenues'
    BY DEF SessionInv
  <2>1. ~croisee /\ Seul(k) /\ AppelTenu(k) /\ ReponseTenue(k) /\ OngletTenu /\ PairesTenues
    BY <1>1, <1>2 DEF SessionInv, AppelTenu
  <2>2. appels[k].fn = "changer" => ~paires[p].provisoire
    BY <1>1, <2>1 DEF ReponseTenue
  <2>3. \A j \in Creneaux : AppelTenu(j)' /\ ReponseTenue(j)'
    <3>1. AppelTenu(k)' /\ ReponseTenue(k)'
      <4>1. p # 0
        BY <1>1, BornesDuPortail
      <4>2. Seul(k)'
        BY <1>4, <2>1 DEF Seul, AutresRetours, MemeRetour
      <4>3. AppelTenu(k)'
        BY <1>1, <1>2, <1>3, <1>4, <2>1, <2>2, <4>1, <4>2 DEF AppelTenu
      <4>4. ReponseTenue(k)'
        BY <1>4 DEF ReponseTenue
      <4> QED
        BY <4>3, <4>4
    <3>2. ASSUME NEW j \in Creneaux, j # k PROVE AppelTenu(j)' /\ ReponseTenue(j)'
      <4>1. appels'[j].fn = "aucune" /\ appels'[j].etape = "premiere"
        BY <1>4, <2>1, <3>2, TypesDuPortail
           DEF PortailTypeInv, RetoursSains, AutresRetours, MemeRetour, Retour, Seul
      <4> QED
        BY <4>1 DEF AppelTenu, ReponseTenue
    <3> QED
      BY <3>1, <3>2
  <2>4. OngletTenu'
    <3>1. EnCours(Fonctions)'
      BY <1>1, <1>4 DEF EnCours, Fonctions
    <3>2. onglet.profil # Personne => paires[p].compte = onglet.profil.compte /\ p # 0
      BY <1>1, <2>1, BornesDuPortail DEF AppelTenu, ReponseTenue
    <3>3. paires[p].provisoire => paires[p].compte \in provisoires
      BY <1>1, <2>1 DEF ReponseTenue
    <3>4. onglet.profil # Personne /\ onglet.profil.compte \in provisoires =>
            onglet.profil.provisoire
      BY <2>1 DEF OngletTenu
    <3> QED
      BY <1>2, <1>3, <3>1, <3>2, <3>3, <3>4 DEF OngletTenu
  <2>5. PairesTenues'
    <3>1. PaireRendue(k) = {p}
      BY <1>1, BornesDuPortail DEF PaireRendue
    <3>2. \A i \in Paires : paires'[i].vivante =>
            (paires[i].vivante /\ i # onglet.jetons) \/ i = onglet'.jetons
      <4>1. CASE appels[k].fn = "connexion"
        BY <1>1, <1>2, <2>1, <4>1, BornesDuPortail DEF AppelTenu
      <4>2. CASE appels[k].fn = "changer"
        BY <1>1, <1>2, <2>1, <4>2 DEF ReponseTenue
      <4> QED
        BY <1>1, <4>1, <4>2
    <3>3. \A j \in Creneaux : j # k => PaireRendue(j)' = PaireRendue(j)
      BY <1>4 DEF AutresRetours, MemeRetour, PaireRendue
    <3> QED
      BY <1>2, <1>3, <2>1, <3>1, <3>2, <3>3 DEF PairesTenues
  <2> QED
    BY <2>3, <2>4, <2>5
<1> QED
  BY <1>5, <1>6

LEMMA RecevoirProfilStable ==
  ASSUME PortailInv, NEW k \in Creneaux, RecevoirProfil(k)
  PROVE  PortailInv'
<1> USE DEF PortailInv
<1> DEFINE p == appels[k].profil
<1>1. /\ appels[k].etat = "rendu" /\ appels[k].etape = "profil" /\ p \in Profil
      /\ appels[k].fn \in {"restaurer", "connexion", "changer"} /\ appels[k].paire = 0
  BY DEF RecevoirProfil, PortailTypeInv, RetoursSains
<1>2. UNCHANGED <<paires, provisoires, croisee, perdus, demiChange>>
  BY DEF RecevoirProfil
<1>3. /\ appels' \in [Creneaux -> Retour] /\ AutresRetours(k) /\ RetourVide(k)
      /\ onglet' \in EtatOnglet /\ onglet'.jetons = onglet.jetons /\ onglet'.profil = p
  <2>1. /\ onglet.jetons \in 0..NbPaires /\ appels[k].vive \in BOOLEAN
        /\ p \in Profil \cup {Personne}
    BY <1>1, TypesDuPortail DEF PortailTypeInv, Retour
  <2>2. Montrer(p, onglet.jetons, Finis(k), appels[k].vive)
    BY DEF RecevoirProfil
  <2> HIDE DEF p
  <2> QED
    BY <2>1, <2>2, MontrerEffet DEF PortailTypeInv
<1>4. PortailTypeInv'
  <2>1. PortailTypeOK'
    BY <1>2, <1>3, TypesDuPortail DEF PortailTypeInv, PortailTypeOK, Paire, Retour, EtatOnglet
  <2>2. Nommees'
    BY <1>2, <1>3 DEF PortailTypeInv, Nommees, Emise, AutresRetours, MemeRetour, RetourVide
  <2>3. RetoursSains'
    BY <1>3 DEF PortailTypeInv, RetoursSains, AutresRetours, MemeRetour, RetourVide
  <2> QED
    BY <2>1, <2>2, <2>3 DEF PortailTypeInv
<1>5. SessionInv'
  <2> SUFFICES ASSUME ~croisee'
               PROVE  /\ \A j \in Creneaux : AppelTenu(j)' /\ ReponseTenue(j)'
                      /\ OngletTenu' /\ PairesTenues'
    BY DEF SessionInv
  <2>1. ~croisee /\ Seul(k) /\ AppelTenu(k) /\ ReponseTenue(k) /\ OngletTenu /\ PairesTenues
    BY <1>1, <1>2 DEF SessionInv, AppelTenu
  <2>2. \A j \in Creneaux : appels'[j].fn = "aucune" /\ appels'[j].etape = "premiere"
    BY <1>3, <2>1, TypesDuPortail
       DEF PortailTypeInv, RetoursSains, AutresRetours, MemeRetour, Retour, Seul, RetourVide
  <2>3. \A j \in Creneaux : AppelTenu(j)' /\ ReponseTenue(j)'
    BY <2>2 DEF AppelTenu, ReponseTenue
  <2>4. OngletTenu'
    <3>1. ~ChangementServi
      BY <1>1, <2>1 DEF ChangementServi, Seul
    <3>2. /\ onglet.jetons # 0 /\ p.compte = paires[onglet.jetons].compte
          /\ p.compte \in provisoires => p.provisoire
      BY <1>1, <2>1 DEF AppelTenu, ReponseTenue
    <3>3. p # Personne
      BY <1>1, BornesDuPortail
    <3> QED
      BY <1>2, <1>3, <2>1, <3>1, <3>2, <3>3 DEF OngletTenu
  <2>5. PairesTenues'
    <3>1. PaireRendue(k) = {}
      BY <1>1 DEF PaireRendue
    <3> QED
      BY <1>2, <1>3, <2>1, <3>1, PairesSuivies
  <2> QED
    BY <2>3, <2>4, <2>5
<1> QED
  BY <1>4, <1>5

LEMMA RecevoirRefusStable ==
  ASSUME PortailInv, NEW k \in Creneaux, RecevoirRefus(k)
  PROVE  PortailInv'
<1> USE DEF PortailInv
<1> DEFINE efface == \/ appels[k].fn = "restaurer"
                     \/ appels[k].fn = "connexion" /\ appels[k].etape = "profil"
           t == IF efface THEN 0 ELSE onglet.jetons
<1>1. /\ appels[k].etat = "refuse" /\ appels[k].fn \in {"restaurer", "connexion", "changer"}
      /\ UNCHANGED <<paires, provisoires, croisee, demiChange>>
      /\ perdus' = IF efface THEN perdus \cup ({onglet.jetons} \ {0}) ELSE perdus
  BY DEF RecevoirRefus
<1>2. /\ appels' \in [Creneaux -> Retour] /\ AutresRetours(k) /\ RetourVide(k)
  BY FinisEffet DEF RecevoirRefus, AutresRetours, MemeRetour, RetourVide, PortailTypeInv
<1>3. /\ onglet' \in EtatOnglet /\ onglet'.jetons = t /\ onglet'.profil = onglet.profil
  <2>1. PICK a \in BOOLEAN, b \in BOOLEAN :
          onglet' = [onglet EXCEPT !.jetons = t, !.envoi = a, !.chargement = b]
    <3>1. /\ (onglet.envoi /\ ~appels[k].vive) \in BOOLEAN
          /\ (onglet.chargement /\ appels[k].fn # "restaurer") \in BOOLEAN
      OBVIOUS
    <3>2. onglet' = [onglet EXCEPT !.jetons = t,
                       !.envoi = (onglet.envoi /\ ~appels[k].vive),
                       !.chargement = (onglet.chargement /\ appels[k].fn # "restaurer")]
      BY DEF RecevoirRefus
    <3> HIDE DEF t
    <3> QED
      BY <3>1, <3>2
  <2>2. t \in 0..NbPaires /\ onglet \in EtatOnglet
    BY TypesDuPortail, BornesDuPortail DEF PortailTypeInv, EtatOnglet
  <2> HIDE DEF t
  <2> QED
    BY <2>1, <2>2 DEF EtatOnglet
<1>4. PortailTypeInv'
  <2>1. PortailTypeOK'
    <3>1. perdus' \subseteq Paires
      BY <1>1, TypesDuPortail, BornesDuPortail DEF PortailTypeInv
    <3> QED
      BY <1>1, <1>2, <1>3, <3>1, TypesDuPortail
         DEF PortailTypeInv, PortailTypeOK, Paire, Retour, EtatOnglet
  <2>2. Nommees'
    BY <1>1, <1>2, <1>3 DEF PortailTypeInv, Nommees, Emise, AutresRetours, MemeRetour, RetourVide
  <2>3. RetoursSains'
    BY <1>2 DEF PortailTypeInv, RetoursSains, AutresRetours, MemeRetour, RetourVide
  <2> QED
    BY <2>1, <2>2, <2>3 DEF PortailTypeInv
<1>5. SessionInv'
  <2> SUFFICES ASSUME ~croisee'
               PROVE  /\ \A j \in Creneaux : AppelTenu(j)' /\ ReponseTenue(j)'
                      /\ OngletTenu' /\ PairesTenues'
    BY DEF SessionInv
  <2>1. ~croisee /\ Seul(k) /\ AppelTenu(k) /\ OngletTenu /\ PairesTenues
    BY <1>1 DEF SessionInv, AppelTenu
  <2>2. \A j \in Creneaux : appels'[j].fn = "aucune" /\ appels'[j].etape = "premiere"
    BY <1>2, <2>1, TypesDuPortail
       DEF PortailTypeInv, RetoursSains, AutresRetours, MemeRetour, Retour, Seul, RetourVide
  <2>3. \A j \in Creneaux : AppelTenu(j)' /\ ReponseTenue(j)'
    BY <2>2 DEF AppelTenu, ReponseTenue
  <2>4. OngletTenu'
    <3>1. ~ChangementServi
      BY <1>1, <2>1 DEF ChangementServi, Seul
    <3>2. efface => onglet.profil = Personne
      BY <2>1 DEF AppelTenu
    <3>3. ~efface /\ onglet.profil = Personne => onglet.jetons = 0
      BY <1>1, <2>1, TypesDuPortail DEF AppelTenu, PortailTypeInv, Retour
    <3> HIDE DEF efface
    <3> QED
      BY <1>1, <1>3, <2>1, <3>1, <3>2, <3>3 DEF OngletTenu
  <2>5. PairesTenues'
    <3>1. PaireRendue(k) = {}
      BY <1>1 DEF PaireRendue
    <3> QED
      BY <1>1, <1>2, <1>3, <2>1, <3>1, PairesSuivies
  <2> QED
    BY <2>3, <2>4, <2>5
<1> QED
  BY <1>4, <1>5

LEMMA RecevoirDeconnexionStable ==
  ASSUME PortailInv, NEW k \in Creneaux, RecevoirDeconnexion(k)
  PROVE  PortailInv'
<1> USE DEF PortailInv
<1>1. /\ appels[k].fn = "deconnexion" /\ appels[k].etat \in {"rendu", "refuse"}
      /\ UNCHANGED <<paires, provisoires, croisee, demiChange>>
      /\ perdus' = IF appels[k].etat = "refuse" THEN perdus \cup ({onglet.jetons} \ {0})
                   ELSE perdus
  BY DEF RecevoirDeconnexion
<1>2. /\ appels' \in [Creneaux -> Retour] /\ AutresRetours(k) /\ RetourVide(k)
      /\ onglet' \in EtatOnglet /\ onglet'.jetons = 0 /\ onglet'.profil = Personne
  <2>1. 0 \in 0..NbPaires /\ Personne \in Profil \cup {Personne} /\ FALSE \in BOOLEAN
    BY BornesDuPortail
  <2>2. Montrer(Personne, 0, Finis(k), FALSE)
    BY DEF RecevoirDeconnexion
  <2> QED
    BY <2>1, <2>2, MontrerEffet DEF PortailTypeInv
<1>3. PortailTypeInv'
  <2>1. PortailTypeOK'
    <3>1. perdus' \subseteq Paires
      BY <1>1, TypesDuPortail, BornesDuPortail DEF PortailTypeInv
    <3> QED
      BY <1>1, <1>2, <3>1, TypesDuPortail
         DEF PortailTypeInv, PortailTypeOK, Paire, Retour, EtatOnglet
  <2>2. Nommees'
    BY <1>1, <1>2 DEF PortailTypeInv, Nommees, Emise, AutresRetours, MemeRetour, RetourVide
  <2>3. RetoursSains'
    BY <1>2 DEF PortailTypeInv, RetoursSains, AutresRetours, MemeRetour, RetourVide
  <2> QED
    BY <2>1, <2>2, <2>3 DEF PortailTypeInv
<1>4. SessionInv'
  <2> SUFFICES ASSUME ~croisee'
               PROVE  /\ \A j \in Creneaux : AppelTenu(j)' /\ ReponseTenue(j)'
                      /\ OngletTenu' /\ PairesTenues'
    BY DEF SessionInv
  <2>1. ~croisee /\ AppelTenu(k) /\ ReponseTenue(k) /\ OngletTenu /\ PairesTenues
    BY <1>1 DEF SessionInv
  <2>2. \A j \in Creneaux : appels[j].fn \in {"aucune", "deconnexion"}
    BY <1>1, <2>1, TypesDuPortail DEF SessionInv, AppelTenu, Seul, PortailTypeInv, Retour
  <2>3. \A j \in Creneaux : appels'[j].fn \in {"aucune", "deconnexion"}
                            /\ appels'[j].etape = "premiere"
    BY <1>2, <2>2, TypesDuPortail
       DEF PortailTypeInv, RetoursSains, AutresRetours, MemeRetour, Retour, RetourVide
  <2>4. \A j \in Creneaux : AppelTenu(j)' /\ ReponseTenue(j)'
    BY <1>2, <2>3 DEF AppelTenu, ReponseTenue
  <2>5. OngletTenu'
    BY <1>2 DEF OngletTenu
  <2>6. PairesTenues'
    <3>1. PaireRendue(k) = {}
      BY <1>1 DEF PaireRendue, PortailTypeInv, RetoursSains
    <3>2. ASSUME NEW i \in Paires \ perdus', paires'[i].vivante
          PROVE  paires[i].vivante /\ i # onglet.jetons
      <4>1. i # 0 /\ paires[i].vivante
        BY <1>1, <3>2, BornesDuPortail
      <4>2. CASE appels[k].etat = "refuse"
        BY <1>1, <3>2, <4>1, <4>2
      <4>3. CASE appels[k].etat = "rendu"
        BY <1>1, <2>1, <4>1, <4>3 DEF ReponseTenue
      <4> QED
        BY <1>1, <4>1, <4>2, <4>3
    <3>3. perdus \subseteq perdus'
      BY <1>1
    <3> QED
      BY <1>2, <2>1, <3>1, <3>2, <3>3, PairesSuivies
  <2> QED
    BY <2>4, <2>5, <2>6
<1> QED
  BY <1>3, <1>4

LEMMA PortailStable ==
  ASSUME PortailInv, [PortailNext]_portailVars
  PROVE  PortailInv'
<1>1. CASE PortailNext
  <2>1. ASSUME NEW k \in Creneaux, NEW c \in Utilisateurs, Connexion(k, c) PROVE PortailInv'
    BY <2>1, ConnexionStable
  <2>2. ASSUME NEW k \in Creneaux,
               \/ ChangerMotDePasse(k) \/ Deconnexion(k)
               \/ ServirConnexion(k) \/ ServirChangement(k) \/ ServirDeconnexion(k)
               \/ ServirProfil(k) \/ Refuser(k)
               \/ RecevoirPaire(k) \/ RecevoirProfil(k) \/ RecevoirRefus(k)
               \/ RecevoirDeconnexion(k)
        PROVE  PortailInv'
    BY <2>2, ChangerMotDePasseStable, DeconnexionStable, ServirConnexionStable,
       ServirChangementStable, ServirDeconnexionStable, ServirProfilStable, RefuserStable,
       RecevoirPaireStable, RecevoirProfilStable, RecevoirRefusStable, RecevoirDeconnexionStable
  <2>3. CASE Recharger
    BY <2>3, RechargerStable
  <2>4. ASSUME NEW i \in Paires, Expirer(i) PROVE PortailInv'
    BY <2>4, ExpirerStable
  <2> QED
    BY <1>1, <2>1, <2>2, <2>3, <2>4 DEF PortailNext
<1>2. CASE UNCHANGED portailVars
  BY <1>2 DEF portailVars, PortailInv, PortailTypeInv, PortailTypeOK, Nommees, Emise,
     RetoursSains, SessionInv, AppelTenu, Seul, ReponseTenue, ChangementServi, OngletTenu,
     PairesTenues, PaireRendue, EnCours
<1> QED
  BY <1>1, <1>2

LEMMA PortailInvariant == PortailSpec => []PortailInv
<1>1. PortailInit => PortailInv
  BY PortailInitial DEF PortailInv
<1>2. PortailInv /\ [PortailNext]_portailVars => PortailInv'
  BY PortailStable
<1> QED
  BY <1>1, <1>2, PTL DEF PortailSpec

LEMMA SessionSuit == PortailInv => PortailTypeOK /\ SessionTenue
<1> SUFFICES ASSUME PortailInv PROVE SessionTenue
  BY DEF PortailInv, PortailTypeInv
<1> SUFFICES ASSUME ~croisee
             PROVE  /\ onglet.profil # Personne =>
                         onglet.jetons # 0 /\ paires[onglet.jetons].compte = onglet.profil.compte
                    /\ Ecran(onglet.profil) = "connexion" /\ ~EnCours(Fonctions) =>
                         onglet.jetons = 0
                    /\ Ecran(onglet.profil) = "portail" /\ ~demiChange =>
                         ~paires[onglet.jetons].provisoire
                    /\ PairesTenues
  BY DEF SessionTenue, PairesTenues
<1>1. OngletTenu /\ PairesTenues
  BY DEF PortailInv, SessionInv
<1>2. ChangementServi => onglet.profil.provisoire
  BY DEF PortailInv, SessionInv, AppelTenu, ChangementServi
<1> QED
  BY <1>1, <1>2 DEF OngletTenu, Ecran

-----------------------------------------------------------------------------
(* The limiter of logins.                                                   *)

Instants == 0..HeureMax
Elements(s) == {s[i] : i \in DOMAIN s}

(* The filter, one element at a time.                                       *)
PasDuFiltre(s, h, g) ==
  /\ g[0] = <<>>
  /\ \A n \in 1..Len(s) :
       g[n] = IF s[n] + Fenetre > h THEN Append(g[n - 1], s[n]) ELSE g[n - 1]

(* A set of naturals that holds 0 and the successor of each of its members  *)
(* below a bound holds every natural up to it.                              *)
LEMMA Recurrence ==
  ASSUME NEW n \in Nat, NEW P, 0 \in P, \A k \in 1..n : k - 1 \in P => k \in P
  PROVE  0..n \subseteq P
<1> DEFINE R == {ss \in Nat \X Nat : ss[1] < ss[2]}
<1>1. IsWellFoundedOn(R, Nat)
  BY NatLessThanWellFounded DEF OpToRel
<1>2. \A x, y \in Nat : x < y => <<x, y>> \in R
  OBVIOUS
<1> HIDE DEF R
<1> DEFINE T == (0..n) \ P
<1>3. ASSUME T # {} PROVE FALSE
  <2>1. T \subseteq Nat
    OBVIOUS
  <2> HIDE DEF T
  <2>2. PICK m \in T : \A x \in T : ~(<<x, m>> \in R)
    BY <1>1, <1>3, <2>1, WFMin
  <2>3. m \in 1..n /\ m \notin P
    BY DEF T
  <2>4. m - 1 \in T
    BY <2>3 DEF T
  <2>5. m - 1 \in Nat /\ m \in Nat /\ m - 1 < m
    BY <2>3
  <2> QED
    BY <1>2, <2>2, <2>4, <2>5
<1> QED
  BY <1>3

LEMMA FiltreSuivi ==
  ASSUME NEW s, Len(s) \in Nat, NEW h
  PROVE  \E g : PasDuFiltre(s, h, g) /\ DansFenetre(s, h) = g[Len(s)]
<1> DEFINE Suite(k, g) ==
      g = [n \in 0..k |->
             IF n = 0 THEN <<>>
             ELSE IF s[n] + Fenetre > h THEN Append(g[n - 1], s[n]) ELSE g[n - 1]]
    P == {k \in Nat : \E g : Suite(k, g)}
<1>1. 0 \in P
  <2>1. Suite(0, [n \in 0..0 |-> <<>>])
    OBVIOUS
  <2> QED
    BY <2>1
<1>2. ASSUME NEW k \in 1..Len(s), k - 1 \in P
      PROVE  k \in P
  <2>1. PICK g : Suite(k - 1, g)
    BY <1>2
  <2> DEFINE e == IF s[k] + Fenetre > h THEN Append(g[k - 1], s[k]) ELSE g[k - 1]
             f == [n \in 0..k |-> IF n = k THEN e ELSE g[n]]
  <2>2. \A n \in 0..(k - 1) : f[n] = g[n]
    OBVIOUS
  <2>3. \A n \in 0..k : n = k \/ n \in 0..(k - 1)
    OBVIOUS
  <2>4. ASSUME NEW n \in 0..k
        PROVE  f[n] = IF n = 0 THEN <<>>
                      ELSE IF s[n] + Fenetre > h THEN Append(f[n - 1], s[n]) ELSE f[n - 1]
    <3>1. CASE n = k
      <4>1. f[n] = e /\ f[n - 1] = g[k - 1]
        BY <2>2, <3>1
      <4> QED
        BY <3>1, <4>1
    <3>2. CASE n = 0
      BY <2>1, <2>2, <3>2
    <3>3. CASE n \in 1..(k - 1)
      <4>1. f[n] = g[n] /\ f[n - 1] = g[n - 1]
        BY <2>2, <3>3
      <4>2. g[n] = IF s[n] + Fenetre > h THEN Append(g[n - 1], s[n]) ELSE g[n - 1]
        <5>1. n \in 0..(k - 1) /\ n # 0
          BY <3>3
        <5> QED
          BY <2>1, <5>1
      <4> QED
        BY <3>3, <4>1, <4>2
    <3> QED
      BY <3>1, <3>2, <3>3
  <2> HIDE DEF e
  <2>5. f = [n \in 0..k |-> f[n]]
    OBVIOUS
  <2> HIDE DEF f
  <2>6. Suite(k, f)
    BY <2>4, <2>5
  <2>7. k \in Nat
    OBVIOUS
  <2> HIDE DEF Suite
  <2> QED
    BY <2>6, <2>7
<1>3. Len(s) \in P
  <2> HIDE DEF P
  <2>1. 0..Len(s) \subseteq P
    BY <1>1, <1>2, Recurrence
  <2> QED
    BY <2>1
<1> DEFINE c == CHOOSE g : Suite(Len(s), g)
<1>4. Suite(Len(s), c)
  BY <1>3
<1>5. DansFenetre(s, h) = c[Len(s)]
  BY DEF DansFenetre
<1> HIDE DEF c
<1>6. PasDuFiltre(s, h, c)
  <2>1. 0 \in 0..Len(s) /\ \A n \in 1..Len(s) : n \in 0..Len(s) /\ n # 0
    OBVIOUS
  <2>2. ASSUME NEW n \in 1..Len(s)
        PROVE  c[n] = IF s[n] + Fenetre > h THEN Append(c[n - 1], s[n]) ELSE c[n - 1]
    BY <1>4, <2>1
  <2>3. c[0] = <<>>
    BY <1>4, <2>1
  <2> QED
    BY <2>2, <2>3 DEF PasDuFiltre
<1> QED
  BY <1>5, <1>6

LEMMA FenetreType == Fenetre \in Nat /\ Fenetre >= 1 /\ HeureMax \in Nat /\ Instants \subseteq Nat
BY LimiteurAssumption DEF LimiteurAssumption, Instants

LEMMA ElementsDe ==
  ASSUME NEW E, NEW s \in Seq(E)
  PROVE  /\ Elements(s) \subseteq E
         /\ Len(s) \in Nat /\ DOMAIN s = 1..Len(s)
         /\ s = <<>> <=> Elements(s) = {}
         /\ s # <<>> => Head(s) \in Elements(s) /\ s[Len(s)] \in Elements(s)
         /\ s # <<>> => Head(s) \in E /\ s[Len(s)] \in E /\ Len(s) \in 1..Len(s)
BY DEF Elements

LEMMA ElementsAjoutes ==
  ASSUME NEW E, NEW s \in Seq(E), NEW e \in E
  PROVE  /\ Append(s, e) \in Seq(E)
         /\ Elements(Append(s, e)) = Elements(s) \cup {e}
         /\ Len(Append(s, e)) = Len(s) + 1
<1>1. Append(s, e) \in Seq(E) /\ Len(Append(s, e)) = Len(s) + 1
  OBVIOUS
<1>2. \A x : x \in Elements(Append(s, e)) => x \in Elements(s) \cup {e}
  BY DEF Elements
<1>3. \A i \in DOMAIN s : i \in DOMAIN Append(s, e) /\ Append(s, e)[i] = s[i]
  OBVIOUS
<1>4. Len(s) + 1 \in DOMAIN Append(s, e) /\ Append(s, e)[Len(s) + 1] = e
  OBVIOUS
<1>5. \A x : x \in Elements(s) \cup {e} => x \in Elements(Append(s, e))
  BY <1>3, <1>4 DEF Elements
<1> QED
  BY <1>1, <1>2, <1>5

(* What the filter keeps: the times in the window, and all of them.         *)
LEMMA FiltreGarde ==
  ASSUME NEW s \in Seq(Instants), NEW h \in Nat
  PROVE  /\ DansFenetre(s, h) \in Seq(Instants)
         /\ Elements(DansFenetre(s, h)) = {t \in Elements(s) : t + Fenetre > h}
         /\ (\A t \in Elements(s) : t + Fenetre > h) => DansFenetre(s, h) = s
<1>0. Len(s) \in Nat /\ DOMAIN s = 1..Len(s)
  OBVIOUS
<1>1. PICK g : PasDuFiltre(s, h, g) /\ DansFenetre(s, h) = g[Len(s)]
  BY <1>0, FiltreSuivi
<1> DEFINE K(n) == {t \in {s[i] : i \in 1..n} : t + Fenetre > h}
    P == {n \in 0..Len(s) :
            /\ g[n] \in Seq(Instants) /\ Elements(g[n]) = K(n)
            /\ (\A i \in 1..n : s[i] + Fenetre > h) => g[n] = SubSeq(s, 1, n)}
<1>2. 0 \in P
  <2>1. g[0] = <<>>
    BY <1>1 DEF PasDuFiltre
  <2>2. K(0) = {} /\ SubSeq(s, 1, 0) = <<>>
    OBVIOUS
  <2>3. Elements(<<>>) = {}
    BY DEF Elements
  <2>4. <<>> \in Seq(Instants) /\ 0 \in 0..Len(s)
    BY <1>0
  <2> HIDE DEF K
  <2> QED
    BY <2>1, <2>2, <2>3, <2>4
<1>3. ASSUME NEW k \in 1..Len(s), k - 1 \in P
      PROVE  k \in P
  <2>1. g[k] = IF s[k] + Fenetre > h THEN Append(g[k - 1], s[k]) ELSE g[k - 1]
    BY <1>1 DEF PasDuFiltre
  <2>2. /\ g[k - 1] \in Seq(Instants) /\ Elements(g[k - 1]) = K(k - 1)
        /\ (\A i \in 1..(k - 1) : s[i] + Fenetre > h) => g[k - 1] = SubSeq(s, 1, k - 1)
    BY <1>3
  <2>3. 1..k = 1..(k - 1) \cup {k} /\ s[k] \in Instants /\ k \in 0..Len(s)
    BY <1>0
  <2>4. K(k) = IF s[k] + Fenetre > h THEN K(k - 1) \cup {s[k]} ELSE K(k - 1)
    BY <2>3
  <2>5. SubSeq(s, 1, k) = Append(SubSeq(s, 1, k - 1), s[k])
    BY <1>0
  <2> HIDE DEF K
  <2>6. CASE s[k] + Fenetre > h
    <3>1. g[k] = Append(g[k - 1], s[k])
      BY <2>1, <2>6
    <3>0. /\ Append(g[k - 1], s[k]) \in Seq(Instants)
          /\ Elements(Append(g[k - 1], s[k])) = Elements(g[k - 1]) \cup {s[k]}
      BY <2>2, <2>3, ElementsAjoutes
    <3>2. g[k] \in Seq(Instants) /\ Elements(g[k]) = K(k)
      BY <2>2, <2>4, <2>6, <3>0, <3>1
    <3>3. (\A i \in 1..k : s[i] + Fenetre > h) => g[k] = SubSeq(s, 1, k)
      BY <2>2, <2>3, <2>5, <3>1
    <3> QED
      BY <2>3, <3>2, <3>3
  <2>7. CASE ~(s[k] + Fenetre > h)
    BY <2>1, <2>2, <2>3, <2>4, <2>7
  <2> QED
    BY <2>6, <2>7
<1>4. Len(s) \in P
  <2> HIDE DEF P
  <2>1. 0..Len(s) \subseteq P
    BY <1>0, <1>2, <1>3, Recurrence
  <2> QED
    BY <1>0, <2>1
<1>5. SubSeq(s, 1, Len(s)) = s
  OBVIOUS
<1>6. {s[i] : i \in 1..Len(s)} = Elements(s)
  BY <1>0 DEF Elements
<1>7. (\A t \in Elements(s) : t + Fenetre > h) => \A i \in 1..Len(s) : s[i] + Fenetre > h
  BY <1>6
<1> QED
  BY <1>1, <1>4, <1>5, <1>6, <1>7

(* Later, the filter keeps no more.                                         *)
LEMMA FiltreDecroit ==
  ASSUME NEW s \in Seq(Instants), NEW h \in Nat
  PROVE  Len(DansFenetre(s, h + 1)) <= Len(DansFenetre(s, h))
<1>0. Len(s) \in Nat /\ DOMAIN s = 1..Len(s)
  OBVIOUS
<1>1. PICK f : PasDuFiltre(s, h, f) /\ DansFenetre(s, h) = f[Len(s)]
  BY <1>0, FiltreSuivi
<1>2. PICK g : PasDuFiltre(s, h + 1, g) /\ DansFenetre(s, h + 1) = g[Len(s)]
  BY <1>0, FiltreSuivi
<1> DEFINE P == {n \in 0..Len(s) :
                   f[n] \in Seq(Instants) /\ g[n] \in Seq(Instants) /\ Len(g[n]) <= Len(f[n])}
<1>3. 0 \in P
  <2>1. f[0] = <<>> /\ g[0] = <<>>
    BY <1>1, <1>2 DEF PasDuFiltre
  <2>2. <<>> \in Seq(Instants) /\ Len(<<>>) = 0
    OBVIOUS
  <2>3. 0 \in 0..Len(s)
    BY <1>0
  <2>4. f[0] \in Seq(Instants) /\ g[0] \in Seq(Instants) /\ Len(g[0]) <= Len(f[0])
    BY <2>1, <2>2
  <2> QED
    BY <2>3, <2>4
<1>4. ASSUME NEW k \in 1..Len(s), k - 1 \in P
      PROVE  k \in P
  <2>1. f[k] = IF s[k] + Fenetre > h THEN Append(f[k - 1], s[k]) ELSE f[k - 1]
    BY <1>1 DEF PasDuFiltre
  <2>2. g[k] = IF s[k] + Fenetre > h + 1 THEN Append(g[k - 1], s[k]) ELSE g[k - 1]
    BY <1>2 DEF PasDuFiltre
  <2>0. s[k] \in Instants /\ k \in 0..Len(s)
    BY <1>0
  <2>3. s[k] + Fenetre \in Nat
    <3>1. s[k] \in Nat /\ Fenetre \in Nat
      BY <2>0, FenetreType
    <3> QED
      BY <3>1
  <2>4. f[k - 1] \in Seq(Instants) /\ g[k - 1] \in Seq(Instants) /\ Len(g[k - 1]) <= Len(f[k - 1])
    BY <1>4
  <2>5. s[k] + Fenetre > h + 1 => s[k] + Fenetre > h
    BY <2>3
  <2>6. g[k] \in Seq(Instants) /\ f[k] \in Seq(Instants)
    BY <2>0, <2>1, <2>2, <2>4
  <2>7. /\ Len(Append(f[k - 1], s[k])) = Len(f[k - 1]) + 1
        /\ Len(Append(g[k - 1], s[k])) = Len(g[k - 1]) + 1
        /\ Len(f[k - 1]) \in Nat /\ Len(g[k - 1]) \in Nat
    BY <2>4
  <2>8. Len(g[k]) <= Len(f[k])
    BY <2>1, <2>2, <2>4, <2>5, <2>7
  <2> QED
    BY <2>0, <2>6, <2>8
<1>5. Len(s) \in P
  <2> HIDE DEF P
  <2>1. 0..Len(s) \subseteq P
    BY <1>0, <1>3, <1>4, Recurrence
  <2> QED
    BY <1>0, <2>1
<1> QED
  BY <1>1, <1>2, <1>5

SansDouble(s) == \A i, j \in DOMAIN s : s[i] = s[j] => i = j

(* Deleting a key of the map, which keeps the order of the others.          *)
LEMMA CleRetiree ==
  ASSUME NEW E, NEW s \in Seq(E), SansDouble(s), NEW e
  PROVE  /\ Ordre!RemoveFirst(s, e) \in Seq(E) /\ SansDouble(Ordre!RemoveFirst(s, e))
         /\ Elements(Ordre!RemoveFirst(s, e)) = Elements(s) \ {e}
         /\ Len(Ordre!RemoveFirst(s, e)) = IF e \in Elements(s) THEN Len(s) - 1 ELSE Len(s)
<1>0. Len(s) \in Nat /\ DOMAIN s = 1..Len(s)
  OBVIOUS
<1>1. CASE e \notin Elements(s)
  <2>1. Ordre!RemoveFirst(s, e) = s
    BY <1>0, <1>1 DEF Ordre!RemoveFirst, Elements
  <2> QED
    BY <1>1, <2>1
<1>2. CASE e \in Elements(s)
  <2>1. PICK k \in 1..Len(s) : s[k] = e
    BY <1>0, <1>2 DEF Elements
  <2>2. {i \in 1..Len(s) : s[i] = e} = {k}
    BY <1>0, <2>1 DEF SansDouble
  <2>3. Ordre!SelectInSeq(s, LAMBDA v : v = e) = k
    <3>1. Ordre!Min({k}) = k
      BY <2>1 DEF Ordre!Min
    <3> QED
      BY <2>2, <3>1 DEF Ordre!SelectInSeq
  <2>4. Ordre!RemoveFirst(s, e) = SubSeq(s, 1, k - 1) \o SubSeq(s, k + 1, Len(s))
    BY <1>0, <2>1, <2>3 DEF Ordre!RemoveFirst, Ordre!RemoveAt
  <2> DEFINE r == SubSeq(s, 1, k - 1) \o SubSeq(s, k + 1, Len(s))
  <2>5. /\ r \in Seq(E) /\ Len(r) = Len(s) - 1
        /\ \A i \in 1..(Len(s) - 1) : r[i] = IF i < k THEN s[i] ELSE s[i + 1]
    <3> DEFINE p == SubSeq(s, 1, k - 1)
               q == SubSeq(s, k + 1, Len(s))
    <3>1. k - 1 \in 0..Len(s) /\ k \in 1..Len(s) /\ Len(s) \in Nat
      BY <1>0, <2>1
    <3>2. p \in Seq(E) /\ Len(p) = k - 1 /\ \A i \in 1..(k - 1) : p[i] = s[i]
      BY <3>1
    <3>3. q \in Seq(E) /\ Len(q) = Len(s) - k /\ \A i \in 1..(Len(s) - k) : q[i] = s[k + i]
      BY <3>1
    <3> HIDE DEF p, q
    <3>4. p \o q \in Seq(E) /\ Len(p \o q) = Len(s) - 1
      <4>0. p \in Seq(E) /\ q \in Seq(E)
        BY <3>2, <3>3
      <4>1. p \o q \in Seq(E)
        BY <4>0
      <4>2. Len(p \o q) = Len(p) + Len(q)
        BY <4>0
      <4>3. Len(p) + Len(q) = Len(s) - 1
        BY <3>1, <3>2, <3>3
      <4> QED
        BY <4>1, <4>2, <4>3
    <3>5. ASSUME NEW i \in 1..(Len(s) - 1)
          PROVE  (p \o q)[i] = IF i < k THEN s[i] ELSE s[i + 1]
      <4>1. CASE i < k
        <5>1. i \in 1..Len(p) /\ i \in 1..(k - 1)
          BY <3>1, <3>2, <4>1
        <5>2. (p \o q)[i] = p[i]
          BY <3>2, <3>3, <5>1
        <5> QED
          BY <3>2, <4>1, <5>1, <5>2
      <4>2. CASE ~(i < k)
        <5>1. i - (k - 1) \in 1..(Len(s) - k) /\ k + (i - (k - 1)) = i + 1
          BY <3>1, <4>2
        <5>2. (p \o q)[i] = q[i - (k - 1)]
          BY <3>1, <3>2, <3>3, <4>2
        <5>3. q[i - (k - 1)] = s[k + (i - (k - 1))]
          BY <3>3, <5>1
        <5> QED
          BY <4>2, <5>1, <5>2, <5>3
      <4> QED
        BY <4>1, <4>2
    <3> QED
      BY <3>4, <3>5 DEF p, q
  <2> HIDE DEF r
  <2>6. DOMAIN r = 1..(Len(s) - 1)
    BY <1>0, <2>1, <2>5
  <2>7. SansDouble(r)
    <3> SUFFICES ASSUME NEW i \in 1..(Len(s) - 1), NEW j \in 1..(Len(s) - 1), r[i] = r[j]
                 PROVE  i = j
      BY <2>6 DEF SansDouble
    <3>1. PICK a, b \in 1..Len(s) :
            /\ r[i] = s[a] /\ r[j] = s[b]
            /\ a = IF i < k THEN i ELSE i + 1
            /\ b = IF j < k THEN j ELSE j + 1
      BY <1>0, <2>1, <2>5
    <3>2. a = b
      BY <1>0, <3>1 DEF SansDouble
    <3> QED
      BY <2>1, <3>1, <3>2
  <2>8. ASSUME NEW x \in Elements(r)
        PROVE  x \in Elements(s) /\ x # e
    <3>1. PICK i \in 1..(Len(s) - 1) : x = r[i]
      BY <2>6 DEF Elements
    <3>2. PICK a \in 1..Len(s) : x = s[a] /\ a # k
      BY <1>0, <2>1, <2>5, <3>1
    <3> QED
      BY <1>0, <2>1, <3>2 DEF Elements, SansDouble
  <2>9. ASSUME NEW x \in Elements(s), x # e
        PROVE  x \in Elements(r)
    <3>1. PICK a \in 1..Len(s) : x = s[a]
      BY <1>0 DEF Elements
    <3>2. a # k
      BY <2>1, <2>9, <3>1
    <3>3. \E i \in 1..(Len(s) - 1) : r[i] = s[a]
      <4>1. CASE a < k
        BY <1>0, <2>1, <2>5, <4>1
      <4>2. CASE a > k
        <5>1. a - 1 \in 1..(Len(s) - 1) /\ ~(a - 1 < k) /\ a - 1 + 1 = a
          BY <1>0, <2>1, <4>2
        <5> QED
          BY <2>5, <5>1
      <4> QED
        BY <2>1, <3>2, <4>1, <4>2
    <3> QED
      BY <2>6, <3>1, <3>3 DEF Elements
  <2>10. Elements(r) = Elements(s) \ {e}
    BY <2>8, <2>9
  <2>11. Ordre!RemoveFirst(s, e) = r
    BY <2>4 DEF r
  <2> QED
    BY <1>2, <2>5, <2>7, <2>10, <2>11
<1> QED
  BY <1>1, <1>2

LEMMA CleAjoutee ==
  ASSUME NEW E, NEW s \in Seq(E), SansDouble(s), NEW e \in E, e \notin Elements(s)
  PROVE  SansDouble(Append(s, e))
<1>1. DOMAIN Append(s, e) = 1..(Len(s) + 1) /\ DOMAIN s = 1..Len(s) /\ Len(s) \in Nat
  OBVIOUS
<1>2. \A i \in 1..(Len(s) + 1) : Append(s, e)[i] = IF i = Len(s) + 1 THEN e ELSE s[i]
  OBVIOUS
<1>3. \A i \in 1..Len(s) : s[i] # e
  BY <1>1 DEF Elements
<1> QED
  BY <1>1, <1>2, <1>3 DEF SansDouble

(* The least recent key leaves the map.                                     *)
LEMMA CleOubliee ==
  ASSUME NEW E, NEW s \in Seq(E), SansDouble(s), s # <<>>
  PROVE  /\ Tail(s) \in Seq(E) /\ SansDouble(Tail(s)) /\ Len(Tail(s)) = Len(s) - 1
         /\ Elements(Tail(s)) = Elements(s) \ {Head(s)}
<1>1. /\ Tail(s) \in Seq(E) /\ Len(Tail(s)) = Len(s) - 1 /\ DOMAIN s = 1..Len(s)
      /\ Len(s) \in Nat /\ Len(s) >= 1 /\ DOMAIN Tail(s) = 1..(Len(s) - 1) /\ Head(s) = s[1]
  OBVIOUS
<1>2. \A i \in 1..(Len(s) - 1) : Tail(s)[i] = s[i + 1]
  OBVIOUS
<1>3. SansDouble(Tail(s))
  BY <1>1, <1>2 DEF SansDouble
<1>4. \A x \in Elements(Tail(s)) : x \in Elements(s) /\ x # Head(s)
  BY <1>1, <1>2 DEF Elements, SansDouble
<1>5. ASSUME NEW x \in Elements(s), x # Head(s)
      PROVE  x \in Elements(Tail(s))
  <2>1. PICK i \in 1..Len(s) : x = s[i]
    BY <1>1 DEF Elements
  <2>2. i - 1 \in 1..(Len(s) - 1) /\ Tail(s)[i - 1] = x
    BY <1>1, <1>2, <1>5, <2>1
  <2> QED
    BY <1>1, <2>2 DEF Elements
<1> QED
  BY <1>1, <1>3, <1>4, <1>5

-----------------------------------------------------------------------------
(* The invariant of the limiter.                                            *)

(* No failure is ahead of the clock.                                        *)
HeuresPassees == \A ip \in Adresses : \A t \in Elements(echecs[ip]) : t <= heure

(* The order of the addresses and their failures are one map.               *)
CarteTenue ==
  /\ SansDouble(recence) /\ Len(recence) <= MaxAdresses
  /\ \A ip \in Adresses : echecs[ip] # <<>> <=> ip \in Elements(recence)

EnEssai(ip) == {e \in Essais : essais[e] = ip}
EssaisComptes ==
  \A ip \in Adresses :
    Len(Recents(ip)) + Cardinality(EnEssai(ip)) < Max + Cardinality(Essais) + libres[ip]

(* What was journalised for an address is behind the failures counted once  *)
(* its episode is over; until then its last failure is still in the map, or *)
(* out of the window.                                                       *)
BlocagesSuivis ==
  \A b \in blocages :
    /\ b.dernier <= heure
    /\ b.ip \notin signalees =>
         \A t \in Elements(echecs[b.ip]) :
           b.dernier <= t /\ (b.ip \notin oubliees => b.dernier + Fenetre <= t)
    /\ b.ip \notin oubliees =>
         \/ b.dernier + Fenetre <= heure
         \/ b.ip \in signalees /\ b.dernier \in Elements(echecs[b.ip])

Espaces(b, c) ==
  b.ip = c.ip /\ b # c =>
    /\ b.dernier <= c.premier \/ c.dernier <= b.premier
    /\ b.ip \notin oubliees =>
         b.dernier + Fenetre <= c.premier \/ c.dernier + Fenetre <= b.premier
BlocagesEspaces == \A b, c \in blocages : Espaces(b, c)

LimiteurInv ==
  /\ LimiteurTypeOK /\ HeuresPassees /\ CarteTenue /\ EssaisComptes
  /\ BlocagesSuivis /\ BlocagesEspaces

LEMMA ConstantesNaturelles ==
  /\ Max \in Nat /\ Max >= 1 /\ MaxAdresses \in Nat /\ MaxAdresses >= 1
  /\ Cardinality(Essais) \in Nat
BY LimiteurAssumption, FS_CardinalityType DEF LimiteurAssumption

LEMMA EssaisFinis ==
  ASSUME NEW ip
  PROVE  /\ IsFiniteSet(EnEssai(ip)) /\ Cardinality(EnEssai(ip)) \in Nat
         /\ Cardinality(EnEssai(ip)) <= Cardinality(Essais)
<1>1. EnEssai(ip) \subseteq Essais /\ IsFiniteSet(Essais)
  BY LimiteurAssumption DEF LimiteurAssumption, EnEssai
<1> QED
  BY <1>1, FS_Subset, FS_CardinalityType

LEMMA FiltreVide ==
  ASSUME NEW h \in Nat
  PROVE  DansFenetre(<<>>, h) = <<>>
<1>1. <<>> \in Seq(Instants) /\ Elements(<<>>) = {}
  BY DEF Elements
<1> QED
  BY <1>1, FiltreGarde

LEMMA LimiteurInitial == LimiteurInit => LimiteurInv
<1> SUFFICES ASSUME LimiteurInit PROVE LimiteurInv
  OBVIOUS
<1>0. 0 \in Instants /\ <<>> \in Seq(Instants) /\ <<>> \in Seq(Adresses) /\ Elements(<<>>) = {}
      /\ Len(<<>>) = 0
  BY FenetreType DEF Instants, Elements
<1>1. LimiteurTypeOK
  <2>1. heure \in 0..HeureMax /\ echecs \in [Adresses -> Seq(0..HeureMax)]
    BY <1>0 DEF LimiteurInit, Instants
  <2>2. /\ recence \in Seq(Adresses) /\ signalees \subseteq Adresses /\ oubliees \subseteq Adresses
        /\ essais \in [Essais -> Adresses \cup {Aucune}]
    BY <1>0 DEF LimiteurInit
  <2>3. blocages \subseteq [ip : Adresses, premier : 0..HeureMax, dernier : 0..HeureMax]
    BY DEF LimiteurInit
  <2>4. libres \in [Adresses -> 0..MaxLibres]
    BY LimiteurAssumption DEF LimiteurInit, LimiteurAssumption
  <2> QED
    BY <2>1, <2>2, <2>3, <2>4 DEF LimiteurTypeOK
<1>2. HeuresPassees /\ CarteTenue /\ BlocagesSuivis /\ BlocagesEspaces
  BY <1>0, ConstantesNaturelles
  DEF LimiteurInit, HeuresPassees, CarteTenue, SansDouble, BlocagesSuivis, BlocagesEspaces
<1>3. EssaisComptes
  <2> SUFFICES ASSUME NEW ip \in Adresses
               PROVE  Len(Recents(ip)) + Cardinality(EnEssai(ip))
                        < Max + Cardinality(Essais) + libres[ip]
    BY DEF EssaisComptes
  <2>1. Recents(ip) = <<>> /\ libres[ip] = 0
    BY FiltreVide DEF Recents, LimiteurInit
  <2> QED
    BY <1>0, <2>1, EssaisFinis, ConstantesNaturelles
<1> QED
  BY <1>1, <1>2, <1>3 DEF LimiteurInv

LEMMA TypesDuLimiteur ==
  ASSUME LimiteurTypeOK
  PROVE  /\ heure \in Nat /\ heure \in Instants
         /\ \A ip \in Adresses : echecs[ip] \in Seq(Instants)
         /\ \A ip \in Adresses : Recents(ip) \in Seq(Instants)
         /\ \A ip \in Adresses :
              Elements(Recents(ip)) = {t \in Elements(echecs[ip]) : t + Fenetre > heure}
         /\ \A b \in blocages : b.ip \in Adresses /\ b.premier \in Nat /\ b.dernier \in Nat
         /\ MaxLibres \in Nat /\ \A ip \in Adresses : libres[ip] \in 0..MaxLibres
<1>1. heure \in Nat /\ heure \in Instants
  BY FenetreType DEF LimiteurTypeOK, Instants
<1>2. \A ip \in Adresses : echecs[ip] \in Seq(Instants)
  BY DEF LimiteurTypeOK, Instants
<1>3. \A b \in blocages : b.ip \in Adresses /\ b.premier \in Nat /\ b.dernier \in Nat
  BY FenetreType DEF LimiteurTypeOK, Instants
<1>4. MaxLibres \in Nat /\ \A ip \in Adresses : libres[ip] \in 0..MaxLibres
  BY LimiteurAssumption DEF LimiteurTypeOK, LimiteurAssumption
<1> QED
  BY <1>1, <1>2, <1>3, <1>4, FiltreGarde DEF Recents

(* The clock.                                                               *)
LEMMA TicStable == ASSUME LimiteurInv, Tic PROVE LimiteurInv'
<1> USE DEF LimiteurInv
<1>0. UNCHANGED <<echecs, recence, signalees, essais, blocages, oubliees, libres>>
      /\ heure' = heure + 1
      /\ heure < HeureMax
  BY DEF Tic
<1>1. LimiteurTypeOK'
  BY <1>0, FenetreType DEF LimiteurTypeOK
<1>2. HeuresPassees'
  <2> SUFFICES ASSUME NEW ip \in Adresses, NEW t \in Elements(echecs[ip])
               PROVE  t <= heure + 1
    BY <1>0 DEF HeuresPassees
  <2>1. t \in Nat /\ heure \in Nat
    BY TypesDuLimiteur, ElementsDe, FenetreType
  <2>2. t <= heure
    BY DEF HeuresPassees
  <2> QED
    BY <2>1, <2>2
<1>3. CarteTenue'
  BY <1>0 DEF CarteTenue
<1>4. EssaisComptes'
  <2> SUFFICES ASSUME NEW ip \in Adresses
               PROVE  (Len(Recents(ip)) + Cardinality(EnEssai(ip)) < Max + Cardinality(Essais) + libres[ip])'
    BY DEF EssaisComptes
  <2>1. Len(DansFenetre(echecs[ip], heure + 1)) <= Len(DansFenetre(echecs[ip], heure))
    BY TypesDuLimiteur, FiltreDecroit
  <2>2. DansFenetre(echecs[ip], heure + 1) \in Seq(Instants)
    <3>1. echecs[ip] \in Seq(Instants) /\ heure + 1 \in Nat
      BY TypesDuLimiteur
    <3> QED
      BY <3>1, FiltreGarde
  <2>3. Len(DansFenetre(echecs[ip], heure + 1)) \in Nat /\ Len(DansFenetre(echecs[ip], heure)) \in Nat
    BY <2>2, TypesDuLimiteur DEF Recents
  <2>4. Len(DansFenetre(echecs[ip], heure)) + Cardinality(EnEssai(ip))
          < Max + Cardinality(Essais) + libres[ip]
    BY DEF EssaisComptes, Recents
  <2>5. Recents(ip)' = DansFenetre(echecs[ip], heure + 1) /\ EnEssai(ip)' = EnEssai(ip)
    BY <1>0 DEF Recents, EnEssai
  <2>6. libres[ip] \in Nat /\ libres' = libres
    BY <1>0, TypesDuLimiteur
  <2> QED
    BY <2>1, <2>3, <2>4, <2>5, <2>6, EssaisFinis, ConstantesNaturelles
<1>5. BlocagesSuivis'
  BY <1>0, TypesDuLimiteur, FenetreType DEF BlocagesSuivis
<1>6. BlocagesEspaces'
  BY <1>0 DEF BlocagesEspaces, Espaces
<1> QED
  BY <1>1, <1>2, <1>3, <1>4, <1>5, <1>6

(* A login that succeeds.                                                   *)
LEMMA ReussirStable == ASSUME LimiteurInv, NEW e \in Essais, Reussir(e) PROVE LimiteurInv'
<1> USE DEF LimiteurInv
<1>0. /\ UNCHANGED <<heure, echecs, recence, signalees, blocages, oubliees, libres>>
      /\ essais' = [essais EXCEPT ![e] = Aucune]
  BY DEF Reussir
<1>1. LimiteurTypeOK'
  BY <1>0 DEF LimiteurTypeOK
<1>2. HeuresPassees' /\ CarteTenue' /\ BlocagesSuivis' /\ BlocagesEspaces'
  BY <1>0 DEF HeuresPassees, CarteTenue, BlocagesSuivis, BlocagesEspaces, Espaces
<1>3. EssaisComptes'
  <2> SUFFICES ASSUME NEW ip \in Adresses
               PROVE  (Len(Recents(ip)) + Cardinality(EnEssai(ip)) < Max + Cardinality(Essais) + libres[ip])'
    BY DEF EssaisComptes
  <2>1. EnEssai(ip)' \subseteq EnEssai(ip)
    BY <1>0, LimiteurAssumption DEF EnEssai, LimiteurTypeOK, LimiteurAssumption
  <2>2. Cardinality(EnEssai(ip)') <= Cardinality(EnEssai(ip)) /\ Cardinality(EnEssai(ip)') \in Nat
    BY <2>1, EssaisFinis, FS_Subset, FS_CardinalityType
  <2>3. Recents(ip)' = Recents(ip) /\ Len(Recents(ip)) \in Nat
    BY <1>0, TypesDuLimiteur DEF Recents
  <2>4. Len(Recents(ip)) + Cardinality(EnEssai(ip)) < Max + Cardinality(Essais) + libres[ip]
    BY DEF EssaisComptes
  <2>5. libres[ip] \in Nat /\ libres' = libres
    BY <1>0, TypesDuLimiteur
  <2> QED
    BY <2>2, <2>3, <2>4, <2>5, EssaisFinis, ConstantesNaturelles
<1> QED
  BY <1>1, <1>2, <1>3

(* An address is looked at, and refused or let through.                     *)
LEMMA VerifierStable ==
  ASSUME LimiteurInv, NEW e \in Essais, NEW ip \in Adresses, Verifier(e, ip)
  PROVE  LimiteurInv'
<1> USE DEF LimiteurInv
<1> DEFINE g == Recents(ip)
<1>1. /\ g \in Seq(Instants) /\ echecs[ip] \in Seq(Instants) /\ heure \in Nat
      /\ Elements(g) = {t \in Elements(echecs[ip]) : t + Fenetre > heure}
      /\ DansFenetre(g, heure) = g
  <2>1. /\ g \in Seq(Instants) /\ echecs[ip] \in Seq(Instants) /\ heure \in Nat
        /\ Elements(g) = {t \in Elements(echecs[ip]) : t + Fenetre > heure}
    BY TypesDuLimiteur
  <2> HIDE DEF g
  <2>2. \A t \in Elements(g) : t + Fenetre > heure
    BY <2>1
  <2> QED
    BY <2>1, <2>2, FiltreGarde
<1>2. /\ essais[e] = Aucune /\ echecs' = [echecs EXCEPT ![ip] = g]
      /\ recence' = IF g = <<>> THEN Sauf(ip) ELSE Append(Sauf(ip), ip)
      /\ libres' = IF g = <<>> THEN [libres EXCEPT ![ip] = 0] ELSE libres
      /\ UNCHANGED <<heure, oubliees>>
      /\ \/ /\ Len(g) < Max /\ essais' = [essais EXCEPT ![e] = ip] /\ UNCHANGED blocages
            /\ signalees' = IF g = <<>> THEN signalees \ {ip} ELSE signalees
         \/ /\ Len(g) >= Max /\ UNCHANGED essais /\ signalees' = signalees \cup {ip}
            /\ blocages' = IF ip \in signalees THEN blocages ELSE
                 blocages \cup {[ip |-> ip, premier |-> Head(g), dernier |-> g[Len(g)]]}
  BY DEF Verifier
<1> HIDE DEF g
<1>3. /\ echecs'[ip] = g /\ \A a \in Adresses \ {ip} : echecs'[a] = echecs[a]
      /\ \A a \in Adresses : a = ip \/ a \in Adresses \ {ip}
  BY <1>2 DEF LimiteurTypeOK
<1>4. Len(g) >= Max =>
        /\ g # <<>> /\ Head(g) \in Elements(g) /\ g[Len(g)] \in Elements(g)
        /\ Head(g) \in Instants /\ g[Len(g)] \in Instants
  <2>1. Len(<<>>) = 0
    OBVIOUS
  <2> QED
    BY <1>1, <2>1, ElementsDe, ConstantesNaturelles
<1>5. CarteTenue'
  <2>1. /\ recence \in Seq(Adresses) /\ SansDouble(recence) /\ Len(recence) <= MaxAdresses
        /\ Len(recence) \in Nat
        /\ \A a \in Adresses : echecs[a] # <<>> <=> a \in Elements(recence)
    BY DEF LimiteurTypeOK, CarteTenue
  <2>2. /\ Sauf(ip) \in Seq(Adresses) /\ SansDouble(Sauf(ip))
        /\ Elements(Sauf(ip)) = Elements(recence) \ {ip}
        /\ Len(Sauf(ip)) = IF ip \in Elements(recence) THEN Len(recence) - 1 ELSE Len(recence)
    BY <2>1, CleRetiree DEF Sauf
  <2>3. CASE g = <<>>
    <3>1. recence' = Sauf(ip)
      BY <1>2, <2>3
    <3>2. Len(Sauf(ip)) <= MaxAdresses
      BY <2>1, <2>2, ConstantesNaturelles
    <3>3. \A a \in Adresses : echecs'[a] # <<>> <=> a \in Elements(Sauf(ip))
      BY <1>3, <2>1, <2>2, <2>3
    <3> QED
      BY <2>2, <3>1, <3>2, <3>3 DEF CarteTenue
  <2>4. CASE g # <<>>
    <3>1. recence' = Append(Sauf(ip), ip)
      BY <1>2, <2>4
    <3>2. ip \in Elements(recence)
      <4>1. Elements(echecs[ip]) # {}
        BY <1>1, <2>4, ElementsDe
      <4>2. echecs[ip] # <<>>
        BY <1>1, <4>1, ElementsDe
      <4> QED
        BY <2>1, <4>2
    <3>3. /\ Elements(Append(Sauf(ip), ip)) = Elements(recence)
          /\ Len(Append(Sauf(ip), ip)) = Len(recence)
      <4>1. /\ Elements(Append(Sauf(ip), ip)) = Elements(Sauf(ip)) \cup {ip}
            /\ Len(Append(Sauf(ip), ip)) = Len(Sauf(ip)) + 1
        BY <2>2, ElementsAjoutes
      <4> QED
        BY <2>1, <2>2, <3>2, <4>1
    <3>4. SansDouble(Append(Sauf(ip), ip))
      BY <2>2, CleAjoutee
    <3>5. \A a \in Adresses : echecs'[a] # <<>> <=> a \in Elements(recence)
      BY <1>3, <2>1, <2>4, <3>2
    <3> QED
      BY <2>1, <3>1, <3>3, <3>4, <3>5 DEF CarteTenue
  <2> QED
    BY <2>3, <2>4
<1>6. LimiteurTypeOK'
  <2>1. echecs' \in [Adresses -> Seq(0..HeureMax)]
    BY <1>1, <1>2 DEF LimiteurTypeOK, Instants
  <2>2. recence' \in Seq(Adresses)
    <3>1. Sauf(ip) \in Seq(Adresses)
      BY CleRetiree DEF LimiteurTypeOK, CarteTenue, Sauf
    <3>2. Append(Sauf(ip), ip) \in Seq(Adresses)
      BY <3>1
    <3> QED
      BY <1>2, <3>1, <3>2
  <2>3. signalees' \subseteq Adresses /\ essais' \in [Essais -> Adresses \cup {Aucune}]
    BY <1>2 DEF LimiteurTypeOK
  <2>4. blocages' \subseteq [ip : Adresses, premier : 0..HeureMax, dernier : 0..HeureMax]
    BY <1>2, <1>4 DEF LimiteurTypeOK, Instants
  <2>5. libres' \in [Adresses -> 0..MaxLibres]
    BY <1>2, TypesDuLimiteur DEF LimiteurTypeOK
  <2> QED
    BY <1>2, <2>1, <2>2, <2>3, <2>4, <2>5 DEF LimiteurTypeOK
<1>7. HeuresPassees'
  BY <1>1, <1>2, <1>3 DEF HeuresPassees
<1>8. EssaisComptes'
  <2> SUFFICES ASSUME NEW a \in Adresses
               PROVE  (Len(Recents(a)) + Cardinality(EnEssai(a)) < Max + Cardinality(Essais) + libres[a])'
    BY DEF EssaisComptes
  <2>1. /\ Recents(a)' = Recents(a) /\ Len(Recents(a)) \in Nat
        /\ Len(Recents(a)) + Cardinality(EnEssai(a)) < Max + Cardinality(Essais) + libres[a]
        /\ libres[a] \in Nat /\ libres'[a] \in Nat
        /\ libres'[a] = libres[a] \/ (libres'[a] = 0 /\ Len(Recents(a)) = 0)
    <3>1. Recents(a)' = Recents(a)
      BY <1>1, <1>2, <1>3 DEF Recents, g
    <3>2. libres[a] \in Nat /\ (libres'[a] = libres[a] \/ (libres'[a] = 0 /\ a = ip /\ g = <<>>))
      BY <1>2, TypesDuLimiteur DEF LimiteurTypeOK
    <3>3. a = ip /\ g = <<>> => Len(Recents(a)) = 0
      BY DEF g
    <3> QED
      BY <3>1, <3>2, <3>3, TypesDuLimiteur DEF EssaisComptes
  <2>2. CASE EnEssai(a)' = EnEssai(a)
    BY <2>1, <2>2, EssaisFinis, ConstantesNaturelles
  <2>3. CASE EnEssai(a)' # EnEssai(a)
    <3>1. a = ip /\ Len(g) < Max
      BY <1>2, <2>3, LimiteurAssumption DEF EnEssai, LimiteurTypeOK, LimiteurAssumption
    <3>2. EnEssai(a)' \subseteq Essais /\ IsFiniteSet(Essais)
      BY LimiteurAssumption DEF EnEssai, LimiteurAssumption
    <3>3. Cardinality(EnEssai(a)') <= Cardinality(Essais) /\ Cardinality(EnEssai(a)') \in Nat
      BY <3>2, FS_Subset, FS_CardinalityType
    <3>4. Len(Recents(a)) < Max
      BY <3>1 DEF g
    <3> QED
      BY <2>1, <3>3, <3>4, ConstantesNaturelles
  <2> QED
    BY <2>2, <2>3
<1>9. \A b \in blocages : b.ip = ip /\ ip \notin signalees =>
        \A t \in Elements(echecs[ip]) :
          b.dernier <= t /\ (ip \notin oubliees => b.dernier + Fenetre <= t)
  BY DEF BlocagesSuivis
<1>10. BlocagesSuivis'
  <2>1. ASSUME NEW b \in blocages
        PROVE  /\ b.dernier <= heure
               /\ b.ip \notin signalees' =>
                    \A t \in Elements(echecs'[b.ip]) :
                      b.dernier <= t /\ (b.ip \notin oubliees => b.dernier + Fenetre <= t)
               /\ b.ip \notin oubliees =>
                    \/ b.dernier + Fenetre <= heure
                    \/ b.ip \in signalees' /\ b.dernier \in Elements(echecs'[b.ip])
    <3>0. /\ b.dernier <= heure /\ b.ip \in Adresses /\ b.dernier \in Nat /\ b.dernier + Fenetre \in Nat
          /\ b.ip \notin signalees =>
               \A t \in Elements(echecs[b.ip]) :
                 b.dernier <= t /\ (b.ip \notin oubliees => b.dernier + Fenetre <= t)
          /\ b.ip \notin oubliees =>
               \/ b.dernier + Fenetre <= heure
               \/ b.ip \in signalees /\ b.dernier \in Elements(echecs[b.ip])
      BY TypesDuLimiteur, FenetreType DEF BlocagesSuivis
    <3>1. CASE b.ip # ip
      <4>1. echecs'[b.ip] = echecs[b.ip] /\ (b.ip \in signalees' <=> b.ip \in signalees)
        BY <1>2, <1>3, <3>0, <3>1
      <4> QED
        BY <3>0, <4>1
    <3>2. CASE b.ip = ip
      <4>1. Elements(g) \subseteq Elements(echecs[ip])
        BY <1>1
      <4>2. g = <<>> => Elements(g) = {}
        BY DEF Elements
      <4>3. b.dernier \in Elements(echecs[ip]) => b.dernier + Fenetre <= heure \/ b.dernier \in Elements(g)
        BY <1>1, <3>0
      <4>4. g # <<>> /\ ip \notin signalees' => ip \notin signalees
        BY <1>2
      <4>5. ip \in signalees => ip \in signalees' \/ Elements(g) = {}
        BY <1>2, <4>2
      <4>6. echecs'[b.ip] = g
        BY <1>3, <3>2
      <4> QED
        BY <3>0, <3>2, <4>1, <4>2, <4>3, <4>4, <4>5, <4>6
    <3> QED
      BY <3>1, <3>2
  <2>2. ASSUME NEW b \in blocages', b \notin blocages
        PROVE  /\ b.dernier <= heure
               /\ b.ip \in signalees' /\ b.dernier \in Elements(echecs'[b.ip])
    <3>1. Len(g) >= Max /\ b = [ip |-> ip, premier |-> Head(g), dernier |-> g[Len(g)]]
          /\ ip \in signalees'
      BY <1>2, <2>2
    <3>2. b.ip = ip /\ b.dernier \in Elements(g)
      BY <1>4, <3>1
    <3>3. b.dernier \in Elements(echecs[ip])
      BY <1>1, <3>2
    <3> QED
      BY <1>3, <3>1, <3>2, <3>3 DEF HeuresPassees
  <2> QED
    BY <1>2, <2>1, <2>2 DEF BlocagesSuivis
<1>11. BlocagesEspaces'
  <2>1. ASSUME NEW b \in blocages, NEW c \in blocages', c \notin blocages
        PROVE  b.ip = c.ip =>
                 b.dernier <= c.premier /\ (b.ip \notin oubliees => b.dernier + Fenetre <= c.premier)
    <3>1. /\ Len(g) >= Max /\ c = [ip |-> ip, premier |-> Head(g), dernier |-> g[Len(g)]]
          /\ ip \notin signalees
      BY <1>2, <2>1
    <3>2. c.ip = ip /\ c.premier \in Elements(echecs[ip])
      BY <1>1, <1>4, <3>1
    <3> QED
      BY <1>9, <3>1, <3>2
  <2>2. \A b, c \in blocages' : b \notin blocages /\ c \notin blocages => b = c
    BY <1>2
  <2>3. blocages \subseteq blocages' /\ oubliees' = oubliees
    BY <1>2
  <2>4. \A b, c \in blocages : Espaces(b, c)
    BY DEF BlocagesEspaces
  <2> SUFFICES ASSUME NEW b \in blocages', NEW c \in blocages', b.ip = c.ip, b # c
               PROVE  /\ b.dernier <= c.premier \/ c.dernier <= b.premier
                      /\ b.ip \notin oubliees =>
                           b.dernier + Fenetre <= c.premier \/ c.dernier + Fenetre <= b.premier
    BY <2>3 DEF BlocagesEspaces, Espaces
  <2>5. CASE b \in blocages /\ c \in blocages
    BY <2>4, <2>5 DEF Espaces
  <2>6. CASE b \in blocages /\ c \notin blocages
    BY <2>1, <2>6
  <2>7. CASE b \notin blocages /\ c \in blocages
    BY <2>1, <2>7
  <2> QED
    BY <2>2, <2>5, <2>6, <2>7
<1> QED
  BY <1>5, <1>6, <1>7, <1>8, <1>10, <1>11

(* A failure is counted, and the least recent address forgotten.            *)
LEMMA CompterStable ==
  ASSUME LimiteurInv, NEW ip \in Adresses, NEW l \in {0, 1}, CompterEchec(ip, l),
         UNCHANGED <<heure, blocages>>,
         l = 1 => libres[ip] < MaxLibres,
         essais' \in [Essais -> Adresses \cup {Aucune}],
         \A a \in Adresses : EnEssai(a)' \subseteq EnEssai(a),
         l = 0 => \E e \in EnEssai(ip) : EnEssai(ip)' = EnEssai(ip) \ {e}
  PROVE  LimiteurInv'
<1> USE DEF LimiteurInv
<1> DEFINE g == Recents(ip)
           n == Append(g, heure)
           ordre == Append(Sauf(ip), ip)
           o == IF Len(ordre) > MaxAdresses THEN {Head(ordre)} ELSE {}
<1>2. /\ echecs' = [a \in Adresses |-> IF a \in o THEN <<>> ELSE IF a = ip THEN n ELSE echecs[a]]
      /\ recence' = IF o = {} THEN ordre ELSE Tail(ordre)
      /\ signalees' = (IF g = <<>> THEN signalees \ {ip} ELSE signalees) \ o
      /\ oubliees' = oubliees \cup o
      /\ libres' = [a \in Adresses |->
           IF a \in o THEN 0 ELSE IF a = ip THEN (IF g = <<>> THEN 0 ELSE libres[ip]) + l
           ELSE libres[a]]
      /\ UNCHANGED <<heure, blocages>>
  BY DEF CompterEchec
<1>3. /\ g \in Seq(Instants) /\ echecs[ip] \in Seq(Instants) /\ heure \in Nat /\ heure \in Instants
      /\ Elements(g) = {t \in Elements(echecs[ip]) : t + Fenetre > heure}
  BY TypesDuLimiteur
<1> HIDE DEF g
<1>4. /\ n \in Seq(Instants) /\ Elements(n) = Elements(g) \cup {heure} /\ Len(n) = Len(g) + 1
      /\ Len(g) \in Nat /\ n # <<>>
  <2>1. /\ n \in Seq(Instants) /\ Elements(n) = Elements(g) \cup {heure} /\ Len(n) = Len(g) + 1
    BY <1>3, ElementsAjoutes
  <2> HIDE DEF n
  <2> QED
    BY <1>3, <2>1, ElementsDe
<1> HIDE DEF n
<1>5. DansFenetre(n, heure) = n
  <2>1. \A t \in Elements(n) : t + Fenetre > heure
    BY <1>3, <1>4, FenetreType
  <2> QED
    BY <1>3, <1>4, <2>1, FiltreGarde
<1>6. /\ recence \in Seq(Adresses) /\ SansDouble(recence) /\ Len(recence) <= MaxAdresses
      /\ Len(recence) \in Nat
      /\ \A a \in Adresses : echecs[a] # <<>> <=> a \in Elements(recence)
  BY DEF LimiteurTypeOK, CarteTenue
<1>7. /\ ordre \in Seq(Adresses) /\ SansDouble(ordre) /\ ordre # <<>>
      /\ Elements(ordre) = Elements(recence) \cup {ip}
      /\ Len(ordre) <= MaxAdresses + 1 /\ Len(ordre) \in Nat
  <2>1. /\ Sauf(ip) \in Seq(Adresses) /\ SansDouble(Sauf(ip))
        /\ Elements(Sauf(ip)) = Elements(recence) \ {ip}
        /\ Len(Sauf(ip)) = IF ip \in Elements(recence) THEN Len(recence) - 1 ELSE Len(recence)
    BY <1>6, CleRetiree DEF Sauf
  <2>2. /\ ordre \in Seq(Adresses) /\ Elements(ordre) = Elements(Sauf(ip)) \cup {ip}
        /\ Len(ordre) = Len(Sauf(ip)) + 1 /\ SansDouble(ordre)
    BY <2>1, ElementsAjoutes, CleAjoutee
  <2> HIDE DEF ordre
  <2>3. ordre # <<>>
    BY <2>2, ElementsDe
  <2> QED
    BY <1>6, <2>1, <2>2, <2>3, ConstantesNaturelles
<1> HIDE DEF ordre
<1>8. o \subseteq Adresses /\ (o = {} \/ o = {Head(ordre)})
  BY <1>7, ElementsDe
<1>9. /\ recence' \in Seq(Adresses) /\ SansDouble(recence') /\ Len(recence') <= MaxAdresses
      /\ Elements(recence') = (Elements(recence) \cup {ip}) \ o
  <2>1. CASE o = {}
    <3>1. ~(Len(ordre) > MaxAdresses)
      BY <2>1
    <3> QED
      BY <1>2, <1>7, <2>1, <3>1, ConstantesNaturelles
  <2>2. CASE o # {}
    <3>1. o = {Head(ordre)} /\ recence' = Tail(ordre)
      BY <1>2, <1>8, <2>2
    <3>2. /\ Tail(ordre) \in Seq(Adresses) /\ SansDouble(Tail(ordre)) /\ Len(Tail(ordre)) = Len(ordre) - 1
          /\ Elements(Tail(ordre)) = Elements(ordre) \ {Head(ordre)}
      BY <1>7, CleOubliee
    <3> QED
      BY <1>7, <3>1, <3>2, ConstantesNaturelles
  <2> QED
    BY <2>1, <2>2
<1> HIDE DEF o
<1>10. \A a \in Adresses :
         echecs'[a] = IF a \in o THEN <<>> ELSE IF a = ip THEN n ELSE echecs[a]
  BY <1>2
<1>11. Elements(<<>>) = {} /\ <<>> \in Seq(Instants) /\ Len(<<>>) = 0
  BY DEF Elements
<1>12. LimiteurTypeOK'
  <2>1. \A a \in Adresses :
          (IF a \in o THEN <<>> ELSE IF a = ip THEN n ELSE echecs[a]) \in Seq(Instants)
    BY <1>4, <1>11, TypesDuLimiteur
  <2>2. echecs' \in [Adresses -> Seq(0..HeureMax)]
    BY <1>2, <2>1 DEF Instants
  <2>3. signalees' \subseteq Adresses
    BY <1>2 DEF LimiteurTypeOK
  <2>4. libres' \in [Adresses -> 0..MaxLibres]
    <3>1. /\ libres[ip] \in 0..MaxLibres /\ MaxLibres \in Nat
          /\ (IF g = <<>> THEN 0 ELSE libres[ip]) + l \in 0..MaxLibres
      BY TypesDuLimiteur
    <3>2. \A a \in Adresses : libres[a] \in 0..MaxLibres
      BY TypesDuLimiteur
    <3> QED
      BY <1>2, <3>1, <3>2
  <2> QED
    BY <1>2, <1>8, <1>9, <2>2, <2>3, <2>4 DEF LimiteurTypeOK
<1>13. HeuresPassees'
  <2> SUFFICES ASSUME NEW a \in Adresses, NEW t \in Elements(echecs'[a])
               PROVE  t <= heure
    BY <1>2 DEF HeuresPassees
  <2> QED
    BY <1>3, <1>4, <1>10, <1>11 DEF HeuresPassees
<1>14. CarteTenue'
  BY <1>4, <1>6, <1>9, <1>10 DEF CarteTenue
<1>15. EssaisComptes'
  <2> SUFFICES ASSUME NEW a \in Adresses
               PROVE  (Len(Recents(a)) + Cardinality(EnEssai(a)) < Max + Cardinality(Essais) + libres[a])'
    BY DEF EssaisComptes
  <2>1. /\ Len(Recents(a)) + Cardinality(EnEssai(a)) < Max + Cardinality(Essais) + libres[a]
        /\ Len(Recents(a)) \in Nat /\ libres[a] \in Nat
    BY TypesDuLimiteur DEF EssaisComptes
  <2>2. Recents(a)' = DansFenetre(echecs'[a], heure)
    BY <1>2 DEF Recents
  <2>3. /\ Cardinality(EnEssai(a)') <= Cardinality(EnEssai(a)) /\ Cardinality(EnEssai(a)') \in Nat
        /\ a = ip /\ l = 0 => Cardinality(EnEssai(a)') = Cardinality(EnEssai(a)) - 1
    BY EssaisFinis, FS_Subset, FS_CardinalityType, FS_RemoveElement
  <2>4. libres'[a] = IF a \in o THEN 0
                     ELSE IF a = ip THEN (IF g = <<>> THEN 0 ELSE libres[ip]) + l ELSE libres[a]
    BY <1>2
  <2>5. CASE a \in o
    <3>1. Recents(a)' = <<>> /\ libres'[a] = 0
      BY <1>3, <1>10, <2>2, <2>4, <2>5, FiltreVide
    <3> QED
      BY <1>11, <2>3, <3>1, EssaisFinis, ConstantesNaturelles
  <2>6. CASE a \notin o /\ a = ip
    <3>1. Len(Recents(a)') = Len(Recents(a)) + 1
      BY <1>4, <1>5, <1>10, <2>2, <2>6 DEF g
    <3>2. Recents(a) = <<>> => Len(Recents(a)) = 0
      OBVIOUS
    <3>3. libres'[a] = (IF Recents(a) = <<>> THEN 0 ELSE libres[a]) + l
      BY <2>4, <2>6 DEF g
    <3>4. CASE Recents(a) = <<>>
      BY <2>1, <2>3, <2>6, <3>1, <3>2, <3>3, <3>4, EssaisFinis, ConstantesNaturelles
    <3>5. CASE Recents(a) # <<>>
      BY <2>1, <2>3, <2>6, <3>1, <3>3, <3>5, EssaisFinis, ConstantesNaturelles
    <3> QED
      BY <3>4, <3>5
  <2>7. CASE a \notin o /\ a # ip
    <3>1. Recents(a)' = Recents(a) /\ libres'[a] = libres[a]
      BY <1>10, <2>2, <2>4, <2>7 DEF Recents
    <3> QED
      BY <2>1, <2>3, <3>1, EssaisFinis, ConstantesNaturelles
  <2> QED
    BY <2>5, <2>6, <2>7
<1>16. BlocagesSuivis'
  <2> SUFFICES ASSUME NEW b \in blocages
               PROVE  /\ b.dernier <= heure
                      /\ b.ip \notin signalees' =>
                           \A t \in Elements(echecs'[b.ip]) :
                             b.dernier <= t /\ (b.ip \notin oubliees' => b.dernier + Fenetre <= t)
                      /\ b.ip \notin oubliees' =>
                           \/ b.dernier + Fenetre <= heure
                           \/ b.ip \in signalees' /\ b.dernier \in Elements(echecs'[b.ip])
    BY <1>2 DEF BlocagesSuivis
  <2>0. /\ b.dernier <= heure /\ b.ip \in Adresses /\ b.dernier \in Nat /\ b.dernier + Fenetre \in Nat
        /\ b.ip \notin signalees =>
             \A t \in Elements(echecs[b.ip]) :
               b.dernier <= t /\ (b.ip \notin oubliees => b.dernier + Fenetre <= t)
        /\ b.ip \notin oubliees =>
             \/ b.dernier + Fenetre <= heure
             \/ b.ip \in signalees /\ b.dernier \in Elements(echecs[b.ip])
    BY TypesDuLimiteur, FenetreType DEF BlocagesSuivis
  <2>1. CASE b.ip \in o
    <3>1. Elements(echecs'[b.ip]) = {} /\ b.ip \in oubliees'
      BY <1>2, <1>10, <1>11, <2>0, <2>1
    <3> QED
      BY <2>0, <3>1
  <2>2. CASE b.ip \notin o /\ b.ip # ip
    <3>1. /\ echecs'[b.ip] = echecs[b.ip] /\ (b.ip \in signalees' <=> b.ip \in signalees)
          /\ (b.ip \in oubliees' <=> b.ip \in oubliees)
      BY <1>2, <1>10, <2>0, <2>2
    <3> QED
      BY <2>0, <3>1
  <2>3. CASE b.ip \notin o /\ b.ip = ip
    <3>1. /\ Elements(echecs'[b.ip]) = Elements(g) \cup {heure}
          /\ (b.ip \in oubliees' <=> b.ip \in oubliees)
      BY <1>2, <1>4, <1>10, <2>0, <2>3
    <3>2. Elements(g) \subseteq Elements(echecs[ip]) /\ (g = <<>> => Elements(g) = {})
      BY <1>3, <1>11
    <3>3. b.dernier \in Elements(echecs[ip]) => b.dernier + Fenetre <= heure \/ b.dernier \in Elements(g)
      BY <1>3, <2>0
    <3>4. g # <<>> => (b.ip \in signalees' <=> b.ip \in signalees)
      BY <1>2, <2>3
    <3>5. g = <<>> => b.ip \notin signalees'
      BY <1>2, <2>3
    <3>6. CASE g = <<>>
      <4>1. Elements(echecs'[b.ip]) = {heure} /\ b.ip \notin signalees'
        BY <3>1, <3>2, <3>5, <3>6
      <4>2. b.ip \notin oubliees' => b.dernier + Fenetre <= heure
        BY <2>0, <2>3, <3>1, <3>2, <3>3, <3>6
      <4> QED
        BY <2>0, <4>1, <4>2
    <3>7. CASE g # <<>>
      <4>1. b.ip \notin signalees =>
              \A t \in Elements(g) \cup {heure} :
                b.dernier <= t /\ (b.ip \notin oubliees => b.dernier + Fenetre <= t)
        BY <2>0, <2>3, <3>2
      <4> QED
        BY <2>0, <2>3, <3>1, <3>3, <3>4, <3>7, <4>1
    <3> QED
      BY <3>6, <3>7
  <2> QED
    BY <2>1, <2>2, <2>3
<1>17. BlocagesEspaces'
  BY <1>2 DEF BlocagesEspaces, Espaces
<1> QED
  BY <1>12, <1>13, <1>14, <1>15, <1>16, <1>17

(* The wrong password of a login.                                           *)
LEMMA SignalerStable ==
  ASSUME LimiteurInv, NEW e \in Essais, SignalerEchec(e)
  PROVE  LimiteurInv'
<1>1. essais[e] \in Adresses /\ essais' = [essais EXCEPT ![e] = Aucune]
      /\ essais \in [Essais -> Adresses \cup {Aucune}] /\ Aucune \notin Adresses
  BY LimiteurAssumption DEF SignalerEchec, LimiteurInv, LimiteurTypeOK, LimiteurAssumption
<1>2. /\ essais' \in [Essais -> Adresses \cup {Aucune}]
      /\ \A a \in Adresses : EnEssai(a)' = EnEssai(a) \ {e}
      /\ e \in EnEssai(essais[e])
  BY <1>1 DEF EnEssai
<1> QED
  BY <1>1, <1>2, CompterStable DEF SignalerEchec

(* The wrong current password of a change of password.                      *)
LEMMA ChangerStable ==
  ASSUME LimiteurInv, NEW ip \in Adresses, ChangerRefuse(ip)
  PROVE  LimiteurInv'
<1>1. \A a \in Adresses : EnEssai(a)' = EnEssai(a)
  BY DEF ChangerRefuse, EnEssai
<1>2. essais' \in [Essais -> Adresses \cup {Aucune}]
  BY DEF ChangerRefuse, LimiteurInv, LimiteurTypeOK
<1>3. /\ CompterEchec(ip, 1) /\ libres[ip] < MaxLibres
      /\ UNCHANGED <<heure, blocages>>
  BY DEF ChangerRefuse
<1>4. \A a \in Adresses : EnEssai(a)' \subseteq EnEssai(a)
  BY <1>1
<1>5. (1 = 0) => \E e \in EnEssai(ip) : EnEssai(ip)' = EnEssai(ip) \ {e}
  OBVIOUS
<1>6. (1 = 1) => libres[ip] < MaxLibres
  BY <1>3
<1>7. 1 \in {0, 1}
  OBVIOUS
<1> HIDE DEF LimiteurInv
<1> QED
  BY <1>2, <1>3, <1>4, <1>5, <1>6, <1>7, CompterStable

LEMMA LimiteurStable == LimiteurInv /\ [LimiteurNext]_limiteurVars => LimiteurInv'
<1> SUFFICES ASSUME LimiteurInv, [LimiteurNext]_limiteurVars PROVE LimiteurInv'
  OBVIOUS
<1>1. CASE UNCHANGED limiteurVars
  BY <1>1
  DEF limiteurVars, LimiteurInv, LimiteurTypeOK, HeuresPassees, CarteTenue, EssaisComptes, EnEssai,
      Recents, BlocagesSuivis, BlocagesEspaces, Espaces
<1> QED
  BY <1>1, TicStable, VerifierStable, SignalerStable, ChangerStable, ReussirStable DEF LimiteurNext

LEMMA LimiteurInvariant == LimiteurSpec => []LimiteurInv
BY LimiteurInitial, LimiteurStable, PTL DEF LimiteurSpec

LEMMA LimitationSuit == LimiteurInv => LimiteurTypeOK /\ LimitationTenue
<1> SUFFICES ASSUME LimiteurInv PROVE LimitationTenue
  BY DEF LimiteurInv
<1> USE DEF LimiteurInv
<1>1. \A ip \in Adresses :
        Len(Recents(ip)) + Cardinality({e \in Essais : essais[e] = ip})
          < Max + Cardinality(Essais) + libres[ip]
  BY DEF EssaisComptes, EnEssai
<1>2. \A ip \in Adresses : echecs[ip] # <<>> <=> \E i \in DOMAIN recence : recence[i] = ip
  BY DEF CarteTenue, Elements
<1> QED
  BY <1>1, <1>2 DEF LimitationTenue, BlocagesEspaces, Espaces, CarteTenue

-----------------------------------------------------------------------------
(* Theorems.                                                                *)

(* As long as no answer was overtaken by another one, the list shows the    *)
(* page and the search asked for, the sheet shows its own call and its      *)
(* holds; the journal shows the page and the filters in place, and an       *)
(* extract that says it is whole misses no event it did not write itself    *)
(* (AppelsPage.tsx, JournalPage.tsx, audit.service.ts).                     *)
THEOREM PagesToujoursTenues == InstanceSpec => []PagesTenues
<1>1. ConsultationInv /\ JournalInv => PagesTenues
  BY ConsultationTenue, JournalSuit DEF PagesTenues
<1> QED
  BY <1>1, ConsultationInvariant, JournalInvariant, PTL DEF InstanceSpec

(* As long as no act of the user crosses another one, the tab shows the     *)
(* profile of its tokens, opens the portal on no provisional password, and  *)
(* forgets no session that is open                                          *)
(* (AuthProvider.tsx:61-74, client.ts:56-59, mot-de-passe.guard.ts:8-15).   *)
THEOREM SessionToujoursTenue == InstanceSpec => []SessionTenue
<1>1. PortailInv => SessionTenue
  BY SessionSuit
<1> QED
  BY <1>1, PortailInvariant, PTL DEF InstanceSpec

(* However many logins of an address are past the guard at once, the        *)
(* failures counted in the window stay under the limit, those under way and *)
(* the changes of password refused, one failure is never counted in two     *)
(* entries of the journal, and the memory is one map within its bound       *)
(* (limitation-connexion.service.ts:75-80, 104-117).                        *)
THEOREM LimitationToujoursTenue == InstanceSpec => []LimitationTenue
<1>1. LimiteurInv => LimitationTenue
  BY LimitationSuit
<1> QED
  BY <1>1, LimiteurInvariant, PTL DEF InstanceSpec

(* Every state of the instance is well typed, on every subject at once: a   *)
(* rule of a draft keeps the form the engine reads, a failed login is never *)
(* kept for an address unknown, a request of a page answers what was asked  *)
(* (contract.ts:123-172, schema.prisma).                                    *)
THEOREM InstanceBienTypee == InstanceSpec => []InstanceTypeOK
<1>1. RegistreInit /\ [][RegistreNext]_registreVars => []RegistreTypeOK
  <2>1. RegistreInit => RegistreTypeOK
    BY DEF RegistreInit, RegistreTypeOK, StatutsEnregistrement
  <2>2. RegistreTypeOK /\ [RegistreNext]_registreVars => RegistreTypeOK'
    <3>1. RegistreTypeOK /\ UNCHANGED registreVars => RegistreTypeOK'
      BY DEF RegistreTypeOK, registreVars
    <3> QED
      BY <3>1, RegistreType
  <2> QED
    BY <2>1, <2>2, PTL
<1>2. RetentionInit /\ [][RetentionNext]_politiques => []RetentionTypeOK
  <2>1. RetentionInit => RetentionTypeOK
    BY RetentionAssumption DEF RetentionInit, RetentionTypeOK, RetentionAssumption, Ligne, Jours
  <2>2. RetentionTypeOK /\ [RetentionNext]_politiques => RetentionTypeOK'
    <3>1. RetentionTypeOK /\ UNCHANGED politiques => RetentionTypeOK'
      BY DEF RetentionTypeOK
    <3> QED
      BY <3>1, RetentionType
  <2> QED
    BY <2>1, <2>2, PTL
<1>3. HoldsInit /\ [][HoldsNext]_holdsVars => []HoldsTypeOK
  <2>1. HoldsInit => HoldsTypeOK
    BY DEF HoldsInit, HoldsTypeOK, PasDeHold, PasDeDemande, LigneHold, Demande
  <2>2. HoldsTypeOK /\ [HoldsNext]_holdsVars => HoldsTypeOK'
    <3>1. HoldsTypeOK /\ UNCHANGED holdsVars => HoldsTypeOK'
      BY DEF HoldsTypeOK, holdsVars
    <3> QED
      BY <3>1, HoldsType
  <2> QED
    BY <2>1, <2>2, PTL
<1>4. EditeurSpec => []EditeurTypeOK
  <2>1. EditeurInv => EditeurTypeOK
    BY DEF EditeurInv, EditeurTypeOK, RegleSaine
  <2> QED
    BY <2>1, EditeurInitial, EditeurStable, PTL DEF EditeurSpec
<1>5. LimiteurInv => LimiteurTypeOK
  BY LimitationSuit
<1>6. ConsultationInv /\ JournalInv /\ PortailInv =>
        ConsultationTypeOK /\ LectureJournalTypeOK /\ PortailTypeOK
  BY ConsultationTenue, JournalSuit, SessionSuit
<1>7. /\ RegistreTypeOK /\ RetentionTypeOK /\ HoldsTypeOK /\ PolitiqueTypeOK /\ EditeurTypeOK
      /\ ReglagesTypeOK /\ LimiteurTypeOK
      /\ ConsultationTypeOK /\ LectureJournalTypeOK /\ PortailTypeOK
      => InstanceTypeOK
  BY DEF InstanceTypeOK
<1> QED
  BY <1>1, <1>2, <1>3, <1>4, <1>5, <1>6, <1>7, PolitiqueType, ReglagesType, LimiteurInvariant,
     ConsultationInvariant, JournalInvariant, PortailInvariant, PTL
  DEF InstanceSpec, ConservationSpec
=============================================================================
