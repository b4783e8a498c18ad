--------------------------- MODULE LectureJournal ---------------------------
(***************************************************************************)
(* The page of the journal: its list, its filters and the extraction in     *)
(* CSV, over a journal that grows.  The form and the pagination are         *)
(* disabled while a list loads, so that one list at most is awaited; an     *)
(* extraction is awaited beside it.  The service counts the events of an    *)
(* extract, reads them and journalises the extract at three instants.       *)
(***************************************************************************)
EXTENDS Naturals

CONSTANTS
  Tout,           \* no filter
  LesExports,     \* the filter on the action EXPORT
  HorsPerimetre,  \* the filter on the events of the system
  DuSysteme,      \* whether the account may read these
  Taille,         \* lines of a page
  MaxLignes,      \* AUDIT_CSV_MAX_LIGNES
  MaxEvenements,  \* bound on the journal
  AucunePage      \* nothing loaded

ASSUME LectureJournalAssumption ==
  /\ Taille \in Nat \ {0} /\ MaxLignes \in Nat /\ MaxEvenements \in Nat
  /\ DuSysteme \in BOOLEAN
  /\ Tout # LesExports /\ Tout # HorsPerimetre /\ LesExports # HorsPerimetre

VARIABLES
  ecran,       \* the state of JournalPage
  appel,       \* the list awaited, with what the service answered
  extraction,  \* the extraction awaited and its step in the service
  extrait,     \* the last file handed to the browser
  evenements,  \* the number of events of the tenant, by kind
  masquee      \* history: an extraction erased the error of the list shown

lectureJournalVars == <<ecran, appel, extraction, extrait, evenements, masquee>>

Filtres == {Tout, LesExports, HorsPerimetre}
Pages == 1..(MaxEvenements + 1)
Feuille == [page : Pages, filtres : Filtres]

AucunAppel == [etat |-> "aucun", page |-> 1, filtres |-> Tout, pages |-> 0]
AucuneExtraction ==
  [pc |-> "aucune", filtres |-> Tout, total |-> 0, lignes |-> 0, manque |-> FALSE,
   croise |-> FALSE]

(* where, of construireFiltre: the tenant bounds the reading, the action    *)
(* restricts it; the events of the system are none here.                    *)
Nombre(f) ==
  CASE f = Tout -> evenements.autres + evenements.exports
    [] f = LesExports -> evenements.exports
    [] f = HorsPerimetre -> 0

Interdit(f) == f = HorsPerimetre /\ ~DuSysteme
PageCount(n) == (n + Taille - 1) \div Taille
LePlusPetit(a, b) == IF a < b THEN a ELSE b

LectureJournalTypeOK ==
  /\ ecran.page \in Pages /\ ecran.filtres \in Filtres
  /\ ecran.donnees \in Feuille \cup {AucunePage} /\ ecran.pages \in Nat
  /\ {ecran.chargement, ecran.erreur} \subseteq BOOLEAN
  /\ appel.etat \in {"aucun", "envoye", "rendu", "refuse"}
  /\ extraction.pc \in {"aucune", "compter", "lire", "tracer", "rendue", "refusee"}
  /\ evenements.autres \in Nat /\ evenements.exports \in Nat
  /\ masquee \in BOOLEAN

LectureJournalInit ==
  /\ ecran = [page |-> 1, filtres |-> Tout, donnees |-> AucunePage, pages |-> 0,
              chargement |-> TRUE, erreur |-> FALSE]
  /\ appel = [AucunAppel EXCEPT !.etat = "envoye"]
  /\ extraction = AucuneExtraction
  /\ extrait = [tronque |-> FALSE, manque |-> FALSE, croise |-> FALSE]
  /\ evenements \in {[autres |-> n, exports |-> 0] : n \in 0..Taille + 1}
  /\ masquee = FALSE

-----------------------------------------------------------------------------
(* charger.                                                                 *)
Demander(p, f) ==
  /\ ecran' = [ecran EXCEPT !.page = p, !.filtres = f, !.chargement = TRUE, !.erreur = FALSE]
  /\ appel' = [AucunAppel EXCEPT !.etat = "envoye", !.page = p, !.filtres = f]
  /\ UNCHANGED <<extraction, extrait, evenements, masquee>>

Filtrer(f) == ~ecran.chargement /\ Demander(1, f)

TournerLaPage(p) ==
  /\ ecran.donnees # AucunePage /\ ecran.pages > 1 /\ ~ecran.chargement
  /\ \/ p = ecran.page - 1 /\ p >= 1
     \/ p = ecran.page + 1 /\ p <= ecran.pages
  /\ Demander(p, ecran.filtres)

(* AuditReadService.list: the count and the rows, in one transaction.  A    *)
(* reading on the screen is not journalised.                                *)
Lister ==
  /\ appel.etat = "envoye"
  /\ appel' = IF Interdit(appel.filtres) THEN [appel EXCEPT !.etat = "refuse"]
              ELSE [appel EXCEPT !.etat = "rendu", !.pages = PageCount(Nombre(appel.filtres))]
  /\ UNCHANGED <<ecran, extraction, extrait, evenements, masquee>>

ListeRompue ==
  /\ appel.etat \in {"envoye", "rendu"}
  /\ appel' = [appel EXCEPT !.etat = "refuse", !.pages = 0]
  /\ UNCHANGED <<ecran, extraction, extrait, evenements, masquee>>

RecevoirLaListe ==
  /\ appel.etat \in {"rendu", "refuse"}
  /\ ecran' = IF appel.etat = "refuse" THEN [ecran EXCEPT !.chargement = FALSE, !.erreur = TRUE]
              ELSE [ecran EXCEPT !.chargement = FALSE, !.pages = appel.pages,
                                 !.donnees = [page |-> appel.page, filtres |-> appel.filtres]]
  /\ masquee' = (masquee /\ appel.etat = "refuse")
  /\ appel' = AucunAppel
  /\ UNCHANGED <<extraction, extrait, evenements>>

-----------------------------------------------------------------------------
(* extraire: with the filters of the list, whose error it erases.           *)

AJour == ecran.donnees = [page |-> ecran.page, filtres |-> ecran.filtres]

Extraire ==
  /\ ~ecran.chargement /\ extraction.pc = "aucune"
  /\ ecran' = [ecran EXCEPT !.erreur = FALSE]
  /\ masquee' = ~AJour
  /\ extraction' = [AucuneExtraction EXCEPT !.pc = "compter", !.filtres = ecran.filtres]
  /\ UNCHANGED <<appel, extrait, evenements>>

(* AuditReadService.exporterCsv.  manque: an event that matches is not in   *)
(* the rows; croise: one was written between the count and the rows.        *)
Compter ==
  /\ extraction.pc = "compter"
  /\ extraction' = IF Interdit(extraction.filtres) THEN [extraction EXCEPT !.pc = "refusee"]
                   ELSE [extraction EXCEPT !.pc = "lire", !.total = Nombre(extraction.filtres)]
  /\ UNCHANGED <<ecran, appel, extrait, evenements, masquee>>

LireLesLignes ==
  /\ extraction.pc = "lire"
  /\ LET n == Nombre(extraction.filtres) IN
     extraction' = [extraction EXCEPT !.pc = "tracer", !.lignes = LePlusPetit(n, MaxLignes),
                                      !.manque = n > MaxLignes,
                                      !.croise = n # extraction.total]
  /\ UNCHANGED <<ecran, appel, extrait, evenements, masquee>>

Tronque == extraction.total > extraction.lignes

TracerLExtrait ==
  /\ extraction.pc = "tracer"
  /\ evenements.autres + evenements.exports < MaxEvenements
  /\ evenements' = [evenements EXCEPT !.exports = @ + 1]
  /\ extraction' = [extraction EXCEPT !.pc = "rendue"]
  /\ UNCHANGED <<ecran, appel, extrait, masquee>>

ExtractionRompue ==
  /\ extraction.pc \notin {"aucune", "refusee"}
  /\ extraction' = [extraction EXCEPT !.pc = "refusee"]
  /\ UNCHANGED <<ecran, appel, extrait, evenements, masquee>>

(* The file is handed to the browser, or an error is shown; whether the     *)
(* extract is truncated is in a header of the answer.                       *)
RecevoirLExtrait ==
  /\ extraction.pc \in {"rendue", "refusee"}
  /\ IF extraction.pc = "rendue"
     THEN /\ extrait' = [tronque |-> Tronque, manque |-> extraction.manque,
                         croise |-> extraction.croise]
          /\ UNCHANGED ecran
     ELSE /\ ecran' = [ecran EXCEPT !.erreur = TRUE]
          /\ UNCHANGED extrait
  /\ extraction' = AucuneExtraction
  /\ UNCHANGED <<appel, evenements, masquee>>

(* Anyone else's act.                                                       *)
Consigner ==
  /\ evenements.autres + evenements.exports < MaxEvenements
  /\ evenements' = [evenements EXCEPT !.autres = @ + 1]
  /\ UNCHANGED <<ecran, appel, extraction, extrait, masquee>>

LectureJournalNext ==
  \/ \E f \in Filtres : Filtrer(f)
  \/ \E p \in Pages : TournerLaPage(p)
  \/ Lister \/ ListeRompue \/ RecevoirLaListe
  \/ Extraire \/ Compter \/ LireLesLignes \/ TracerLExtrait \/ ExtractionRompue
  \/ RecevoirLExtrait \/ Consigner

LectureJournalSpec == LectureJournalInit /\ [][LectureJournalNext]_lectureJournalVars

-----------------------------------------------------------------------------
(* The list shown without an error is that of the page and the filters in   *)
(* place, save when the error of its reading was erased by an extraction.   *)
(* An extract said truncated misses an event; one that misses an event says *)
(* so, unless an event was written between its count and its rows           *)
(* (JournalPage.tsx:100, audit.controller.ts:53-55).                        *)
JournalTenu ==
  /\ ~masquee /\ ~ecran.chargement /\ ~ecran.erreur => AJour
  /\ extrait.tronque => extrait.manque
  /\ extrait.manque /\ ~extrait.croise => extrait.tronque
=============================================================================
