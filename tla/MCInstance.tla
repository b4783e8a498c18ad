----------------------------- MODULE MCInstance -----------------------------
(***************************************************************************)
(* What administrators decide, each subject on a small instance: retention  *)
(* periods and legal holds, versions of the recording policy, the editor of *)
(* a policy, the settings of the instance, the limiter of logins, and the   *)
(* screens of the portal: the calls, the journal, the session of a tab.  No *)
(* step of one subject reads what another one writes: a behaviour is of one *)
(* subject, chosen at the start, and leaves the others alone.  The requests *)
(* of every subject bear the same two names, so that one symmetry of few    *)
(* permutations serves them all.                                            *)
(***************************************************************************)
EXTENDS Instance, MCConservation

CONSTANTS
  document1, document2,
  reseau, annuaire, contenu1, contenu2,
  entrant, sortant, categorie, liste1, libelle1, defaut,
  tout, critere1, exports, systeme,
  k2

VARIABLE sujet

MCTirage(refci, cle) == IF cle = libelle1 THEN 0 ELSE 99
MCMotifs == {[racine |-> <<1>>, joker |-> FALSE], [racine |-> <<6>>, joker |-> TRUE]}
MCAppels ==
  {[refci |-> r1, near |-> <<1>>, far |-> <<7>>, direction |-> entrant, category |-> Vide],
   [refci |-> r1, near |-> <<7>>, far |-> <<6, 9>>, direction |-> entrant, category |-> categorie]}

(* One search fills two pages, the other one only.                          *)
MCPagesDe(f) == IF f = tout THEN 2 ELSE 1

Sujets ==
  {"conservation", "politique", "editeur", "reglages", "limiteur", "appels", "journal",
   "session"}

varsPortail == <<consultationVars, lectureJournalVars, portailVars>>
varsRegles == <<politiqueVars, editeurVars, reglagesVars, limiteurVars>>
varsInstance == <<vars, varsRegles, varsPortail, sujet>>

UnSujetInit ==
  /\ Init /\ PolitiqueInit /\ EditeurInit /\ ReglagesInit /\ LimiteurInit
  /\ ConsultationInit /\ LectureJournalInit /\ PortailInit
  /\ sujet \in Sujets
  /\ sujet # "journal" => evenements.autres = 0
  /\ sujet # "session" => provisoires = {}

UnSujetNext ==
  /\ UNCHANGED sujet
  /\ \/ /\ sujet = "conservation" /\ Next
        /\ UNCHANGED <<varsRegles, varsPortail>>
     \/ /\ sujet = "politique" /\ PolitiqueNext
        /\ UNCHANGED <<vars, editeurVars, reglagesVars, limiteurVars, varsPortail>>
     \/ /\ sujet = "editeur" /\ EditeurNext
        /\ UNCHANGED <<vars, politiqueVars, reglagesVars, limiteurVars, varsPortail>>
     \/ /\ sujet = "reglages" /\ ReglagesNext
        /\ UNCHANGED <<vars, politiqueVars, editeurVars, limiteurVars, varsPortail>>
     \/ /\ sujet = "limiteur" /\ LimiteurNext
        /\ UNCHANGED <<vars, politiqueVars, editeurVars, reglagesVars, varsPortail>>
     \/ /\ sujet = "appels" /\ ConsultationNext
        /\ UNCHANGED <<vars, varsRegles, lectureJournalVars, portailVars>>
     \/ /\ sujet = "journal" /\ LectureJournalNext
        /\ UNCHANGED <<vars, varsRegles, consultationVars, portailVars>>
     \/ /\ sujet = "session" /\ PortailNext
        /\ UNCHANGED <<vars, varsRegles, consultationVars, lectureJournalVars>>

UnSujetSpec == UnSujetInit /\ [][UnSujetNext]_varsInstance

(* Bounds.  Periods and holds do not read one another: periods are changed  *)
(* while nothing happens to holds.                                          *)
PeriodesSansHold ==
  \/ RetentionInit
  \/ /\ holds = [h \in Holds |-> PasDeHold] /\ demandes = [d \in Demandes |-> PasDeDemande]
     /\ administrateurs = Comptes

(* Rows of versions are numbered and used in that order; two are published  *)
(* or deleted, one once a draft was written over under a publication.       *)
Effacees == {v \in Versions : versions[v].statut = "effacee"}
PeuDeVersions ==
  /\ \A v, w \in Versions :
       v < w /\ versions[v].statut = "absente" => versions[w].statut = "absente"
  /\ Cardinality(publications) + Cardinality(Effacees) <= IF retouchees = {} THEN 2 ELSE 1
  /\ courses => retouchees = {} /\ \E v \in Versions : versions[v].statut = "absente"

(* A document has two parts besides what it starts with; of two rules, one  *)
(* has no name and does not sample.                                         *)
DocumentCourt ==
  /\ Len(document.regles) + Len(document.listes) + Len(document.exclusions)
       + (IF document.parDefaut = "always" /\ document.tauxParDefaut = Vide THEN 0 ELSE 1) <= 2
  /\ Len(document.regles) = 2 =>
       \E i \in 1..2 :
         document.regles[i].libelle = Vide /\ document.regles[i].decision # "sample"

(* Once a section is disturbed its property says nothing more; sections are *)
(* independent, and one at a time is in use; k2 is typed after another      *)
(* secret was given.                                                        *)
UneSectionALaFois ==
  /\ troublees = {}
  /\ \A s \in Sections :
       \/ reglages[s] = JamaisEcrite /\ cache[s] = Aucun
       \/ \A o \in Operateurs : onglets[o].section = s \/ onglets[o].pc = "ferme"
  /\ \A o \in Operateurs : onglets[o].secret = k2 => donnes[onglets[o].section] # Aucun

(* An address is forgotten once and two blockings are journalised.          *)
PeuDeBlocages == Cardinality(oubliees) <= 1 /\ Cardinality(blocages) <= 2

(* Of the page of the calls: two requests at once, one under an error, and  *)
(* nothing after an answer has been overtaken; the readings of a sheet are  *)
(* tried over the first list, the acts on a hold over its pages; one call   *)
(* under hold at a time.                                                    *)
Lit == fiche.source # Rien \/ fiche.integrite # Rien \/ fiche.ouverture \/ fiche.exporte
Agit == fiche.formulaire # "aucun" \/ gardes # {}
PeuDeDemandes ==
  /\ ~derangee /\ ~glissee
  /\ Cardinality(gardes) <= 1
  /\ Cardinality(enVol) <= IF liste.erreur THEN 1 ELSE 2
  /\ Agit => liste.filtres = SansCritere
  /\ Lit => liste.page = 1 /\ liste.filtres = SansCritere /\ ~Agit /\ ~liste.erreur

(* Of a tab: nothing after an act has crossed another one.                  *)
ActesSepares == ~croisee

Bornes ==
  /\ PeriodesSansHold /\ PeuDeVersions /\ DocumentCourt /\ UneSectionALaFois
  /\ PeuDeBlocages /\ PeuDeDemandes /\ ActesSepares

SymetrieDemandes == Permutations(Demandes)
=============================================================================
