---------------------------- MODULE Consultation ----------------------------
(***************************************************************************)
(* The page of the calls: its list, the sheet of the call that is open, the *)
(* player, the export and the legal holds shown on the sheet.  Every answer *)
(* of the service comes back after other clicks: the page never cancels a   *)
(* request, and each answer is applied as it comes.                         *)
(*                                                                         *)
(* A continuation of a request keeps the call, the page and the criteria of *)
(* the moment of the click.  A sheet that was closed no longer applies      *)
(* anything, but the reload of the list it asked for is still made.         *)
(***************************************************************************)
EXTENDS Naturals, FiniteSets

CONSTANTS
  Consultables,  \* the calls of the list
  Recherches,    \* criteria of a search
  SansCritere,   \* the search without criteria
  Refusees,      \* criteria the service refuses (a range upside down)
  PagesDe(_),    \* the pages of the answer to a search
  NbPages,       \* bound on those
  MaxEnVol,      \* bound on the requests in flight
  Rien           \* no call, no list, no continuation

ASSUME ConsultationAssumption ==
  /\ SansCritere \in Recherches /\ Refusees \subseteq Recherches \ {SansCritere}
  /\ NbPages \in Nat \ {0} /\ MaxEnVol \in Nat \ {0}
  /\ \A f \in Recherches : PagesDe(f) \in 0..NbPages
  /\ Rien \notin Consultables

VARIABLES
  liste,      \* the state of RecordingsPage
  fiche,      \* the state of RecordingDetail and ConservationForcee
  enVol,      \* the requests in flight, with what the service answered
  gardes,     \* the calls under an active hold
  derangee,   \* history: a page or criteria chosen while an answer was awaited
  glissee     \* history: the sheet went to another call likewise

consultationVars == <<liste, fiche, enVol, gardes, derangee, glissee>>

Vue == [page : 1..NbPages, filtres : Recherches]
Conservation == [appel : Consultables, active : BOOLEAN]

(* ouverture, exporte, envoi: the flags that disable the buttons.  integrite *)
(* and source: the call the verdict and the ticket are about.               *)
FicheDe(appel) ==
  [appel |-> appel, source |-> Rien, ouverture |-> FALSE, exporte |-> FALSE,
   integrite |-> Rien, holds |-> Rien, envoi |-> FALSE, formulaire |-> "aucun",
   sansContre |-> FALSE]

(* genre: what is asked.  vue: the list asked for, or the one that an act   *)
(* on a hold will reload.  suite: that reload follows the answer.  accepte: *)
(* acts without a second administrator.                                     *)
Question(genre, appel, vue, suite, accepte) ==
  [genre |-> genre, appel |-> appel, vue |-> vue, suite |-> suite, accepte |-> accepte]

Genres == {"liste", "holds", "ecoute", "export", "pose", "levee"}
Etats == {"envoyee", "rendue", "refusee", "seul"}

VueCourante == [page |-> liste.page, filtres |-> liste.filtres]

(* The requests in flight are a bag: rang tells apart those asked twice.    *)
Voyage(d, n) ==
  [demande |-> d, rang |-> n, etat |-> "envoyee", vive |-> TRUE, active |-> FALSE]

Avec(vol, d) ==
  LET pris == {x.rang : x \in {y \in vol : y.demande = d}} IN
  vol \cup {Voyage(d, CHOOSE n \in 1..MaxEnVol + 1 :
                        n \notin pris /\ \A k \in 1..(n - 1) : k \in pris)}

DemandeListe(vue) == Question("liste", Rien, vue, FALSE, FALSE)
DemandeHolds(appel, suite) ==
  Question("holds", appel, suite, suite # Rien, FALSE)

DemandeDeLecture(genre) == Question(genre, fiche.appel, Rien, FALSE, FALSE)
DemandeDActe(genre, accepte) == Question(genre, fiche.appel, VueCourante, FALSE, accepte)

EnAttente == {x \in enVol : x.demande.genre = "liste" \/ x.demande.suite}
ActesEnCours == {x \in enVol : x.demande.genre \in {"pose", "levee"}}
AttendDeLaFiche == {x \in enVol : x.vive /\ x.demande.genre # "liste"}

ConsultationTypeOK ==
  /\ liste.page \in 1..NbPages /\ liste.filtres \in Recherches
  /\ liste.donnees \in Vue \cup {Rien}
  /\ liste.chargement \in BOOLEAN /\ liste.erreur \in BOOLEAN
  /\ {fiche.appel, fiche.source, fiche.integrite} \subseteq Consultables \cup {Rien}
  /\ fiche.holds \in Conservation \cup {Rien}
  /\ fiche.formulaire \in {"aucun", "pose", "levee"}
  /\ \A x \in enVol :
       /\ x.demande.genre \in Genres /\ x.etat \in Etats /\ x.demande.vue \in Vue \cup {Rien}
       /\ x.demande.appel \in Consultables \cup {Rien}
  /\ gardes \subseteq Consultables
  /\ derangee \in BOOLEAN /\ glissee \in BOOLEAN

(* The page opens: it asks at once for the first page, without criteria.    *)
ConsultationInit ==
  LET premiere == [page |-> 1, filtres |-> SansCritere] IN
  /\ liste = [page |-> 1, filtres |-> SansCritere, donnees |-> Rien,
              chargement |-> TRUE, erreur |-> FALSE]
  /\ fiche = FicheDe(Rien)
  /\ enVol = {Voyage(DemandeListe(premiere), 1)}
  /\ gardes = {}
  /\ derangee = FALSE /\ glissee = FALSE

-----------------------------------------------------------------------------
(* The list.                                                                *)

(* charger: the flag is set and the error cleared with the request.         *)
EnChargement(l) == [l EXCEPT !.chargement = TRUE, !.erreur = FALSE]

(* Of a sheet that closes, the answers to come change nothing any more but  *)
(* the list, after an act on a hold; the others are forgotten.              *)
Orphelines(vol) ==
  {[x EXCEPT !.vive = x.demande.genre = "liste"] :
     x \in {y \in vol : y.demande.vue # Rien}}

(* The form is disabled while a list loads.  A search, even the same one,   *)
(* starts again from the first page and closes the sheet.                   *)
Rechercher(f) ==
  /\ ~liste.chargement
  /\ liste' = EnChargement([liste EXCEPT !.page = 1, !.filtres = f])
  /\ fiche' = FicheDe(Rien)
  /\ enVol' = Avec(Orphelines(enVol), DemandeListe([page |-> 1, filtres |-> f]))
  /\ derangee' = (derangee \/ EnAttente # {} \/ ActesEnCours # {})
  /\ UNCHANGED <<gardes, glissee>>

(* The pagination is shown as soon as a list of several pages is, and is    *)
(* not disabled while another one loads.                                    *)
Tourner(p) ==
  /\ liste.donnees # Rien /\ PagesDe(liste.donnees.filtres) > 1
  /\ \/ p = liste.page - 1 /\ p >= 1
     \/ p = liste.page + 1 /\ p <= PagesDe(liste.donnees.filtres)
  /\ liste' = EnChargement([liste EXCEPT !.page = p])
  /\ enVol' = Avec(enVol, DemandeListe([page |-> p, filtres |-> liste.filtres]))
  /\ derangee' = (derangee \/ EnAttente # {} \/ ActesEnCours # {})
  /\ UNCHANGED <<fiche, gardes, glissee>>

-----------------------------------------------------------------------------
(* The sheet.                                                               *)

(* Mutant: the player of the former call stays open.                        *)
MutantConsulterSansFermer(a) ==
  /\ ~liste.chargement /\ liste.donnees # Rien /\ PagesDe(liste.donnees.filtres) > 0
  /\ fiche.appel # a
  /\ fiche' = [fiche EXCEPT !.appel = a, !.integrite = Rien,
                            !.formulaire = "aucun", !.sansContre = FALSE]
  /\ enVol' = Avec(enVol, DemandeHolds(a, Rien))
  /\ glissee' = (glissee \/ AttendDeLaFiche # {})
  /\ UNCHANGED <<liste, gardes, derangee>>

(* A line of the list is opened.  On another call than the one shown, the   *)
(* player and the verdict are closed and the form of the holds emptied, the *)
(* holds of the former call stay until those of the new one come, and so do *)
(* the flags of the requests in flight.                                     *)
Consulter(a) ==
  /\ ~liste.chargement /\ liste.donnees # Rien /\ PagesDe(liste.donnees.filtres) > 0
  /\ fiche.appel # a
  /\ fiche' = [fiche EXCEPT !.appel = a, !.source = Rien, !.integrite = Rien,
                            !.formulaire = "aucun", !.sansContre = FALSE]
  /\ enVol' = Avec(enVol, DemandeHolds(a, Rien))
  /\ glissee' = (glissee \/ AttendDeLaFiche # {})
  /\ UNCHANGED <<liste, gardes, derangee>>

Fermer ==
  /\ fiche.appel # Rien
  /\ fiche' = FicheDe(Rien)
  /\ enVol' = Orphelines(enVol)
  /\ UNCHANGED <<liste, gardes, derangee, glissee>>

Ecouter ==
  /\ fiche.appel # Rien /\ fiche.source = Rien /\ ~fiche.ouverture
  /\ fiche' = [fiche EXCEPT !.ouverture = TRUE]
  /\ enVol' = Avec(enVol, DemandeDeLecture("ecoute"))
  /\ UNCHANGED <<liste, gardes, derangee, glissee>>

Exporter(a) ==
  /\ fiche.appel = a /\ ~fiche.exporte
  /\ fiche' = [fiche EXCEPT !.exporte = TRUE, !.integrite = Rien]
  /\ enVol' = Avec(enVol, DemandeDeLecture("export"))
  /\ UNCHANGED <<liste, gardes, derangee, glissee>>

(* The form of the holds opens once they are known, to set one or to        *)
(* release the one shown, and closes on Annuler.                            *)
Formulaire ==
  /\ fiche.appel # Rien
  /\ \/ /\ fiche.formulaire = "aucun" /\ fiche.holds # Rien
        /\ fiche' = [fiche EXCEPT !.formulaire = IF fiche.holds.active THEN "levee" ELSE "pose"]
     \/ /\ fiche.formulaire # "aucun"
        /\ fiche' = [fiche EXCEPT !.formulaire = "aucun", !.sansContre = FALSE]
  /\ UNCHANGED <<liste, enVol, gardes, derangee, glissee>>

Soumettre ==
  /\ fiche.formulaire # "aucun" /\ ~fiche.envoi
  /\ fiche' = [fiche EXCEPT !.envoi = TRUE]
  /\ enVol' = Avec(enVol, DemandeDActe(fiche.formulaire,
                                      fiche.formulaire = "levee" /\ fiche.sansContre))
  /\ UNCHANGED <<liste, gardes, derangee, glissee>>

-----------------------------------------------------------------------------
(* The service.                                                             *)

(* construireFiltre: a range upside down is refused.                        *)
Recevable(filtres) == filtres \notin Refusees

(* RecordingsService.list, ouvrirEcoute and the holds, each at once: module *)
(* Ecoute and module LegalHolds cut them at their awaits.                   *)
Servir(x) ==
  LET d == x.demande
      Repondre(etat) == enVol' = (enVol \ {x}) \cup {[x EXCEPT !.etat = etat]}
  IN
  /\ x.etat = "envoyee"
  /\ UNCHANGED <<liste, fiche, derangee, glissee>>
  /\ CASE d.genre = "liste" ->
            /\ Repondre(IF Recevable(d.vue.filtres) THEN "rendue" ELSE "refusee")
            /\ UNCHANGED gardes
       [] d.genre = "holds" ->
            /\ enVol' = (enVol \ {x}) \cup
                 {[x EXCEPT !.etat = "rendue", !.active = d.appel \in gardes]}
            /\ UNCHANGED gardes
       [] d.genre \in {"ecoute", "export"} -> Repondre("rendue") /\ UNCHANGED gardes
       [] d.genre = "pose" ->
            /\ Repondre(IF d.appel \in gardes THEN "refusee" ELSE "rendue")
            /\ gardes' = gardes \cup {d.appel}
       [] d.genre = "levee" ->
            \/ d.appel \notin gardes /\ Repondre("refusee") /\ UNCHANGED gardes
            \/ d.appel \in gardes /\ Repondre("rendue") /\ gardes' = gardes \ {d.appel}
            \/ d.appel \in gardes /\ ~d.accepte /\ Repondre("seul") /\ UNCHANGED gardes

(* The service or the network fails, before or after the request was served. *)
Rompre(x) ==
  /\ x.etat \in {"envoyee", "rendue"}
  /\ enVol' = (enVol \ {x}) \cup {[x EXCEPT !.etat = "refusee", !.active = FALSE]}
  /\ UNCHANGED <<liste, fiche, gardes, derangee, glissee>>

-----------------------------------------------------------------------------
(* The answers.                                                             *)

RecevoirListe(x) ==
  /\ x.demande.genre = "liste" /\ x.etat # "envoyee"
  /\ liste' =
       [liste EXCEPT
          !.chargement = FALSE,
          !.erreur = IF x.etat = "rendue" THEN @ ELSE TRUE,
          !.donnees = IF x.etat # "rendue" THEN @
                      ELSE x.demande.vue]
  /\ enVol' = enVol \ {x}
  /\ UNCHANGED <<fiche, gardes, derangee, glissee>>

(* charger of the holds; an unread history is no history.  After an act, it *)
(* is followed by the reload of the list as the act saw it.                 *)
RecevoirHolds(x) ==
  /\ x.demande.genre = "holds" /\ x.etat # "envoyee"
  /\ fiche' =
       IF ~x.vive THEN fiche
       ELSE [fiche EXCEPT
               !.holds = IF x.etat # "rendue" THEN Rien
                         ELSE [appel |-> x.demande.appel, active |-> x.active],
               !.envoi = IF x.demande.suite THEN FALSE ELSE @]
  /\ IF x.demande.suite
     THEN /\ liste' = EnChargement(liste)
          /\ enVol' = Avec(enVol \ {x}, DemandeListe(x.demande.vue))
     ELSE enVol' = enVol \ {x} /\ UNCHANGED liste
  /\ UNCHANGED <<gardes, derangee, glissee>>

RecevoirLecture(x) ==
  /\ x.demande.genre \in {"ecoute", "export"} /\ x.etat # "envoyee"
  /\ fiche' =
       IF ~x.vive THEN fiche
       ELSE IF x.demande.genre = "ecoute"
       THEN [fiche EXCEPT !.ouverture = FALSE,
                          !.source = IF x.etat = "rendue" THEN x.demande.appel ELSE @]
       ELSE [fiche EXCEPT !.exporte = FALSE,
                          !.integrite = IF x.etat = "rendue" THEN x.demande.appel ELSE @]
  /\ enVol' = enVol \ {x}
  /\ UNCHANGED <<liste, gardes, derangee, glissee>>

(* The end of poser and of lever: the form closes and the holds are read    *)
(* again; refused for want of a second administrator, the sheet offers to   *)
(* go without.                                                              *)
RecevoirActe(x) ==
  /\ x.demande.genre \in {"pose", "levee"} /\ x.etat # "envoyee"
  /\ fiche' =
       IF ~x.vive THEN fiche
       ELSE IF x.etat = "rendue"
       THEN [fiche EXCEPT !.formulaire = "aucun",
                          !.sansContre = @ /\ x.demande.genre = "pose"]
       ELSE [fiche EXCEPT !.envoi = FALSE, !.sansContre = @ \/ x.etat = "seul"]
  /\ enVol' =
       IF x.etat # "rendue" THEN enVol \ {x}
       ELSE LET relu == Avec(enVol \ {x}, DemandeHolds(x.demande.appel, x.demande.vue))
            IN IF x.vive THEN relu
               ELSE {IF y \in enVol THEN y ELSE [y EXCEPT !.vive = FALSE] : y \in relu}
  /\ UNCHANGED <<liste, gardes, derangee, glissee>>

ConsultationNext ==
  \/ \E f \in Recherches : Rechercher(f)
  \/ \E p \in 1..NbPages : Tourner(p)
  \/ \E a \in Consultables : Consulter(a) \/ Exporter(a)
  \/ Fermer \/ Ecouter \/ Formulaire \/ Soumettre
  \/ \E x \in enVol :
       \/ Servir(x) \/ Rompre(x)
       \/ RecevoirListe(x) \/ RecevoirHolds(x) \/ RecevoirLecture(x) \/ RecevoirActe(x)

ConsultationSpec == ConsultationInit /\ [][ConsultationNext]_consultationVars

-----------------------------------------------------------------------------
(* The list shown without an error is that of the page and the criteria     *)
(* announced above it, as long as nobody chose a page or criteria while an  *)
(* answer or an act on a hold was awaited (RecordingsPage.tsx:61-63, 135).  *)
ListeTenue ==
  ~derangee /\ ~liste.chargement /\ ~liste.erreur =>
    liste.donnees = VueCourante

(* What is under the name of a call is about that call, as long as it was   *)
(* not opened while an answer was awaited for another one: the ticket being *)
(* played, the verdict of its export and, once they are read, its holds     *)
(* (RecordingDetail.tsx:46-47, ConservationForcee.tsx:23-27).               *)
FicheTenue ==
  ~glissee =>
    /\ fiche.source \in {Rien, fiche.appel} /\ fiche.integrite \in {Rien, fiche.appel}
    /\ \/ fiche.holds = Rien \/ fiche.holds.appel = fiche.appel
       \/ \E x \in enVol : x.demande.genre = "holds" /\ x.demande.appel = fiche.appel
=============================================================================
