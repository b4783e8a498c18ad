------------------------------- MODULE Portail -------------------------------
(***************************************************************************)
(* The session of one tab of the portal: the tokens it keeps, the profile   *)
(* it shows, which of the three screens that leaves (login, change of a     *)
(* provisional password, portal), and the functions of AuthProvider, each   *)
(* of which may be awaiting an answer while another one runs.  The buttons  *)
(* of a form are disabled while it is being sent; the one that logs out     *)
(* never is.                                                                *)
(*                                                                         *)
(* The two tokens of a pair are written and erased together: the tab never  *)
(* holds a refresh token alone, and the branch of restaurer that would use  *)
(* it is never taken.                                                       *)
(***************************************************************************)
EXTENDS Naturals

CONSTANTS
  Utilisateurs,  \* accounts that log in from this tab
  NbPaires,      \* bound on the pairs of tokens issued
  NbAppels,      \* bound on the functions awaiting an answer
  Personne       \* no account, no profile, no answer

Profil == [compte : Utilisateurs, provisoire : BOOLEAN]

ASSUME PortailAssumption ==
  /\ Personne \notin Utilisateurs \cup Profil
  /\ NbPaires \in Nat \ {0} /\ NbAppels \in Nat \ {0}

VARIABLES
  paires,       \* the pairs of tokens issued
  provisoires,  \* accounts whose password must be changed
  onglet,       \* sessionStorage and the state of AuthProvider and its forms
  appels,       \* the functions awaiting an answer
  croisee,      \* history: logged out or in while another answer was awaited
  perdus,       \* history: pairs lost with an answer or erased after a failure
  demiChange    \* history: a password changed and the answer lost

portailVars == <<paires, provisoires, onglet, appels, croisee, perdus, demiChange>>

Paires == 1..NbPaires
Creneaux == 1..NbAppels

PasEmise == [compte |-> Personne, provisoire |-> FALSE, valide |-> FALSE, vivante |-> FALSE]

(* fn: the function; etape: its first request, or that of the profile; avec *)
(* and compte: the pair sent, the account typed; vive: its form is still on *)
(* the screen; paire, profil: what the service answered.                    *)
AucunRetour ==
  [fn |-> "aucune", etape |-> "premiere", compte |-> Personne, avec |-> 0, etat |-> "envoye",
   vive |-> TRUE, paire |-> 0, profil |-> Personne]

Ecran(profil) ==
  IF profil = Personne THEN "connexion" ELSE IF profil.provisoire THEN "motDePasse" ELSE "portail"

PortailTypeOK ==
  /\ paires \in [Paires -> [compte : Utilisateurs \cup {Personne}, provisoire : BOOLEAN,
                            valide : BOOLEAN, vivante : BOOLEAN]]
  /\ provisoires \subseteq Utilisateurs
  /\ onglet \in [jetons : 0..NbPaires, profil : Profil \cup {Personne},
                 chargement : BOOLEAN, envoi : BOOLEAN]
  /\ appels \in [Creneaux ->
       [fn : {"aucune", "restaurer", "connexion", "changer", "deconnexion"},
        etape : {"premiere", "profil"}, compte : Utilisateurs \cup {Personne},
        avec : 0..NbPaires, etat : {"envoye", "rendu", "refuse"}, vive : BOOLEAN,
        paire : 0..NbPaires, profil : Profil \cup {Personne}]]
  /\ croisee \in BOOLEAN /\ perdus \subseteq Paires /\ demiChange \in BOOLEAN

PortailInit ==
  /\ paires = [i \in Paires |-> PasEmise]
  /\ provisoires \in SUBSET Utilisateurs
  /\ onglet = [jetons |-> 0, profil |-> Personne, chargement |-> FALSE, envoi |-> FALSE]
  /\ appels = [k \in Creneaux |-> AucunRetour]
  /\ croisee = FALSE /\ perdus = {} /\ demiChange = FALSE

EnCours(fns) == \E k \in Creneaux : appels[k].fn \in fns
Fonctions == {"restaurer", "connexion", "changer", "deconnexion"}
Libre(k) == appels[k].fn = "aucune" /\ \A j \in 1..(k - 1) : appels[j].fn # "aucune"

Appel(fn, etape, compte) ==
  [AucunRetour EXCEPT !.fn = fn, !.etape = etape, !.compte = compte, !.avec = onglet.jetons]

-----------------------------------------------------------------------------
(* What the user does.                                                      *)

Lancer(k, fn, etape, compte) ==
  /\ Libre(k)
  /\ appels' = [appels EXCEPT ![k] = Appel(fn, etape, compte)]
  /\ UNCHANGED <<paires, provisoires, perdus, demiChange>>

Connexion(k, c) ==
  /\ Ecran(onglet.profil) = "connexion" /\ ~onglet.chargement /\ ~onglet.envoi
  /\ Lancer(k, "connexion", "premiere", c)
  /\ onglet' = [onglet EXCEPT !.envoi = TRUE]
  /\ croisee' = (croisee \/ EnCours(Fonctions))

ChangerMotDePasse(k) ==
  /\ Ecran(onglet.profil) = "motDePasse" /\ ~onglet.envoi
  /\ Lancer(k, "changer", "premiere", onglet.profil.compte)
  /\ onglet' = [onglet EXCEPT !.envoi = TRUE]
  /\ croisee' = (croisee \/ EnCours({"deconnexion"}))

Deconnexion(k) ==
  /\ onglet.profil # Personne
  /\ Lancer(k, "deconnexion", "premiere", Personne)
  /\ croisee' = (croisee \/ EnCours({"changer", "connexion"}))
  /\ UNCHANGED onglet

PaireRendue(k) == IF appels[k].etat = "rendu" THEN {appels[k].paire} \ {0} ELSE {}

(* The page is loaded again: what was awaited is lost; with tokens, the     *)
(* session is restored.                                                     *)
Recharger ==
  /\ onglet' = [onglet EXCEPT !.profil = Personne, !.envoi = FALSE,
                              !.chargement = onglet.jetons # 0]
  /\ appels' = [k \in Creneaux |->
       IF k = 1 /\ onglet.jetons # 0 THEN Appel("restaurer", "profil", Personne)
       ELSE AucunRetour]
  /\ perdus' = perdus \cup UNION {PaireRendue(k) : k \in Creneaux}
  /\ demiChange' = (demiChange \/ \E k \in Creneaux :
                      appels[k].fn = "changer" /\ PaireRendue(k) # {})
  /\ UNCHANGED <<paires, provisoires, croisee>>

-----------------------------------------------------------------------------
(* What the service does, each route at once: module Sessions cuts them at  *)
(* their awaits.  JwtAuthGuard believes an access token until it expires.   *)

Rendre(k, i, profil) ==
  appels' = [appels EXCEPT ![k].etat = "rendu", ![k].paire = i, ![k].profil = profil]

Emettre(i, c, provisoire, avant) ==
  /\ paires[i].compte = Personne /\ \A j \in 1..(i - 1) : paires[j].compte # Personne
  /\ paires' = [avant EXCEPT
       ![i] = [compte |-> c, provisoire |-> provisoire, valide |-> TRUE, vivante |-> TRUE]]

Presente(k) == appels[k].avec # 0 /\ paires[appels[k].avec].valide
Porteur(k) == paires[appels[k].avec].compte

ServirConnexion(k) ==
  LET c == appels[k].compte IN
  /\ appels[k].etat = "envoye" /\ appels[k].etape = "premiere" /\ appels[k].fn = "connexion"
  /\ \E i \in Paires : Emettre(i, c, c \in provisoires, paires) /\ Rendre(k, i, Personne)
  /\ UNCHANGED <<provisoires, onglet, croisee, perdus, demiChange>>

(* Every session of the account is revoked, and a new pair issued.          *)
ServirChangement(k) ==
  LET c == Porteur(k)
      revoquees == [i \in Paires |-> [paires[i] EXCEPT !.vivante = @ /\ paires[i].compte # c]]
  IN
  /\ appels[k].etat = "envoye" /\ appels[k].etape = "premiere" /\ appels[k].fn = "changer"
  /\ Presente(k)
  /\ \E i \in Paires : Emettre(i, c, FALSE, revoquees) /\ Rendre(k, i, Personne)
  /\ provisoires' = provisoires \ {c}
  /\ UNCHANGED <<onglet, croisee, perdus, demiChange>>

ServirDeconnexion(k) ==
  /\ appels[k].etat = "envoye" /\ appels[k].fn = "deconnexion"
  /\ Presente(k)
  /\ paires' = [paires EXCEPT ![appels[k].avec].vivante = FALSE]
  /\ Rendre(k, 0, Personne)
  /\ UNCHANGED <<provisoires, onglet, croisee, perdus, demiChange>>

(* The profile is read in the database, not taken from the token.           *)
ServirProfil(k) ==
  /\ appels[k].etat = "envoye" /\ appels[k].etape = "profil"
  /\ Presente(k)
  /\ Rendre(k, 0, [compte |-> Porteur(k), provisoire |-> Porteur(k) \in provisoires])
  /\ UNCHANGED <<paires, provisoires, onglet, croisee, perdus, demiChange>>

(* The service refuses, or the request or its answer is lost.               *)
Refuser(k) ==
  /\ appels[k].fn # "aucune" /\ appels[k].etat \in {"envoye", "rendu"}
  /\ appels' = [appels EXCEPT ![k].etat = "refuse", ![k].paire = 0, ![k].profil = Personne]
  /\ perdus' = perdus \cup PaireRendue(k)
  /\ demiChange' = (demiChange \/ (appels[k].fn = "changer" /\ PaireRendue(k) # {}))
  /\ UNCHANGED <<paires, provisoires, onglet, croisee>>

Expirer(i) ==
  /\ paires[i].valide
  /\ paires' = [paires EXCEPT ![i].valide = FALSE]
  /\ UNCHANGED <<provisoires, onglet, appels, croisee, perdus, demiChange>>

-----------------------------------------------------------------------------
(* What the functions do with the answers.                                  *)

Finis(k) == [appels EXCEPT ![k] = AucunRetour]

(* A profile that brings another screen closes the forms of the former one. *)
Montrer(profil, jetonsApres, restants, fini) ==
  IF Ecran(profil) = Ecran(onglet.profil)
  THEN /\ onglet' = [onglet EXCEPT !.profil = profil, !.jetons = jetonsApres,
                                   !.chargement = FALSE, !.envoi = @ /\ ~fini]
       /\ appels' = restants
  ELSE /\ onglet' = [onglet EXCEPT !.profil = profil, !.jetons = jetonsApres,
                                   !.chargement = FALSE, !.envoi = FALSE]
       /\ appels' = [k \in Creneaux |-> [restants[k] EXCEPT !.vive = restants[k].fn = "aucune"]]

(* connexion, changerMotDePasse: the pair is kept, then the profile asked.  *)
RecevoirPaire(k) ==
  /\ appels[k].etat = "rendu" /\ appels[k].etape = "premiere"
  /\ appels[k].fn \in {"connexion", "changer"}
  /\ onglet' = [onglet EXCEPT !.jetons = appels[k].paire]
  /\ appels' = [appels EXCEPT
       ![k] = [AucunRetour EXCEPT !.fn = appels[k].fn, !.etape = "profil",
                                  !.avec = appels[k].paire, !.vive = appels[k].vive]]
  /\ UNCHANGED <<paires, provisoires, croisee, perdus, demiChange>>

RecevoirProfil(k) ==
  /\ appels[k].etat = "rendu" /\ appels[k].etape = "profil"
  /\ Montrer(appels[k].profil, onglet.jetons, Finis(k), appels[k].vive)
  /\ UNCHANGED <<paires, provisoires, croisee, perdus, demiChange>>

(* Mutant: a login whose profile fails keeps the tokens.                    *)
MutantRecevoirRefus(k) ==
  /\ appels[k].etat = "refuse" /\ appels[k].fn \in {"restaurer", "connexion", "changer"}
  /\ onglet' = [onglet EXCEPT !.envoi = @ /\ ~appels[k].vive,
                              !.chargement = @ /\ appels[k].fn # "restaurer"]
  /\ appels' = Finis(k)
  /\ UNCHANGED <<paires, provisoires, croisee, perdus, demiChange>>

(* A failure erases the tokens of a restoration, and those of a login whose *)
(* profile does not come; it leaves those of a change of password.          *)
RecevoirRefus(k) ==
  LET efface == \/ appels[k].fn = "restaurer"
                \/ appels[k].fn = "connexion" /\ appels[k].etape = "profil"
  IN
  /\ appels[k].etat = "refuse" /\ appels[k].fn \in {"restaurer", "connexion", "changer"}
  /\ onglet' = [onglet EXCEPT !.jetons = IF efface THEN 0 ELSE @,
                              !.envoi = @ /\ ~appels[k].vive,
                              !.chargement = @ /\ appels[k].fn # "restaurer"]
  /\ appels' = Finis(k)
  /\ perdus' = IF efface THEN perdus \cup ({onglet.jetons} \ {0}) ELSE perdus
  /\ UNCHANGED <<paires, provisoires, croisee, demiChange>>

(* The local session closes whatever the service answered.                  *)
RecevoirDeconnexion(k) ==
  /\ appels[k].fn = "deconnexion" /\ appels[k].etat \in {"rendu", "refuse"}
  /\ Montrer(Personne, 0, Finis(k), FALSE)
  /\ perdus' = IF appels[k].etat = "refuse" THEN perdus \cup ({onglet.jetons} \ {0}) ELSE perdus
  /\ UNCHANGED <<paires, provisoires, croisee, demiChange>>

PortailNext ==
  \/ \E k \in Creneaux :
       \/ \E c \in Utilisateurs : Connexion(k, c)
       \/ ChangerMotDePasse(k) \/ Deconnexion(k)
       \/ ServirConnexion(k) \/ ServirChangement(k) \/ ServirDeconnexion(k) \/ ServirProfil(k)
       \/ Refuser(k)
       \/ RecevoirPaire(k) \/ RecevoirProfil(k) \/ RecevoirRefus(k) \/ RecevoirDeconnexion(k)
  \/ Recharger
  \/ \E i \in Paires : Expirer(i)

PortailSpec == PortailInit /\ [][PortailNext]_portailVars

-----------------------------------------------------------------------------
(* As long as nobody logs out or in while the answer of another act is      *)
(* awaited: the profile shown is that of the tokens sent; a tab that shows  *)
(* the form of the login and awaits nothing keeps no token; the portal is   *)
(* not opened on a token that the service refuses for its provisional       *)
(* password, unless the answer of a change was lost; and no session stays   *)
(* open that the tab has forgotten, but those a failure made it lose        *)
(* (AuthProvider.tsx:61-74, client.ts:56-59, mot-de-passe.guard.ts:8-15).   *)
SessionTenue ==
  ~croisee =>
    /\ onglet.profil # Personne =>
         onglet.jetons # 0 /\ paires[onglet.jetons].compte = onglet.profil.compte
    /\ Ecran(onglet.profil) = "connexion" /\ ~EnCours(Fonctions) => onglet.jetons = 0
    /\ Ecran(onglet.profil) = "portail" /\ ~demiChange => ~paires[onglet.jetons].provisoire
    /\ \A i \in Paires \ perdus :
         paires[i].vivante => i = onglet.jetons \/ \E k \in Creneaux : i \in PaireRendue(k)
=============================================================================
