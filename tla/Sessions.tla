------------------------------- MODULE Sessions -------------------------------
(***************************************************************************)
(* AuthService and TokensService beside the administration of accounts:     *)
(* logins by the directory or by password, the lock after failures, the     *)
(* rotation of refresh tokens, logout, and the change of password by its    *)
(* owner.  A request reads the account once and decides on that row to the  *)
(* end; the directory, bcrypt and every query are awaits, so the account    *)
(* and its tokens can change between what was read and what is written.     *)
(*                                                                         *)
(* Access tokens are not rows: they are believed until they expire, and no  *)
(* act can take them back.                                                  *)
(***************************************************************************)
EXTENDS Administration

CONSTANTS
  Jetons,     \* the rows refresh_tokens can come to hold (bound)
  Requetes,   \* slots for the session requests in flight (bound)
  Seuil,      \* AUTH_MAX_FAILED_ATTEMPTS
  EchecsMax   \* bound: wrong passwords typed

ASSUME SessionsAssumption == Seuil \in Nat \ {0} /\ EchecsMax \in Nat /\ Cli \notin Jetons

VARIABLES
  jetons,    \* the table refresh_tokens
  requetes,  \* the locals of each session request in flight
  fautes     \* history: wrong passwords typed for each account

sessionsVars == <<jetons, requetes, fautes>>
vars == <<adminVars, sessionsVars>>

Aucun == Cli

(* famille is the token the chain of rotations began with; secret is the    *)
(* password, or the time without one, it was opened under.  History: tardif *)
(* says it was issued after that password had been replaced, jumelle that   *)
(* its chain was rotated twice at once.                                         *)
Jeton ==
  [etat : {"libre", "vivant", "revoque"}, compte : Comptes \cup {Aucun},
   secret : 0..SecretMax, famille : Jetons \cup {Aucun},
   tardif : BOOLEAN, jumelle : BOOLEAN]

Requete ==
  [pc : {"repos", "annuaire", "local", "echec", "verrou", "succes", "emettre",
         "lire", "tourner", "clore", "changer", "changee"},
   compte : Comptes \cup {Aucun}, lu : Compte \cup {Aucun},
   jeton : Jetons \cup {Aucun}, secret : 0..SecretMax,
   famille : Jetons \cup {Aucun}, jumelle : BOOLEAN]

PasDeJeton ==
  [etat |-> "libre", compte |-> Aucun, secret |-> 0, famille |-> Aucun,
   tardif |-> FALSE, jumelle |-> FALSE]

PasDeRequete ==
  [pc |-> "repos", compte |-> Aucun, lu |-> Aucun, jeton |-> Aucun, secret |-> 0,
   famille |-> Aucun, jumelle |-> FALSE]

TypeOK ==
  /\ AdminTypeOK
  /\ \A c \in Comptes : comptes[c].echecs < Seuil
  /\ jetons \in [Jetons -> Jeton]
  /\ requetes \in [Requetes -> Requete]
  /\ fautes \in [Comptes -> Nat]

Init ==
  /\ AdminInit
  /\ jetons = [j \in Jetons |-> PasDeJeton]
  /\ requetes = [q \in Requetes |-> PasDeRequete]
  /\ fautes = [c \in Comptes |-> 0]

-----------------------------------------------------------------------------

Avance(q, pc) == requetes' = [requetes EXCEPT ![q].pc = pc]
Rend(q) == requetes' = [requetes EXCEPT ![q] = PasDeRequete]

Vivants(c) == {j \in Jetons : jetons[j].compte = c /\ jetons[j].etat = "vivant"}

(* updateMany where revokedAt is null: revoke and revokeAllForUser.  No     *)
(* query reads another column of a row that is revoked.                     *)
Revoquer(ensemble) ==
  jetons' = [j \in Jetons |->
    IF j \in ensemble /\ jetons[j].etat = "vivant"
    THEN [PasDeJeton EXCEPT !.etat = "revoque"] ELSE jetons[j]]

Lit(q, pc, c) ==
  requetes' = [requetes EXCEPT
    ![q] = [PasDeRequete EXCEPT !.pc = pc, !.compte = c, !.lu = comptes[c]]]

(* What is left of a request once it has decided: its account, and the      *)
(* password it was admitted under.                                          *)
Decide(q, pc, secret) ==
  requetes' = [requetes EXCEPT
    ![q] = [PasDeRequete EXCEPT !.pc = pc, !.compte = requetes[q].compte, !.secret = secret]]

-----------------------------------------------------------------------------
(* login                                                                    *)

ConnexionLit(q, c) ==
  /\ requetes[q].pc = "repos"
  /\ Lit(q, "annuaire", c)
  /\ UNCHANGED <<adminVars, jetons, fautes>>

PorteLocale(lu) == lu.existe /\ lu.source = "local" /\ lu.porte

(* tenterAnnuaire: "suite" lets the local door decide.                      *)
ConnexionAnnuaire(q, verdict) ==
  LET lu == requetes[q].lu IN
  /\ requetes[q].pc = "annuaire"
  /\ \/ verdict \in {"inactif", "introuvable"} /\ Avance(q, "local")
     \/ verdict \in {"identifiants", "injoignable"} /\ PorteLocale(lu) /\ Avance(q, "local")
     \/ verdict \in {"identifiants", "injoignable"} /\ ~PorteLocale(lu) /\ Rend(q)
     \/ verdict = "non_mappe" /\ Rend(q)
  /\ UNCHANGED <<adminVars, jetons, fautes>>

(* authentifier found a mapped entry whose password is right: the account   *)
(* is created or brought up to date, unless a local one owns the address.   *)
ConnexionAdmise(q, role) ==
  LET c == requetes[q].compte IN
  /\ requetes[q].pc = "annuaire"
  /\ IF comptes[c].existe /\ comptes[c].source = "local"
     THEN Rend(q) /\ UNCHANGED comptes
     ELSE /\ comptes' = [comptes EXCEPT ![c] =
               [existe |-> TRUE, role |-> role, source |-> "ad", actif |-> TRUE,
                instance |-> comptes[c].instance, porte |-> comptes[c].porte,
                secret |-> comptes[c].secret, echecs |-> 0, verrou |-> FALSE]]
          /\ Decide(q, "emettre", comptes[c].secret)
  /\ UNCHANGED <<actes, synchro, chevauche, retire, jetons, fautes>>

(* The local door, on the row read before the directory was asked.          *)
ConnexionRefusee(q) ==
  LET lu == requetes[q].lu IN
  /\ requetes[q].pc = "local"
  /\ ~lu.existe \/ lu.verrou \/ ~lu.porte \/ ~lu.actif
  /\ Rend(q)
  /\ UNCHANGED <<adminVars, jetons, fautes>>

MotDePasseFaux(q) ==
  LET c == requetes[q].compte lu == requetes[q].lu IN
  /\ requetes[q].pc = "local"
  /\ lu.existe /\ ~lu.verrou /\ lu.porte
  /\ fautes[c] < EchecsMax
  /\ fautes' = [fautes EXCEPT ![c] = @ + 1]
  /\ Avance(q, "echec")
  /\ UNCHANGED <<adminVars, jetons>>

MotDePasseBon(q) ==
  LET lu == requetes[q].lu IN
  /\ requetes[q].pc = "local"
  /\ lu.existe /\ ~lu.verrou /\ lu.porte /\ lu.actif
  /\ Decide(q, "succes", lu.secret)
  /\ UNCHANGED <<adminVars, jetons, fautes>>

(* Mutant: the failure that reaches the threshold is not the one that locks *)
(* but the one before it.                                                   *)
MutantUnDeTrop(lu) == lu.echecs + 2

(* enregistrerEchec counts from the row that was read, not from the table.  *)
Tentatives(lu) == lu.echecs + 1

(* Mutant: the lock does not start the count again.                         *)
MutantCompteurGarde(q) ==
  LET c == requetes[q].compte
      tentatives == Tentatives(requetes[q].lu)
      verrouille == tentatives >= Seuil
  IN
  /\ requetes[q].pc = "echec"
  /\ comptes' = [comptes EXCEPT
       ![c].echecs = tentatives,
       ![c].verrou = IF verrouille THEN TRUE ELSE comptes[c].verrou]
  /\ IF verrouille THEN Decide(q, "verrou", 0) ELSE Rend(q)
  /\ UNCHANGED <<actes, synchro, chevauche, retire, jetons, fautes>>

ConnexionEchoue(q) ==
  LET c == requetes[q].compte
      tentatives == Tentatives(requetes[q].lu)
      verrouille == tentatives >= Seuil
  IN
  /\ requetes[q].pc = "echec"
  /\ comptes' = [comptes EXCEPT
       ![c].echecs = IF verrouille THEN 0 ELSE tentatives,
       ![c].verrou = IF verrouille THEN TRUE ELSE comptes[c].verrou]
  /\ IF verrouille THEN Decide(q, "verrou", 0) ELSE Rend(q)
  /\ UNCHANGED <<actes, synchro, chevauche, retire, jetons, fautes>>

VerrouRevoque(q) ==
  /\ requetes[q].pc = "verrou"
  /\ Revoquer(Vivants(requetes[q].compte))
  /\ Rend(q)
  /\ UNCHANGED <<adminVars, fautes>>

ConnexionReussit(q) ==
  LET c == requetes[q].compte IN
  /\ requetes[q].pc = "succes"
  /\ comptes' = [comptes EXCEPT ![c].echecs = 0, ![c].verrou = FALSE]
  /\ Avance(q, "emettre")
  /\ UNCHANGED <<actes, synchro, chevauche, retire, jetons, fautes>>

(* issue: a new row; after a rotation it continues the chain.               *)
Emettre(q, j) ==
  LET r == requetes[q] IN
  /\ r.pc = "emettre"
  /\ jetons[j].etat = "libre"
  /\ jetons' = [jetons EXCEPT ![j] =
       [etat |-> "vivant", compte |-> r.compte, secret |-> r.secret,
        famille |-> IF r.famille = Aucun THEN j ELSE r.famille,
        tardif |-> r.secret # comptes[r.compte].secret,
        jumelle |-> r.jumelle]]
  /\ Rend(q)
  /\ UNCHANGED <<adminVars, fautes>>

(* lockedUntil passes.                                                      *)
VerrouExpire(c) ==
  /\ comptes[c].verrou
  /\ comptes' = [comptes EXCEPT ![c].verrou = FALSE]
  /\ UNCHANGED <<actes, synchro, chevauche, retire, jetons, requetes, fautes>>

-----------------------------------------------------------------------------
(* refresh                                                                  *)

Tient(q, j) == requetes[q].jeton = j /\ requetes[q].pc # "repos"

(* verifyRefresh: the row is known and not revoked.                         *)
RafraichirVerifie(q, j) ==
  LET double == \E p \in Requetes : Tient(p, j) IN
  /\ requetes[q].pc = "repos"
  /\ jetons[j].etat = "vivant"
  /\ requetes' = [p \in Requetes |->
       IF p = q
       THEN [PasDeRequete EXCEPT !.pc = "lire", !.jeton = j, !.compte = jetons[j].compte,
               !.secret = jetons[j].secret, !.famille = jetons[j].famille,
               !.jumelle = jetons[j].jumelle \/ double]
       ELSE IF Tient(p, j) THEN [requetes[p] EXCEPT !.jumelle = TRUE] ELSE requetes[p]]
  /\ UNCHANGED <<adminVars, jetons, fautes>>

RafraichirLit(q) ==
  LET c == requetes[q].compte IN
  /\ requetes[q].pc = "lire"
  /\ Avance(q, IF comptes[c].existe /\ comptes[c].actif THEN "tourner" ELSE "clore")
  /\ UNCHANGED <<adminVars, jetons, fautes>>

(* Mutant: the new token is issued and the old one stays good.              *)
MutantSansRotation(q) ==
  /\ requetes[q].pc = "tourner"
  /\ requetes' = [requetes EXCEPT ![q].pc = "emettre", ![q].jeton = Aucun]
  /\ UNCHANGED <<adminVars, jetons, fautes>>

(* revoke, then issue: the old token is revoked first.                      *)
RafraichirTourne(q) ==
  /\ requetes[q].pc = "tourner"
  /\ Revoquer({requetes[q].jeton})
  /\ requetes' = [requetes EXCEPT ![q].pc = "emettre", ![q].jeton = Aucun]
  /\ UNCHANGED <<adminVars, fautes>>

RafraichirClot(q) ==
  /\ requetes[q].pc = "clore"
  /\ Revoquer({requetes[q].jeton})
  /\ Rend(q)
  /\ UNCHANGED <<adminVars, fautes>>

(* logout: the token presented if it is one's own, every session otherwise. *)
Deconnecter(c, j) ==
  /\ IF j # Aucun /\ jetons[j].compte = c THEN Revoquer({j}) ELSE Revoquer(Vivants(c))
  /\ UNCHANGED <<adminVars, requetes, fautes>>

-----------------------------------------------------------------------------
(* changerMotDePasse, and the end of the acts that replace a password       *)

ChangerLit(q, c) ==
  /\ requetes[q].pc = "repos"
  /\ comptes[c].existe /\ comptes[c].actif /\ comptes[c].porte
  /\ Lit(q, "changer", c)
  /\ UNCHANGED <<adminVars, jetons, fautes>>

(* The row is written whatever it has become since it was read.             *)
ChangerEcrit(q) ==
  LET c == requetes[q].compte IN
  /\ requetes[q].pc = "changer"
  /\ comptes[c].secret < SecretMax
  /\ comptes' = [comptes EXCEPT ![c].porte = TRUE, ![c].secret = @ + 1]
  /\ Decide(q, "changee", comptes[c].secret + 1)
  /\ UNCHANGED <<actes, synchro, chevauche, retire, jetons, fautes>>

(* Mutant: the sessions opened elsewhere are left as they are.              *)
MutantSansRevocation(q) ==
  /\ requetes[q].pc = "changee"
  /\ Avance(q, "emettre")
  /\ UNCHANGED <<adminVars, jetons, fautes>>

ChangerRevoque(q) ==
  /\ requetes[q].pc = "changee"
  /\ Revoquer(Vivants(requetes[q].compte))
  /\ Avance(q, "emettre")
  /\ UNCHANGED <<adminVars, fautes>>

(* The refreshToken.updateMany of reinitialiser and rattacherALAnnuaire.    *)
ActeRevoque(u) ==
  /\ actes[u].pc = "sessions"
  /\ Revoquer(Vivants(actes[u].cible))
  /\ actes' = [actes EXCEPT ![u] = PasDActe]
  /\ UNCHANGED <<comptes, synchro, chevauche, retire, requetes, fautes>>

-----------------------------------------------------------------------------

Verdicts == {"inactif", "introuvable", "identifiants", "injoignable", "non_mappe"}

Connexions ==
  \E q \in Requetes :
    \/ \E c \in Comptes : ConnexionLit(q, c)
    \/ \E v \in Verdicts : ConnexionAnnuaire(q, v)
    \/ \E role \in RolesDonnes : ConnexionAdmise(q, role)
    \/ ConnexionRefusee(q) \/ MotDePasseFaux(q) \/ MotDePasseBon(q)
    \/ ConnexionEchoue(q) \/ VerrouRevoque(q) \/ ConnexionReussit(q)
    \/ \E j \in Jetons : Emettre(q, j)

Rotations ==
  \E q \in Requetes :
    \/ \E j \in Jetons : RafraichirVerifie(q, j)
    \/ RafraichirLit(q) \/ RafraichirTourne(q) \/ RafraichirClot(q)

Changements ==
  \/ \E q \in Requetes :
       (\E c \in Comptes : ChangerLit(q, c)) \/ ChangerEcrit(q) \/ ChangerRevoque(q)
  \/ \E u \in Acteurs : ActeRevoque(u)

Next ==
  \/ Actes /\ UNCHANGED sessionsVars
  \/ Connexions \/ Rotations \/ Changements
  \/ \E c \in Comptes : VerrouExpire(c)
  \/ \E c \in Comptes, j \in Jetons \cup {Aucun} : Deconnecter(c, j)

Spec == Init /\ [][Next]_vars

-----------------------------------------------------------------------------
(* Properties                                                               *)

(* users.service.ts 263-272: as long as no act was decided while another    *)
(* was being written, an active local administrator remains.                *)
AdminLocalReste == ~chevauche => AdminsLocaux # {}

(* users.service.ts 207-261 and 263-302: the act that leaves a single local *)
(* administrator was assumed by its author, and the journal says so.        *)
DernierConsigne ==
  [][Unique(AdminsLocaux') /\ ~Unique(AdminsLocaux) /\ ~chevauche'
       => \E u \in Acteurs : actes[u].pc = "ecrire" /\ actes[u].seul /\ actes'[u] # actes[u]]_vars

(* users.service.ts 306-320 and admin-instance.ts: neither the portal nor   *)
(* the command line takes away the last administrator of the instance.      *)
AdminInstanceReste == ~chevauche /\ ~retire => AdminsInstance # {}

(* The act u or the request q has replaced the password of c, and its       *)
(* revocation of the sessions is still to come.                             *)
RevocationAVenir(c) ==
  \/ \E u \in Acteurs : actes[u].pc = "sessions" /\ actes[u].cible = c
  \/ \E q \in Requetes : requetes[q].pc = "changee" /\ requetes[q].compte = c

(* auth.service.ts 293-295, users.service.ts 164-167: a change, a reset or  *)
(* an attachment ends every session opened under the former password, save  *)
(* those a request already under way issues after the revocation.           *)
SessionsDuMotDePasse ==
  \A j \in Jetons :
    jetons[j].etat = "vivant" /\ ~jetons[j].tardif
      => \/ jetons[j].secret = comptes[jetons[j].compte].secret
         \/ RevocationAVenir(jetons[j].compte)

(* tokens.service.ts 9-13: a refresh token is renewed at each use, so one   *)
(* login never leads to two live tokens, save when two requests had         *)
(* verified the same one before either revoked it.                          *)
UneSessionParConnexion ==
  \A i, j \in Jetons :
    /\ i # j
    /\ jetons[i].etat = "vivant" /\ jetons[j].etat = "vivant"
    /\ jetons[i].famille = jetons[j].famille
    => jetons[i].jumelle /\ jetons[j].jumelle

(* auth.service.ts 367-391: however failures, successes and resets fall     *)
(* between one another's read and write, an account is locked only after    *)
(* that many wrong passwords.                                               *)
VerrouMerite == \A c \in Comptes : comptes[c].verrou => fautes[c] >= Seuil

(* schema.prisma 176-179: "Nul pour un compte d'annuaire".                  *)
AnnuaireSansMotDePasse ==
  \A c \in Comptes : comptes[c].existe /\ comptes[c].source = "ad" => ~comptes[c].porte

(* manuel-utilisateur.md 427: "Il doit toujours rester un administrateur    *)
(* local actif."                                                            *)
DernierAdminLocal == AdminsLocaux # {}
=============================================================================
