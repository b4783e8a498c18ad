---------------------------- MODULE SessionsProofs ----------------------------
(***************************************************************************)
(* Theorems about the accounts of a tenant and their sessions, for any      *)
(* number of accounts, authors, tokens and requests.                        *)
(***************************************************************************)
EXTENDS Sessions, TLAPS

-----------------------------------------------------------------------------
(* What the locals of the requests under way are                            *)

ActesSains ==
  /\ actes \in [Acteurs -> Acte]
  /\ \A u \in Acteurs : actes[u].pc # "repos" =>
       /\ actes[u].nature \in ToutesNatures \ {"creer"}
       /\ actes[u].cible \in Comptes
       /\ actes[u].nature = "modifier" => actes[u].forme \in Formes

RequetesSaines ==
  /\ requetes \in [Requetes -> Requete]
  /\ \A q \in Requetes :
       /\ requetes[q].pc # "repos" => requetes[q].compte \in Comptes
       /\ requetes[q].pc \in {"annuaire", "local", "echec"} => requetes[q].lu \in Compte

JetonsSains ==
  /\ jetons \in [Jetons -> Jeton]
  /\ \A j \in Jetons : jetons[j].etat = "vivant" => jetons[j].compte \in Comptes

ComptesSains ==
  /\ comptes \in [Comptes -> Compte]
  /\ \A c \in Comptes : comptes[c].echecs < Seuil

ResteSain ==
  /\ synchro \in [reste : SUBSET Comptes, cible : Comptes \cup {Cli}]
  /\ chevauche \in BOOLEAN /\ retire \in BOOLEAN
  /\ fautes \in [Comptes -> Nat]

TInv == ComptesSains /\ ActesSains /\ RequetesSaines /\ JetonsSains /\ ResteSain

-----------------------------------------------------------------------------
(* Type correctness                                                         *)

LEMMA VidesType == PasDActe \in Acte /\ PasDeJeton \in Jeton /\ PasDeRequete \in Requete
BY AdministrationAssumption
   DEF AdministrationAssumption, PasDActe, PasDeJeton, PasDeRequete, Acte, Jeton, Requete, Aucun

LEMMA TInvType == TInv => TypeOK
BY DEF TInv, ComptesSains, ActesSains, RequetesSaines, JetonsSains, ResteSain,
       TypeOK, AdminTypeOK

LEMMA InitType == Init => TInv
<1> SUFFICES ASSUME Init PROVE TInv
  OBVIOUS
<1>1. ComptesSains
  <2>1. comptes \in [Comptes -> Compte]
    BY AdministrationAssumption DEF AdministrationAssumption, Init, AdminInit
  <2>2. \A c \in Comptes : comptes[c].echecs = 0
    BY AdministrationAssumption, Zenon DEF AdministrationAssumption, Init, AdminInit
  <2>3. 0 < Seuil
    BY SessionsAssumption DEF SessionsAssumption
  <2> QED
    BY <2>1, <2>2, <2>3, Zenon DEF ComptesSains
<1>2. ActesSains
  BY VidesType DEF Init, AdminInit, ActesSains, PasDActe
<1>3. RequetesSaines
  BY VidesType DEF Init, RequetesSaines, PasDeRequete
<1>4. JetonsSains
  BY VidesType DEF Init, JetonsSains, PasDeJeton
<1>5. ResteSain
  BY DEF Init, AdminInit, ResteSain
<1> QED
  BY <1>1, <1>2, <1>3, <1>4, <1>5 DEF TInv

(* A row with some of its columns replaced is a row.                        *)
LEMMA LigneEcrite ==
  ASSUME NEW ligne \in Compte, NEW secret \in 0..SecretMax, NEW echecs \in Nat,
         NEW source \in {"local", "ad"}, NEW role \in {"ADMIN", "AUDITOR"},
         NEW porte \in BOOLEAN, NEW verrou \in BOOLEAN, NEW actif \in BOOLEAN
  PROVE  /\ [ligne EXCEPT !.role = role, !.actif = actif, !.echecs = echecs,
                          !.verrou = verrou] \in Compte
         /\ [ligne EXCEPT !.porte = porte, !.secret = secret, !.echecs = echecs,
                          !.verrou = verrou] \in Compte
         /\ [ligne EXCEPT !.source = source, !.porte = porte, !.secret = secret,
                          !.echecs = echecs, !.verrou = verrou] \in Compte
         /\ [ligne EXCEPT !.porte = porte, !.secret = secret] \in Compte
         /\ [ligne EXCEPT !.echecs = echecs, !.verrou = verrou] \in Compte
         /\ [ligne EXCEPT !.instance = actif] \in Compte
BY DEF Compte

LEMMA SecretSuivant ==
  ASSUME NEW s \in 0..SecretMax, s < SecretMax
  PROVE  s + 1 \in 0..SecretMax
BY AdministrationAssumption DEF AdministrationAssumption

(* A row an act leaves is a row, and keeps the count of failures low.       *)
LEMMA EcriteType ==
  ASSUME NEW acte \in Acte, NEW ligne \in Compte, ligne.echecs < Seuil,
         acte.nature \in ToutesNatures \ {"creer"},
         acte.nature = "modifier" => acte.forme \in Formes,
         acte.nature \in {"reinitialiser", "rattacher"} => ligne.secret < SecretMax
  PROVE  Ecrite(acte, ligne) \in Compte /\ Ecrite(acte, ligne).echecs < Seuil
<1>0. ligne.secret \in 0..SecretMax /\ Seuil > 0
  BY SessionsAssumption DEF Compte, SessionsAssumption
<1>1. CASE acte.nature = "modifier"
  <2>1. ligne.role \in {"ADMIN", "AUDITOR"} /\ ligne.actif \in BOOLEAN
        /\ ligne.echecs \in Nat /\ ligne.verrou \in BOOLEAN
    BY DEF Compte
  <2> DEFINE role == IF acte.forme.role = "inchange" THEN ligne.role ELSE acte.forme.role
             actif == IF acte.forme.actif = "inchange" THEN ligne.actif
                      ELSE acte.forme.actif = "oui"
             echecs == IF acte.forme.actif = "oui" THEN 0 ELSE ligne.echecs
             verrou == IF acte.forme.actif = "oui" THEN FALSE ELSE ligne.verrou
  <2>2. role \in {"ADMIN", "AUDITOR"} /\ echecs \in Nat /\ echecs < Seuil
    BY <1>0, <1>1, <2>1 DEF Formes
  <2>3. actif \in BOOLEAN /\ verrou \in BOOLEAN
    BY <2>1, Zenon
  <2>4. Ecrite(acte, ligne) = [ligne EXCEPT !.role = role, !.actif = actif,
                                            !.echecs = echecs, !.verrou = verrou]
    BY <1>1, Zenon DEF Ecrite
  <2> HIDE DEF role, actif, echecs, verrou
  <2>5. [ligne EXCEPT !.role = role, !.actif = actif, !.echecs = echecs,
                      !.verrou = verrou].echecs = echecs
    BY DEF Compte
  <2>6. [ligne EXCEPT !.role = role, !.actif = actif, !.echecs = echecs,
                      !.verrou = verrou] \in Compte
    BY <1>0, <2>2, <2>3, LigneEcrite, Zenon
  <2> QED
    BY <2>2, <2>4, <2>5, <2>6, Zenon
<1>2. CASE acte.nature = "reinitialiser"
  <2>1. Ecrite(acte, ligne) = [ligne EXCEPT !.porte = TRUE, !.secret = ligne.secret + 1,
                                            !.echecs = 0, !.verrou = FALSE]
    BY <1>2 DEF Ecrite
  <2>2. ligne.secret + 1 \in 0..SecretMax
    BY <1>0, <1>2, SecretSuivant
  <2>3. /\ 0 \in Nat /\ TRUE \in BOOLEAN /\ FALSE \in BOOLEAN
        /\ "ad" \in {"local", "ad"}
    OBVIOUS
  <2>5. [ligne EXCEPT !.porte = TRUE, !.secret = ligne.secret + 1,
                      !.echecs = 0, !.verrou = FALSE] \in Compte
    BY <2>2, <2>3, LigneEcrite, Zenon
  <2>4. Ecrite(acte, ligne).echecs = 0
    BY <2>1 DEF Compte
  <2> QED
    BY <1>0, <2>1, <2>4, <2>5
<1>3. CASE acte.nature = "rattacher"
  <2>1. Ecrite(acte, ligne) = [ligne EXCEPT !.source = "ad", !.porte = FALSE,
                                 !.secret = ligne.secret + 1, !.echecs = 0, !.verrou = FALSE]
    BY <1>3 DEF Ecrite
  <2>2. ligne.secret + 1 \in 0..SecretMax
    BY <1>0, <1>3, SecretSuivant
  <2>3. /\ 0 \in Nat /\ TRUE \in BOOLEAN /\ FALSE \in BOOLEAN
        /\ "ad" \in {"local", "ad"}
    OBVIOUS
  <2>5. [ligne EXCEPT !.source = "ad", !.porte = FALSE, !.secret = ligne.secret + 1,
                      !.echecs = 0, !.verrou = FALSE] \in Compte
    BY <2>2, <2>3, LigneEcrite, Zenon
  <2>4. Ecrite(acte, ligne).echecs = 0
    BY <2>1 DEF Compte
  <2> QED
    BY <1>0, <2>1, <2>4, <2>5
<1>4. CASE acte.nature = "promouvoir"
  BY <1>4 DEF Ecrite, Compte
<1>5. CASE acte.nature = "revoquer"
  BY <1>5 DEF Ecrite, Compte
<1> QED
  BY <1>1, <1>2, <1>3, <1>4, <1>5 DEF ToutesNatures

(* A row of the table is written whole or by columns.                       *)
LEMMA LigneType ==
  ASSUME NEW c \in Comptes, ComptesSains, NEW x \in Compte, x.echecs < Seuil,
         comptes' = [comptes EXCEPT ![c] = x]
  PROVE  ComptesSains'
BY DEF ComptesSains

LEMMA ActeType ==
  ASSUME NEW u \in Acteurs, ActesSains, NEW a \in Acte,
         a.pc # "repos" => /\ a.nature \in ToutesNatures \ {"creer"}
                           /\ a.cible \in Comptes
                           /\ a.nature = "modifier" => a.forme \in Formes,
         actes' = [actes EXCEPT ![u] = a]
  PROVE  ActesSains'
BY DEF ActesSains

Etapes ==
  {"repos", "annuaire", "local", "echec", "verrou", "succes", "emettre",
   "lire", "tourner", "clore", "changer", "changee"}

LEMMA RequeteType ==
  ASSUME NEW q \in Requetes, RequetesSaines, NEW r \in Requete,
         r.pc # "repos" => r.compte \in Comptes,
         r.pc \in {"annuaire", "local", "echec"} => r.lu \in Compte,
         requetes' = [requetes EXCEPT ![q] = r]
  PROVE  RequetesSaines'
BY DEF RequetesSaines

LEMMA RendType ==
  ASSUME NEW q \in Requetes, RequetesSaines, Rend(q)
  PROVE  RequetesSaines'
BY VidesType DEF RequetesSaines, Rend, PasDeRequete

LEMMA AvanceType ==
  ASSUME NEW q \in Requetes, RequetesSaines, NEW pc \in Etapes, Avance(q, pc),
         requetes[q].pc # "repos",
         pc \in {"annuaire", "local", "echec"} => requetes[q].lu \in Compte
  PROVE  RequetesSaines'
BY DEF RequetesSaines, Avance, Requete, Etapes

LEMMA DecideType ==
  ASSUME NEW q \in Requetes, RequetesSaines, requetes[q].pc # "repos",
         NEW pc \in Etapes \ {"annuaire", "local", "echec"},
         NEW secret \in 0..SecretMax, Decide(q, pc, secret)
  PROVE  RequetesSaines'
BY VidesType DEF RequetesSaines, Decide, PasDeRequete, Requete, Etapes

LEMMA LitType ==
  ASSUME NEW q \in Requetes, RequetesSaines, ComptesSains, NEW c \in Comptes,
         NEW pc \in Etapes, Lit(q, pc, c)
  PROVE  RequetesSaines'
BY VidesType DEF RequetesSaines, ComptesSains, Lit, PasDeRequete, Requete, Etapes

LEMMA RevoquerType ==
  ASSUME JetonsSains, NEW S, Revoquer(S)
  PROVE  JetonsSains'
BY VidesType DEF JetonsSains, Revoquer, PasDeJeton, Jeton

(* The acts on accounts, and the directory.                                 *)
LEMMA ActesType ==
  ASSUME TInv, Actes, UNCHANGED sessionsVars
  PROVE  TInv'
<1> USE DEF TInv
<1>0. RequetesSaines' /\ JetonsSains' /\ fautes' = fautes
  BY DEF sessionsVars, RequetesSaines, JetonsSains
<1>1. ASSUME NEW u \in Acteurs, NEW c \in Comptes, NEW role \in RolesDonnes, Creer(u, c, role)
      PROVE  TInv'
  <2> DEFINE x == [existe |-> TRUE, role |-> role, source |-> "local", actif |-> TRUE,
                   instance |-> FALSE, porte |-> TRUE, secret |-> comptes[c].secret,
                   echecs |-> 0, verrou |-> FALSE]
  <2>1. x \in Compte /\ x.echecs < Seuil
    BY AdministrationAssumption, SessionsAssumption
       DEF AdministrationAssumption, SessionsAssumption, ComptesSains, Compte
  <2>2. ComptesSains'
    <3> HIDE DEF x
    <3> QED
      BY <1>1, <2>1, LigneType DEF Creer, x
  <2> QED
    BY <1>0, <1>1, <2>2 DEF Creer, ActesSains, ResteSain
<1>2. ASSUME NEW u \in Acteurs, NEW c \in Comptes, NEW n \in ToutesNatures,
             NEW f \in Formes \cup {Cli}, NEW accepte \in BOOLEAN,
             n = "modifier" => f \in Formes, ActeLit(u, n, c, f, accepte)
      PROVE  TInv'
  <2>1. ActesSains'
    BY <1>2 DEF ActeLit, Suite, ActesSains, Acte, CompteLocaux
  <2> QED
    BY <1>0, <1>2, <2>1 DEF ActeLit, ComptesSains, ResteSain
<1>3. ASSUME NEW u \in Acteurs, ActeCompteInstance(u)
      PROVE  TInv'
  <2>1. ActesSains'
    BY <1>3, VidesType DEF ActeCompteInstance, Suite, ActesSains, Acte, PasDActe
  <2> QED
    BY <1>0, <1>3, <2>1 DEF ActeCompteInstance, ComptesSains, ResteSain
<1>4. ASSUME NEW u \in Acteurs, ActeCompteLocal(u)
      PROVE  TInv'
  <2>1. ActesSains'
    BY <1>4, VidesType DEF ActeCompteLocal, Unique, ActesSains, Acte, PasDActe
  <2> QED
    BY <1>0, <1>4, <2>1 DEF ActeCompteLocal, ComptesSains, ResteSain
<1>5. ASSUME NEW u \in Acteurs, ActeEcrit(u)
      PROVE  TInv'
  <2>1. ActesSains'
    BY <1>5, VidesType DEF ActeEcrit, ActesSains, Acte, PasDActe
  <2>2. ComptesSains'
    <3> DEFINE x == Ecrite(actes[u], comptes[actes[u].cible])
    <3>1. actes[u] \in Acte /\ actes[u].cible \in Comptes
          /\ actes[u].nature \in ToutesNatures \ {"creer"}
          /\ (actes[u].nature = "modifier" => actes[u].forme \in Formes)
      BY <1>5 DEF ActeEcrit, ActesSains
    <3>2. comptes[actes[u].cible] \in Compte /\ comptes[actes[u].cible].echecs < Seuil
      BY <3>1 DEF ComptesSains
    <3>3. x \in Compte /\ x.echecs < Seuil
      BY <1>5, <3>1, <3>2, EcriteType DEF ActeEcrit
    <3>4. comptes' = [comptes EXCEPT ![actes[u].cible] = x]
      BY <1>5 DEF ActeEcrit
    <3> HIDE DEF x
    <3> QED
      BY <3>1, <3>3, <3>4, LigneType
  <2>3. ResteSain'
    BY <1>0, <1>5 DEF ActeEcrit, ResteSain
  <2> QED
    BY <1>0, <2>1, <2>2, <2>3
<1>6. CASE SynchroCommence
  BY <1>0, <1>6 DEF SynchroCommence, ComptesSains, ActesSains, ResteSain
<1>7. ASSUME NEW c \in Comptes, SynchroCherche(c)
      PROVE  TInv'
  BY <1>0, <1>7 DEF SynchroCherche, ComptesSains, ActesSains, ResteSain
<1>8. ASSUME NEW c \in Comptes, SynchroDesactive(c)
      PROVE  TInv'
  <2>1. ComptesSains'
    <3> DEFINE x == [comptes[c] EXCEPT !.actif = FALSE]
    <3>1. x \in Compte /\ x.echecs < Seuil
      BY DEF ComptesSains, Compte
    <3>2. comptes' = [comptes EXCEPT ![c] = x]
      BY <1>8 DEF SynchroDesactive
    <3> HIDE DEF x
    <3> QED
      BY <3>1, <3>2, LigneType
  <2>2. retire' \in BOOLEAN
    BY <1>8, Zenon DEF SynchroDesactive
  <2>3. ResteSain'
    BY <1>0, <1>8, <2>2 DEF SynchroDesactive, ResteSain
  <2> QED
    BY <1>0, <1>8, <2>1, <2>3 DEF SynchroDesactive, ActesSains
<1>9. FormesDemandees \subseteq Formes /\ {"modifier", "rattacher", "reinitialiser",
        "promouvoir", "revoquer"} \subseteq ToutesNatures
  BY AdministrationAssumption DEF AdministrationAssumption, ToutesNatures
<1> QED
  BY <1>1, <1>2, <1>3, <1>4, <1>5, <1>6, <1>7, <1>8, <1>9 DEF Actes

LEMMA ConnexionsType ==
  ASSUME TInv, Connexions
  PROVE  TInv'
<1> USE DEF TInv
<1> PICK q \in Requetes :
    \/ \E c \in Comptes : ConnexionLit(q, c)
    \/ \E v \in Verdicts : ConnexionAnnuaire(q, v)
    \/ \E role \in RolesDonnes : ConnexionAdmise(q, role)
    \/ ConnexionRefusee(q) \/ MotDePasseFaux(q) \/ MotDePasseBon(q)
    \/ ConnexionEchoue(q) \/ VerrouRevoque(q) \/ ConnexionReussit(q)
    \/ \E j \in Jetons : Emettre(q, j)
  BY DEF Connexions
<1>0. /\ UNCHANGED <<comptes, fautes, synchro, chevauche, retire>> => ComptesSains' /\ ResteSain'
      /\ UNCHANGED actes => ActesSains'
      /\ UNCHANGED jetons => JetonsSains'
  BY DEF ComptesSains, ResteSain, ActesSains, JetonsSains
<1>1. ASSUME NEW c \in Comptes, ConnexionLit(q, c)
      PROVE  TInv'
  <2>1. RequetesSaines'
    BY <1>1, LitType DEF ConnexionLit, Etapes
  <2> QED
    BY <1>0, <1>1, <2>1 DEF ConnexionLit, adminVars
<1>2. ASSUME NEW v \in Verdicts, ConnexionAnnuaire(q, v)
      PROVE  TInv'
  <2>1. requetes[q].lu \in Compte
    BY <1>2 DEF ConnexionAnnuaire, RequetesSaines
  <2>2. RequetesSaines'
    BY <1>2, <2>1, AvanceType, RendType DEF ConnexionAnnuaire, Etapes
  <2> QED
    BY <1>0, <1>2, <2>2 DEF ConnexionAnnuaire, adminVars
<1>3. ASSUME NEW role \in RolesDonnes, ConnexionAdmise(q, role)
      PROVE  TInv'
  <2> DEFINE c == requetes[q].compte
             x == [existe |-> TRUE, role |-> role, source |-> "ad", actif |-> TRUE,
                   instance |-> comptes[c].instance, porte |-> comptes[c].porte,
                   secret |-> comptes[c].secret, echecs |-> 0, verrou |-> FALSE]
  <2>0. c \in Comptes /\ requetes[q].pc # "repos"
    BY <1>3 DEF ConnexionAdmise, RequetesSaines
  <2>1. x \in Compte /\ x.echecs < Seuil /\ comptes[c].secret \in 0..SecretMax
    BY <2>0, AdministrationAssumption, SessionsAssumption
       DEF AdministrationAssumption, SessionsAssumption, ComptesSains, Compte
  <2>2. CASE comptes[c].existe /\ comptes[c].source = "local"
    BY <1>0, <1>3, <2>2, RendType DEF ConnexionAdmise
  <2>3. CASE ~(comptes[c].existe /\ comptes[c].source = "local")
    <3>1. comptes' = [comptes EXCEPT ![c] = x] /\ Decide(q, "emettre", comptes[c].secret)
      BY <1>3, <2>3 DEF ConnexionAdmise
    <3> HIDE DEF c, x
    <3>2. ComptesSains'
      BY <2>0, <2>1, <3>1, LigneType
    <3>3. RequetesSaines'
      BY <2>0, <2>1, <3>1, DecideType DEF Etapes
    <3> QED
      BY <1>0, <1>3, <3>2, <3>3 DEF ConnexionAdmise, ResteSain
  <2> QED
    BY <2>2, <2>3
<1>4. CASE ConnexionRefusee(q)
  BY <1>0, <1>4, RendType DEF ConnexionRefusee, adminVars
<1>5. CASE MotDePasseFaux(q)
  <2>1. requetes[q].lu \in Compte
    BY <1>5 DEF MotDePasseFaux, RequetesSaines
  <2>4. requetes[q].compte \in Comptes
    BY <1>5 DEF MotDePasseFaux, RequetesSaines
  <2>2. RequetesSaines'
    BY <1>5, <2>1, AvanceType DEF MotDePasseFaux, Etapes
  <2>3. fautes' \in [Comptes -> Nat]
    BY <1>5, <2>4 DEF MotDePasseFaux, ResteSain
  <2> QED
    BY <1>0, <1>5, <2>2, <2>3
       DEF MotDePasseFaux, adminVars, ComptesSains, ResteSain
<1>6. CASE MotDePasseBon(q)
  <2>1. requetes[q].lu.secret \in 0..SecretMax
    BY <1>6 DEF MotDePasseBon, RequetesSaines, Compte
  <2>2. RequetesSaines'
    BY <1>6, <2>1, DecideType DEF MotDePasseBon, Etapes
  <2> QED
    BY <1>0, <1>6, <2>2 DEF MotDePasseBon, adminVars
<1>7. CASE ConnexionEchoue(q)
  <2> DEFINE c == requetes[q].compte
             e == IF Tentatives(requetes[q].lu) >= Seuil THEN 0 ELSE Tentatives(requetes[q].lu)
             w == IF Tentatives(requetes[q].lu) >= Seuil THEN TRUE ELSE comptes[c].verrou
             x == [comptes[c] EXCEPT !.echecs = e, !.verrou = w]
  <2>0. c \in Comptes /\ requetes[q].lu \in Compte
    BY <1>7 DEF ConnexionEchoue, RequetesSaines
  <2>1. e \in Nat /\ e < Seuil
    BY <2>0, SessionsAssumption DEF SessionsAssumption, Tentatives, Compte
  <2>2. comptes[c] \in Compte /\ comptes[c].verrou \in BOOLEAN
    BY <2>0 DEF ComptesSains, Compte
  <2>3. w \in BOOLEAN
    BY <2>2, Zenon
  <2>4. comptes' = [comptes EXCEPT ![c] = x]
    BY <1>7 DEF ConnexionEchoue
  <2>5. ComptesSains'
    <3> HIDE DEF e, w
    <3>1. x \in Compte /\ x.echecs = e
      BY <2>1, <2>2, <2>3 DEF Compte
    <3> HIDE DEF x, c
    <3> QED
      BY <2>0, <2>1, <2>4, <3>1, LigneType
  <2>6. RequetesSaines'
    BY <1>7, RendType, DecideType, AdministrationAssumption
       DEF ConnexionEchoue, Etapes, AdministrationAssumption
  <2> QED
    BY <1>0, <1>7, <2>5, <2>6 DEF ConnexionEchoue, ResteSain
<1>8. CASE VerrouRevoque(q)
  <2>1. RequetesSaines' /\ JetonsSains'
    BY <1>8, RendType, RevoquerType DEF VerrouRevoque
  <2> QED
    BY <1>0, <1>8, <2>1 DEF VerrouRevoque, adminVars
<1>9. CASE ConnexionReussit(q)
  <2>1. requetes[q].compte \in Comptes
    BY <1>9 DEF ConnexionReussit, RequetesSaines
  <2>2. ComptesSains'
    BY <1>9, <2>1, SessionsAssumption
       DEF SessionsAssumption, ConnexionReussit, ComptesSains, Compte
  <2>3. RequetesSaines'
    BY <1>9, AvanceType DEF ConnexionReussit, Etapes
  <2> QED
    BY <1>0, <1>9, <2>2, <2>3 DEF ConnexionReussit, ResteSain
<1>10. ASSUME NEW j \in Jetons, Emettre(q, j)
       PROVE  TInv'
  <2>1. requetes[q] \in Requete /\ requetes[q].compte \in Comptes
    BY <1>10 DEF Emettre, RequetesSaines
  <2>2. JetonsSains'
    BY <1>10, <2>1 DEF Emettre, JetonsSains, Jeton, Requete
  <2>3. RequetesSaines'
    BY <1>10, RendType DEF Emettre
  <2> QED
    BY <1>0, <1>10, <2>2, <2>3 DEF Emettre, adminVars
<1> QED
  BY <1>1, <1>2, <1>3, <1>4, <1>5, <1>6, <1>7, <1>8, <1>9, <1>10

LEMMA RotationsType ==
  ASSUME TInv, Rotations
  PROVE  TInv'
<1> USE DEF TInv
<1> PICK q \in Requetes :
    \/ \E j \in Jetons : RafraichirVerifie(q, j)
    \/ RafraichirLit(q) \/ RafraichirTourne(q) \/ RafraichirClot(q)
  BY DEF Rotations
<1>0. UNCHANGED <<adminVars, fautes>>
  BY DEF RafraichirVerifie, RafraichirLit, RafraichirTourne, RafraichirClot
<1>1. ComptesSains' /\ ActesSains' /\ ResteSain'
  BY <1>0 DEF adminVars, ComptesSains, ActesSains, ResteSain
<1>2. ASSUME NEW j \in Jetons, RafraichirVerifie(q, j)
      PROVE  TInv'
  <2> DEFINE r == [PasDeRequete EXCEPT !.pc = "lire", !.jeton = j,
                     !.compte = jetons[j].compte, !.secret = jetons[j].secret,
                     !.famille = jetons[j].famille,
                     !.jumelle = jetons[j].jumelle \/ \E p \in Requetes : Tient(p, j)]
             t(p) == [requetes[p] EXCEPT !.jumelle = TRUE]
  <2>1. jetons[j] \in Jeton /\ jetons[j].compte \in Comptes
    BY <1>2 DEF RafraichirVerifie, JetonsSains
  <2>2. (jetons[j].jumelle \/ \E p \in Requetes : Tient(p, j)) \in BOOLEAN
    BY Zenon
  <2>3. r \in Requete /\ r.pc = "lire" /\ r.compte \in Comptes
    BY <2>1, <2>2, VidesType DEF Requete, PasDeRequete, Jeton
  <2>4. \A p \in Requetes : /\ t(p) \in Requete /\ t(p).pc = requetes[p].pc
                            /\ t(p).compte = requetes[p].compte
                            /\ t(p).lu = requetes[p].lu
    BY DEF RequetesSaines, Requete
  <2>5. requetes' = [p \in Requetes |->
          IF p = q THEN r ELSE IF Tient(p, j) THEN t(p) ELSE requetes[p]]
    BY <1>2 DEF RafraichirVerifie
  <2>6. RequetesSaines'
    <3> HIDE DEF r, t
    <3> QED
      BY <2>3, <2>4, <2>5 DEF RequetesSaines
  <2> QED
    BY <1>1, <1>2, <2>6 DEF RafraichirVerifie, JetonsSains
<1>3. CASE RafraichirLit(q)
  <2>1. RequetesSaines'
    BY <1>3, AvanceType DEF RafraichirLit, Etapes
  <2> QED
    BY <1>1, <1>3, <2>1 DEF RafraichirLit, JetonsSains
<1>4. CASE RafraichirTourne(q)
  <2> DEFINE r == [requetes[q] EXCEPT !.pc = "emettre", !.jeton = Aucun]
  <2>1. requetes[q] \in Requete /\ requetes[q].compte \in Comptes
    BY <1>4 DEF RafraichirTourne, RequetesSaines
  <2>2. r \in Requete /\ r.compte \in Comptes /\ r.pc = "emettre"
    BY <2>1 DEF Requete
  <2>3. requetes' = [requetes EXCEPT ![q] = r]
    BY <1>4 DEF RafraichirTourne
  <2>4. RequetesSaines'
    <3> HIDE DEF r
    <3> QED
      BY <2>2, <2>3, RequeteType
  <2> QED
    BY <1>1, <1>4, <2>4, RevoquerType DEF RafraichirTourne
<1>5. CASE RafraichirClot(q)
  BY <1>1, <1>5, RendType, RevoquerType DEF RafraichirClot
<1> QED
  BY <1>2, <1>3, <1>4, <1>5

LEMMA ChangementsType ==
  ASSUME TInv, Changements
  PROVE  TInv'
<1> USE DEF TInv
<1>1. ASSUME NEW q \in Requetes, NEW c \in Comptes, ChangerLit(q, c)
      PROVE  TInv'
  <2>1. RequetesSaines'
    BY <1>1, LitType DEF ChangerLit, Etapes
  <2> QED
    BY <1>1, <2>1 DEF ChangerLit, adminVars, ComptesSains, ActesSains, ResteSain, JetonsSains
<1>2. ASSUME NEW q \in Requetes, ChangerEcrit(q)
      PROVE  TInv'
  <2> DEFINE c == requetes[q].compte
             x == [comptes[c] EXCEPT !.porte = TRUE, !.secret = comptes[c].secret + 1]
  <2>1. c \in Comptes
    BY <1>2 DEF ChangerEcrit, RequetesSaines
  <2>2. comptes[c] \in Compte /\ comptes[c].echecs < Seuil
    BY <2>1 DEF ComptesSains
  <2>3. comptes[c].secret + 1 \in 0..SecretMax
    BY <1>2, <2>2, SecretSuivant DEF ChangerEcrit, Compte
  <2>4. x \in Compte /\ x.echecs < Seuil
    BY <2>2, <2>3 DEF Compte
  <2>5. comptes' = [comptes EXCEPT ![c] = x]
    BY <1>2 DEF ChangerEcrit
  <2>6. ComptesSains'
    <3> HIDE DEF x, c
    <3> QED
      BY <2>1, <2>4, <2>5, LigneType
  <2>7. RequetesSaines'
    BY <1>2, <2>3, DecideType DEF ChangerEcrit, Etapes
  <2> QED
    BY <1>2, <2>6, <2>7 DEF ChangerEcrit, ActesSains, ResteSain, JetonsSains
<1>3. ASSUME NEW q \in Requetes, ChangerRevoque(q)
      PROVE  TInv'
  <2>1. RequetesSaines' /\ JetonsSains'
    BY <1>3, AvanceType, RevoquerType DEF ChangerRevoque, Etapes
  <2> QED
    BY <1>3, <2>1 DEF ChangerRevoque, adminVars, ComptesSains, ActesSains, ResteSain
<1>4. ASSUME NEW u \in Acteurs, ActeRevoque(u)
      PROVE  TInv'
  <2>1. ActesSains' /\ JetonsSains'
    BY <1>4, VidesType, RevoquerType DEF ActeRevoque, ActesSains, PasDActe
  <2> QED
    BY <1>4, <2>1 DEF ActeRevoque, ComptesSains, RequetesSaines, ResteSain
<1> QED
  BY <1>1, <1>2, <1>3, <1>4 DEF Changements

LEMMA TypeStep == TInv /\ [Next]_vars => TInv'
<1> SUFFICES ASSUME TInv, [Next]_vars PROVE TInv'
  OBVIOUS
<1>1. CASE UNCHANGED vars
  BY <1>1 DEF vars, adminVars, sessionsVars, TInv, ComptesSains, ActesSains,
              RequetesSaines, JetonsSains, ResteSain
<1>2. ASSUME NEW c \in Comptes, VerrouExpire(c)
      PROVE  TInv'
  <2>1. ComptesSains'
    BY <1>2 DEF TInv, VerrouExpire, ComptesSains, Compte
  <2> QED
    BY <1>2, <2>1 DEF TInv, VerrouExpire, ActesSains, RequetesSaines, JetonsSains, ResteSain
<1>3. ASSUME NEW c \in Comptes, NEW j \in Jetons \cup {Aucun}, Deconnecter(c, j)
      PROVE  TInv'
  <2>1. JetonsSains'
    BY <1>3, RevoquerType DEF TInv, Deconnecter
  <2> QED
    BY <1>3, <2>1
       DEF TInv, Deconnecter, adminVars, ComptesSains, ActesSains, RequetesSaines, ResteSain
<1> QED
  BY <1>1, <1>2, <1>3, ActesType, ConnexionsType, RotationsType, ChangementsType DEF Next

(* Every variable keeps its type, a count of failures never reaches the     *)
(* threshold, and what a request in flight holds is what its step needs.    *)
THEOREM SessionsType == Spec => []TypeOK
<1>1. Spec => []TInv
  BY InitType, TypeStep, PTL DEF Spec
<1> QED
  BY <1>1, TInvType, PTL

-----------------------------------------------------------------------------
(* The sessions opened under a former password                              *)

(* What most steps do for this property: they drop no revocation to come,   *)
(* bring no token to life, and replace no password without promising one.   *)
PromessesGardees ==
  /\ \A u \in Acteurs : actes[u].pc = "sessions" => actes'[u] = actes[u]
  /\ \A q \in Requetes : requetes[q].pc = "changee" => requetes'[q] = requetes[q]

RienNeRevit == \A j \in Jetons : jetons'[j].etat = "vivant" => jetons'[j] = jetons[j]

SecretsGardes ==
  \A c \in Comptes : comptes'[c].secret = comptes[c].secret \/ RevocationAVenir(c)'

Ouvert(j) == jetons[j].etat = "vivant" /\ ~jetons[j].tardif

Couvert(j) ==
  \/ jetons[j].secret = comptes[jetons[j].compte].secret
  \/ RevocationAVenir(jetons[j].compte)

LEMMA ParJeton ==
  /\ SessionsDuMotDePasse <=> \A j \in Jetons : Ouvert(j) => Couvert(j)
  /\ SessionsDuMotDePasse' <=> \A j \in Jetons : Ouvert(j)' => Couvert(j)'
BY Zenon DEF SessionsDuMotDePasse, Ouvert, Couvert

LEMMA Cadre ==
  ASSUME JetonsSains, SessionsDuMotDePasse, PromessesGardees, RienNeRevit, SecretsGardes
  PROVE  SessionsDuMotDePasse'
<1> SUFFICES ASSUME NEW j \in Jetons, Ouvert(j)' PROVE Couvert(j)'
  BY ParJeton
<1>1. jetons'[j] = jetons[j] /\ jetons[j].compte \in Comptes
  BY DEF Ouvert, RienNeRevit, JetonsSains
<1> PICK c \in Comptes : c = jetons[j].compte
  BY <1>1
<1>2. RevocationAVenir(c) => RevocationAVenir(c)'
  BY DEF RevocationAVenir, PromessesGardees
<1>3. Couvert(j)
  BY <1>1, ParJeton, Zenon DEF Ouvert
<1>4. jetons[j].secret = comptes[c].secret \/ RevocationAVenir(c)
  BY <1>3 DEF Couvert
<1>5. jetons'[j].secret = comptes'[c].secret \/ RevocationAVenir(c)'
  BY <1>1, <1>2, <1>4 DEF SecretsGardes
<1>6. jetons'[j].compte = c
  BY <1>1
<1> QED
  BY <1>5, <1>6 DEF Couvert

LEMMA RevoquerEteint ==
  ASSUME NEW S, Revoquer(S)
  PROVE  /\ RienNeRevit
         /\ \A j \in S \cap Jetons : jetons'[j].etat # "vivant"
BY DEF RienNeRevit, Revoquer, PasDeJeton

(* The step that revokes the sessions of c keeps its promise, and all the   *)
(* others.                                                                  *)
LEMMA PromesseTenue ==
  ASSUME JetonsSains, SessionsDuMotDePasse, NEW c \in Comptes, Revoquer(Vivants(c)),
         comptes' = comptes,
         \A d \in Comptes \ {c} : RevocationAVenir(d) => RevocationAVenir(d)'
  PROVE  SessionsDuMotDePasse'
<1> SUFFICES ASSUME NEW j \in Jetons, Ouvert(j)' PROVE Couvert(j)'
  BY ParJeton
<1>1. jetons'[j] = jetons[j] /\ jetons[j].compte \in Comptes
  BY RevoquerEteint DEF Ouvert, RienNeRevit, JetonsSains
<1>2. jetons[j].compte # c
  BY <1>1, RevoquerEteint DEF Ouvert, Vivants
<1> PICK d \in Comptes \ {c} : d = jetons[j].compte
  BY <1>1, <1>2
<1>3. Couvert(j)
  BY <1>1, ParJeton, Zenon DEF Ouvert
<1>4. jetons[j].secret = comptes[d].secret \/ RevocationAVenir(d)
  BY <1>3 DEF Couvert
<1>5. jetons'[j].secret = comptes'[d].secret \/ RevocationAVenir(d)'
  BY <1>1, <1>4
<1>6. jetons'[j].compte = d
  BY <1>1
<1> QED
  BY <1>5, <1>6 DEF Couvert

(* An act leaves the password alone, or is to revoke the sessions.          *)
LEMMA EcriteSecret ==
  ASSUME NEW acte \in Acte, NEW ligne \in Compte, acte.nature \in ToutesNatures \ {"creer"}
  PROVE  \/ acte.nature \in {"reinitialiser", "rattacher"}
         \/ Ecrite(acte, ligne).secret = ligne.secret
<1>1. CASE acte.nature = "modifier"
  BY <1>1 DEF Ecrite, Compte
<1>2. CASE acte.nature \in {"promouvoir", "revoquer"}
  BY <1>2 DEF Ecrite, Compte
<1> QED
  BY <1>1, <1>2 DEF ToutesNatures

LEMMA ActesMotDePasse ==
  ASSUME TInv, SessionsDuMotDePasse, Actes, UNCHANGED sessionsVars
  PROVE  SessionsDuMotDePasse'
<1>0. requetes' = requetes /\ jetons' = jetons /\ RienNeRevit /\ JetonsSains
  BY DEF sessionsVars, RienNeRevit, TInv
<1>1. ASSUME NEW u \in Acteurs, NEW c \in Comptes, NEW role \in RolesDonnes, Creer(u, c, role)
      PROVE  PromessesGardees /\ SecretsGardes
  BY <1>0, <1>1 DEF Creer, PromessesGardees, SecretsGardes, TInv, ComptesSains
<1>2. ASSUME NEW u \in Acteurs, NEW c \in Comptes, NEW n, NEW f, NEW accepte,
             ActeLit(u, n, c, f, accepte)
      PROVE  PromessesGardees /\ SecretsGardes
  BY <1>0, <1>2 DEF ActeLit, PromessesGardees, SecretsGardes, TInv, ActesSains
<1>3. ASSUME NEW u \in Acteurs, ActeCompteInstance(u) \/ ActeCompteLocal(u)
      PROVE  PromessesGardees /\ SecretsGardes
  BY <1>0, <1>3 DEF ActeCompteInstance, ActeCompteLocal, PromessesGardees, SecretsGardes,
                    TInv, ActesSains
<1>4. ASSUME NEW u \in Acteurs, ActeEcrit(u)
      PROVE  PromessesGardees /\ SecretsGardes
  <2> DEFINE a == actes[u]
  <2>1. /\ a \in Acte /\ a.cible \in Comptes /\ a.pc = "ecrire"
        /\ a.nature \in ToutesNatures \ {"creer"} /\ comptes[a.cible] \in Compte
        /\ actes \in [Acteurs -> Acte] /\ comptes \in [Comptes -> Compte]
    BY <1>4 DEF ActeEcrit, TInv, ActesSains, ComptesSains
  <2>2. PromessesGardees
    BY <1>0, <1>4, <2>1 DEF ActeEcrit, PromessesGardees
  <2> PICK c \in Comptes : c = a.cible
    BY <2>1
  <2>3. \A d \in Comptes \ {c} : comptes'[d] = comptes[d]
    BY <1>4, <2>1 DEF ActeEcrit
  <2>4. comptes'[c].secret = comptes[c].secret \/ RevocationAVenir(c)'
    <3>1. CASE a.nature \in {"reinitialiser", "rattacher"}
      <4>1. actes'[u].pc = "sessions" /\ actes'[u].cible = c
        BY <1>4, <2>1, <3>1 DEF ActeEcrit, Acte
      <4> QED
        BY <4>1 DEF RevocationAVenir
    <3>2. CASE Ecrite(a, comptes[c]).secret = comptes[c].secret
      BY <1>4, <2>1, <3>2 DEF ActeEcrit
    <3> QED
      BY <2>1, <3>1, <3>2, EcriteSecret
  <2>5. SecretsGardes
    BY <2>3, <2>4 DEF SecretsGardes
  <2> QED
    BY <2>2, <2>5
<1>5. ASSUME SynchroCommence \/ \E c \in Comptes : SynchroCherche(c) \/ SynchroDesactive(c)
      PROVE  PromessesGardees /\ SecretsGardes
  BY <1>0, <1>5 DEF SynchroCommence, SynchroCherche, SynchroDesactive, PromessesGardees,
                    SecretsGardes, TInv, ComptesSains, Compte
<1>6. PromessesGardees /\ SecretsGardes
  BY <1>1, <1>2, <1>3, <1>4, <1>5 DEF Actes
<1> QED
  BY <1>0, <1>6, Cadre

LEMMA ConnexionsMotDePasse ==
  ASSUME TInv, SessionsDuMotDePasse, Connexions
  PROVE  SessionsDuMotDePasse'
<1> USE DEF TInv
<1> PICK q \in Requetes :
    \/ \E c \in Comptes : ConnexionLit(q, c)
    \/ \E v \in Verdicts : ConnexionAnnuaire(q, v)
    \/ \E role \in RolesDonnes : ConnexionAdmise(q, role)
    \/ ConnexionRefusee(q) \/ MotDePasseFaux(q) \/ MotDePasseBon(q)
    \/ ConnexionEchoue(q) \/ VerrouRevoque(q) \/ ConnexionReussit(q)
    \/ \E j \in Jetons : Emettre(q, j)
  BY DEF Connexions
<1>1. actes' = actes /\ requetes[q].pc # "changee"
      /\ \A p \in Requetes \ {q} : requetes'[p] = requetes[p]
  BY DEF ConnexionLit, ConnexionAnnuaire, ConnexionAdmise, ConnexionRefusee, MotDePasseFaux,
         MotDePasseBon, ConnexionEchoue, VerrouRevoque, ConnexionReussit, Emettre, adminVars,
         Lit, Avance, Rend, Decide, RequetesSaines
<1>2. PromessesGardees
  BY <1>1 DEF PromessesGardees
<1>3. SecretsGardes
  <2>1. CASE UNCHANGED comptes
    BY <2>1 DEF SecretsGardes
  <2>2. ASSUME NEW role \in RolesDonnes, ConnexionAdmise(q, role)
        PROVE  SecretsGardes
    BY <2>2 DEF ConnexionAdmise, SecretsGardes, ComptesSains
  <2>3. CASE ConnexionEchoue(q)
    <3> DEFINE c == requetes[q].compte
    <3>1. PICK e, w : comptes' = [comptes EXCEPT ![c].echecs = e, ![c].verrou = w]
      BY <2>3 DEF ConnexionEchoue
    <3> QED
      BY <3>1 DEF SecretsGardes, ComptesSains, Compte
  <2>4. CASE ConnexionReussit(q)
    BY <2>4 DEF ConnexionReussit, SecretsGardes, ComptesSains, Compte
  <2> QED
    BY <2>1, <2>2, <2>3, <2>4
       DEF ConnexionLit, ConnexionAnnuaire, ConnexionRefusee, MotDePasseFaux, MotDePasseBon,
           VerrouRevoque, Emettre, adminVars
<1>4. CASE VerrouRevoque(q)
  BY <1>2, <1>3, <1>4, RevoquerEteint, Cadre DEF VerrouRevoque
<1>5. ASSUME NEW j \in Jetons, Emettre(q, j)
      PROVE  SessionsDuMotDePasse'
  <2>1. requetes[q] \in Requete /\ requetes[q].compte \in Comptes
    BY <1>5 DEF Emettre, RequetesSaines
  <2>2. comptes' = comptes /\ \A i \in Jetons \ {j} : jetons'[i] = jetons[i]
    BY <1>5 DEF Emettre, JetonsSains, adminVars
  <2>3. /\ jetons'[j].compte = requetes[q].compte /\ jetons'[j].secret = requetes[q].secret
        /\ jetons'[j].tardif = (requetes[q].secret # comptes[requetes[q].compte].secret)
    BY <1>5 DEF Emettre, JetonsSains
  <2>4. \A c \in Comptes : RevocationAVenir(c) => RevocationAVenir(c)'
    BY <1>2 DEF RevocationAVenir, PromessesGardees
  <2>5. SUFFICES ASSUME NEW i \in Jetons, Ouvert(i)' PROVE Couvert(i)'
    BY ParJeton
  <2>6. CASE i = j
    <3>1. jetons'[j].tardif = FALSE
      BY <2>3, <2>5, <2>6, Zenon DEF Ouvert
    <3>2. jetons'[j].secret = comptes'[jetons'[j].compte].secret
      BY <2>2, <2>3, <3>1
    <3> QED
      BY <2>6, <3>2, Zenon DEF Couvert
  <2>7. CASE i # j
    <3>1. jetons'[i] = jetons[i] /\ jetons[i].compte \in Comptes
      BY <2>2, <2>5, <2>7 DEF Ouvert, JetonsSains
    <3>2. Couvert(i)
      BY <2>5, <3>1, ParJeton, Zenon DEF Ouvert
    <3> PICK c \in Comptes : c = jetons[i].compte
      BY <3>1
    <3>3. jetons[i].secret = comptes[c].secret \/ RevocationAVenir(c)
      BY <3>2 DEF Couvert
    <3>4. jetons'[i].secret = comptes'[c].secret \/ RevocationAVenir(c)'
      BY <2>2, <2>4, <3>1, <3>3
    <3>5. jetons'[i].compte = c
      BY <3>1
    <3> QED
      BY <3>4, <3>5 DEF Couvert
  <2> QED
    BY <2>6, <2>7
<1>6. CASE UNCHANGED jetons
  <2>1. RienNeRevit
    BY <1>6 DEF RienNeRevit
  <2> QED
    BY <1>2, <1>3, <2>1, Cadre
<1> QED
  BY <1>4, <1>5, <1>6
     DEF ConnexionLit, ConnexionAnnuaire, ConnexionAdmise, ConnexionRefusee, MotDePasseFaux,
         MotDePasseBon, ConnexionEchoue, ConnexionReussit

LEMMA MotDePasseStep == TInv /\ SessionsDuMotDePasse /\ [Next]_vars => SessionsDuMotDePasse'
<1> SUFFICES ASSUME TInv, SessionsDuMotDePasse, [Next]_vars PROVE SessionsDuMotDePasse'
  OBVIOUS
<1> USE DEF TInv
<1>1. CASE UNCHANGED vars
  BY <1>1, Zenon DEF vars, adminVars, sessionsVars, SessionsDuMotDePasse, RevocationAVenir
<1>2. ASSUME NEW q \in Requetes, NEW j \in Jetons, RafraichirVerifie(q, j)
      PROVE  SessionsDuMotDePasse'
  <2>1. UNCHANGED <<comptes, actes, jetons>>
        /\ \A p \in Requetes : requetes[p].pc = "changee" =>
             requetes'[p].pc = "changee" /\ requetes'[p].compte = requetes[p].compte
    BY <1>2 DEF RafraichirVerifie, adminVars, RequetesSaines, Requete
  <2>2. \A c \in Comptes : RevocationAVenir(c) => RevocationAVenir(c)'
    BY <2>1 DEF RevocationAVenir
  <2> SUFFICES ASSUME NEW i \in Jetons, Ouvert(i)' PROVE Couvert(i)'
    BY ParJeton
  <2>3. jetons[i].compte \in Comptes /\ Couvert(i)
    BY <2>1, ParJeton DEF Ouvert, JetonsSains
  <2> PICK c \in Comptes : c = jetons[i].compte
    BY <2>3
  <2>4. jetons[i].secret = comptes[c].secret \/ RevocationAVenir(c)
    BY <2>3 DEF Couvert
  <2>5. jetons'[i].secret = comptes'[c].secret \/ RevocationAVenir(c)'
    BY <2>1, <2>2, <2>4
  <2>6. jetons'[i].compte = c
    BY <2>1
  <2> QED
    BY <2>5, <2>6 DEF Couvert
<1>3. ASSUME NEW q \in Requetes, RafraichirLit(q) \/ RafraichirTourne(q) \/ RafraichirClot(q)
      PROVE  SessionsDuMotDePasse'
  <2>1. PromessesGardees /\ SecretsGardes
    BY <1>3 DEF RafraichirLit, RafraichirTourne, RafraichirClot, adminVars, Avance, Rend,
                PromessesGardees, SecretsGardes, RequetesSaines
  <2>2. RienNeRevit
    BY <1>3, RevoquerEteint DEF RafraichirLit, RafraichirTourne, RafraichirClot, RienNeRevit
  <2> QED
    BY <2>1, <2>2, Cadre
<1>4. ASSUME NEW q \in Requetes, NEW c \in Comptes, ChangerLit(q, c)
      PROVE  SessionsDuMotDePasse'
  <2>1. PromessesGardees /\ SecretsGardes /\ RienNeRevit
    BY <1>4 DEF ChangerLit, adminVars, Lit, PromessesGardees, SecretsGardes, RienNeRevit,
                RequetesSaines
  <2> QED
    BY <2>1, Cadre
<1>5. ASSUME NEW q \in Requetes, ChangerEcrit(q)
      PROVE  SessionsDuMotDePasse'
  <2>1. requetes[q].compte \in Comptes /\ requetes[q].pc = "changer"
    BY <1>5 DEF ChangerEcrit, RequetesSaines
  <2> PICK c \in Comptes : c = requetes[q].compte
    BY <2>1
  <2>2. PromessesGardees /\ RienNeRevit
    BY <1>5, <2>1 DEF ChangerEcrit, Decide, PromessesGardees, RienNeRevit, RequetesSaines
  <2>3. requetes'[q].pc = "changee" /\ requetes'[q].compte = c
    BY <1>5, <2>1 DEF ChangerEcrit, Decide, RequetesSaines, PasDeRequete
  <2>4. RevocationAVenir(c)'
    BY <2>3 DEF RevocationAVenir
  <2>5. \A d \in Comptes \ {c} : comptes'[d] = comptes[d]
    BY <1>5, <2>1 DEF ChangerEcrit, ComptesSains
  <2>6. SecretsGardes
    BY <2>4, <2>5 DEF SecretsGardes
  <2> QED
    BY <2>2, <2>6, Cadre
<1>6. ASSUME NEW q \in Requetes, ChangerRevoque(q)
      PROVE  SessionsDuMotDePasse'
  <2>1. requetes[q].compte \in Comptes
    BY <1>6 DEF ChangerRevoque, RequetesSaines
  <2> PICK c \in Comptes : c = requetes[q].compte
    BY <2>1
  <2>2. Revoquer(Vivants(c)) /\ comptes' = comptes /\ actes' = actes
        /\ \A p \in Requetes \ {q} : requetes'[p] = requetes[p]
    BY <1>6 DEF ChangerRevoque, Avance, adminVars, RequetesSaines
  <2>3. \A d \in Comptes \ {c} : RevocationAVenir(d) => RevocationAVenir(d)'
    BY <2>2 DEF RevocationAVenir
  <2> QED
    BY <2>2, <2>3, PromesseTenue
<1>7. ASSUME NEW u \in Acteurs, ActeRevoque(u)
      PROVE  SessionsDuMotDePasse'
  <2>1. actes[u].cible \in Comptes
    BY <1>7 DEF ActeRevoque, ActesSains
  <2> PICK c \in Comptes : c = actes[u].cible
    BY <2>1
  <2>2. Revoquer(Vivants(c)) /\ comptes' = comptes /\ requetes' = requetes
        /\ \A v \in Acteurs \ {u} : actes'[v] = actes[v]
    BY <1>7 DEF ActeRevoque, ActesSains
  <2>3. \A d \in Comptes \ {c} : RevocationAVenir(d) => RevocationAVenir(d)'
    BY <2>2 DEF RevocationAVenir
  <2> QED
    BY <2>2, <2>3, PromesseTenue
<1>8. ASSUME NEW c \in Comptes, VerrouExpire(c)
      PROVE  SessionsDuMotDePasse'
  <2>1. PromessesGardees /\ SecretsGardes /\ RienNeRevit
    BY <1>8 DEF VerrouExpire, PromessesGardees, SecretsGardes, RienNeRevit, ComptesSains, Compte
  <2> QED
    BY <2>1, Cadre
<1>9. ASSUME NEW c \in Comptes, NEW j \in Jetons \cup {Aucun}, Deconnecter(c, j)
      PROVE  SessionsDuMotDePasse'
  <2>1. PromessesGardees /\ SecretsGardes
    BY <1>9 DEF Deconnecter, adminVars, PromessesGardees, SecretsGardes
  <2>2. RienNeRevit
    BY <1>9, RevoquerEteint DEF Deconnecter
  <2> QED
    BY <2>1, <2>2, Cadre
<1> QED
  BY <1>1, <1>2, <1>3, <1>4, <1>5, <1>6, <1>7, <1>8, <1>9, ActesMotDePasse,
     ConnexionsMotDePasse DEF Next, Rotations, Changements

(* A change, a reset or an attachment ends every session opened under the   *)
(* former password (auth.service.ts 293-295, users.service.ts 164-167),     *)
(* whatever the other requests do in the meantime, save those issued after  *)
(* the revocation by a request admitted before.                             *)
THEOREM SessionsFermees == Spec => []SessionsDuMotDePasse
<1>1. Init => SessionsDuMotDePasse
  BY DEF Init, SessionsDuMotDePasse, PasDeJeton
<1>2. Spec => []TInv
  BY InitType, TypeStep, PTL DEF Spec
<1> QED
  BY <1>1, <1>2, MotDePasseStep, PTL DEF Spec

-----------------------------------------------------------------------------
(* The local administrators                                                 *)

(* What an act has read stays true until it writes, or another act has      *)
(* written meanwhile: its row calls for the count if it did when it was     *)
(* read, and the others it counted are still there.                         *)
ActeFonde(u) ==
  LET c == actes[u].cible autres == AdminsLocaux \ {c} IN
  EnCours(u) =>
    /\ comptes[c].existe
    /\ CompteLocaux(actes[u].nature, comptes[c], actes[u].forme) => actes[u].locaux
    /\ actes[u].pc = "ecrire" /\ actes[u].locaux =>
         \E d \in autres : actes[u].seul \/ \E e \in autres : e # d

(* The directory only ever deactivates its own accounts.                    *)
SynchroFondee ==
  \A c \in synchro.reste \cup {synchro.cible} : c \in Comptes =>
    comptes[c].existe /\ comptes[c].source = "ad"

AdminInv ==
  /\ SynchroFondee
  /\ ~chevauche => AdminsLocaux # {} /\ \A u \in Acteurs : ActeFonde(u)

(* What the other steps do to a row.                                        *)
QualiteGardee(c) ==
  /\ comptes'[c].existe = comptes[c].existe /\ comptes'[c].role = comptes[c].role
  /\ comptes'[c].source = comptes[c].source /\ comptes'[c].actif = comptes[c].actif

Arrive(c) == ~comptes[c].existe /\ comptes'[c].existe

ResteAnnuaire(c) ==
  /\ comptes[c].existe /\ comptes[c].source = "ad"
  /\ comptes'[c].existe /\ comptes'[c].source = "ad"

RienDeLocal == \A c \in Comptes : QualiteGardee(c) \/ Arrive(c) \/ ResteAnnuaire(c)

LEMMA AdminsCroissent ==
  ASSUME RienDeLocal
  PROVE  AdminsLocaux \subseteq AdminsLocaux'
<1> SUFFICES ASSUME NEW c \in Comptes, EstAdminLocal(c) PROVE EstAdminLocal(c)'
  BY DEF AdminsLocaux
<1>1. CASE QualiteGardee(c)
  BY <1>1, Zenon DEF QualiteGardee, EstAdminLocal
<1>2. CASE Arrive(c)
  BY <1>2, Zenon DEF Arrive, EstAdminLocal
<1>3. CASE ResteAnnuaire(c)
  BY <1>3 DEF ResteAnnuaire, EstAdminLocal
<1> QED
  BY <1>1, <1>2, <1>3 DEF RienDeLocal

LEMMA ActeResteFonde ==
  ASSUME TInv, RienDeLocal, NEW u \in Acteurs, ActeFonde(u), actes'[u] = actes[u]
  PROVE  ActeFonde(u)'
<1> SUFFICES ASSUME EnCours(u)'
             PROVE  ActeFonde(u)'
  BY Zenon DEF ActeFonde
<1>0. EnCours(u) /\ actes[u].cible \in Comptes
  BY DEF EnCours, TInv, ActesSains
<1> PICK c \in Comptes : c = actes[u].cible
  BY <1>0
<1> DEFINE a == actes[u]
<1>1. comptes[c].existe /\ (CompteLocaux(a.nature, comptes[c], a.forme) => a.locaux)
  BY <1>0, Zenon DEF ActeFonde
<1>2. comptes'[c].existe /\ (CompteLocaux(a.nature, comptes'[c], a.forme) => a.locaux)
  <2>1. CASE QualiteGardee(c)
    <3>1. CompteLocaux(a.nature, comptes'[c], a.forme) <=>
            CompteLocaux(a.nature, comptes[c], a.forme)
      BY <2>1, Zenon DEF QualiteGardee, CompteLocaux, PerdSonRole, SeraDesactive
    <3> QED
      BY <1>1, <2>1, <3>1, Zenon DEF QualiteGardee
  <2>2. CASE Arrive(c)
    BY <1>1, <2>2, Zenon DEF Arrive
  <2>3. CASE ResteAnnuaire(c)
    <3>1. ~CompteLocaux(a.nature, comptes'[c], a.forme)
      BY <2>3 DEF ResteAnnuaire, CompteLocaux
    <3> QED
      BY <2>3, <3>1, Zenon DEF ResteAnnuaire
  <2> QED
    BY <2>1, <2>2, <2>3 DEF RienDeLocal
<1>3. ASSUME a.pc = "ecrire", a.locaux
      PROVE  \E d \in AdminsLocaux' \ {c} : a.seul \/ \E e \in AdminsLocaux' \ {c} : e # d
  <2>1. \E d \in AdminsLocaux \ {c} : a.seul \/ \E e \in AdminsLocaux \ {c} : e # d
    BY <1>0, <1>3, Zenon DEF ActeFonde
  <2> QED
    BY <2>1, AdminsCroissent, Zenon
<1> QED
  BY <1>2, <1>3, Zenon DEF ActeFonde

(* A step that writes nothing an administrator depends on.                  *)
LEMMA AdminCadre ==
  ASSUME TInv, AdminInv, RienDeLocal, UNCHANGED <<synchro, chevauche>>,
         NEW u \in Acteurs, \A v \in Acteurs \ {u} : actes'[v] = actes[v],
         actes'[u] = actes[u] \/ ActeFonde(u)' \/ ~EnCours(u)'
  PROVE  AdminInv'
<1>1. SynchroFondee'
  <2> SUFFICES ASSUME NEW c \in Comptes, c \in synchro.reste \cup {synchro.cible}
               PROVE  comptes'[c].existe /\ comptes'[c].source = "ad"
    BY DEF SynchroFondee
  <2>1. comptes[c].existe /\ comptes[c].source = "ad"
    BY Zenon DEF AdminInv, SynchroFondee
  <2> QED
    BY <2>1, Zenon DEF RienDeLocal, QualiteGardee, Arrive, ResteAnnuaire
<1>2. ASSUME ~chevauche'
      PROVE  AdminsLocaux' # {} /\ \A v \in Acteurs : ActeFonde(v)'
  <2>1. ~chevauche
    BY <1>2
  <2>2. AdminsLocaux' # {}
    BY <2>1, AdminsCroissent DEF AdminInv
  <2>3. ASSUME NEW v \in Acteurs, actes'[v] = actes[v]
        PROVE  ActeFonde(v)'
    BY <2>1, <2>3, ActeResteFonde DEF AdminInv
  <2>4. ~EnCours(u)' => ActeFonde(u)'
    BY Zenon DEF ActeFonde
  <2> QED
    BY <2>2, <2>3, <2>4
<1> QED
  BY <1>1, <1>2 DEF AdminInv

(* The count: what it has seen is there when it passes.                     *)
LEMMA CompteFonde ==
  ASSUME TInv, AdminInv, NEW u \in Acteurs, ActeCompteLocal(u), ~chevauche
  PROVE  ActeFonde(u)' \/ ~EnCours(u)'
<1> DEFINE a == actes[u]
           S == AdminsLocaux \ {actes[u].cible}
<1>0. actes[u] \in Acte /\ actes[u].pc = "local" /\ comptes' = comptes
      /\ actes \in [Acteurs -> Acte]
  BY DEF ActeCompteLocal, TInv, ActesSains
<1>1. CASE S = {} \/ (Unique(S) /\ ~a.accepte)
  <2>1. actes'[u] = PasDActe
    BY <1>0, <1>1 DEF ActeCompteLocal
  <2> QED
    BY <2>1 DEF EnCours, PasDActe
<1>2. CASE ~(S = {} \/ (Unique(S) /\ ~a.accepte))
  <2>1. actes'[u] = [a EXCEPT !.pc = "ecrire", !.seul = Unique(S)]
    BY <1>0, <1>2, Zenon DEF ActeCompteLocal
  <2>2. /\ actes'[u].cible = a.cible /\ actes'[u].nature = a.nature
        /\ actes'[u].forme = a.forme /\ actes'[u].locaux = a.locaux
        /\ actes'[u].seul = Unique(S)
    BY <1>0, <2>1 DEF Acte
  <2>3. ActeFonde(u) /\ EnCours(u)
    BY <1>0 DEF AdminInv, EnCours
  <2>4. \E d \in S : Unique(S) \/ \E e \in S : e # d
    BY <1>2 DEF Unique
  <2>5. \E d \in S : actes'[u].seul \/ \E e \in S : e # d
    BY <2>2, <2>4, Zenon
  <2>6. AdminsLocaux' = AdminsLocaux
    BY <1>0 DEF AdminsLocaux, EstAdminLocal
  <2> HIDE DEF S
  <2>7. /\ comptes'[actes'[u].cible].existe
        /\ CompteLocaux(actes'[u].nature, comptes'[actes'[u].cible], actes'[u].forme)
             => actes'[u].locaux
    BY <1>0, <2>2, <2>3, Zenon DEF ActeFonde
  <2> QED
    BY <2>2, <2>5, <2>6, <2>7, Zenon DEF ActeFonde, S
<1> QED
  BY <1>1, <1>2

(* A row the count was not asked for is a local administrator afterwards if *)
(* it was one before.                                                       *)
LEMMA EcriteGarde ==
  ASSUME NEW acte \in Acte, NEW ligne \in Compte,
         acte.nature \in ToutesNatures \ {"creer"},
         acte.nature = "modifier" => acte.forme \in Formes,
         ligne.existe, ligne.actif, ligne.role = "ADMIN", ligne.source = "local",
         ~CompteLocaux(acte.nature, ligne, acte.forme)
  PROVE  /\ Ecrite(acte, ligne).existe /\ Ecrite(acte, ligne).actif
         /\ Ecrite(acte, ligne).role = "ADMIN" /\ Ecrite(acte, ligne).source = "local"
<1>1. CASE acte.nature = "modifier"
  <2>1. acte.forme.role \in {"inchange", "ADMIN", "AUDITOR"}
        /\ acte.forme.actif \in {"inchange", "oui", "non"}
    BY <1>1 DEF Formes
  <2>2. acte.forme.role # "AUDITOR" /\ acte.forme.actif # "non"
    BY <1>1, Zenon DEF CompteLocaux, PerdSonRole, SeraDesactive
  <2>3. Ecrite(acte, ligne).role = "ADMIN" /\ Ecrite(acte, ligne).source = "local"
        /\ Ecrite(acte, ligne).existe = ligne.existe
    BY <1>1, <2>1, <2>2 DEF Ecrite, Compte
  <2> DEFINE actif == IF acte.forme.actif = "inchange" THEN ligne.actif
                      ELSE acte.forme.actif = "oui"
  <2>4. Ecrite(acte, ligne).actif = actif
    BY <1>1, Zenon DEF Ecrite, Compte
  <2>5. actif
    BY <2>1, <2>2
  <2> QED
    BY <2>3, <2>4, <2>5, Zenon
<1>2. CASE acte.nature = "rattacher"
  BY <1>2, Zenon DEF CompteLocaux
<1>3. CASE acte.nature = "reinitialiser"
  BY <1>3 DEF Ecrite, Compte
<1>4. CASE acte.nature \in {"promouvoir", "revoquer"}
  BY <1>4 DEF Ecrite, Compte
<1> QED
  BY <1>1, <1>2, <1>3, <1>4 DEF ToutesNatures

LEMMA EcritResteUn ==
  ASSUME TInv, AdminInv, NEW u \in Acteurs, ActeEcrit(u), ~chevauche'
  PROVE  /\ AdminsLocaux' # {}
         /\ Unique(AdminsLocaux') => Unique(AdminsLocaux) \/ actes[u].seul
<1> DEFINE a == actes[u]
<1>0. /\ a \in Acte /\ a.cible \in Comptes /\ a.pc = "ecrire" /\ EnCours(u)
      /\ a.nature \in ToutesNatures \ {"creer"}
      /\ (a.nature = "modifier" => a.forme \in Formes)
  BY DEF ActeEcrit, TInv, ActesSains, EnCours
<1>1. ~chevauche /\ AdminsLocaux # {} /\ ActeFonde(u)
  BY Zenon DEF ActeEcrit, AdminInv
<1> PICK c \in Comptes : c = a.cible
  BY <1>0
<1>2. comptes' = [comptes EXCEPT ![c] = Ecrite(a, comptes[c])] /\ comptes[c] \in Compte
  BY DEF ActeEcrit, TInv, ComptesSains
<1>3. comptes'[c] = Ecrite(a, comptes[c]) /\ \A d \in Comptes \ {c} : comptes'[d] = comptes[d]
  BY <1>2 DEF TInv, ComptesSains
<1>4. AdminsLocaux \ {c} \subseteq AdminsLocaux'
  BY <1>3 DEF AdminsLocaux, EstAdminLocal
<1>5. CASE EstAdminLocal(c) /\ CompteLocaux(a.nature, comptes[c], a.forme)
  <2>1. a.locaux
    BY <1>0, <1>1, <1>5, Zenon DEF ActeFonde
  <2>2. \E d \in AdminsLocaux \ {c} : a.seul \/ \E e \in AdminsLocaux \ {c} : e # d
    BY <1>0, <1>1, <2>1, Zenon DEF ActeFonde
  <2>3. AdminsLocaux' # {}
    BY <1>4, <2>2, Zenon
  <2>4. Unique(AdminsLocaux') => a.seul
    BY <1>4, <2>2, Zenon DEF Unique
  <2> QED
    BY <2>3, <2>4
<1>6. CASE ~(EstAdminLocal(c) /\ CompteLocaux(a.nature, comptes[c], a.forme))
  <2>1. ASSUME EstAdminLocal(c)
        PROVE  EstAdminLocal(c)'
    <3>1. /\ comptes[c].existe /\ comptes[c].actif
          /\ comptes[c].role = "ADMIN" /\ comptes[c].source = "local"
      BY <2>1, Zenon DEF EstAdminLocal
    <3>2. ~CompteLocaux(a.nature, comptes[c], a.forme)
      BY <1>6, <2>1
    <3>3. LET r == Ecrite(a, comptes[c])
          IN  r.existe /\ r.actif /\ r.role = "ADMIN" /\ r.source = "local"
      BY <1>0, <1>2, <3>1, <3>2, EcriteGarde, Zenon
    <3> QED
      BY <1>3, <3>3, Zenon DEF EstAdminLocal
  <2>2. AdminsLocaux \subseteq AdminsLocaux'
    BY <1>4, <2>1 DEF AdminsLocaux
  <2>3. AdminsLocaux' # {}
    BY <1>1, <2>2
  <2>4. Unique(AdminsLocaux') => Unique(AdminsLocaux)
    <3> SUFFICES ASSUME NEW x \in AdminsLocaux', AdminsLocaux' = {x}
                 PROVE  Unique(AdminsLocaux)
      BY DEF Unique
    <3>1. AdminsLocaux = {x}
      BY <1>1, <2>2
    <3> QED
      BY <3>1 DEF Unique
  <2> QED
    BY <2>3, <2>4
<1> QED
  BY <1>5, <1>6

(* Every step but the writing of an act by its author leaves the local      *)
(* administrators there, and every step keeps the invariant.                *)
LEMMA AdminStep ==
  ASSUME TInv, TInv', AdminInv, [Next]_vars
  PROVE  /\ AdminInv'
         /\ \/ AdminsLocaux \subseteq AdminsLocaux'
            \/ \E u \in Acteurs : ActeEcrit(u)
<1> USE DEF TInv
<1>1. ASSUME RienDeLocal, UNCHANGED <<synchro, chevauche>>, NEW u \in Acteurs,
             \A v \in Acteurs \ {u} : actes'[v] = actes[v],
             actes'[u] = actes[u] \/ ActeFonde(u)' \/ ~EnCours(u)'
      PROVE  AdminInv' /\ AdminsLocaux \subseteq AdminsLocaux'
  BY <1>1, AdminCadre, AdminsCroissent
<1>2. Cli \in Acteurs
  BY DEF Acteurs
<1>3. CASE UNCHANGED adminVars
  <2>1. RienDeLocal
    BY <1>3 DEF adminVars, RienDeLocal, QualiteGardee
  <2> QED
    BY <1>1, <1>2, <1>3, <2>1 DEF adminVars
<1>4. ASSUME NEW u \in Acteurs, NEW c \in Comptes, NEW role \in RolesDonnes, Creer(u, c, role)
      PROVE  AdminInv' /\ AdminsLocaux \subseteq AdminsLocaux'
  <2>1. RienDeLocal
    BY <1>4 DEF Creer, RienDeLocal, QualiteGardee, Arrive, ComptesSains
  <2> QED
    BY <1>1, <1>2, <1>4, <2>1 DEF Creer
<1>5. ASSUME NEW u \in Acteurs, NEW n \in ToutesNatures, NEW c \in Comptes, NEW f,
             NEW accepte \in BOOLEAN, ActeLit(u, n, c, f, accepte)
      PROVE  AdminInv' /\ AdminsLocaux \subseteq AdminsLocaux'
  <2>1. RienDeLocal /\ comptes' = comptes
    BY <1>5 DEF ActeLit, RienDeLocal, QualiteGardee
  <2> DEFINE l == CompteLocaux(n, comptes[c], f)
  <2>2. /\ actes'[u].cible = c /\ actes'[u].nature = n /\ actes'[u].forme = f
        /\ actes'[u].locaux = l
        /\ actes'[u].pc \in {"instance", Suite(l)}
    BY <1>5 DEF ActeLit, ActesSains
  <2>3. ~(actes'[u].pc = "ecrire" /\ actes'[u].locaux)
    BY <2>2, Zenon DEF Suite
  <2>4. comptes[c].existe
    BY <1>5 DEF ActeLit
  <2>5. ActeFonde(u)'
    <3> HIDE DEF l
    <3>1. comptes'[actes'[u].cible].existe
      BY <2>1, <2>2, <2>4
    <3>2. CompteLocaux(actes'[u].nature, comptes'[actes'[u].cible], actes'[u].forme)
            => actes'[u].locaux
      BY <2>1, <2>2, Zenon DEF l
    <3> QED
      BY <2>3, <3>1, <3>2, Zenon DEF ActeFonde
  <2> QED
    BY <1>1, <1>5, <2>1, <2>5 DEF ActeLit, ActesSains
<1>6. ASSUME NEW u \in Acteurs, ActeCompteInstance(u)
      PROVE  AdminInv' /\ AdminsLocaux \subseteq AdminsLocaux'
  <2>1. RienDeLocal /\ comptes' = comptes /\ actes[u] \in Acte /\ chevauche' = chevauche
    BY <1>6 DEF ActeCompteInstance, RienDeLocal, QualiteGardee, ActesSains
  <2>2. CASE actes'[u] = PasDActe
    <3>1. ~EnCours(u)'
      BY <2>2 DEF EnCours, PasDActe
    <3> QED
      BY <1>1, <1>6, <2>1, <3>1 DEF ActeCompteInstance, ActesSains
  <2>3. CASE actes'[u] = [actes[u] EXCEPT !.pc = Suite(actes[u].locaux)]
    <3>1. /\ actes'[u].cible = actes[u].cible /\ actes'[u].nature = actes[u].nature
          /\ actes'[u].forme = actes[u].forme /\ actes'[u].locaux = actes[u].locaux
          /\ actes'[u].pc = Suite(actes[u].locaux)
      BY <2>1, <2>3 DEF Acte
    <3>2. ~(actes'[u].pc = "ecrire" /\ actes'[u].locaux)
      BY <3>1, Zenon DEF Suite
    <3>3. EnCours(u)
      BY <1>6 DEF ActeCompteInstance, EnCours
    <3>4. ActeFonde(u) => ActeFonde(u)'
      BY <2>1, <3>1, <3>2, <3>3, Zenon DEF ActeFonde
    <3>5. CASE chevauche
      <4>1. AdminsLocaux' = AdminsLocaux
        BY <2>1 DEF AdminsLocaux, EstAdminLocal
      <4>2. AdminInv'
        BY <1>6, <2>1, <3>5 DEF ActeCompteInstance, AdminInv, SynchroFondee
      <4> QED
        BY <4>1, <4>2
    <3>6. CASE ~chevauche
      <4>1. ActeFonde(u)'
        BY <3>4, <3>6 DEF AdminInv
      <4> QED
        BY <1>1, <1>6, <2>1, <4>1 DEF ActeCompteInstance, ActesSains
    <3> QED
      BY <3>5, <3>6
  <2> QED
    BY <1>6, <2>2, <2>3 DEF ActeCompteInstance, ActesSains
<1>7. ASSUME NEW u \in Acteurs, ActeCompteLocal(u)
      PROVE  AdminInv' /\ AdminsLocaux \subseteq AdminsLocaux'
  <2>1. RienDeLocal /\ comptes' = comptes /\ chevauche' = chevauche
    BY <1>7 DEF ActeCompteLocal, RienDeLocal, QualiteGardee
  <2>2. CASE chevauche
    <3>1. AdminsLocaux' = AdminsLocaux
      BY <2>1 DEF AdminsLocaux, EstAdminLocal
    <3>2. AdminInv'
      BY <1>7, <2>1, <2>2 DEF ActeCompteLocal, AdminInv, SynchroFondee
    <3> QED
      BY <3>1, <3>2
  <2>3. CASE ~chevauche
    <3>1. ActeFonde(u)' \/ ~EnCours(u)'
      BY <1>7, <2>3, CompteFonde
    <3> QED
      BY <1>1, <1>7, <2>1, <3>1 DEF ActeCompteLocal, ActesSains
  <2> QED
    BY <2>2, <2>3
<1>8. ASSUME NEW u \in Acteurs, ActeEcrit(u)
      PROVE  AdminInv'
  <2> DEFINE a == actes[u]
  <2>0. /\ a \in Acte /\ a.cible \in Comptes /\ a.nature \in ToutesNatures \ {"creer"}
        /\ actes \in [Acteurs -> Acte] /\ comptes \in [Comptes -> Compte]
    BY <1>8 DEF ActeEcrit, ActesSains, ComptesSains
  <2>1. SynchroFondee'
    <3> SUFFICES ASSUME NEW c \in Comptes, c \in synchro.reste \cup {synchro.cible}
                 PROVE  comptes'[c].existe /\ comptes'[c].source = "ad"
      BY <1>8 DEF SynchroFondee, ActeEcrit
    <3>1. comptes[c].existe /\ comptes[c].source = "ad" /\ comptes[c] \in Compte
      BY <2>0, Zenon DEF AdminInv, SynchroFondee
    <3>2. CASE c # a.cible
      <4>1. comptes'[c] = comptes[c]
        BY <1>8, <2>0, <3>2 DEF ActeEcrit
      <4> QED
        BY <3>1, <4>1
    <3>3. CASE c = a.cible
      <4>1. comptes'[c] = Ecrite(a, comptes[c])
        BY <1>8, <2>0, <3>3 DEF ActeEcrit
      <4>2. Ecrite(a, comptes[c]).existe = comptes[c].existe
            /\ Ecrite(a, comptes[c]).source = "ad"
        BY <2>0, <3>1 DEF Ecrite, Compte, ToutesNatures
      <4> QED
        BY <3>1, <4>1, <4>2, Zenon
    <3> QED
      BY <3>2, <3>3
  <2>2. ASSUME ~chevauche'
        PROVE  AdminsLocaux' # {} /\ \A v \in Acteurs : ActeFonde(v)'
    <3>1. AdminsLocaux' # {}
      BY <1>8, <2>2, EcritResteUn
    <3>2. \A v \in Acteurs : ~EnCours(v)'
      <4>1. ~EnCours(u)'
        BY <1>8, <2>0 DEF ActeEcrit, EnCours, PasDActe, Acte
      <4>2. \A v \in Acteurs \ {u} : ~EnCours(v) /\ actes'[v] = actes[v]
        BY <1>8, <2>0, <2>2 DEF ActeEcrit
      <4> QED
        BY <4>1, <4>2 DEF EnCours
    <3>3. \A v \in Acteurs : ActeFonde(v)'
      BY <3>2, Zenon DEF ActeFonde
    <3> QED
      BY <3>1, <3>3
  <2> QED
    BY <2>1, <2>2 DEF AdminInv
<1>9. ASSUME SynchroCommence \/ \E c \in Comptes : SynchroCherche(c)
      PROVE  AdminInv' /\ AdminsLocaux \subseteq AdminsLocaux'
  <2>1. RienDeLocal /\ AdminsLocaux' = AdminsLocaux
    BY <1>9 DEF SynchroCommence, SynchroCherche, RienDeLocal, QualiteGardee,
                AdminsLocaux, EstAdminLocal
  <2>2. SynchroFondee'
    <3>1. CASE SynchroCommence
      <4>1. \A c \in synchro'.reste : comptes[c].existe /\ comptes[c].source = "ad"
        BY <3>1, Zenon DEF SynchroCommence, ResteSain
      <4>2. synchro'.cible \notin Comptes /\ comptes' = comptes
        BY <3>1, AdministrationAssumption
           DEF AdministrationAssumption, SynchroCommence, ResteSain
      <4> QED
        BY <4>1, <4>2, Zenon DEF SynchroFondee
    <3>2. ASSUME NEW c \in Comptes, SynchroCherche(c)
          PROVE  SynchroFondee'
      <4>1. synchro'.reste \cup {synchro'.cible} \subseteq synchro.reste \cup {synchro.cible}
            /\ comptes' = comptes
        BY <3>2 DEF SynchroCherche, ResteSain
      <4> QED
        BY <4>1, Zenon DEF AdminInv, SynchroFondee
    <3> QED
      BY <1>9, <3>1, <3>2
  <2>3. \A v \in Acteurs : ActeFonde(v) => ActeFonde(v)'
    BY <1>9, <2>1, ActeResteFonde DEF SynchroCommence, SynchroCherche
  <2> QED
    BY <1>9, <2>1, <2>2, <2>3 DEF SynchroCommence, SynchroCherche, AdminInv
<1>10. ASSUME NEW c \in Comptes, SynchroDesactive(c)
       PROVE  AdminInv' /\ AdminsLocaux \subseteq AdminsLocaux'
  <2>1. comptes[c].existe /\ comptes[c].source = "ad"
    BY <1>10, Zenon DEF SynchroDesactive, AdminInv, SynchroFondee
  <2>2. RienDeLocal
    BY <1>10, <2>1 DEF SynchroDesactive, RienDeLocal, QualiteGardee, ResteAnnuaire,
                       ComptesSains, Compte
  <2>3. SynchroFondee'
    <3> SUFFICES ASSUME NEW d \in Comptes, d \in synchro'.reste \cup {synchro'.cible}
                 PROVE  comptes'[d].existe /\ comptes'[d].source = "ad"
      BY DEF SynchroFondee
    <3>1. d \in synchro.reste
      BY <1>10, AdministrationAssumption
         DEF AdministrationAssumption, SynchroDesactive, ResteSain
    <3>2. comptes[d].existe /\ comptes[d].source = "ad"
      BY <3>1, Zenon DEF AdminInv, SynchroFondee
    <3> QED
      BY <2>2, <3>2, Zenon DEF RienDeLocal, QualiteGardee, Arrive, ResteAnnuaire
  <2>4. \A v \in Acteurs : ActeFonde(v) => ActeFonde(v)'
    BY <1>10, <2>2, ActeResteFonde DEF SynchroDesactive
  <2> QED
    BY <1>10, <2>2, <2>3, <2>4, AdminsCroissent DEF SynchroDesactive, AdminInv
<1>11. ASSUME NEW q \in Requetes, NEW role \in RolesDonnes, ConnexionAdmise(q, role)
       PROVE  AdminInv' /\ AdminsLocaux \subseteq AdminsLocaux'
  <2> DEFINE c == requetes[q].compte
  <2>1. c \in Comptes
    BY <1>11 DEF ConnexionAdmise, RequetesSaines
  <2>2. CASE comptes' = comptes
    BY <1>1, <1>2, <1>11, <2>2 DEF ConnexionAdmise, RienDeLocal, QualiteGardee
  <2>3. CASE ~(comptes[c].existe /\ comptes[c].source = "local")
    <3>1. \A d \in Comptes \ {c} : comptes'[d] = comptes[d]
      BY <1>11, <2>3 DEF ConnexionAdmise, ComptesSains
    <3>2. comptes'[c].existe /\ comptes'[c].source = "ad"
      BY <1>11, <2>1, <2>3 DEF ConnexionAdmise, ComptesSains
    <3>3. comptes[c].source \in {"local", "ad"}
      BY <2>1 DEF ComptesSains, Compte
    <3>4. Arrive(c) \/ ResteAnnuaire(c)
      BY <2>3, <3>2, <3>3, Zenon DEF Arrive, ResteAnnuaire
    <3>5. RienDeLocal
      BY <3>1, <3>4 DEF RienDeLocal, QualiteGardee
    <3> QED
      BY <1>1, <1>2, <1>11, <3>5 DEF ConnexionAdmise
  <2> QED
    BY <1>11, <2>2, <2>3 DEF ConnexionAdmise
<1>12. ASSUME NEW q \in Requetes,
              ConnexionEchoue(q) \/ ConnexionReussit(q) \/ ChangerEcrit(q)
       PROVE  AdminInv' /\ AdminsLocaux \subseteq AdminsLocaux'
  <2>1. RienDeLocal
    <3>1. CASE ConnexionEchoue(q)
      <4> PICK e, w : comptes' = [comptes EXCEPT ![requetes[q].compte].echecs = e,
                                                 ![requetes[q].compte].verrou = w]
        BY <3>1 DEF ConnexionEchoue
      <4> QED
        BY DEF RienDeLocal, QualiteGardee, ComptesSains, Compte
    <3>2. CASE ConnexionReussit(q)
      BY <3>2 DEF ConnexionReussit, RienDeLocal, QualiteGardee, ComptesSains, Compte
    <3>3. CASE ChangerEcrit(q)
      <4> PICK s : comptes' = [comptes EXCEPT ![requetes[q].compte].porte = TRUE,
                                              ![requetes[q].compte].secret = s]
        BY <3>3 DEF ChangerEcrit
      <4> QED
        BY DEF RienDeLocal, QualiteGardee, ComptesSains, Compte
    <3> QED
      BY <1>12, <3>1, <3>2, <3>3
  <2> QED
    BY <1>1, <1>2, <1>12, <2>1 DEF ConnexionEchoue, ConnexionReussit, ChangerEcrit
<1>13. ASSUME NEW c \in Comptes, VerrouExpire(c)
       PROVE  AdminInv' /\ AdminsLocaux \subseteq AdminsLocaux'
  <2>1. RienDeLocal
    BY <1>13 DEF VerrouExpire, RienDeLocal, QualiteGardee, ComptesSains, Compte
  <2> QED
    BY <1>1, <1>2, <1>13, <2>1 DEF VerrouExpire
<1>14. ASSUME NEW u \in Acteurs, ActeRevoque(u)
       PROVE  AdminInv' /\ AdminsLocaux \subseteq AdminsLocaux'
  <2>1. RienDeLocal
    BY <1>14 DEF ActeRevoque, RienDeLocal, QualiteGardee
  <2>2. ~EnCours(u)' /\ \A v \in Acteurs \ {u} : actes'[v] = actes[v]
    BY <1>14 DEF ActeRevoque, EnCours, PasDActe, ActesSains
  <2> QED
    BY <1>1, <1>14, <2>1, <2>2 DEF ActeRevoque
<1>15. CASE Actes
  <2>1. {"modifier", "rattacher", "reinitialiser", "promouvoir", "revoquer"}
          \subseteq ToutesNatures
    BY DEF ToutesNatures
  <2> QED
    BY <1>4, <1>5, <1>6, <1>7, <1>8, <1>9, <1>10, <1>15, <2>1 DEF Actes
<1>16. CASE Connexions
  BY <1>3, <1>11, <1>12, <1>16
     DEF Connexions, ConnexionLit, ConnexionAnnuaire, ConnexionRefusee, MotDePasseFaux,
         MotDePasseBon, VerrouRevoque, Emettre
<1>17. CASE Rotations
  BY <1>3, <1>17 DEF Rotations, RafraichirVerifie, RafraichirLit, RafraichirTourne, RafraichirClot
<1>18. CASE Changements
  BY <1>3, <1>12, <1>14, <1>18 DEF Changements, ChangerLit, ChangerRevoque
<1>19. CASE UNCHANGED vars
  BY <1>3, <1>19 DEF vars
<1>20. ASSUME NEW c \in Comptes, NEW j \in Jetons \cup {Aucun}, Deconnecter(c, j)
       PROVE  UNCHANGED adminVars
  BY <1>20 DEF Deconnecter
<1> QED
  BY <1>3, <1>13, <1>15, <1>16, <1>17, <1>18, <1>19, <1>20 DEF Next

LEMMA AdminInvInit == AdminAuDepart /\ Init => AdminInv
<1> SUFFICES ASSUME AdminAuDepart, Init PROVE AdminInv
  OBVIOUS
<1>1. AdminsLocaux # {}
  BY Zenon DEF AdminAuDepart, Init, AdminInit, AdminsLocaux, EstAdminLocal
<1>2. \A u \in Acteurs : ~EnCours(u)
  BY DEF Init, AdminInit, EnCours, PasDActe
<1>3. \A u \in Acteurs : ActeFonde(u)
  BY <1>2, Zenon DEF ActeFonde
<1>4. SynchroFondee
  BY AdministrationAssumption DEF AdministrationAssumption, Init, AdminInit, SynchroFondee
<1> QED
  BY <1>1, <1>3, <1>4 DEF AdminInv

LEMMA AdminToujours == AdminAuDepart /\ Spec => [](TInv /\ AdminInv)
<1>1. TInv /\ AdminInv /\ [Next]_vars => TInv' /\ AdminInv'
  BY TypeStep, AdminStep
<1> QED
  BY <1>1, InitType, AdminInvInit, PTL DEF Spec

LEMMA ChevaucheReste == [Next]_vars => (chevauche => chevauche')
<1> SUFFICES ASSUME [Next]_vars, chevauche PROVE chevauche'
  OBVIOUS
<1>1. CASE UNCHANGED chevauche
  BY <1>1
<1>2. ASSUME NEW u \in Acteurs, ActeEcrit(u)
      PROVE  chevauche'
  BY <1>2, Zenon DEF ActeEcrit
<1>3. CASE Actes
  <2>1. ASSUME NEW u \in Acteurs, NEW c \in Comptes, NEW x, NEW f, NEW accepte,
               Creer(u, c, x) \/ ActeLit(u, x, c, f, accepte)
        PROVE  UNCHANGED chevauche
    BY <2>1 DEF Creer, ActeLit
  <2>2. ASSUME NEW c \in Comptes, SynchroCherche(c) \/ SynchroDesactive(c)
        PROVE  UNCHANGED chevauche
    BY <2>2 DEF SynchroCherche, SynchroDesactive
  <2>3. SynchroCommence => UNCHANGED chevauche
    BY DEF SynchroCommence
  <2>4. ASSUME NEW u \in Acteurs, ActeCompteInstance(u) \/ ActeCompteLocal(u)
        PROVE  UNCHANGED chevauche
    BY <2>4 DEF ActeCompteInstance, ActeCompteLocal
  <2> QED
    BY <1>1, <1>2, <1>3, <2>1, <2>2, <2>3, <2>4, Zenon DEF Actes
<1>4. CASE Connexions
  <2>1. ASSUME NEW q \in Requetes, NEW x,
               \/ ConnexionLit(q, x) \/ ConnexionAnnuaire(q, x) \/ ConnexionAdmise(q, x)
               \/ Emettre(q, x)
        PROVE  UNCHANGED chevauche
    BY <2>1 DEF ConnexionLit, ConnexionAnnuaire, ConnexionAdmise, Emettre, adminVars
  <2>2. ASSUME NEW q \in Requetes,
               \/ ConnexionRefusee(q) \/ MotDePasseFaux(q) \/ MotDePasseBon(q)
               \/ ConnexionEchoue(q) \/ VerrouRevoque(q) \/ ConnexionReussit(q)
        PROVE  UNCHANGED chevauche
    BY <2>2 DEF ConnexionRefusee, MotDePasseFaux, MotDePasseBon, ConnexionEchoue,
                VerrouRevoque, ConnexionReussit, adminVars
  <2> QED
    BY <1>1, <1>4, <2>1, <2>2, Zenon DEF Connexions
<1>5. CASE Rotations \/ Changements
  BY <1>1, <1>5 DEF Rotations, RafraichirVerifie, RafraichirLit, RafraichirTourne,
                    RafraichirClot, Changements, ChangerLit, ChangerEcrit, ChangerRevoque,
                    ActeRevoque, adminVars
<1>6. ASSUME NEW c \in Comptes,
             VerrouExpire(c) \/ \E j \in Jetons \cup {Aucun} : Deconnecter(c, j)
      PROVE  chevauche'
  BY <1>1, <1>6 DEF VerrouExpire, Deconnecter, adminVars
<1>7. CASE UNCHANGED vars
  BY <1>1, <1>7 DEF vars, adminVars
<1> QED
  BY <1>3, <1>4, <1>5, <1>6, <1>7 DEF Next

(* users.service.ts 263-272: from a tenant that has a local administrator,  *)
(* one remains, as long as no act was written while another was between its *)
(* first reading and its own writing.                                       *)
THEOREM ResteUnAdminLocal == AdminAuDepart /\ Spec => []AdminLocalReste
<1>1. AdminInv => AdminLocalReste
  BY DEF AdminInv, AdminLocalReste
<1> QED
  BY <1>1, AdminToujours, PTL

(* users.service.ts 207-261: the step that leaves a single local            *)
(* administrator is the writing of an act that carries the mention of the   *)
(* author's consent.                                                        *)
THEOREM ConsignationDuDernier == AdminAuDepart /\ Spec => DernierConsigne
<1>1. ASSUME TInv, TInv', AdminInv, [Next]_vars, Unique(AdminsLocaux'), ~Unique(AdminsLocaux),
             ~chevauche'
      PROVE  \E u \in Acteurs : actes[u].pc = "ecrire" /\ actes[u].seul /\ actes'[u] # actes[u]
  <2>1. CASE AdminsLocaux \subseteq AdminsLocaux'
    <3>1. AdminInv'
      BY <1>1, AdminStep
    <3>2. chevauche => chevauche'
      BY <1>1, ChevaucheReste
    <3>3. AdminsLocaux # {}
      BY <1>1, <3>2 DEF AdminInv
    <3> PICK x \in AdminsLocaux' : AdminsLocaux' = {x}
      BY <1>1 DEF Unique
    <3>4. AdminsLocaux = {x}
      BY <2>1, <3>3
    <3> QED
      BY <1>1, <3>4 DEF Unique
  <2>2. ASSUME NEW u \in Acteurs, ActeEcrit(u)
        PROVE  actes[u].pc = "ecrire" /\ actes[u].seul /\ actes'[u] # actes[u]
    <3>1. actes[u].seul
      BY <1>1, <2>2, EcritResteUn
    <3>2. actes[u].pc = "ecrire" /\ actes'[u].pc # "ecrire"
      BY <1>1, <2>2 DEF ActeEcrit, TInv, ActesSains, Acte, PasDActe
    <3> QED
      BY <3>1, <3>2
  <2> QED
    BY <1>1, <2>1, <2>2, AdminStep
<1>2. TInv /\ TInv' /\ AdminInv /\ [Next]_vars
        => [Unique(AdminsLocaux') /\ ~Unique(AdminsLocaux) /\ ~chevauche'
              => \E u \in Acteurs : actes[u].pc = "ecrire" /\ actes[u].seul
                                    /\ actes'[u] # actes[u]]_vars
  BY <1>1
<1> QED
  BY <1>2, AdminToujours, PTL DEF Spec, DernierConsigne

-----------------------------------------------------------------------------
(* The lock                                                                 *)

(* Neither the table nor a request in flight counts more failures than      *)
(* there were: an update built on a stale row can only lose some.           *)
LigneMeritee(c) ==
  comptes[c].echecs <= fautes[c] /\ (comptes[c].verrou => fautes[c] >= Seuil)

RequeteMeritee(q) ==
  /\ requetes[q].pc \in {"annuaire", "local"} =>
       requetes[q].lu.echecs <= fautes[requetes[q].compte]
  /\ requetes[q].pc = "echec" =>
       requetes[q].lu.echecs + 1 <= fautes[requetes[q].compte]

VerrouInv ==
  (\A c \in Comptes : LigneMeritee(c)) /\ (\A q \in Requetes : RequeteMeritee(q))

LigneSansFaute(c) ==
  /\ comptes'[c].echecs = comptes[c].echecs \/ comptes'[c].echecs = 0
  /\ comptes'[c].verrou = comptes[c].verrou \/ comptes'[c].verrou = FALSE

(* One row is written, and neither count nor lock grows in it.              *)
LEMMA UneLigne ==
  ASSUME ComptesSains, NEW c \in Comptes, NEW x, comptes' = [comptes EXCEPT ![c] = x],
         x.echecs = comptes[c].echecs \/ x.echecs = 0,
         x.verrou = comptes[c].verrou \/ x.verrou = FALSE
  PROVE  \A d \in Comptes : LigneSansFaute(d)
<1> SUFFICES ASSUME NEW d \in Comptes PROVE LigneSansFaute(d)
  OBVIOUS
<1>1. comptes'[d] = IF d = c THEN x ELSE comptes[d]
  BY DEF ComptesSains
<1>2. CASE d = c
  BY <1>1, <1>2, Zenon DEF LigneSansFaute
<1>3. CASE d # c
  BY <1>1, <1>3, Zenon DEF LigneSansFaute
<1> QED
  BY <1>2, <1>3

RequeteGardee(q) ==
  /\ requetes'[q].pc = requetes[q].pc /\ requetes'[q].lu = requetes[q].lu
  /\ requetes'[q].compte = requetes[q].compte

LEMMA VerrouCadre ==
  ASSUME TInv, VerrouInv, fautes' = fautes, \A c \in Comptes : LigneSansFaute(c),
         \A q \in Requetes : RequeteMeritee(q)' \/ RequeteGardee(q)
  PROVE  VerrouInv'
<1>1. ASSUME NEW c \in Comptes
      PROVE  LigneMeritee(c)'
  <2>1. fautes[c] \in Nat /\ comptes[c].echecs <= fautes[c]
    BY DEF VerrouInv, LigneMeritee, TInv, ResteSain
  <2>2. comptes'[c].echecs <= fautes'[c]
    BY <2>1 DEF LigneSansFaute
  <2>3. comptes'[c].verrou => fautes'[c] >= Seuil
    BY Zenon DEF VerrouInv, LigneMeritee, LigneSansFaute
  <2> QED
    BY <2>2, <2>3 DEF LigneMeritee
<1>2. ASSUME NEW q \in Requetes, RequeteGardee(q)
      PROVE  RequeteMeritee(q)'
  BY <1>2, Zenon DEF VerrouInv, RequeteGardee, RequeteMeritee
<1> QED
  BY <1>1, <1>2 DEF VerrouInv

LEMMA EcriteSansFaute ==
  ASSUME NEW acte \in Acte, NEW ligne \in Compte, acte.nature \in ToutesNatures \ {"creer"}
  PROVE  /\ Ecrite(acte, ligne).echecs = ligne.echecs \/ Ecrite(acte, ligne).echecs = 0
         /\ Ecrite(acte, ligne).verrou = ligne.verrou \/ Ecrite(acte, ligne).verrou = FALSE
<1>1. CASE acte.nature = "modifier"
  <2>1. CASE acte.forme.actif = "oui"
    BY <1>1, <2>1 DEF Ecrite, Compte
  <2>2. CASE acte.forme.actif # "oui"
    BY <1>1, <2>2 DEF Ecrite, Compte
  <2> QED
    BY <2>1, <2>2
<1>2. CASE acte.nature \in {"reinitialiser", "rattacher", "promouvoir", "revoquer"}
  BY <1>2 DEF Ecrite, Compte
<1> QED
  BY <1>1, <1>2 DEF ToutesNatures

LEMMA ActesSansFaute ==
  ASSUME TInv, Actes
  PROVE  \A c \in Comptes : LigneSansFaute(c)
<1> USE DEF TInv
<1>1. CASE UNCHANGED comptes
  BY <1>1 DEF LigneSansFaute
<1>2. ASSUME NEW u \in Acteurs, NEW c \in Comptes, NEW role \in RolesDonnes, Creer(u, c, role)
      PROVE  \A d \in Comptes : LigneSansFaute(d)
  BY <1>2 DEF Creer, LigneSansFaute, ComptesSains
<1>3. ASSUME NEW u \in Acteurs, ActeEcrit(u)
      PROVE  \A d \in Comptes : LigneSansFaute(d)
  <2>1. /\ actes[u] \in Acte /\ actes[u].cible \in Comptes
        /\ actes[u].nature \in ToutesNatures \ {"creer"}
        /\ \A d \in Comptes : comptes[d] \in Compte
    BY <1>3 DEF ActeEcrit, ActesSains, ComptesSains
  <2>2. \A d \in Comptes : comptes'[d] = IF d = actes[u].cible
          THEN Ecrite(actes[u], comptes[d]) ELSE comptes[d]
    BY <1>3, <2>1 DEF ActeEcrit, ComptesSains
  <2> SUFFICES ASSUME NEW d \in Comptes PROVE LigneSansFaute(d)
    OBVIOUS
  <2>3. CASE d = actes[u].cible
    <3>1. comptes'[d] = Ecrite(actes[u], comptes[d]) /\ comptes[d] \in Compte
      BY <2>1, <2>2, <2>3
    <3> DEFINE x == Ecrite(actes[u], comptes[d])
    <3>2. /\ x.echecs = comptes[d].echecs \/ x.echecs = 0
          /\ x.verrou = comptes[d].verrou \/ x.verrou = FALSE
      BY <2>1, <3>1, EcriteSansFaute, Zenon
    <3> QED
      BY <3>1, <3>2, Zenon DEF LigneSansFaute
  <2>4. CASE d # actes[u].cible
    BY <2>2, <2>4, Zenon DEF LigneSansFaute
  <2> QED
    BY <2>3, <2>4
<1>4. ASSUME NEW c \in Comptes, SynchroDesactive(c)
      PROVE  \A d \in Comptes : LigneSansFaute(d)
  BY <1>4 DEF SynchroDesactive, LigneSansFaute, ComptesSains, Compte
<1> QED
  <2>1. ASSUME NEW u \in Acteurs, NEW c \in Comptes, NEW n, NEW f, NEW accepte,
               ActeLit(u, n, c, f, accepte)
        PROVE  UNCHANGED comptes
    BY <2>1 DEF ActeLit
  <2>2. ASSUME NEW u \in Acteurs, ActeCompteInstance(u) \/ ActeCompteLocal(u)
        PROVE  UNCHANGED comptes
    BY <2>2 DEF ActeCompteInstance, ActeCompteLocal
  <2>3. ASSUME NEW c \in Comptes, SynchroCherche(c)
        PROVE  UNCHANGED comptes
    BY <2>3 DEF SynchroCherche
  <2>4. SynchroCommence => UNCHANGED comptes
    BY DEF SynchroCommence
  <2> QED
    BY <1>1, <1>2, <1>3, <1>4, <2>1, <2>2, <2>3, <2>4, Zenon DEF Actes

LEMMA ApresPc ==
  ASSUME RequetesSaines, NEW q \in Requetes
  PROVE  /\ Rend(q) => requetes'[q].pc = "repos"
         /\ \A pc, secret : Decide(q, pc, secret) => requetes'[q].pc = pc
         /\ \A pc : Avance(q, pc) => requetes'[q].pc = pc
<1>1. requetes \in [Requetes -> Requete] /\ requetes[q] \in Requete
  BY DEF RequetesSaines
<1>2. Rend(q) => requetes'[q].pc = "repos"
  BY <1>1 DEF Rend, PasDeRequete
<1>3. ASSUME NEW pc, NEW secret, Decide(q, pc, secret)
      PROVE  requetes'[q].pc = pc
  BY <1>1, <1>3 DEF Decide, PasDeRequete
<1>4. ASSUME NEW pc, Avance(q, pc)
      PROVE  requetes'[q].pc = pc
  BY <1>1, <1>4 DEF Avance, Requete
<1> QED
  BY <1>2, <1>3, <1>4

LEMMA VerrouConnexions ==
  ASSUME TInv, VerrouInv, Connexions
  PROVE  VerrouInv'
<1> USE DEF TInv
<1> PICK q \in Requetes :
    \/ \E c \in Comptes : ConnexionLit(q, c)
    \/ \E v \in Verdicts : ConnexionAnnuaire(q, v)
    \/ \E role \in RolesDonnes : ConnexionAdmise(q, role)
    \/ ConnexionRefusee(q) \/ MotDePasseFaux(q) \/ MotDePasseBon(q)
    \/ ConnexionEchoue(q) \/ VerrouRevoque(q) \/ ConnexionReussit(q)
    \/ \E j \in Jetons : Emettre(q, j)
  BY DEF Connexions
<1>1. \A p \in Requetes \ {q} : requetes'[p] = requetes[p]
  BY DEF ConnexionLit, ConnexionAnnuaire, ConnexionAdmise, ConnexionRefusee, MotDePasseFaux,
         MotDePasseBon, ConnexionEchoue, VerrouRevoque, ConnexionReussit, Emettre, adminVars,
         Lit, Avance, Rend, Decide, RequetesSaines
<1>2. ASSUME fautes' = fautes, \A c \in Comptes : LigneSansFaute(c), RequeteMeritee(q)'
      PROVE  VerrouInv'
  BY <1>1, <1>2, VerrouCadre DEF RequeteGardee
<1>3. comptes' = comptes => \A c \in Comptes : LigneSansFaute(c)
  BY DEF LigneSansFaute
<1>4. requetes'[q].pc \notin {"annuaire", "local", "echec"} => RequeteMeritee(q)'
  BY DEF RequeteMeritee
<1>5. ASSUME NEW c \in Comptes, ConnexionLit(q, c)
      PROVE  VerrouInv'
  <2>1. comptes' = comptes /\ fautes' = fautes
        /\ requetes'[q].lu = comptes[c] /\ requetes'[q].compte = c
        /\ requetes'[q].pc = "annuaire"
    BY <1>5 DEF ConnexionLit, Lit, PasDeRequete, RequetesSaines, adminVars
  <2>2. RequeteMeritee(q)'
    BY <2>1 DEF RequeteMeritee, VerrouInv, LigneMeritee
  <2> QED
    BY <1>2, <1>3, <2>1, <2>2
<1>6. ASSUME NEW v \in Verdicts, ConnexionAnnuaire(q, v)
      PROVE  VerrouInv'
  <2>1. comptes' = comptes /\ fautes' = fautes
    BY <1>6 DEF ConnexionAnnuaire, adminVars
  <2>2. CASE Rend(q)
    BY <1>2, <1>3, <1>4, <2>1, <2>2 DEF Rend, PasDeRequete, RequetesSaines
  <2>3. CASE Avance(q, "local")
    <3>1. requetes[q].pc = "annuaire" /\ requetes'[q].pc = "local"
          /\ requetes'[q].lu = requetes[q].lu /\ requetes'[q].compte = requetes[q].compte
      BY <1>6, <2>3 DEF ConnexionAnnuaire, Avance, RequetesSaines, Requete
    <3>2. RequeteMeritee(q)'
      BY <2>1, <3>1 DEF RequeteMeritee, VerrouInv
    <3> QED
      BY <1>2, <1>3, <2>1, <3>2
  <2> QED
    BY <1>6, <2>2, <2>3 DEF ConnexionAnnuaire
<1>7. ASSUME NEW role \in RolesDonnes, ConnexionAdmise(q, role)
      PROVE  VerrouInv'
  <2>1. requetes'[q].pc \notin {"annuaire", "local", "echec"} /\ fautes' = fautes
    BY <1>7, ApresPc DEF ConnexionAdmise
  <2>2. \A c \in Comptes : LigneSansFaute(c)
    BY <1>7 DEF ConnexionAdmise, LigneSansFaute, ComptesSains
  <2> QED
    BY <1>2, <1>4, <2>1, <2>2
<1>8. CASE ConnexionRefusee(q) \/ MotDePasseBon(q) \/ VerrouRevoque(q)
           \/ \E j \in Jetons : Emettre(q, j)
  <2>1. requetes'[q].pc \notin {"annuaire", "local", "echec"} /\ fautes' = fautes
        /\ comptes' = comptes
    BY <1>8, ApresPc DEF ConnexionRefusee, MotDePasseBon, VerrouRevoque, Emettre, adminVars
  <2> QED
    BY <1>2, <1>3, <1>4, <2>1
<1>9. CASE MotDePasseFaux(q)
  <2>1. requetes[q].compte \in Comptes /\ requetes[q].lu \in Compte
    BY <1>9 DEF MotDePasseFaux, RequetesSaines
  <2>2. /\ requetes[q].pc = "local" /\ requetes'[q].pc = "echec"
        /\ requetes'[q].lu = requetes[q].lu /\ requetes'[q].compte = requetes[q].compte
    BY <1>9 DEF MotDePasseFaux, Avance, RequetesSaines, Requete
  <2>3. /\ comptes' = comptes /\ fautes'[requetes[q].compte] = fautes[requetes[q].compte] + 1
        /\ \A c \in Comptes : fautes[c] \in Nat /\ fautes'[c] \in Nat /\ fautes[c] <= fautes'[c]
    BY <1>9, <2>1 DEF MotDePasseFaux, adminVars, ResteSain
  <2>4. requetes[q].lu.echecs \in Nat /\ requetes[q].lu.echecs <= fautes[requetes[q].compte]
    BY <2>1, <2>2 DEF VerrouInv, RequeteMeritee, Compte
  <2>5. RequeteMeritee(q)'
    BY <2>1, <2>2, <2>3, <2>4 DEF RequeteMeritee
  <2>6. ASSUME NEW c \in Comptes
        PROVE  LigneMeritee(c)'
    <3>1. comptes[c].echecs \in Nat /\ Seuil \in Nat
      BY SessionsAssumption DEF SessionsAssumption, ComptesSains, Compte
    <3>2. comptes'[c].echecs <= fautes'[c]
      BY <2>3, <3>1 DEF VerrouInv, LigneMeritee
    <3>3. fautes[c] >= Seuil => fautes'[c] >= Seuil
      BY <2>3, <3>1
    <3>4. comptes'[c].verrou => fautes'[c] >= Seuil
      BY <2>3, <3>3, Zenon DEF VerrouInv, LigneMeritee
    <3> QED
      BY <3>2, <3>4 DEF LigneMeritee
  <2>7. ASSUME NEW p \in Requetes \ {q}
        PROVE  RequeteMeritee(p)'
    <3>1. requetes[p].pc \in {"annuaire", "local", "echec"} =>
            requetes[p].lu.echecs \in Nat /\ requetes[p].compte \in Comptes
      BY DEF RequetesSaines, Compte
    <3> QED
      BY <1>1, <2>3, <3>1 DEF VerrouInv, RequeteMeritee
  <2> QED
    BY <2>5, <2>6, <2>7 DEF VerrouInv
<1>10. CASE ConnexionEchoue(q)
  <2> DEFINE t == Tentatives(requetes[q].lu)
  <2>1. requetes[q].compte \in Comptes /\ requetes[q].lu \in Compte /\ requetes[q].pc = "echec"
    BY <1>10 DEF ConnexionEchoue, RequetesSaines
  <2> PICK c \in Comptes : c = requetes[q].compte
    BY <2>1
  <2>2. t \in Nat /\ t <= fautes[c] /\ fautes[c] \in Nat /\ fautes' = fautes
    BY <1>10, <2>1 DEF ConnexionEchoue, Tentatives, VerrouInv, RequeteMeritee, ResteSain, Compte
  <2>3. /\ comptes'[c].echecs = (IF t >= Seuil THEN 0 ELSE t)
        /\ comptes'[c].verrou = (IF t >= Seuil THEN TRUE ELSE comptes[c].verrou)
        /\ \A d \in Comptes \ {c} : comptes'[d] = comptes[d]
    BY <1>10, <2>1 DEF ConnexionEchoue, ComptesSains, Compte
  <2>4. requetes'[q].pc \notin {"annuaire", "local", "echec"}
    BY <1>10, ApresPc DEF ConnexionEchoue
  <2>5. LigneMeritee(c)'
    <3>1. comptes'[c].echecs <= fautes'[c]
      BY <2>2, <2>3
    <3>2. t >= Seuil => fautes[c] >= Seuil
      BY <2>2, SessionsAssumption DEF SessionsAssumption
    <3>3. comptes'[c].verrou => fautes'[c] >= Seuil
      BY <2>2, <2>3, <3>2, Zenon DEF VerrouInv, LigneMeritee
    <3> QED
      BY <3>1, <3>3 DEF LigneMeritee
  <2>6. \A d \in Comptes \ {c} : LigneMeritee(d)'
    BY <2>2, <2>3, Zenon DEF VerrouInv, LigneMeritee
  <2>7. \A p \in Requetes \ {q} : RequeteMeritee(p)'
    BY <1>1, <2>2, Zenon DEF VerrouInv, RequeteMeritee
  <2> QED
    BY <1>4, <2>4, <2>5, <2>6, <2>7 DEF VerrouInv
<1>11. CASE ConnexionReussit(q)
  <2>1. requetes'[q].pc \notin {"annuaire", "local", "echec"} /\ fautes' = fautes
    BY <1>11 DEF ConnexionReussit, Avance, RequetesSaines, Requete
  <2>2. \A c \in Comptes : LigneSansFaute(c)
    <3> DEFINE c == requetes[q].compte
               x == [comptes[c] EXCEPT !.echecs = 0, !.verrou = FALSE]
    <3>1. c \in Comptes
      BY <1>11 DEF ConnexionReussit, RequetesSaines
    <3>2. comptes[c] \in Compte
      BY <3>1 DEF ComptesSains
    <3>3. x.echecs = 0 /\ x.verrou = FALSE
      BY <3>2 DEF Compte
    <3>4. comptes' = [comptes EXCEPT ![c] = x]
      BY <1>11 DEF ConnexionReussit
    <3> HIDE DEF c, x
    <3> QED
      BY <3>1, <3>3, <3>4, UneLigne
  <2> QED
    BY <1>2, <1>4, <2>1, <2>2
<1> QED
  BY <1>5, <1>6, <1>7, <1>8, <1>9, <1>10, <1>11

LEMMA VerrouStep == TInv /\ VerrouInv /\ [Next]_vars => VerrouInv'
<1> SUFFICES ASSUME TInv, VerrouInv, [Next]_vars PROVE VerrouInv'
  OBVIOUS
<1> USE DEF TInv
<1>1. ASSUME UNCHANGED <<comptes, fautes>>, \A q \in Requetes : RequeteMeritee(q)' \/ RequeteGardee(q)
      PROVE  VerrouInv'
  BY <1>1, VerrouCadre DEF LigneSansFaute
<1>2. UNCHANGED requetes => \A q \in Requetes : RequeteGardee(q)
  BY DEF RequeteGardee
<1>3. ASSUME NEW q \in Requetes, \A p \in Requetes \ {q} : requetes'[p] = requetes[p],
             requetes'[q].pc \notin {"annuaire", "local", "echec"}
      PROVE  \A p \in Requetes : RequeteMeritee(p)' \/ RequeteGardee(p)
  BY <1>3 DEF RequeteMeritee, RequeteGardee
<1>4. CASE Actes /\ UNCHANGED sessionsVars
  BY <1>2, <1>4, ActesSansFaute, VerrouCadre DEF sessionsVars
<1>5. CASE Connexions
  BY <1>5, VerrouConnexions
<1>6. ASSUME NEW q \in Requetes, NEW j \in Jetons, RafraichirVerifie(q, j)
      PROVE  VerrouInv'
  <2>1. UNCHANGED <<comptes, fautes>>
    BY <1>6 DEF RafraichirVerifie, adminVars
  <2>2. requetes'[q].pc \notin {"annuaire", "local", "echec"}
    BY <1>6 DEF RafraichirVerifie, PasDeRequete
  <2>3. \A p \in Requetes \ {q} : RequeteGardee(p)
    BY <1>6 DEF RafraichirVerifie, RequeteGardee, RequetesSaines, Requete
  <2> QED
    BY <1>1, <2>1, <2>2, <2>3 DEF RequeteMeritee
<1>7. ASSUME NEW q \in Requetes, RafraichirLit(q) \/ RafraichirTourne(q) \/ RafraichirClot(q)
      PROVE  VerrouInv'
  <2>1. UNCHANGED <<comptes, fautes>>
        /\ \A p \in Requetes \ {q} : requetes'[p] = requetes[p]
    BY <1>7 DEF RafraichirLit, RafraichirTourne, RafraichirClot, adminVars, Avance, Rend,
                RequetesSaines
  <2>2. requetes'[q].pc \notin {"annuaire", "local", "echec"}
    BY <1>7, ApresPc DEF RafraichirLit, RafraichirTourne, RafraichirClot, RequetesSaines, Requete
  <2> QED
    BY <1>1, <1>3, <2>1, <2>2
<1>8. ASSUME NEW q \in Requetes, NEW c \in Comptes, ChangerLit(q, c)
      PROVE  VerrouInv'
  <2>1. UNCHANGED <<comptes, fautes>> /\ requetes'[q].pc = "changer"
        /\ \A p \in Requetes \ {q} : requetes'[p] = requetes[p]
    BY <1>8 DEF ChangerLit, Lit, PasDeRequete, adminVars, RequetesSaines
  <2> QED
    BY <1>1, <1>3, <2>1
<1>9. ASSUME NEW q \in Requetes, ChangerEcrit(q)
      PROVE  VerrouInv'
  <2>1. \A p \in Requetes \ {q} : requetes'[p] = requetes[p]
    BY <1>9 DEF ChangerEcrit, Decide, RequetesSaines
  <2>2. requetes'[q].pc = "changee" /\ fautes' = fautes
    BY <1>9, ApresPc DEF ChangerEcrit
  <2>3. \A c \in Comptes : LigneSansFaute(c)
    <3> DEFINE c == requetes[q].compte
               x == [comptes[c] EXCEPT !.porte = TRUE, !.secret = comptes[c].secret + 1]
    <3>1. c \in Comptes
      BY <1>9 DEF ChangerEcrit, RequetesSaines
    <3>2. comptes[c] \in Compte
      BY <3>1 DEF ComptesSains
    <3>3. x.echecs = comptes[c].echecs /\ x.verrou = comptes[c].verrou
      BY <3>2 DEF Compte
    <3>4. comptes' = [comptes EXCEPT ![c] = x]
      BY <1>9 DEF ChangerEcrit
    <3> HIDE DEF c, x
    <3> QED
      BY <3>1, <3>3, <3>4, UneLigne
  <2> QED
    BY <1>3, <2>1, <2>2, <2>3, VerrouCadre
<1>10. ASSUME NEW q \in Requetes, ChangerRevoque(q)
       PROVE  VerrouInv'
  <2>1. UNCHANGED <<comptes, fautes>>
        /\ \A p \in Requetes \ {q} : requetes'[p] = requetes[p]
    BY <1>10 DEF ChangerRevoque, Avance, adminVars, RequetesSaines
  <2>2. requetes'[q].pc = "emettre"
    BY <1>10, ApresPc DEF ChangerRevoque
  <2> QED
    BY <1>1, <1>3, <2>1, <2>2
<1>11. ASSUME NEW u \in Acteurs, ActeRevoque(u)
       PROVE  VerrouInv'
  BY <1>1, <1>2, <1>11 DEF ActeRevoque
<1>12. ASSUME NEW c \in Comptes, VerrouExpire(c)
       PROVE  VerrouInv'
  <2>1. \A d \in Comptes : LigneSansFaute(d)
    BY <1>12 DEF VerrouExpire, LigneSansFaute, ComptesSains, Compte
  <2> QED
    BY <1>2, <1>12, <2>1, VerrouCadre DEF VerrouExpire
<1>13. ASSUME NEW c \in Comptes, NEW j \in Jetons \cup {Aucun}, Deconnecter(c, j)
       PROVE  VerrouInv'
  <2>1. UNCHANGED <<comptes, fautes, requetes>>
    BY <1>13 DEF Deconnecter, adminVars
  <2> QED
    BY <1>1, <1>2, <2>1
<1>14. CASE UNCHANGED vars
  BY <1>1, <1>2, <1>14 DEF vars, adminVars, sessionsVars
<1> QED
  BY <1>4, <1>5, <1>6, <1>7, <1>8, <1>9, <1>10, <1>11, <1>12, <1>13, <1>14
     DEF Next, Rotations, Changements

(* auth.service.ts 367-391: whatever the updates built on stale rows lose,  *)
(* an account that is locked has met at least that many wrong passwords.    *)
THEOREM VerrouJamaisSansFautes == Spec => []VerrouMerite
<1>1. Init => VerrouInv
  <2> SUFFICES ASSUME Init PROVE VerrouInv
    OBVIOUS
  <2>1. \A c \in Comptes : comptes[c].echecs = 0 /\ comptes[c].verrou = FALSE /\ fautes[c] = 0
    BY AdministrationAssumption, Zenon DEF AdministrationAssumption, Init, AdminInit
  <2>2. \A q \in Requetes : requetes[q].pc = "repos"
    BY DEF Init, PasDeRequete
  <2>3. 0 <= 0
    OBVIOUS
  <2>4. \A c \in Comptes : LigneMeritee(c)
    BY <2>1, <2>3, Zenon DEF LigneMeritee
  <2> QED
    BY <2>2, <2>4 DEF VerrouInv, RequeteMeritee
<1>2. VerrouInv => VerrouMerite
  BY Zenon DEF VerrouInv, LigneMeritee, VerrouMerite
<1>3. TInv /\ VerrouInv /\ [Next]_vars => TInv' /\ VerrouInv'
  BY TypeStep, VerrouStep
<1> QED
  BY <1>1, <1>2, <1>3, InitType, PTL DEF Spec

-----------------------------------------------------------------------------
(* The administrators of the instance                                       *)

(* "instanceAdmin" is false in every new row: the operator promotes the     *)
(* first one at the command line.                                           *)
AdminInstanceAuDepart ==
  \E c \in Comptes :
    CompteInitial[c].existe /\ CompteInitial[c].actif /\ CompteInitial[c].instance

Emporte(acte) ==
  \/ acte.nature = "revoquer"
  \/ acte.nature = "modifier" /\ acte.forme.actif = "non"

(* An act that is to take an administrator of the instance away has another *)
(* one behind it.                                                           *)
ActeSur(u) ==
  actes[u].pc \in {"local", "ecrire"} /\ Emporte(actes[u]) =>
    AdminsInstance \ {actes[u].cible} # {}

InstanceInv ==
  ~chevauche /\ ~retire => AdminsInstance # {} /\ \A u \in Acteurs : ActeSur(u)

(* A step that takes no administrator of the instance away.                 *)
LEMMA InstanceCadre ==
  ASSUME InstanceInv, AdminsInstance \subseteq AdminsInstance',
         ~chevauche' /\ ~retire' => ~chevauche /\ ~retire,
         NEW u \in Acteurs, \A v \in Acteurs \ {u} : actes'[v] = actes[v],
         actes'[u] = actes[u] \/ (InstanceInv /\ ~chevauche /\ ~retire => ActeSur(u)')
  PROVE  InstanceInv'
<1> SUFFICES ASSUME ~chevauche', ~retire'
             PROVE  AdminsInstance' # {} /\ \A v \in Acteurs : ActeSur(v)'
  BY Zenon DEF InstanceInv
<1>1. AdminsInstance # {} /\ \A v \in Acteurs : ActeSur(v)
  BY Zenon DEF InstanceInv
<1>2. ASSUME NEW v \in Acteurs, actes'[v] = actes[v] PROVE ActeSur(v)'
  <2>1. SUFFICES ASSUME actes[v].pc \in {"local", "ecrire"}, Emporte(actes[v])
                 PROVE  AdminsInstance' \ {actes[v].cible} # {}
    BY <1>2, Zenon DEF ActeSur
  <2>2. AdminsInstance \ {actes[v].cible} # {}
    BY <1>1, <2>1, Zenon DEF ActeSur
  <2> QED
    BY <2>2, Zenon
<1> QED
  BY <1>1, <1>2, Zenon

(* What keeps an administrator of the instance: a row that is there, active *)
(* and privileged stays so.                                                 *)
PrivilegeGarde(c) ==
  comptes[c].existe /\ comptes[c].actif /\ comptes[c].instance =>
    comptes'[c].existe /\ comptes'[c].actif /\ comptes'[c].instance

LEMMA InstanceCroit ==
  (\A c \in Comptes : PrivilegeGarde(c)) => AdminsInstance \subseteq AdminsInstance'
BY Zenon DEF PrivilegeGarde, AdminsInstance

(* An act that takes nothing away leaves the privilege of its target.       *)
LEMMA EcriteLePrivilege ==
  ASSUME NEW acte \in Acte, NEW ligne \in Compte,
         acte.nature \in ToutesNatures \ {"creer"},
         acte.nature = "modifier" => acte.forme \in Formes,
         ~Emporte(acte), ligne.existe, ligne.actif, ligne.instance
  PROVE  LET r == Ecrite(acte, ligne) IN r.existe /\ r.actif /\ r.instance
<1>1. CASE acte.nature = "modifier"
  <2>1. acte.forme.actif \in {"inchange", "oui"}
    BY <1>1, Zenon DEF Formes, Emporte
  <2> DEFINE actif == IF acte.forme.actif = "inchange" THEN ligne.actif
                      ELSE acte.forme.actif = "oui"
  <2>2. Ecrite(acte, ligne).actif = actif
    BY <1>1, Zenon DEF Ecrite, Compte
  <2>3. actif
    BY <2>1
  <2>4. Ecrite(acte, ligne).existe = ligne.existe
        /\ Ecrite(acte, ligne).instance = ligne.instance
    BY <1>1 DEF Ecrite, Compte
  <2> QED
    BY <2>2, <2>3, <2>4, Zenon
<1>2. CASE acte.nature \in {"reinitialiser", "rattacher"}
  BY <1>2 DEF Ecrite, Compte
<1>3. CASE acte.nature = "promouvoir"
  BY <1>3 DEF Ecrite, Compte
<1> QED
  BY <1>1, <1>2, <1>3, Zenon DEF ToutesNatures, Emporte

(* When an act that removes passes the count of the instance, or is not     *)
(* asked for it, another administrator remains behind its target.           *)
LEMMA LectureSure ==
  ASSUME TInv, InstanceInv, NEW u \in Acteurs, NEW c \in Comptes, NEW n, NEW f,
         NEW accepte \in BOOLEAN, ActeLit(u, n, c, f, accepte), ~chevauche, ~retire
  PROVE  ActeSur(u)'
<1> DEFINE l == CompteLocaux(n, comptes[c], f)
<1>1. /\ actes'[u].cible = c /\ actes'[u].nature = n /\ actes'[u].forme = f
      /\ actes'[u].pc = IF CompteDInstance(n, comptes[c], f) THEN "instance" ELSE Suite(l)
      /\ AdminsInstance' = AdminsInstance /\ comptes[c].existe
  BY DEF ActeLit, TInv, ActesSains, AdminsInstance
<1> SUFFICES ASSUME actes'[u].pc \in {"local", "ecrire"}, Emporte(actes'[u])
             PROVE  AdminsInstance \ {c} # {}
  BY <1>1, Zenon DEF ActeSur
<1>2. ~CompteDInstance(n, comptes[c], f)
  BY <1>1
<1>3. n = "revoquer" \/ (n = "modifier" /\ f.actif = "non")
  BY <1>1, Zenon DEF Emporte
<1>4. ~(comptes[c].instance /\ comptes[c].actif)
  BY <1>2, <1>3, Zenon DEF CompteDInstance, SeraDesactive
<1>5. c \notin AdminsInstance /\ AdminsInstance # {}
  BY <1>4, Zenon DEF AdminsInstance, InstanceInv
<1> QED
  BY <1>5

LEMMA CompteSur ==
  ASSUME TInv, NEW u \in Acteurs, ActeCompteInstance(u)
  PROVE  ActeSur(u)'
<1>1. AdminsInstance' = AdminsInstance /\ actes[u] \in Acte
  BY DEF ActeCompteInstance, AdminsInstance, TInv, ActesSains
<1>2. CASE actes'[u] = PasDActe
  BY <1>2 DEF ActeSur, PasDActe
<1>3. CASE /\ AdminsInstance \ {actes[u].cible} # {}
           /\ actes'[u] = [actes[u] EXCEPT !.pc = Suite(actes[u].locaux)]
  <2>1. actes'[u].cible = actes[u].cible
    BY <1>1, <1>3 DEF Acte
  <2> QED
    BY <1>1, <1>3, <2>1, Zenon DEF ActeSur
<1> QED
  BY <1>2, <1>3 DEF ActeCompteInstance, TInv, ActesSains

LEMMA EcritSur ==
  ASSUME TInv, InstanceInv, NEW u \in Acteurs, ActeEcrit(u)
  PROVE  InstanceInv'
<1> SUFFICES ASSUME ~chevauche', ~retire'
             PROVE  AdminsInstance' # {} /\ \A v \in Acteurs : ActeSur(v)'
  BY Zenon DEF InstanceInv
<1> DEFINE a == actes[u]
<1>0. /\ a \in Acte /\ a.cible \in Comptes /\ a.pc = "ecrire"
      /\ a.nature \in ToutesNatures \ {"creer"}
      /\ (a.nature = "modifier" => a.forme \in Formes)
      /\ actes \in [Acteurs -> Acte] /\ comptes \in [Comptes -> Compte]
  BY DEF ActeEcrit, TInv, ActesSains, ComptesSains
<1>1. AdminsInstance # {} /\ ActeSur(u)
  BY Zenon DEF ActeEcrit, InstanceInv
<1> PICK c \in Comptes : c = a.cible
  BY <1>0
<1>2. comptes'[c] = Ecrite(a, comptes[c]) /\ comptes[c] \in Compte
      /\ \A d \in Comptes \ {c} : comptes'[d] = comptes[d]
  BY <1>0 DEF ActeEcrit
<1>3. AdminsInstance \ {c} \subseteq AdminsInstance'
  BY <1>2 DEF AdminsInstance
<1>4. AdminsInstance' # {}
  <2>1. CASE Emporte(a)
    <3>1. AdminsInstance \ {c} # {}
      BY <1>0, <1>1, <2>1, Zenon DEF ActeSur
    <3> QED
      BY <1>3, <3>1
  <2>2. CASE ~Emporte(a)
    <3>1. ASSUME comptes[c].existe, comptes[c].actif, comptes[c].instance
          PROVE  comptes'[c].existe /\ comptes'[c].actif /\ comptes'[c].instance
      BY <1>0, <1>2, <2>2, <3>1, EcriteLePrivilege, Zenon
    <3>2. AdminsInstance \subseteq AdminsInstance'
      BY <1>2, <3>1, InstanceCroit DEF PrivilegeGarde
    <3> QED
      BY <1>1, <3>2
  <2> QED
    BY <2>1, <2>2
<1>5. ASSUME NEW v \in Acteurs PROVE actes'[v].pc \notin {"local", "ecrire"}
  <2>1. actes'[u].pc \notin {"local", "ecrire"}
    BY <1>0 DEF ActeEcrit, PasDActe, Acte
  <2>2. v # u => ~EnCours(v) /\ actes'[v] = actes[v]
    BY <1>0 DEF ActeEcrit
  <2> QED
    BY <2>1, <2>2 DEF EnCours
<1> QED
  BY <1>4, <1>5, Zenon DEF ActeSur

LEMMA InstanceStep ==
  ASSUME TInv, InstanceInv, [Next]_vars
  PROVE  InstanceInv'
<1> USE DEF TInv
<1>1. Cli \in Acteurs
  BY DEF Acteurs
<1>2. ASSUME \A c \in Comptes : PrivilegeGarde(c), UNCHANGED <<actes, chevauche, retire>>
      PROVE  InstanceInv'
  BY <1>1, <1>2, InstanceCadre, InstanceCroit
<1>3. CASE UNCHANGED adminVars
  BY <1>2, <1>3 DEF adminVars, PrivilegeGarde
<1>4. ASSUME NEW u \in Acteurs, NEW c \in Comptes, NEW role \in RolesDonnes, Creer(u, c, role)
      PROVE  InstanceInv'
  <2>1. \A d \in Comptes : PrivilegeGarde(d)
    BY <1>4 DEF Creer, PrivilegeGarde, ComptesSains
  <2> QED
    BY <1>2, <1>4, <2>1 DEF Creer
<1>5. ASSUME NEW u \in Acteurs, NEW n, NEW c \in Comptes, NEW f,
             NEW accepte \in BOOLEAN, ActeLit(u, n, c, f, accepte)
      PROVE  InstanceInv'
  <2>1. \A v \in Acteurs \ {u} : actes'[v] = actes[v]
    BY <1>5 DEF ActeLit, ActesSains
  <2>2. AdminsInstance \subseteq AdminsInstance' /\ UNCHANGED <<chevauche, retire>>
    BY <1>5 DEF ActeLit, AdminsInstance
  <2>3. ~chevauche /\ ~retire => ActeSur(u)'
    BY <1>5, LectureSure
  <2> QED
    BY <2>1, <2>2, <2>3, InstanceCadre
<1>6. ASSUME NEW u \in Acteurs, ActeCompteInstance(u)
      PROVE  InstanceInv'
  <2>1. \A v \in Acteurs \ {u} : actes'[v] = actes[v]
    BY <1>6 DEF ActeCompteInstance, ActesSains
  <2>2. AdminsInstance \subseteq AdminsInstance' /\ UNCHANGED <<chevauche, retire>>
    BY <1>6 DEF ActeCompteInstance, AdminsInstance
  <2> QED
    BY <1>6, <2>1, <2>2, CompteSur, InstanceCadre
<1>7. ASSUME NEW u \in Acteurs, ActeCompteLocal(u)
      PROVE  InstanceInv'
  <2>1. \A v \in Acteurs \ {u} : actes'[v] = actes[v]
    BY <1>7 DEF ActeCompteLocal, ActesSains
  <2>2. AdminsInstance' = AdminsInstance /\ UNCHANGED <<chevauche, retire>>
    BY <1>7 DEF ActeCompteLocal, AdminsInstance
  <2>3. ~chevauche /\ ~retire => ActeSur(u)'
    <3>1. SUFFICES ASSUME ~chevauche, ~retire PROVE ActeSur(u)'
      OBVIOUS
    <3>2. ActeSur(u) /\ actes[u].pc = "local" /\ actes[u] \in Acte
      BY <1>7, <3>1 DEF InstanceInv, ActeCompteLocal, ActesSains
    <3>3. \/ actes'[u] = PasDActe
          \/ /\ actes'[u].cible = actes[u].cible /\ actes'[u].nature = actes[u].nature
             /\ actes'[u].forme = actes[u].forme
      BY <1>7, <3>2 DEF ActeCompteLocal, ActesSains, Acte
    <3>4. CASE actes'[u] = PasDActe
      BY <3>4 DEF ActeSur, PasDActe
    <3>5. CASE /\ actes'[u].cible = actes[u].cible /\ actes'[u].nature = actes[u].nature
               /\ actes'[u].forme = actes[u].forme
      BY <2>2, <3>2, <3>5, Zenon DEF ActeSur, Emporte
    <3> QED
      BY <3>3, <3>4, <3>5
  <2> QED
    BY <2>1, <2>2, <2>3, InstanceCadre
<1>8. ASSUME NEW u \in Acteurs, ActeEcrit(u)
      PROVE  InstanceInv'
  BY <1>8, EcritSur
<1>9. ASSUME SynchroCommence \/ \E c \in Comptes : SynchroCherche(c)
      PROVE  InstanceInv'
  BY <1>2, <1>9 DEF SynchroCommence, SynchroCherche, PrivilegeGarde
<1>10. ASSUME NEW c \in Comptes, SynchroDesactive(c)
       PROVE  InstanceInv'
  <2>1. CASE comptes[c].instance
    BY <1>10, <2>1 DEF SynchroDesactive, InstanceInv
  <2>2. CASE ~comptes[c].instance
    <3>1. \A d \in Comptes : PrivilegeGarde(d)
      BY <1>10, <2>2 DEF SynchroDesactive, PrivilegeGarde, ComptesSains
    <3>2. UNCHANGED <<actes, chevauche>> /\ (retire => retire')
      BY <1>10 DEF SynchroDesactive
    <3> QED
      BY <1>1, <3>1, <3>2, InstanceCadre, InstanceCroit
  <2> QED
    BY <2>1, <2>2
<1>11. ASSUME NEW q \in Requetes, NEW role \in RolesDonnes, ConnexionAdmise(q, role)
       PROVE  InstanceInv'
  <2>1. \A d \in Comptes : PrivilegeGarde(d)
    BY <1>11 DEF ConnexionAdmise, PrivilegeGarde, ComptesSains
  <2> QED
    BY <1>2, <1>11, <2>1 DEF ConnexionAdmise
<1>12. ASSUME NEW q \in Requetes,
              ConnexionEchoue(q) \/ ConnexionReussit(q) \/ ChangerEcrit(q)
       PROVE  InstanceInv'
  <2>1. \A d \in Comptes : PrivilegeGarde(d)
    <3>1. CASE ConnexionEchoue(q)
      <4> PICK e, w : comptes' = [comptes EXCEPT ![requetes[q].compte].echecs = e,
                                                 ![requetes[q].compte].verrou = w]
        BY <3>1 DEF ConnexionEchoue
      <4> QED
        BY DEF PrivilegeGarde, ComptesSains, Compte
    <3>2. CASE ConnexionReussit(q)
      BY <3>2 DEF ConnexionReussit, PrivilegeGarde, ComptesSains, Compte
    <3>3. CASE ChangerEcrit(q)
      <4> PICK s : comptes' = [comptes EXCEPT ![requetes[q].compte].porte = TRUE,
                                              ![requetes[q].compte].secret = s]
        BY <3>3 DEF ChangerEcrit
      <4> QED
        BY DEF PrivilegeGarde, ComptesSains, Compte
    <3> QED
      BY <1>12, <3>1, <3>2, <3>3
  <2> QED
    BY <1>2, <1>12, <2>1 DEF ConnexionEchoue, ConnexionReussit, ChangerEcrit
<1>13. ASSUME NEW c \in Comptes, VerrouExpire(c)
       PROVE  InstanceInv'
  <2>1. \A d \in Comptes : PrivilegeGarde(d)
    BY <1>13 DEF VerrouExpire, PrivilegeGarde, ComptesSains, Compte
  <2> QED
    BY <1>2, <1>13, <2>1 DEF VerrouExpire
<1>14. ASSUME NEW u \in Acteurs, ActeRevoque(u)
       PROVE  InstanceInv'
  <2>1. ActeSur(u)' /\ \A v \in Acteurs \ {u} : actes'[v] = actes[v]
    BY <1>14 DEF ActeRevoque, ActeSur, PasDActe, ActesSains
  <2>2. AdminsInstance \subseteq AdminsInstance' /\ UNCHANGED <<chevauche, retire>>
    BY <1>14 DEF ActeRevoque, AdminsInstance
  <2> QED
    BY <2>1, <2>2, InstanceCadre
<1>15. CASE Actes
  BY <1>4, <1>5, <1>6, <1>7, <1>8, <1>9, <1>10, <1>15 DEF Actes
<1>16. CASE Connexions
  BY <1>3, <1>11, <1>12, <1>16
     DEF Connexions, ConnexionLit, ConnexionAnnuaire, ConnexionRefusee, MotDePasseFaux,
         MotDePasseBon, VerrouRevoque, Emettre
<1>17. CASE Rotations
  BY <1>3, <1>17 DEF Rotations, RafraichirVerifie, RafraichirLit, RafraichirTourne,
                     RafraichirClot
<1>18. CASE Changements
  BY <1>3, <1>12, <1>14, <1>18 DEF Changements, ChangerLit, ChangerRevoque
<1>19. CASE UNCHANGED vars
  BY <1>3, <1>19 DEF vars
<1>20. ASSUME NEW c \in Comptes, NEW j \in Jetons \cup {Aucun}, Deconnecter(c, j)
       PROVE  UNCHANGED adminVars
  BY <1>20 DEF Deconnecter
<1> QED
  BY <1>3, <1>13, <1>15, <1>16, <1>17, <1>18, <1>19, <1>20 DEF Next

(* users.service.ts 306-320 and admin-instance.ts: once the operator has    *)
(* promoted an administrator of the instance, one remains, as long as no    *)
(* act was written while another was under way and the directory took none  *)
(* away.                                                                    *)
THEOREM ResteUnAdminInstance == AdminInstanceAuDepart /\ Spec => []AdminInstanceReste
<1>1. AdminInstanceAuDepart /\ Init => InstanceInv
  <2> SUFFICES ASSUME AdminInstanceAuDepart, Init PROVE InstanceInv
    OBVIOUS
  <2>1. AdminsInstance # {}
    BY Zenon DEF AdminInstanceAuDepart, Init, AdminInit, AdminsInstance
  <2>2. \A u \in Acteurs : actes[u].pc = "repos"
    BY DEF Init, AdminInit, PasDActe
  <2> QED
    BY <2>1, <2>2 DEF InstanceInv, ActeSur
<1>2. TInv /\ [Next]_vars => TInv'
  BY TypeStep
<1>3. TInv /\ InstanceInv /\ [Next]_vars => InstanceInv'
  BY InstanceStep
<1>4. InstanceInv => AdminInstanceReste
  BY DEF InstanceInv, AdminInstanceReste
<1> QED
  BY <1>1, <1>2, <1>3, <1>4, InitType, PTL DEF Spec

-----------------------------------------------------------------------------
(* One login, one live token                                                *)

Vit(j) == jetons[j].etat = "vivant"

(* The request holds a place in a chain of rotations: it has verified a     *)
(* token of the chain, or is to issue the one that follows it.              *)
Reclame(q) ==
  requetes[q].pc \in {"lire", "tourner", "emettre"} /\ requetes[q].famille # Aucun

(* What the locals of a request say of its place.                           *)
PlaceDite(q) ==
  /\ requetes[q].pc \in {"lire", "tourner"} => requetes[q].famille # Aucun
  /\ requetes[q].pc \in {"succes", "changee"} => requetes[q].famille = Aucun
  /\ requetes[q].pc \in {"succes", "changee", "emettre"} => requetes[q].jeton = Aucun

Commencee(f) == f \in Jetons /\ jetons[f].etat # "libre"

FamillesEmises ==
  /\ \A j \in Jetons : Vit(j) => Commencee(jetons[j].famille)
  /\ \A q \in Requetes : PlaceDite(q) /\ (Reclame(q) => Commencee(requetes[q].famille))

(* Two holders of a same chain, tokens or requests, are told to be twins,   *)
(* save a token and the request that has verified it.                       *)
JumellesDites ==
  /\ \A i, j \in Jetons :
       i # j /\ Vit(i) /\ Vit(j) /\ jetons[i].famille = jetons[j].famille
         => jetons[i].jumelle /\ jetons[j].jumelle
  /\ \A i \in Jetons, q \in Requetes :
       Vit(i) /\ Reclame(q) /\ requetes[q].famille = jetons[i].famille
         => requetes[q].jeton = i \/ (jetons[i].jumelle /\ requetes[q].jumelle)
  /\ \A p, q \in Requetes :
       p # q /\ Reclame(p) /\ Reclame(q) /\ requetes[p].famille = requetes[q].famille
         => requetes[p].jumelle /\ requetes[q].jumelle

FamilleInv == FamillesEmises /\ JumellesDites

(* The request keeps its place, or leaves it.                               *)
PlaceGardee(q) ==
  /\ Reclame(q) /\ Reclame(q)'
  /\ requetes'[q].famille = requetes[q].famille /\ requetes'[q].jeton = requetes[q].jeton
  /\ requetes[q].jumelle => requetes'[q].jumelle

JetonGarde(j) ==
  /\ Vit(j)' => jetons'[j] = jetons[j]
  /\ jetons[j].etat # "libre" => jetons'[j].etat # "libre"

(* A step that issues nothing, and in which no request takes a place.       *)
LEMMA FamilleCadre ==
  ASSUME FamilleInv, \A j \in Jetons : JetonGarde(j),
         \A q \in Requetes : PlaceDite(q)' /\ (~Reclame(q)' \/ PlaceGardee(q))
  PROVE  FamilleInv'
<1>1. ASSUME NEW j \in Jetons, Vit(j)'
      PROVE  Vit(j) /\ jetons'[j] = jetons[j]
  BY <1>1, Zenon DEF JetonGarde, Vit
<1>2. ASSUME NEW f, Commencee(f) PROVE f \in Jetons /\ jetons'[f].etat # "libre"
  BY <1>2, Zenon DEF Commencee, JetonGarde
<1>3. FamillesEmises'
  <2>1. ASSUME NEW j \in Jetons, Vit(j)' PROVE Commencee(jetons[j].famille)
    BY <1>1, <2>1, Zenon DEF FamilleInv, FamillesEmises
  <2>3. ASSUME NEW q \in Requetes, Reclame(q)' PROVE Commencee(requetes[q].famille)
    BY <2>3, Zenon DEF FamilleInv, FamillesEmises, PlaceGardee
  <2>4. ASSUME NEW q \in Requetes, Reclame(q)'
        PROVE  requetes'[q].famille \in Jetons /\ jetons'[requetes'[q].famille].etat # "libre"
    BY <1>2, <2>3, <2>4, Zenon DEF PlaceGardee
  <2>5. ASSUME NEW j \in Jetons, Vit(j)'
        PROVE  jetons'[j].famille \in Jetons /\ jetons'[jetons'[j].famille].etat # "libre"
    BY <1>1, <1>2, <2>1, <2>5, Zenon
  <2> QED
    BY <2>4, <2>5, Zenon DEF FamillesEmises, Commencee
<1>4. ASSUME NEW q \in Requetes, Reclame(q)'
      PROVE  Reclame(q) /\ requetes'[q].famille = requetes[q].famille
             /\ requetes'[q].jeton = requetes[q].jeton
             /\ (requetes[q].jumelle => requetes'[q].jumelle)
  BY <1>4, Zenon DEF PlaceGardee
<1>5. JumellesDites'
  <2>1. JumellesDites
    BY DEF FamilleInv
  <2>2. \A i, j \in Jetons :
          i # j /\ Vit(i)' /\ Vit(j)' /\ jetons'[i].famille = jetons'[j].famille
            => jetons'[i].jumelle /\ jetons'[j].jumelle
    BY <1>1, <2>1, Zenon DEF JumellesDites
  <2>3. ASSUME NEW i \in Jetons, NEW q \in Requetes, Vit(i)', Reclame(q)',
               requetes'[q].famille = jetons'[i].famille
        PROVE  requetes'[q].jeton = i \/ (jetons'[i].jumelle /\ requetes'[q].jumelle)
    BY <1>1, <1>4, <2>1, <2>3, Zenon DEF JumellesDites
  <2>4. \A p, q \in Requetes :
          p # q /\ Reclame(p)' /\ Reclame(q)' /\ requetes'[p].famille = requetes'[q].famille
            => requetes'[p].jumelle /\ requetes'[q].jumelle
    BY <1>4, <2>1, Zenon DEF JumellesDites
  <2> QED
    BY <2>2, <2>3, <2>4, Zenon DEF JumellesDites
<1> QED
  BY <1>3, <1>5 DEF FamilleInv

LEMMA RevoqueGarde ==
  ASSUME JetonsSains, NEW S, Revoquer(S)
  PROVE  /\ \A j \in Jetons : JetonGarde(j)
         /\ \A j \in Jetons \cap S : ~Vit(j)'
BY DEF JetonsSains, Revoquer, JetonGarde, Vit, PasDeJeton

LEMMA JetonsInchanges ==
  UNCHANGED jetons => \A j \in Jetons : JetonGarde(j)
BY Zenon DEF JetonGarde, Vit

(* What a step does of the request it is about.                             *)
Quitte(q) == ~Reclame(q)' /\ PlaceDite(q)'
Reste(q) == PlaceGardee(q) /\ PlaceDite(q)'

LEMMA UneRequete ==
  ASSUME FamilleInv, NEW q \in Requetes, \A j \in Jetons : JetonGarde(j),
         \A p \in Requetes \ {q} : requetes'[p] = requetes[p],
         Quitte(q) \/ Reste(q)
  PROVE  FamilleInv'
<1>1. ASSUME NEW p \in Requetes, requetes'[p] = requetes[p]
      PROVE  PlaceDite(p)' /\ (~Reclame(p)' \/ PlaceGardee(p))
  BY <1>1, Zenon DEF FamilleInv, FamillesEmises, PlaceDite, Reclame, PlaceGardee
<1> QED
  BY <1>1, FamilleCadre, Zenon DEF Quitte, Reste

LEMMA RendQuitte ==
  ASSUME RequetesSaines, NEW q \in Requetes, Rend(q)
  PROVE  Quitte(q) /\ \A p \in Requetes \ {q} : requetes'[p] = requetes[p]
BY DEF RequetesSaines, Rend, PasDeRequete, Quitte, Reclame, PlaceDite

LEMMA DecideQuitte ==
  ASSUME RequetesSaines, NEW q \in Requetes, NEW pc, NEW s, Decide(q, pc, s),
         pc \in {"succes", "emettre", "verrou", "changee"}
  PROVE  Quitte(q) /\ \A p \in Requetes \ {q} : requetes'[p] = requetes[p]
BY DEF RequetesSaines, Decide, PasDeRequete, Quitte, Reclame, PlaceDite

LEMMA LitQuitte ==
  ASSUME RequetesSaines, NEW q \in Requetes, NEW pc, NEW c, Lit(q, pc, c),
         pc \in {"annuaire", "changer"}
  PROVE  Quitte(q) /\ \A p \in Requetes \ {q} : requetes'[p] = requetes[p]
BY DEF RequetesSaines, Lit, PasDeRequete, Quitte, Reclame, PlaceDite

LEMMA AvanceQuitte ==
  ASSUME RequetesSaines, FamilleInv, NEW q \in Requetes, NEW pc, Avance(q, pc),
         \/ pc \in {"local", "echec", "clore"}
         \/ pc = "emettre" /\ requetes[q].pc \in {"succes", "changee"}
  PROVE  Quitte(q) /\ \A p \in Requetes \ {q} : requetes'[p] = requetes[p]
BY DEF RequetesSaines, Avance, Quitte, Reclame, PlaceDite, Requete, FamilleInv, FamillesEmises

LEMMA AvanceReste ==
  ASSUME RequetesSaines, FamilleInv, NEW q \in Requetes, Avance(q, "tourner"),
         requetes[q].pc = "lire"
  PROVE  Reste(q) /\ \A p \in Requetes \ {q} : requetes'[p] = requetes[p]
BY DEF RequetesSaines, Avance, Reste, PlaceGardee, Reclame, PlaceDite, Requete,
       FamilleInv, FamillesEmises

(* The request that revokes the token it had verified keeps its place.      *)
LEMMA TourneFamille ==
  ASSUME TInv, FamilleInv, NEW q \in Requetes, RafraichirTourne(q)
  PROVE  FamilleInv'
<1>1. /\ \A j \in Jetons : JetonGarde(j)
      /\ \A j \in Jetons : j = requetes[q].jeton => ~Vit(j)'
  BY RevoqueGarde DEF RafraichirTourne, TInv
<1>2. /\ requetes'[q].pc = "emettre" /\ requetes'[q].jeton = Aucun
      /\ requetes'[q].famille = requetes[q].famille
      /\ requetes'[q].jumelle = requetes[q].jumelle
      /\ requetes[q].pc = "tourner" /\ requetes[q].famille # Aucun
      /\ \A p \in Requetes \ {q} : requetes'[p] = requetes[p]
  BY DEF RafraichirTourne, TInv, RequetesSaines, Requete, FamilleInv, FamillesEmises, PlaceDite
<1>3. PlaceDite(q)' /\ Reclame(q) /\ Reclame(q)'
  BY <1>2 DEF PlaceDite, Reclame
<1>4. \A p \in Requetes \ {q} : PlaceDite(p)' /\ (Reclame(p)' => Reclame(p))
  BY <1>2, Zenon DEF FamilleInv, FamillesEmises, PlaceDite, Reclame
<1>5. ASSUME NEW j \in Jetons, Vit(j)'
      PROVE  Vit(j) /\ jetons'[j] = jetons[j] /\ j # requetes[q].jeton
  BY <1>1, <1>5, Zenon DEF JetonGarde, Vit
<1>6. ASSUME NEW f, Commencee(f) PROVE f \in Jetons /\ jetons'[f].etat # "libre"
  BY <1>1, <1>6, Zenon DEF Commencee, JetonGarde
<1>7. \A p \in Requetes :
        /\ Reclame(p)' => Reclame(p)
        /\ requetes'[p].famille = requetes[p].famille
        /\ requetes'[p].jumelle = requetes[p].jumelle
        /\ p # q => requetes'[p].jeton = requetes[p].jeton
  BY <1>2, <1>3, <1>4, Zenon
<1>8. FamillesEmises'
  <2>1. \A j \in Jetons : Vit(j)' => Commencee(jetons[j].famille)
    BY <1>5, Zenon DEF FamilleInv, FamillesEmises
  <2>2. \A p \in Requetes : Reclame(p)' => Commencee(requetes[p].famille)
    BY <1>7, Zenon DEF FamilleInv, FamillesEmises
  <2>3. \A j \in Jetons : Vit(j)' =>
          jetons'[j].famille \in Jetons /\ jetons'[jetons'[j].famille].etat # "libre"
    BY <1>5, <1>6, <2>1, Zenon
  <2>4. \A p \in Requetes : Reclame(p)' =>
          requetes'[p].famille \in Jetons /\ jetons'[requetes'[p].famille].etat # "libre"
    BY <1>6, <1>7, <2>2, Zenon
  <2> QED
    BY <1>3, <1>4, <2>3, <2>4, Zenon DEF FamillesEmises, Commencee
<1>9. JumellesDites'
  <2>1. JumellesDites
    BY DEF FamilleInv
  <2>2. ASSUME NEW i \in Jetons, NEW p \in Requetes, Vit(i)', Reclame(p)',
               requetes'[p].famille = jetons'[i].famille
        PROVE  requetes'[p].jeton = i \/ (jetons'[i].jumelle /\ requetes'[p].jumelle)
    <3>1. requetes[p].jeton = i \/ (jetons[i].jumelle /\ requetes[p].jumelle)
      BY <1>5, <1>7, <2>1, <2>2, Zenon DEF JumellesDites
    <3> QED
      BY <1>5, <1>7, <2>2, <3>1, Zenon
  <2>3. \A i, j \in Jetons :
          i # j /\ Vit(i)' /\ Vit(j)' /\ jetons'[i].famille = jetons'[j].famille
            => jetons'[i].jumelle /\ jetons'[j].jumelle
    BY <1>5, <2>1, Zenon DEF JumellesDites
  <2>4. \A p, r \in Requetes :
          p # r /\ Reclame(p)' /\ Reclame(r)' /\ requetes'[p].famille = requetes'[r].famille
            => requetes'[p].jumelle /\ requetes'[r].jumelle
    BY <1>7, <2>1, Zenon DEF JumellesDites
  <2> QED
    BY <2>2, <2>3, <2>4, Zenon DEF JumellesDites
<1> QED
  BY <1>8, <1>9 DEF FamilleInv

(* Two requests that verify one token are both told to be twins.            *)
LEMMA VerifieFamille ==
  ASSUME TInv, FamilleInv, NEW q \in Requetes, NEW j \in Jetons, RafraichirVerifie(q, j)
  PROVE  FamilleInv'
<1> DEFINE double == \E p \in Requetes : Tient(p, j)
<1>1. /\ Vit(j) /\ jetons' = jetons /\ ~Reclame(q)
      /\ \A i : Vit(i)' <=> Vit(i)
      /\ \A f : Commencee(f)' <=> Commencee(f)
      /\ Commencee(jetons[j].famille) /\ jetons[j].famille # Aucun
  BY SessionsAssumption
     DEF RafraichirVerifie, Vit, Reclame, Commencee, FamilleInv, FamillesEmises,
         SessionsAssumption, Aucun
<1>2. /\ requetes'[q].pc = "lire" /\ requetes'[q].jeton = j
      /\ requetes'[q].famille = jetons[j].famille
      /\ requetes'[q].jumelle <=> jetons[j].jumelle \/ double
  <2> DEFINE b == jetons[j].jumelle \/ double
  <2>1. requetes'[q] = [PasDeRequete EXCEPT !.pc = "lire", !.jeton = j,
          !.compte = jetons[j].compte, !.secret = jetons[j].secret,
          !.famille = jetons[j].famille, !.jumelle = b]
    BY Zenon DEF RafraichirVerifie
  <2> HIDE DEF b
  <2>2. /\ requetes'[q].pc = "lire" /\ requetes'[q].jeton = j
        /\ requetes'[q].famille = jetons[j].famille /\ requetes'[q].jumelle = b
    BY <2>1 DEF PasDeRequete
  <2> QED
    BY <2>2, Zenon DEF b
<1>3. ASSUME NEW p \in Requetes \ {q}
      PROVE  /\ requetes'[p].pc = requetes[p].pc /\ requetes'[p].jeton = requetes[p].jeton
             /\ requetes'[p].famille = requetes[p].famille
             /\ requetes'[p].jumelle <=> requetes[p].jumelle \/ Tient(p, j)
  <2>1. requetes'[p] = IF Tient(p, j) THEN [requetes[p] EXCEPT !.jumelle = TRUE]
                       ELSE requetes[p]
    BY Zenon DEF RafraichirVerifie
  <2>2. requetes[p] \in Requete
    BY DEF TInv, RequetesSaines
  <2> QED
    BY <2>1, <2>2 DEF Requete
<1>4. PlaceDite(q)' /\ Reclame(q)'
  BY <1>1, <1>2 DEF PlaceDite, Reclame
<1>5. \A p \in Requetes \ {q} : PlaceDite(p)' /\ (Reclame(p)' <=> Reclame(p))
  BY <1>3, Zenon DEF FamilleInv, FamillesEmises, PlaceDite, Reclame
<1>6. FamillesEmises'
  <2>1. \A i \in Jetons : Vit(i)' =>
          jetons'[i].famille \in Jetons /\ jetons'[jetons'[i].famille].etat # "libre"
    BY <1>1 DEF FamilleInv, FamillesEmises, Commencee
  <2>2. \A p \in Requetes : Reclame(p)' => Commencee(requetes'[p].famille)
    BY <1>1, <1>2, <1>3, <1>5, Zenon DEF FamilleInv, FamillesEmises
  <2>3. \A p \in Requetes : Reclame(p)' =>
          requetes'[p].famille \in Jetons /\ jetons'[requetes'[p].famille].etat # "libre"
    BY <1>1, <2>2, Zenon DEF Commencee
  <2> QED
    BY <1>4, <1>5, <2>1, <2>3, Zenon DEF FamillesEmises, Commencee
<1>7. ASSUME NEW p \in Requetes \ {q}, Reclame(p), requetes[p].famille = jetons[j].famille
      PROVE  Tient(p, j) \/ (jetons[j].jumelle /\ requetes[p].jumelle)
  <2>1. requetes[p].jeton = j \/ (jetons[j].jumelle /\ requetes[p].jumelle)
    BY <1>1, <1>7, Zenon DEF FamilleInv, JumellesDites
  <2>2. requetes[p].pc # "repos"
    BY <1>7 DEF Reclame
  <2> QED
    BY <2>1, <2>2, Zenon DEF Tient
<1>8. JumellesDites'
  <2>1. JumellesDites
    BY DEF FamilleInv
  <2>2. \A i, k \in Jetons :
          i # k /\ Vit(i)' /\ Vit(k)' /\ jetons'[i].famille = jetons'[k].famille
            => jetons'[i].jumelle /\ jetons'[k].jumelle
    BY <1>1, <2>1, Zenon DEF JumellesDites
  <2>3. ASSUME NEW i \in Jetons, NEW p \in Requetes, Vit(i)', Reclame(p)',
               requetes'[p].famille = jetons'[i].famille
        PROVE  requetes'[p].jeton = i \/ (jetons'[i].jumelle /\ requetes'[p].jumelle)
    <3>1. CASE p = q
      BY <1>1, <1>2, <2>1, <2>3, <3>1, Zenon DEF JumellesDites
    <3>2. CASE p # q
      BY <1>1, <1>3, <1>5, <2>1, <2>3, <3>2, Zenon DEF JumellesDites
    <3> QED
      BY <3>1, <3>2
  <2>4. ASSUME NEW p \in Requetes \ {q}, Reclame(p)',
               requetes'[p].famille = requetes'[q].famille
        PROVE  requetes'[p].jumelle /\ requetes'[q].jumelle
    BY <1>2, <1>3, <1>5, <1>7, <2>4, Zenon
  <2>5. ASSUME NEW p \in Requetes \ {q}, NEW r \in Requetes \ {q}, p # r, Reclame(p)',
               Reclame(r)', requetes'[p].famille = requetes'[r].famille
        PROVE  requetes'[p].jumelle /\ requetes'[r].jumelle
    BY <1>3, <1>5, <2>1, <2>5, Zenon DEF JumellesDites
  <2>6. \A p, r \in Requetes :
          p # r /\ Reclame(p)' /\ Reclame(r)' /\ requetes'[p].famille = requetes'[r].famille
            => requetes'[p].jumelle /\ requetes'[r].jumelle
    BY <2>4, <2>5
  <2> QED
    BY <2>2, <2>3, <2>6, Zenon DEF JumellesDites
<1> QED
  BY <1>6, <1>8 DEF FamilleInv

(* The token takes the place of the request that issues it.                 *)
LEMMA EmettreFamille ==
  ASSUME TInv, FamilleInv, NEW q \in Requetes, NEW j \in Jetons, Emettre(q, j)
  PROVE  FamilleInv'
<1> DEFINE r == requetes[q]
           f == IF r.famille = Aucun THEN j ELSE r.famille
           tardif == r.secret # comptes[r.compte].secret
<1>1. /\ r.pc = "emettre" /\ r.jeton = Aucun /\ r \in Requete
      /\ ~Vit(j) /\ ~Commencee(j) /\ Aucun \notin Jetons
      /\ (r.famille # Aucun => Reclame(q) /\ Commencee(r.famille))
  BY SessionsAssumption
     DEF Emettre, TInv, RequetesSaines, FamilleInv, FamillesEmises, PlaceDite, Reclame, Vit,
         Commencee, SessionsAssumption, Aucun
<1>2. jetons' = [jetons EXCEPT ![j] =
        [etat |-> "vivant", compte |-> r.compte, secret |-> r.secret,
         famille |-> f, tardif |-> tardif, jumelle |-> r.jumelle]]
  BY DEF Emettre
<1> HIDE DEF tardif
<1>3. /\ jetons'[j].etat = "vivant" /\ jetons'[j].famille = f
      /\ jetons'[j].jumelle = r.jumelle
      /\ \A i \in Jetons \ {j} : jetons'[i] = jetons[i]
  <2> HIDE DEF f
  <2> QED
    BY <1>2 DEF TInv, JetonsSains
<1>4. f \in Jetons
  BY <1>1, Zenon DEF Commencee
<1>5. Quitte(q) /\ \A p \in Requetes \ {q} : requetes'[p] = requetes[p]
  BY RendQuitte DEF Emettre, TInv
<1>6. ASSUME NEW p \in Requetes
      PROVE  /\ PlaceDite(p)'
             /\ Reclame(p)' => p # q /\ Reclame(p) /\ requetes'[p] = requetes[p]
  <2>1. CASE p = q
    BY <1>5, <2>1 DEF Quitte
  <2>2. CASE p # q
    <3>1. requetes'[p] = requetes[p] /\ PlaceDite(p)
      BY <1>5, <2>2, Zenon DEF FamilleInv, FamillesEmises
    <3> QED
      BY <2>2, <3>1, Zenon DEF PlaceDite, Reclame
  <2> QED
    BY <2>1, <2>2
<1>7. \A i \in Jetons \ {j} : Vit(i)' => Vit(i) /\ jetons'[i] = jetons[i]
  BY <1>3, Zenon DEF Vit
<1>8. ASSUME NEW g, Commencee(g) PROVE g \in Jetons \ {j} /\ jetons'[g].etat # "libre"
  BY <1>1, <1>3, <1>8, Zenon DEF Commencee
<1>9. jetons'[f].etat # "libre"
  <2>1. CASE f = j
    BY <1>3, <2>1
  <2>2. CASE f # j
    BY <1>1, <1>8, <2>2, Zenon
  <2> QED
    BY <2>1, <2>2
<1> HIDE DEF f
<1>10. ASSUME NEW i \in Jetons \ {j}, Vit(i)', jetons'[i].famille = f
       PROVE  jetons[i].jumelle /\ r.jumelle
  <2>1. Vit(i) /\ jetons[i].famille = f /\ Commencee(f)
    BY <1>7, <1>10, Zenon DEF FamilleInv, FamillesEmises
  <2>2. f # j
    BY <1>8, <2>1, Zenon
  <2>3. r.famille = f /\ Reclame(q)
    BY <1>1, <2>2, Zenon DEF f
  <2>4. r.jeton = i \/ (jetons[i].jumelle /\ r.jumelle)
    BY <2>1, <2>3, Zenon DEF FamilleInv, JumellesDites
  <2> QED
    BY <1>1, <2>4, Zenon
<1>11. ASSUME NEW p \in Requetes, Reclame(p)', requetes'[p].famille = f
       PROVE  requetes[p].jumelle /\ r.jumelle
  <2>1. p # q /\ Reclame(p) /\ requetes[p].famille = f /\ Commencee(f)
    BY <1>6, <1>11, Zenon DEF FamilleInv, FamillesEmises
  <2>2. f # j
    BY <1>8, <2>1, Zenon
  <2>3. r.famille = f /\ Reclame(q)
    BY <1>1, <2>2, Zenon DEF f
  <2> QED
    BY <2>1, <2>3, Zenon DEF FamilleInv, JumellesDites
<1>12. FamillesEmises'
  <2>1. ASSUME NEW i \in Jetons, Vit(i)'
        PROVE  jetons'[i].famille \in Jetons /\ jetons'[jetons'[i].famille].etat # "libre"
    <3>1. CASE i = j
      BY <1>3, <1>4, <1>9, <3>1, Zenon
    <3>2. CASE i # j
      <4>1. Commencee(jetons[i].famille) /\ jetons'[i] = jetons[i]
        BY <1>7, <2>1, <3>2, Zenon DEF FamilleInv, FamillesEmises
      <4>2. jetons[i].famille \in Jetons \ {j} /\ jetons[jetons[i].famille].etat # "libre"
        BY <1>8, <4>1, Zenon DEF Commencee
      <4>3. jetons'[jetons[i].famille].etat # "libre"
        BY <1>8, <4>1, Zenon
      <4> QED
        BY <4>1, <4>2, <4>3, Zenon
    <3> QED
      BY <3>1, <3>2
  <2>2. ASSUME NEW p \in Requetes, Reclame(p)'
        PROVE  requetes'[p].famille \in Jetons /\ jetons'[requetes'[p].famille].etat # "libre"
    <3>1. Commencee(requetes[p].famille) /\ requetes'[p] = requetes[p]
      BY <1>6, <2>2, Zenon DEF FamilleInv, FamillesEmises
    <3>2. requetes[p].famille \in Jetons \ {j} /\ jetons[requetes[p].famille].etat # "libre"
      BY <1>8, <3>1, Zenon DEF Commencee
    <3>3. jetons'[requetes[p].famille].etat # "libre"
      BY <1>8, <3>1, Zenon
    <3> QED
      BY <3>1, <3>2, <3>3, Zenon
  <2> QED
    BY <1>6, <2>1, <2>2, Zenon DEF FamillesEmises, Commencee
<1>13. JumellesDites'
  <2>1. JumellesDites
    BY DEF FamilleInv
  <2>2. ASSUME NEW i \in Jetons \ {j}, NEW k \in Jetons \ {j}, i # k, Vit(i)', Vit(k)',
               jetons'[i].famille = jetons'[k].famille
        PROVE  jetons'[i].jumelle /\ jetons'[k].jumelle
    BY <1>7, <2>1, <2>2, Zenon DEF JumellesDites
  <2>3. ASSUME NEW i \in Jetons \ {j}, Vit(i)', jetons'[i].famille = jetons'[j].famille
        PROVE  jetons'[i].jumelle /\ jetons'[j].jumelle
    BY <1>3, <1>10, <2>3, Zenon
  <2>4. \A i, k \in Jetons :
          i # k /\ Vit(i)' /\ Vit(k)' /\ jetons'[i].famille = jetons'[k].famille
            => jetons'[i].jumelle /\ jetons'[k].jumelle
    BY <2>2, <2>3
  <2>5. ASSUME NEW i \in Jetons, NEW p \in Requetes, Vit(i)', Reclame(p)',
               requetes'[p].famille = jetons'[i].famille
        PROVE  requetes'[p].jeton = i \/ (jetons'[i].jumelle /\ requetes'[p].jumelle)
    <3>1. CASE i = j
      BY <1>3, <1>6, <1>11, <2>5, <3>1, Zenon
    <3>2. CASE i # j
      BY <1>6, <1>7, <2>1, <2>5, <3>2, Zenon DEF JumellesDites
    <3> QED
      BY <3>1, <3>2
  <2>6. \A p, s \in Requetes :
          p # s /\ Reclame(p)' /\ Reclame(s)' /\ requetes'[p].famille = requetes'[s].famille
            => requetes'[p].jumelle /\ requetes'[s].jumelle
    BY <1>6, <2>1, Zenon DEF JumellesDites
  <2> QED
    BY <2>4, <2>5, <2>6, Zenon DEF JumellesDites
<1> QED
  BY <1>12, <1>13 DEF FamilleInv

LEMMA FamilleStep ==
  ASSUME TInv, FamilleInv, [Next]_vars
  PROVE  FamilleInv'
<1>0. RequetesSaines /\ JetonsSains
  BY DEF TInv
<1>1. ASSUME \A j \in Jetons : JetonGarde(j), UNCHANGED requetes
      PROVE  FamilleInv'
  <2>1. \A p \in Requetes : PlaceDite(p)' /\ (~Reclame(p)' \/ PlaceGardee(p))
    BY <1>1, Zenon DEF FamilleInv, FamillesEmises, PlaceDite, Reclame, PlaceGardee
  <2> QED
    BY <1>1, <2>1, FamilleCadre, Zenon
<1>2. ASSUME UNCHANGED <<jetons, requetes>> PROVE FamilleInv'
  BY <1>1, <1>2, JetonsInchanges
<1>3. ASSUME NEW q \in Requetes, Connexions \/ Rotations \/ Changements,
             \/ \E c \in Comptes : ConnexionLit(q, c) \/ ChangerLit(q, c)
             \/ \E v \in Verdicts : ConnexionAnnuaire(q, v)
             \/ \E role \in RolesDonnes : ConnexionAdmise(q, role)
             \/ ConnexionRefusee(q) \/ MotDePasseFaux(q) \/ MotDePasseBon(q)
             \/ ConnexionEchoue(q) \/ ConnexionReussit(q)
             \/ ChangerEcrit(q)
      PROVE  FamilleInv'
  <2>1. \A j \in Jetons : JetonGarde(j)
    BY <1>3, JetonsInchanges
       DEF ConnexionLit, ChangerLit, ConnexionAnnuaire, ConnexionAdmise, ConnexionRefusee,
           MotDePasseFaux, MotDePasseBon, ConnexionEchoue, ConnexionReussit, ChangerEcrit
  <2>2. CASE Rend(q)
    BY <1>0, <2>1, <2>2, RendQuitte, UneRequete
  <2>3. CASE \E c \in Comptes : Lit(q, "annuaire", c) \/ Lit(q, "changer", c)
    BY <1>0, <2>1, <2>3, LitQuitte, UneRequete
  <2>4. CASE \E s : \/ Decide(q, "emettre", s) \/ Decide(q, "succes", s)
                    \/ Decide(q, "verrou", s) \/ Decide(q, "changee", s)
    BY <1>0, <2>1, <2>4, DecideQuitte, UneRequete
  <2>5. CASE Avance(q, "local") \/ Avance(q, "echec")
    BY <1>0, <2>1, <2>5, AvanceQuitte, UneRequete
  <2>6. CASE requetes[q].pc \in {"succes", "changee"} /\ Avance(q, "emettre")
    BY <1>0, <2>1, <2>6, AvanceQuitte, UneRequete
  <2> QED
    BY <1>3, <2>2, <2>3, <2>4, <2>5, <2>6, Zenon
       DEF ConnexionLit, ChangerLit, ConnexionAnnuaire, ConnexionAdmise, ConnexionRefusee,
           MotDePasseFaux, MotDePasseBon, ConnexionEchoue, ConnexionReussit, ChangerEcrit
<1>4. ASSUME NEW q \in Requetes, VerrouRevoque(q) \/ RafraichirClot(q)
      PROVE  FamilleInv'
  <2>1. \A j \in Jetons : JetonGarde(j)
    BY <1>0, <1>4, RevoqueGarde, Zenon DEF VerrouRevoque, RafraichirClot
  <2>2. Rend(q)
    BY <1>4 DEF VerrouRevoque, RafraichirClot
  <2> QED
    BY <1>0, <2>1, <2>2, RendQuitte, UneRequete
<1>5. ASSUME NEW q \in Requetes, ChangerRevoque(q)
      PROVE  FamilleInv'
  <2>1. \A j \in Jetons : JetonGarde(j)
    BY <1>0, <1>5, RevoqueGarde, Zenon DEF ChangerRevoque
  <2>2. Avance(q, "emettre") /\ requetes[q].pc = "changee"
    BY <1>5 DEF ChangerRevoque
  <2> QED
    BY <1>0, <2>1, <2>2, AvanceQuitte, UneRequete
<1>6. ASSUME NEW q \in Requetes, RafraichirLit(q)
      PROVE  FamilleInv'
  <2>1. \A j \in Jetons : JetonGarde(j)
    BY <1>6, JetonsInchanges DEF RafraichirLit
  <2>2. requetes[q].pc = "lire" /\ (Avance(q, "tourner") \/ Avance(q, "clore"))
    BY <1>6, Zenon DEF RafraichirLit
  <2>3. CASE Avance(q, "tourner")
    BY <1>0, <2>1, <2>2, <2>3, AvanceReste, UneRequete
  <2>4. CASE Avance(q, "clore")
    BY <1>0, <2>1, <2>4, AvanceQuitte, UneRequete
  <2> QED
    BY <2>2, <2>3, <2>4
<1>7. ASSUME NEW u \in Acteurs, ActeRevoque(u)
      PROVE  FamilleInv'
  BY <1>0, <1>1, <1>7, RevoqueGarde, Zenon DEF ActeRevoque
<1>8. ASSUME NEW c \in Comptes, NEW j \in Jetons \cup {Aucun}, Deconnecter(c, j)
      PROVE  FamilleInv'
  BY <1>0, <1>1, <1>8, RevoqueGarde, Zenon DEF Deconnecter
<1>9. ASSUME NEW c \in Comptes, VerrouExpire(c)
      PROVE  FamilleInv'
  BY <1>2, <1>9 DEF VerrouExpire
<1>10. CASE Connexions
  BY <1>3, <1>4, <1>10, EmettreFamille, Zenon DEF Connexions
<1>11. CASE Rotations
  BY <1>4, <1>6, <1>11, VerifieFamille, TourneFamille, Zenon DEF Rotations
<1>12. CASE Changements
  BY <1>3, <1>5, <1>7, <1>12, Zenon DEF Changements
<1>13. CASE Actes /\ UNCHANGED sessionsVars
  BY <1>2, <1>13 DEF sessionsVars
<1>14. CASE UNCHANGED vars
  BY <1>2, <1>14 DEF vars, sessionsVars
<1> QED
  BY <1>8, <1>9, <1>10, <1>11, <1>12, <1>13, <1>14 DEF Next

(* tokens.service.ts 9-13: in every reachable state, the live tokens of one *)
(* login are one, or come of two requests that had verified the same token  *)
(* before either revoked it.                                                *)
THEOREM ConnexionNonDoublee == Spec => []UneSessionParConnexion
<1>1. Init => FamilleInv
  BY DEF Init, PasDeJeton, PasDeRequete, FamilleInv, FamillesEmises, JumellesDites, Vit,
         Reclame, PlaceDite
<1>2. TInv /\ [Next]_vars => TInv'
  BY TypeStep
<1>3. TInv /\ FamilleInv /\ [Next]_vars => FamilleInv'
  BY FamilleStep
<1>4. FamilleInv => UneSessionParConnexion
  BY Zenon DEF FamilleInv, JumellesDites, Vit, UneSessionParConnexion
<1> QED
  BY <1>1, <1>2, <1>3, <1>4, InitType, PTL DEF Spec
=============================================================================
