--------------------------- MODULE ReglagesProofs ---------------------------
(***************************************************************************)
(* The settings of the instance for any number of sections, administrators  *)
(* and requests in flight.  The invariant follows each request through its  *)
(* steps: as long as no write met another request half-way, what a request  *)
(* holds of the row is the row, and the secret it is about to write is the  *)
(* one in place or the one it was given.                                    *)
(***************************************************************************)
EXTENDS Reglages, TLAPS

(* A row fetched waits for the cache in a reading only; a secret stays in a *)
(* tab for the time of one write, and only of a section that has one.       *)
Coherent(o) ==
  /\ o.lu # Aucun => o.pc \in Lectures
  /\ o.pc \in {"ferme", "repos", "ouvrir", "lire"} => o.secret = Aucun /\ o.garde = Aucun
  /\ o.section \notin Secretes =>
       o.secret = Aucun /\ o.garde = Aucun /\ o.pc \notin {"garder", "valider"}
  /\ o.pc \in {"invalider", "tracer"} => o.avant.version < VersionMax

ReglagesTypeInv ==
  /\ ReglagesTypeOK
  /\ \A a \in Operateurs : Coherent(onglets[a])
  /\ \A s \in Sections \ Secretes : reglages[s].secret = Aucun

(* What a request holds of its section: no version above that of the row;   *)
(* the secret kept is that of the row unless a write came in between, which *)
(* the version will tell; a write about to be made has the row itself.      *)
CacheAJour(o) ==
  LET r == reglages[o.section] IN
  /\ o.version <= r.version
  /\ o.lu # Aucun => o.lu = r
  /\ o.pc = "valider" /\ o.version = r.version => o.garde = r.secret
  /\ o.pc \in {"relire", "ecrire"} /\ o.secret # Aucun => o.garde = o.secret
  /\ o.pc \in {"relire", "ecrire"} /\ o.secret = Aucun /\ o.version = r.version =>
       o.garde = r.secret
  /\ o.pc = "ecrire" => o.avant = r /\ o.version = r.version

(* A write that is not journalised yet has a version that no entry has.     *)
LectureEnAttente(o) == o.pc \in {"invalider", "tracer"}
ATracer(o) ==
  LectureEnAttente(o) =>
    /\ o.avant.version < reglages[o.section].version
    /\ \A d \in journalises : d.section = o.section => d.apres # o.avant.version + 1

OngletsTenus ==
  \A a \in Operateurs :
    onglets[a].section \notin troublees => CacheAJour(onglets[a]) /\ ATracer(onglets[a])
TracesDistinctes ==
  \A a, b \in Operateurs :
    /\ a # b /\ onglets[a].section = onglets[b].section /\ onglets[a].section \notin troublees
    /\ LectureEnAttente(onglets[a]) /\ LectureEnAttente(onglets[b])
    => onglets[a].avant.version # onglets[b].avant.version
JournalBorne ==
  \A d \in journalises : d.section \notin troublees => d.apres <= reglages[d.section].version

ReglagesInv == ReglagesTypeInv /\ OngletsTenus /\ TracesDistinctes /\ JournalBorne /\ ReglageTenu

-----------------------------------------------------------------------------
(* What one request does to its tab.                                        *)

AutresOnglets(a) ==
  onglets' \in [Operateurs -> Onglet] /\ \A b \in Operateurs : b # a => onglets'[b] = onglets[b]

LEMMA UnOnglet ==
  ASSUME ReglagesTypeOK, NEW a \in Operateurs, NEW o \in Onglet,
         onglets' = [onglets EXCEPT ![a] = o]
  PROVE  AutresOnglets(a) /\ onglets'[a] = o
BY DEF ReglagesTypeOK, AutresOnglets

LEMMA JamaisType ==
  JamaisEcrite \in Section /\ JamaisEcrite.secret = Aucun /\ JamaisEcrite.version = 0
<1>1. 0 \in 0..VersionMax
  BY ReglagesAssumption DEF ReglagesAssumption
<1> QED
  BY <1>1, ReglagesAssumption DEF JamaisEcrite, Section, ReglagesAssumption

LEMMA AuReposType ==
  ASSUME NEW o \in Onglet
  PROVE  /\ AuRepos(o) \in Onglet /\ AuRepos(o).pc \in {"ferme", "repos"}
         /\ AuRepos(o).section = o.section /\ AuRepos(o).version = o.version
         /\ AuRepos(o).secret = Aucun /\ AuRepos(o).garde = Aucun /\ AuRepos(o).lu = Aucun
<1> DEFINE q == IF o.pc \in {"ferme", "ouvrir"} THEN "ferme" ELSE "repos"
           p == [o EXCEPT !.pc = q, !.secret = Aucun, !.garde = Aucun, !.avant = JamaisEcrite,
                          !.lu = Aucun]
<1>1. q \in {"ferme", "repos"}
  OBVIOUS
<1>2. AuRepos(o) = p
  BY DEF AuRepos
<1> HIDE DEF q
<1>3. p \in Onglet
  BY <1>1, JamaisType DEF Onglet
<1>4. /\ p.pc = q /\ p.section = o.section /\ p.version = o.version
      /\ p.secret = Aucun /\ p.garde = Aucun /\ p.lu = Aucun
  BY DEF Onglet
<1> QED
  BY <1>1, <1>2, <1>3, <1>4

(* A reading ends in the tab at rest, the secret kept, or the row that the  *)
(* write will replace.                                                      *)
LEMMA LueType ==
  ASSUME NEW o \in Onglet, NEW v \in Section, o.pc \in Lectures
  PROVE  /\ Lue(o, v) \in Onglet /\ Lue(o, v).section = o.section /\ Lue(o, v).lu = Aucun
         /\ o.pc \in {"ouvrir", "lire"} =>
              /\ Lue(o, v).pc = "repos" /\ Lue(o, v).version = v.version
              /\ Lue(o, v).secret = Aucun /\ Lue(o, v).garde = Aucun
         /\ o.pc = "garder" =>
              /\ Lue(o, v).pc = "valider" /\ Lue(o, v).version = o.version
              /\ Lue(o, v).secret = o.secret /\ Lue(o, v).garde = v.secret
         /\ o.pc = "relire" =>
              /\ Lue(o, v).version = o.version
              /\ \/ /\ Lue(o, v).pc \in {"ferme", "repos"}
                    /\ Lue(o, v).secret = Aucun /\ Lue(o, v).garde = Aucun
                 \/ /\ Lue(o, v).pc = "ecrire" /\ v.version = o.version /\ Lue(o, v).avant = v
                    /\ Lue(o, v).secret = o.secret /\ Lue(o, v).garde = o.garde
<1>1. CASE o.pc \in {"ouvrir", "lire"}
  <2> DEFINE p == [AuRepos(o) EXCEPT !.pc = "repos", !.version = v.version, !.contenu = v.contenu]
  <2>1. Lue(o, v) = p
    BY <1>1 DEF Lue
  <2>2. v.version \in 0..VersionMax /\ v.contenu \in Contenus
    BY DEF Section
  <2>3. p \in Onglet
    BY <2>2, AuReposType DEF Onglet
  <2>4. /\ p.section = AuRepos(o).section /\ p.lu = AuRepos(o).lu /\ p.pc = "repos"
        /\ p.version = v.version /\ p.secret = AuRepos(o).secret /\ p.garde = AuRepos(o).garde
    BY AuReposType DEF Onglet
  <2> QED
    BY <1>1, <2>1, <2>3, <2>4, AuReposType
<1>2. CASE o.pc = "garder"
  <2> DEFINE p == [o EXCEPT !.pc = "valider", !.garde = v.secret, !.lu = Aucun]
  <2>1. Lue(o, v) = p
    BY <1>2 DEF Lue
  <2>2. v.secret \in Secrets \cup {Aucun}
    BY DEF Section
  <2>3. /\ p \in Onglet /\ p.section = o.section /\ p.lu = Aucun /\ p.pc = "valider"
        /\ p.version = o.version /\ p.secret = o.secret /\ p.garde = v.secret
    BY <2>2 DEF Onglet
  <2> QED
    BY <1>2, <2>1, <2>3
<1>3. CASE o.pc = "relire" /\ v.version # o.version
  BY <1>3, AuReposType DEF Lue
<1>4. CASE o.pc = "relire" /\ v.version = o.version
  <2> DEFINE p == [o EXCEPT !.pc = "ecrire", !.avant = v, !.lu = Aucun]
  <2>1. Lue(o, v) = p
    BY <1>4 DEF Lue
  <2>2. /\ p \in Onglet /\ p.section = o.section /\ p.lu = Aucun /\ p.pc = "ecrire"
        /\ p.avant = v /\ p.version = o.version /\ p.secret = o.secret /\ p.garde = o.garde
    BY DEF Onglet
  <2> QED
    BY <1>4, <2>1, <2>2
<1> QED
  BY <1>1, <1>2, <1>3, <1>4 DEF Lectures

LEMMA EffetLecture ==
  ASSUME ReglagesTypeInv, NEW a \in Operateurs, NEW v \in Section, onglets[a].pc \in Lectures,
         onglets' = [onglets EXCEPT ![a] = Lue(onglets[a], v)]
  PROVE  AutresOnglets(a) /\ onglets'[a] = Lue(onglets[a], v)
<1>1. onglets[a] \in Onglet
  BY DEF ReglagesTypeInv, ReglagesTypeOK
<1> QED
  BY <1>1, LueType, UnOnglet DEF ReglagesTypeInv

LEMMA EffetLireEnBase ==
  ASSUME ReglagesTypeInv, NEW a \in Operateurs, LireEnBase(a)
  PROVE  /\ AutresOnglets(a) /\ UNCHANGED <<reglages, cache, journalises, troublees, ecrasees, donnes>>
         /\ onglets[a].pc \in Lectures
         /\ onglets'[a] = [onglets[a] EXCEPT !.lu = reglages[onglets[a].section]]
         /\ onglets'[a].pc = onglets[a].pc /\ onglets'[a].section = onglets[a].section
         /\ onglets'[a].version = onglets[a].version /\ onglets'[a].secret = onglets[a].secret
         /\ onglets'[a].garde = onglets[a].garde
         /\ onglets'[a].lu = reglages[onglets[a].section]
<1> DEFINE r == reglages[onglets[a].section]
           p == [onglets[a] EXCEPT !.lu = r]
<1>1. onglets[a] \in Onglet /\ onglets[a].section \in Sections
  BY DEF ReglagesTypeInv, ReglagesTypeOK, Onglet
<1>2. r \in Section
  BY <1>1 DEF ReglagesTypeInv, ReglagesTypeOK
<1>3. onglets' = [onglets EXCEPT ![a] = p]
  BY DEF LireEnBase
<1> HIDE DEF r
<1>4. /\ p \in Onglet /\ p.pc = onglets[a].pc /\ p.section = onglets[a].section
      /\ p.version = onglets[a].version /\ p.secret = onglets[a].secret
      /\ p.garde = onglets[a].garde /\ p.lu = r
  BY <1>1, <1>2 DEF Onglet
<1>5. AutresOnglets(a) /\ onglets'[a] = p
  BY <1>3, <1>4, UnOnglet DEF ReglagesTypeInv
<1>6. /\ UNCHANGED <<reglages, cache, journalises, troublees, ecrasees, donnes>>
      /\ onglets[a].pc \in Lectures
  BY DEF LireEnBase
<1> QED
  BY <1>4, <1>5, <1>6 DEF r

(* A tab that opens, or whose request ends: it is at rest, or about to read *)
(* a section from nothing.                                                  *)
LEMMA EffetOuvrir ==
  ASSUME ReglagesTypeInv, NEW a \in Operateurs, NEW s \in Sections, Ouvrir(a, s)
  PROVE  /\ AutresOnglets(a) /\ UNCHANGED <<reglages, cache, journalises, troublees, ecrasees, donnes>>
         /\ onglets[a].pc \in {"ferme", "repos"} /\ onglets'[a].pc = "ouvrir"
         /\ onglets'[a].version = 0 /\ onglets'[a].lu = Aucun
         /\ onglets'[a].secret = Aucun /\ onglets'[a].garde = Aucun
<1> DEFINE q == AuRepos(onglets[a])
           p == [q EXCEPT !.pc = "ouvrir", !.section = s, !.version = 0, !.contenu = Defaut]
<1>1. q \in Onglet /\ q.secret = Aucun /\ q.garde = Aucun /\ q.lu = Aucun
  BY AuReposType DEF ReglagesTypeInv, ReglagesTypeOK
<1>2. onglets' = [onglets EXCEPT ![a] = p]
  BY DEF Ouvrir
<1>3. 0 \in 0..VersionMax /\ Defaut \in Contenus
  BY ReglagesAssumption DEF ReglagesAssumption
<1> HIDE DEF q
<1>4. /\ p \in Onglet /\ p.pc = "ouvrir" /\ p.version = 0 /\ p.lu = Aucun
      /\ p.secret = Aucun /\ p.garde = Aucun
  BY <1>1, <1>3 DEF Onglet
<1>5. AutresOnglets(a) /\ onglets'[a] = p
  BY <1>2, <1>4, UnOnglet DEF ReglagesTypeInv
<1> HIDE DEF p
<1> QED
  BY <1>4, <1>5 DEF Ouvrir

LEMMA EffetDefinir ==
  ASSUME ReglagesTypeInv, NEW a \in Operateurs, NEW c \in Contenus, NEW k \in Secrets \cup {Aucun},
         DefinirSection(a, c, k)
  PROVE  /\ AutresOnglets(a) /\ UNCHANGED <<reglages, cache, journalises, troublees, ecrasees, donnes>>
         /\ onglets[a].pc = "repos" /\ onglets'[a].section = onglets[a].section
         /\ onglets'[a].version = onglets[a].version /\ onglets'[a].lu = onglets[a].lu
         /\ onglets'[a].garde = onglets[a].garde
         /\ \/ onglets'[a].pc = "garder" /\ onglets[a].section \in Secretes
            \/ /\ onglets'[a].pc \in {"relire", "repos"} /\ onglets'[a].secret = onglets[a].secret
               /\ onglets[a].section \notin Secretes
<1> DEFINE o == onglets[a]
           p == [o EXCEPT !.pc = "garder", !.contenu = c, !.secret = k]
           q == [o EXCEPT !.pc = "relire", !.contenu = c]
<1>1. o \in Onglet
  BY DEF ReglagesTypeInv, ReglagesTypeOK
<1>2. /\ o.pc = "repos" /\ UNCHANGED <<reglages, cache, journalises, troublees, ecrasees, donnes>>
      /\ onglets' = [onglets EXCEPT ![a] = IF o.section \in Secretes THEN p
                                           ELSE IF c \in Recevables THEN q ELSE o]
  BY DEF DefinirSection
<1> HIDE DEF o
<1>3. /\ p \in Onglet /\ p.pc = "garder" /\ p.section = o.section /\ p.version = o.version
      /\ p.lu = o.lu /\ p.garde = o.garde
  BY <1>1 DEF Onglet
<1>4. /\ q \in Onglet /\ q.pc = "relire" /\ q.section = o.section /\ q.version = o.version
      /\ q.lu = o.lu /\ q.garde = o.garde /\ q.secret = o.secret
  BY <1>1 DEF Onglet
<1> HIDE DEF p, q
<1>5. CASE o.section \in Secretes
  <2>1. onglets' = [onglets EXCEPT ![a] = p]
    BY <1>2, <1>5
  <2> QED
    BY <1>2, <1>3, <1>5, <2>1, UnOnglet DEF ReglagesTypeInv, o
<1>6. CASE o.section \notin Secretes /\ c \in Recevables
  <2>1. onglets' = [onglets EXCEPT ![a] = q]
    BY <1>2, <1>6
  <2> QED
    BY <1>2, <1>4, <1>6, <2>1, UnOnglet DEF ReglagesTypeInv, o
<1>7. CASE o.section \notin Secretes /\ c \notin Recevables
  <2>1. onglets' = [onglets EXCEPT ![a] = o]
    BY <1>2, <1>7
  <2> QED
    BY <1>1, <1>2, <1>7, <2>1, UnOnglet DEF ReglagesTypeInv, o
<1> QED
  BY <1>5, <1>6, <1>7

LEMMA EffetValider ==
  ASSUME ReglagesTypeInv, NEW a \in Operateurs, Valider(a)
  PROVE  /\ AutresOnglets(a) /\ UNCHANGED <<reglages, cache, journalises, troublees, ecrasees, donnes>>
         /\ onglets[a].pc = "valider" /\ onglets'[a].section = onglets[a].section
         /\ onglets'[a].version = onglets[a].version /\ onglets'[a].lu = Aucun
         /\ \/ /\ onglets'[a].pc = "relire" /\ onglets'[a].secret = onglets[a].secret
               /\ onglets'[a].garde = IF onglets[a].secret = Aucun THEN onglets[a].garde
                                      ELSE onglets[a].secret
            \/ /\ onglets'[a].pc \in {"ferme", "repos"}
               /\ onglets'[a].secret = Aucun /\ onglets'[a].garde = Aucun
<1> DEFINE o == onglets[a]
           g == IF o.secret = Aucun THEN o.garde ELSE o.secret
           p == [o EXCEPT !.pc = "relire", !.garde = g]
<1>1. o \in Onglet /\ o.lu = Aucun
  BY DEF ReglagesTypeInv, ReglagesTypeOK, Coherent, Lectures, Valider
<1>2. /\ o.pc = "valider" /\ UNCHANGED <<reglages, cache, journalises, troublees, ecrasees, donnes>>
      /\ onglets' = [onglets EXCEPT ![a] = IF o.contenu \notin Recevables THEN AuRepos(o) ELSE p]
  BY DEF Valider
<1>3. g \in Secrets \cup {Aucun}
  BY <1>1 DEF Onglet
<1> HIDE DEF o, g
<1>4. /\ p \in Onglet /\ p.pc = "relire" /\ p.section = o.section /\ p.version = o.version
      /\ p.lu = o.lu /\ p.garde = g /\ p.secret = o.secret
  BY <1>1, <1>3 DEF Onglet
<1> HIDE DEF p
<1>5. CASE o.contenu \in Recevables
  <2>1. onglets' = [onglets EXCEPT ![a] = p]
    BY <1>2, <1>5
  <2> QED
    BY <1>1, <1>2, <1>4, <2>1, UnOnglet DEF ReglagesTypeInv, o, g
<1>6. CASE o.contenu \notin Recevables
  <2>1. onglets' = [onglets EXCEPT ![a] = AuRepos(o)]
    BY <1>2, <1>6
  <2> QED
    <3> DEFINE q == AuRepos(o)
    <3>1. /\ q \in Onglet /\ q.pc \in {"ferme", "repos"} /\ q.section = o.section
          /\ q.version = o.version /\ q.secret = Aucun /\ q.garde = Aucun /\ q.lu = Aucun
      BY <1>1, AuReposType
    <3> HIDE DEF q
    <3>2. AutresOnglets(a) /\ onglets'[a] = q
      BY <2>1, <3>1, UnOnglet DEF ReglagesTypeInv, q
    <3> QED
      BY <1>2, <3>1, <3>2 DEF o
<1> QED
  BY <1>5, <1>6

LEMMA EffetRompue ==
  ASSUME ReglagesTypeInv, NEW a \in Operateurs, onglets' = [onglets EXCEPT ![a] = AuRepos(onglets[a])]
  PROVE  /\ AutresOnglets(a) /\ onglets'[a].section = onglets[a].section
         /\ onglets'[a].version = onglets[a].version /\ onglets'[a].pc \in {"ferme", "repos"}
         /\ onglets'[a].lu = Aucun /\ onglets'[a].secret = Aucun /\ onglets'[a].garde = Aucun
<1>1. onglets[a] \in Onglet
  BY DEF ReglagesTypeInv, ReglagesTypeOK
<1> DEFINE p == AuRepos(onglets[a])
<1>2. /\ p \in Onglet /\ p.pc \in {"ferme", "repos"} /\ p.section = onglets[a].section
      /\ p.version = onglets[a].version /\ p.secret = Aucun /\ p.garde = Aucun /\ p.lu = Aucun
  BY <1>1, AuReposType
<1> HIDE DEF p
<1>3. AutresOnglets(a) /\ onglets'[a] = p
  BY <1>2, UnOnglet DEF ReglagesTypeInv, p
<1> QED
  BY <1>2, <1>3

LEMMA EffetEcrire ==
  ASSUME ReglagesTypeInv, NEW a \in Operateurs, Ecrire(a)
  PROVE  LET o == onglets[a]
             s == o.section
         IN
         /\ AutresOnglets(a) /\ UNCHANGED <<cache, journalises>>
         /\ o.pc = "ecrire" /\ s \in Sections
         /\ onglets'[a] = [o EXCEPT !.pc = "invalider"]
         /\ onglets'[a].pc = "invalider" /\ onglets'[a].section = s
         /\ onglets'[a].version = o.version /\ onglets'[a].avant = o.avant
         /\ onglets'[a].lu = o.lu /\ onglets'[a].secret = o.secret /\ onglets'[a].garde = o.garde
         /\ o.avant.version \in 0..VersionMax /\ o.avant.version < VersionMax
         /\ reglages' \in [Sections -> Section]
         /\ \A t \in Sections : t # s => reglages'[t] = reglages[t]
         /\ reglages'[s].version = o.avant.version + 1 /\ reglages'[s].secret = o.garde
         /\ ecrasees' = IF reglages[s].version # o.version THEN ecrasees \cup {s} ELSE ecrasees
         /\ troublees' = IF \E b \in Operateurs \ {a} : TientUneLecture(b, s)
                         THEN troublees \cup {s} ELSE troublees
         /\ donnes' = IF o.secret # Aucun THEN [donnes EXCEPT ![s] = o.secret] ELSE donnes
<1> DEFINE o == onglets[a]
           s == o.section
           p == [o EXCEPT !.pc = "invalider"]
           r == [version |-> o.avant.version + 1, contenu |-> o.contenu, secret |-> o.garde]
<1>1. o \in Onglet /\ s \in Sections /\ o.avant \in Section /\ o.avant.version \in 0..VersionMax
  BY DEF ReglagesTypeInv, ReglagesTypeOK, Onglet, Section
<1>2. o.contenu \in Contenus /\ o.garde \in Secrets \cup {Aucun}
  BY <1>1 DEF Onglet
<1>3. o.avant.version < VersionMax /\ o.pc = "ecrire"
  BY DEF Ecrire
<1>4. o.avant.version + 1 \in 0..VersionMax
  BY <1>1, <1>3, ReglagesAssumption DEF ReglagesAssumption
<1>5. r \in Section /\ r.version = o.avant.version + 1 /\ r.secret = o.garde
  BY <1>2, <1>4 DEF Section
<1>6. reglages' = [reglages EXCEPT ![s] = r] /\ onglets' = [onglets EXCEPT ![a] = p]
  BY DEF Ecrire
<1>7. /\ UNCHANGED <<cache, journalises>>
      /\ ecrasees' = IF reglages[s].version # o.version THEN ecrasees \cup {s} ELSE ecrasees
      /\ troublees' = IF \E b \in Operateurs \ {a} : TientUneLecture(b, s)
                      THEN troublees \cup {s} ELSE troublees
      /\ donnes' = IF o.secret # Aucun THEN [donnes EXCEPT ![s] = o.secret] ELSE donnes
  BY DEF Ecrire
<1> HIDE DEF o, s, r
<1>8. /\ p \in Onglet /\ p.pc = "invalider" /\ p.section = o.section /\ p.version = o.version
      /\ p.avant = o.avant /\ p.lu = o.lu /\ p.secret = o.secret /\ p.garde = o.garde
  BY <1>1 DEF Onglet
<1>9. AutresOnglets(a) /\ onglets'[a] = p
  BY <1>6, <1>8, UnOnglet DEF ReglagesTypeInv
<1>10. /\ reglages' \in [Sections -> Section] /\ reglages'[s] = r
       /\ \A t \in Sections : t # s => reglages'[t] = reglages[t]
  BY <1>1, <1>5, <1>6 DEF ReglagesTypeInv, ReglagesTypeOK
<1> QED
  BY <1>1, <1>3, <1>5, <1>7, <1>8, <1>9, <1>10 DEF o, s

LEMMA EffetInvalider ==
  ASSUME ReglagesTypeInv, NEW a \in Operateurs, Invalider(a)
  PROVE  /\ AutresOnglets(a) /\ UNCHANGED <<reglages, journalises, troublees, ecrasees, donnes>>
         /\ cache' = [cache EXCEPT ![onglets[a].section] = Aucun]
         /\ onglets[a].pc = "invalider" /\ onglets'[a].pc = "tracer"
         /\ onglets'[a].section = onglets[a].section /\ onglets'[a].version = onglets[a].version
         /\ onglets'[a].avant = onglets[a].avant /\ onglets'[a].lu = onglets[a].lu
         /\ onglets'[a].secret = onglets[a].secret /\ onglets'[a].garde = onglets[a].garde
<1> DEFINE p == [onglets[a] EXCEPT !.pc = "tracer"]
<1>1. /\ p \in Onglet /\ p.pc = "tracer" /\ p.section = onglets[a].section
      /\ p.version = onglets[a].version /\ p.avant = onglets[a].avant /\ p.lu = onglets[a].lu
      /\ p.secret = onglets[a].secret /\ p.garde = onglets[a].garde
  BY DEF ReglagesTypeInv, ReglagesTypeOK, Onglet
<1>2. onglets' = [onglets EXCEPT ![a] = p]
  BY DEF Invalider
<1> HIDE DEF p
<1> QED
  BY <1>1, <1>2, UnOnglet DEF Invalider, ReglagesTypeInv

LEMMA EffetTracer ==
  ASSUME ReglagesTypeInv, NEW a \in Operateurs, Tracer(a)
  PROVE  /\ AutresOnglets(a) /\ UNCHANGED <<reglages, cache, troublees, ecrasees, donnes>>
         /\ onglets[a].pc = "tracer" /\ onglets'[a].pc = "lire"
         /\ onglets'[a].section = onglets[a].section /\ onglets'[a].version = onglets[a].version
         /\ onglets'[a].lu = Aucun /\ onglets'[a].secret = Aucun /\ onglets'[a].garde = Aucun
         /\ \E remplace \in BOOLEAN :
              journalises' = journalises \cup
                {[section |-> onglets[a].section, avant |-> onglets[a].avant.version,
                  apres |-> onglets[a].avant.version + 1, remplace |-> remplace]}
<1> DEFINE q == AuRepos(onglets[a])
           p == [q EXCEPT !.pc = "lire"]
<1>1. /\ q \in Onglet /\ q.secret = Aucun /\ q.garde = Aucun /\ q.lu = Aucun
      /\ q.section = onglets[a].section /\ q.version = onglets[a].version
  BY AuReposType DEF ReglagesTypeInv, ReglagesTypeOK
<1>2. onglets' = [onglets EXCEPT ![a] = p]
  BY DEF Tracer
<1> HIDE DEF q
<1>3. /\ p \in Onglet /\ p.pc = "lire" /\ p.section = q.section /\ p.version = q.version
      /\ p.lu = q.lu /\ p.secret = q.secret /\ p.garde = q.garde
  BY <1>1 DEF Onglet
<1>4. AutresOnglets(a) /\ onglets'[a] = p
  BY <1>2, <1>3, UnOnglet DEF ReglagesTypeInv
<1> HIDE DEF p
<1>5. onglets[a].pc = "tracer" /\ UNCHANGED <<reglages, cache, troublees, ecrasees, donnes>>
  BY DEF Tracer
<1>6. \E remplace \in BOOLEAN :
        journalises' = journalises \cup
          {[section |-> onglets[a].section, avant |-> onglets[a].avant.version,
            apres |-> onglets[a].avant.version + 1, remplace |-> remplace]}
  BY DEF Tracer
<1> QED
  BY <1>1, <1>3, <1>4, <1>5, <1>6

-----------------------------------------------------------------------------
(* The typing of the tabs and the rows.                                     *)

LEMMA ReglagesInitial == ReglagesInit => ReglagesTypeInv
<1> SUFFICES ASSUME ReglagesInit
             PROVE  ReglagesTypeInv
  OBVIOUS
<1> DEFINE s0 == CHOOSE s \in Sections : TRUE
           o == [pc |-> "ferme", section |-> s0, version |-> 0,
                 contenu |-> Defaut, secret |-> Aucun, garde |-> Aucun, avant |-> JamaisEcrite,
                 lu |-> Aucun]
<1>1. s0 \in Sections /\ Defaut \in Contenus /\ 0 \in 0..VersionMax
  BY ReglagesAssumption DEF ReglagesAssumption
<1> HIDE DEF s0
<1>2. o \in Onglet /\ Coherent(o)
  BY <1>1, JamaisType DEF Onglet, Coherent
<1>3. onglets = [a \in Operateurs |-> o]
  BY DEF ReglagesInit, s0
<1> HIDE DEF o
<1>4. ReglagesTypeOK
  BY <1>2, <1>3, JamaisType DEF ReglagesInit, ReglagesTypeOK
<1> QED
  BY <1>2, <1>3, <1>4, JamaisType DEF ReglagesInit, ReglagesTypeInv

(* A request that changes neither the rows nor the journal keeps the typing *)
(* if its own tab stays coherent.                                           *)
LEMMA TypeSansEcriture ==
  ASSUME ReglagesTypeInv, NEW a \in Operateurs, AutresOnglets(a), Coherent(onglets'[a]),
         UNCHANGED <<reglages, journalises, ecrasees, donnes>>,
         cache' \in [Sections -> Section \cup {Aucun}], troublees' \subseteq Sections
  PROVE  ReglagesTypeInv'
<1>1. ReglagesTypeOK'
  BY DEF ReglagesTypeInv, ReglagesTypeOK, AutresOnglets
<1>2. \A b \in Operateurs : Coherent(onglets'[b])
  BY DEF ReglagesTypeInv, AutresOnglets
<1> QED
  BY <1>1, <1>2 DEF ReglagesTypeInv, Coherent

LEMMA ReglagesTypeStable == ReglagesTypeInv /\ [ReglagesNext]_reglagesVars => ReglagesTypeInv'
<1> SUFFICES ASSUME ReglagesTypeInv, [ReglagesNext]_reglagesVars
             PROVE  ReglagesTypeInv'
  OBVIOUS
<1>T. /\ \A a \in Operateurs : onglets[a] \in Onglet /\ onglets[a].section \in Sections
      /\ \A a \in Operateurs : Coherent(onglets[a])
      /\ \A s \in Sections : cache[s] \in Section \cup {Aucun}
      /\ cache \in [Sections -> Section \cup {Aucun}] /\ troublees \subseteq Sections
  BY DEF ReglagesTypeInv, ReglagesTypeOK, Onglet
<1>1. ASSUME NEW a \in Operateurs, LireDuCache(a)
      PROVE  ReglagesTypeInv'
  <2> DEFINE v == cache[onglets[a].section]
  <2>1. v \in Section /\ onglets[a].pc \in Lectures
    BY <1>1, <1>T DEF LireDuCache
  <2>2. /\ onglets' = [onglets EXCEPT ![a] = Lue(onglets[a], v)]
        /\ UNCHANGED <<reglages, cache, journalises, ecrasees, donnes>>
        /\ troublees' \subseteq Sections
    BY <1>1, <1>T DEF LireDuCache
  <2> HIDE DEF v
  <2>3. AutresOnglets(a) /\ onglets'[a] = Lue(onglets[a], v)
    BY <2>1, <2>2, EffetLecture
  <2>4. Coherent(onglets'[a])
    BY <1>T, <2>1, <2>3, LueType DEF Coherent, Lectures
  <2> QED
    BY <1>T, <2>2, <2>3, <2>4, TypeSansEcriture
<1>2. ASSUME NEW a \in Operateurs, LireEnBase(a)
      PROVE  ReglagesTypeInv'
  <2>1. Coherent(onglets'[a])
    BY <1>2, <1>T, EffetLireEnBase DEF Coherent, Lectures
  <2> QED
    BY <1>2, <1>T, <2>1, EffetLireEnBase, TypeSansEcriture
<1>3. ASSUME NEW a \in Operateurs, MettreEnCache(a)
      PROVE  ReglagesTypeInv'
  <2> DEFINE v == onglets[a].lu
  <2>1. v \in Section /\ onglets[a].pc \in Lectures
    BY <1>3, <1>T DEF MettreEnCache, Coherent, Onglet
  <2>2. /\ onglets' = [onglets EXCEPT ![a] = Lue(onglets[a], v)]
        /\ cache' = [cache EXCEPT ![onglets[a].section] = v]
        /\ UNCHANGED <<reglages, journalises, troublees, ecrasees, donnes>>
    BY <1>3 DEF MettreEnCache
  <2> HIDE DEF v
  <2>3. AutresOnglets(a) /\ onglets'[a] = Lue(onglets[a], v)
    BY <2>1, <2>2, EffetLecture
  <2>4. Coherent(onglets'[a])
    BY <1>T, <2>1, <2>3, LueType DEF Coherent, Lectures
  <2>5. cache' \in [Sections -> Section \cup {Aucun}]
    BY <1>T, <2>1, <2>2
  <2> QED
    BY <1>T, <2>2, <2>3, <2>4, <2>5, TypeSansEcriture
<1>4. ASSUME NEW a \in Operateurs, NEW s \in Sections, Ouvrir(a, s)
      PROVE  ReglagesTypeInv'
  <2>1. Coherent(onglets'[a])
    BY <1>4, EffetOuvrir DEF Coherent
  <2> QED
    BY <1>4, <1>T, <2>1, EffetOuvrir, TypeSansEcriture
<1>5. ASSUME NEW a \in Operateurs, NEW c \in Contenus, NEW k \in Secrets \cup {Aucun},
             DefinirSection(a, c, k)
      PROVE  ReglagesTypeInv'
  <2>1. Coherent(onglets'[a])
    BY <1>5, <1>T, EffetDefinir DEF Coherent, Lectures
  <2> QED
    BY <1>5, <1>T, <2>1, EffetDefinir, TypeSansEcriture
<1>6. ASSUME NEW a \in Operateurs, Valider(a)
      PROVE  ReglagesTypeInv'
  <2>1. Coherent(onglets'[a])
    BY <1>6, <1>T, EffetValider DEF Coherent
  <2> QED
    BY <1>6, <1>T, <2>1, EffetValider, TypeSansEcriture
<1>7. ASSUME NEW a \in Operateurs, Ecrire(a)
      PROVE  ReglagesTypeInv'
  <2> DEFINE o == onglets[a]
  <2>1. /\ AutresOnglets(a) /\ UNCHANGED <<cache, journalises>> /\ o.section \in Sections
        /\ reglages' \in [Sections -> Section] /\ reglages'[o.section].secret = o.garde
        /\ \A t \in Sections : t # o.section => reglages'[t] = reglages[t]
    BY <1>7, EffetEcrire
  <2>7. ecrasees' \subseteq Sections /\ troublees' \subseteq Sections
    <3>1. ecrasees \subseteq Sections
      BY DEF ReglagesTypeInv, ReglagesTypeOK
    <3>2. ecrasees' \in {ecrasees, ecrasees \cup {o.section}}
      BY <1>7, EffetEcrire
    <3>3. troublees' \in {troublees, troublees \cup {o.section}}
      BY <1>7, EffetEcrire
    <3> HIDE DEF o
    <3> QED
      BY <1>T, <2>1, <3>1, <3>2, <3>3
  <2>2. donnes' \in [Sections -> Secrets \cup {Aucun}]
    <3>1. o.secret \in Secrets \cup {Aucun}
      BY <1>T DEF Onglet
    <3>2. donnes' = donnes \/ donnes' = [donnes EXCEPT ![o.section] = o.secret]
      BY <1>7, EffetEcrire
    <3> QED
      BY <3>1, <3>2 DEF ReglagesTypeInv, ReglagesTypeOK
  <2>3. ReglagesTypeOK'
    BY <2>1, <2>2, <2>7 DEF ReglagesTypeInv, ReglagesTypeOK, AutresOnglets
  <2>4. Coherent(onglets'[a])
    BY <1>7, <1>T, EffetEcrire DEF Coherent, Lectures
  <2>5. \A b \in Operateurs : Coherent(onglets'[b])
    BY <1>T, <2>1, <2>4 DEF AutresOnglets
  <2>6. \A s \in Sections \ Secretes : reglages'[s].secret = Aucun
    BY <1>T, <2>1 DEF ReglagesTypeInv, Coherent
  <2> QED
    BY <2>3, <2>5, <2>6 DEF ReglagesTypeInv, Coherent
<1>8. ASSUME NEW a \in Operateurs, Invalider(a)
      PROVE  ReglagesTypeInv'
  <2>1. Coherent(onglets'[a])
    BY <1>8, <1>T, EffetInvalider DEF Coherent, Lectures
  <2>2. cache' \in [Sections -> Section \cup {Aucun}]
    BY <1>8, <1>T, EffetInvalider
  <2> QED
    BY <1>8, <1>T, <2>1, <2>2, EffetInvalider, TypeSansEcriture
<1>9. ASSUME NEW a \in Operateurs, Tracer(a)
      PROVE  ReglagesTypeInv'
  <2>1. onglets[a].avant.version \in 0..VersionMax /\ onglets[a].avant.version + 1 \in 1..VersionMax
    <3>1. onglets[a].avant.version < VersionMax
      BY <1>9, <1>T, EffetTracer DEF Coherent
    <3>2. onglets[a].avant.version \in 0..VersionMax
      BY <1>T DEF Onglet, Section
    <3> QED
      BY <3>1, <3>2, ReglagesAssumption DEF ReglagesAssumption
  <2>2. ReglagesTypeOK'
    <3>1. journalises' \subseteq
            [section : Sections, avant : 0..VersionMax, apres : 1..VersionMax, remplace : BOOLEAN]
      BY <1>9, <1>T, <2>1, EffetTracer DEF ReglagesTypeInv, ReglagesTypeOK
    <3> QED
      BY <1>9, <3>1, EffetTracer DEF ReglagesTypeInv, ReglagesTypeOK, AutresOnglets
  <2>3. Coherent(onglets'[a])
    BY <1>9, <1>T, EffetTracer DEF Coherent
  <2>4. \A b \in Operateurs : Coherent(onglets'[b])
    BY <1>9, <1>T, <2>3, EffetTracer DEF AutresOnglets
  <2> QED
    BY <1>9, <2>2, <2>4, EffetTracer DEF ReglagesTypeInv, Coherent
<1>10. ASSUME NEW a \in Operateurs, RequeteRompue(a)
       PROVE  ReglagesTypeInv'
  <2>1. /\ onglets' = [onglets EXCEPT ![a] = AuRepos(onglets[a])] /\ troublees' \subseteq Sections
        /\ UNCHANGED <<reglages, cache, journalises, ecrasees, donnes>>
    BY <1>10, <1>T DEF RequeteRompue
  <2>2. AutresOnglets(a) /\ Coherent(onglets'[a])
    BY <2>1, EffetRompue DEF Coherent
  <2> QED
    BY <1>T, <2>1, <2>2, TypeSansEcriture
<1>11. CASE Redemarrer
  <2>1. \A a \in Operateurs : AuRepos(onglets[a]) \in Onglet /\ Coherent(AuRepos(onglets[a]))
    BY <1>T, AuReposType DEF Coherent
  <2>2. onglets' \in [Operateurs -> Onglet] /\ \A a \in Operateurs : Coherent(onglets'[a])
    BY <1>11, <2>1 DEF Redemarrer
  <2>3. ReglagesTypeOK'
    BY <1>11, <2>2 DEF Redemarrer, ReglagesTypeInv, ReglagesTypeOK
  <2> QED
    BY <1>11, <2>2, <2>3 DEF Redemarrer, ReglagesTypeInv, Coherent
<1>12. CASE UNCHANGED reglagesVars
  BY <1>12 DEF reglagesVars, ReglagesTypeInv, ReglagesTypeOK, Coherent
<1> QED
  BY <1>1, <1>2, <1>3, <1>4, <1>5, <1>6, <1>7, <1>8, <1>9, <1>10, <1>11, <1>12 DEF ReglagesNext

-----------------------------------------------------------------------------
(* A request that writes neither the rows nor the journal: what is left to  *)
(* show is what its own tab holds, and what the cache does.                 *)

CacheTenu(s) ==
  \/ cache[s] \in {Aucun, reglages[s]}
  \/ \E a \in Operateurs : onglets[a].section = s /\ onglets[a].pc = "invalider"

LEMMA SansEcriture ==
  ASSUME ReglagesInv, ReglagesTypeInv', NEW a \in Operateurs, AutresOnglets(a),
         UNCHANGED <<reglages, journalises, ecrasees, donnes>>, troublees \subseteq troublees',
         onglets'[a].section \notin troublees' => CacheAJour(onglets[a])',
         LectureEnAttente(onglets[a])' =>
           /\ LectureEnAttente(onglets[a]) /\ onglets'[a].section = onglets[a].section
           /\ onglets'[a].avant = onglets[a].avant,
         \A s \in Sections \ troublees' : CacheTenu(s)'
  PROVE  ReglagesInv'
<1>1. ASSUME NEW b \in Operateurs, onglets'[b].section \notin troublees'
      PROVE  CacheAJour(onglets[b])' /\ ATracer(onglets[b])'
  <2>1. CASE b = a
    BY <1>1, <2>1 DEF ReglagesInv, OngletsTenus, ATracer, LectureEnAttente
  <2>2. CASE b # a
    <3>1. onglets'[b] = onglets[b] /\ onglets[b].section \notin troublees
      BY <1>1, <2>2 DEF AutresOnglets
    <3>2. CacheAJour(onglets[b]) /\ ATracer(onglets[b])
      BY <3>1 DEF ReglagesInv, OngletsTenus
    <3> QED
      BY <3>1, <3>2 DEF CacheAJour, ATracer, LectureEnAttente
  <2> QED
    BY <2>1, <2>2
<1>2. TracesDistinctes'
  BY DEF ReglagesInv, TracesDistinctes, LectureEnAttente, AutresOnglets
<1>3. JournalBorne'
  BY DEF ReglagesInv, JournalBorne
<1>4. ReglageTenu'
  BY DEF ReglagesInv, ReglageTenu, CacheTenu
<1> QED
  BY <1>1, <1>2, <1>3, <1>4 DEF ReglagesInv, OngletsTenus

(* What stands before any step.                                             *)
LEMMA Avant ==
  ASSUME ReglagesInv, NEW a \in Operateurs
  PROVE  /\ onglets[a] \in Onglet /\ onglets[a].section \in Sections /\ Coherent(onglets[a])
         /\ onglets[a].avant \in Section
         /\ reglages[onglets[a].section] \in Section
         /\ reglages[onglets[a].section].version \in Nat /\ onglets[a].version \in Nat
         /\ onglets[a].section \notin troublees =>
              CacheAJour(onglets[a]) /\ ATracer(onglets[a]) /\ CacheTenu(onglets[a].section)
<1>1. onglets[a] \in Onglet /\ Coherent(onglets[a])
  BY DEF ReglagesInv, ReglagesTypeInv, ReglagesTypeOK
<1>2. /\ onglets[a].section \in Sections /\ onglets[a].avant \in Section
      /\ onglets[a].version \in 0..VersionMax
  BY <1>1 DEF Onglet
<1>3. reglages[onglets[a].section] \in Section
  BY <1>2 DEF ReglagesInv, ReglagesTypeInv, ReglagesTypeOK
<1>4. reglages[onglets[a].section].version \in 0..VersionMax
  BY <1>3 DEF Section
<1> QED
  BY <1>1, <1>2, <1>3, <1>4, ReglagesAssumption
     DEF ReglagesInv, OngletsTenus, ReglageTenu, CacheTenu, ReglagesAssumption

(* The end of a reading of the row in place.                                *)
LEMMA LueAJour ==
  ASSUME ReglagesInv, NEW a \in Operateurs, onglets[a].pc \in Lectures,
         onglets[a].section \notin troublees,
         NEW v, v = reglages[onglets[a].section]
  PROVE  CacheAJour(Lue(onglets[a], v))
<1>1. /\ onglets[a] \in Onglet /\ v \in Section /\ v.version \in Nat /\ onglets[a].version \in Nat
      /\ CacheAJour(onglets[a])
  BY Avant
<1> DEFINE p == Lue(onglets[a], v)
<1>2. p.section = onglets[a].section /\ p.lu = Aucun
  BY <1>1, LueType
<1>3. CASE onglets[a].pc \in {"ouvrir", "lire"}
  <2>1. p.pc = "repos" /\ p.version = v.version
    BY <1>1, <1>3, LueType
  <2> HIDE DEF p
  <2> QED
    BY <1>1, <1>2, <2>1 DEF CacheAJour, p
<1>4. CASE onglets[a].pc = "garder"
  <2>1. p.pc = "valider" /\ p.version = onglets[a].version /\ p.garde = v.secret
    BY <1>1, <1>4, LueType
  <2> HIDE DEF p
  <2> QED
    BY <1>1, <1>2, <2>1 DEF CacheAJour, p
<1>5. CASE onglets[a].pc = "relire"
  <2>1. /\ p.version = onglets[a].version
        /\ \/ p.pc \in {"ferme", "repos"}
           \/ /\ p.pc = "ecrire" /\ v.version = onglets[a].version /\ p.avant = v
              /\ p.secret = onglets[a].secret /\ p.garde = onglets[a].garde
    BY <1>1, <1>5, LueType
  <2> HIDE DEF p
  <2> QED
    BY <1>1, <1>2, <1>5, <2>1 DEF CacheAJour, p
<1> QED
  BY <1>3, <1>4, <1>5 DEF Lectures

LEMMA LectureStable ==
  ASSUME ReglagesInv, ReglagesTypeInv', NEW a \in Operateurs, NEW v \in Section,
         onglets[a].pc \in Lectures,
         onglets' = [onglets EXCEPT ![a] = Lue(onglets[a], v)],
         UNCHANGED <<reglages, journalises, ecrasees, donnes>>, troublees \subseteq troublees',
         onglets[a].section \notin troublees' => v = reglages[onglets[a].section],
         \A s \in Sections \ troublees' : CacheTenu(s)'
  PROVE  ReglagesInv'
<1>1. AutresOnglets(a) /\ onglets'[a] = Lue(onglets[a], v)
  BY EffetLecture DEF ReglagesInv
<1>2. onglets'[a].section = onglets[a].section /\ ~LectureEnAttente(onglets'[a])
  BY <1>1, Avant, LueType DEF LectureEnAttente, Lectures
<1>3. onglets'[a].section \notin troublees' => CacheAJour(onglets[a])'
  <2> SUFFICES ASSUME onglets'[a].section \notin troublees'
               PROVE  CacheAJour(onglets[a])'
    OBVIOUS
  <2>1. CacheAJour(Lue(onglets[a], v))
    BY <1>2, LueAJour
  <2> QED
    BY <1>1, <2>1 DEF CacheAJour
<1> QED
  BY <1>1, <1>2, <1>3, SansEcriture DEF LectureEnAttente

LEMMA CacheInchange ==
  ASSUME ReglagesInv, NEW a \in Operateurs, AutresOnglets(a), UNCHANGED <<reglages, cache>>,
         onglets[a].pc # "invalider", troublees \subseteq troublees'
  PROVE  \A s \in Sections \ troublees' : CacheTenu(s)'
BY DEF ReglagesInv, ReglageTenu, CacheTenu, AutresOnglets

-----------------------------------------------------------------------------
(* The write, which is the only step that changes a row.                    *)
LEMMA EcrireStable ==
  ASSUME ReglagesInv, ReglagesTypeInv', NEW a \in Operateurs, Ecrire(a)
  PROVE  ReglagesInv'
<1> DEFINE o == onglets[a]
           s == o.section
<1>1. /\ AutresOnglets(a) /\ UNCHANGED <<cache, journalises>> /\ o.pc = "ecrire" /\ s \in Sections
      /\ onglets'[a].pc = "invalider" /\ onglets'[a].section = s
      /\ onglets'[a].version = o.version /\ onglets'[a].avant = o.avant /\ onglets'[a].lu = o.lu
      /\ reglages'[s].version = o.avant.version + 1 /\ reglages'[s].secret = o.garde
      /\ \A t \in Sections : t # s => reglages'[t] = reglages[t]
  BY EffetEcrire DEF ReglagesInv
<1>2. /\ ecrasees' = IF reglages[s].version # o.version THEN ecrasees \cup {s} ELSE ecrasees
      /\ troublees' = IF \E b \in Operateurs \ {a} : TientUneLecture(b, s)
                      THEN troublees \cup {s} ELSE troublees
      /\ donnes' = IF o.secret # Aucun THEN [donnes EXCEPT ![s] = o.secret] ELSE donnes
  BY EffetEcrire DEF ReglagesInv
<1>3. troublees \subseteq troublees'
  BY <1>2
<1>4. /\ o.lu = Aucun /\ o.avant.version \in Nat /\ reglages[s].version \in Nat
      /\ s \notin troublees =>
           /\ CacheAJour(o) /\ o.avant = reglages[s] /\ o.version = reglages[s].version
           /\ reglages'[s].version = reglages[s].version + 1
  BY <1>1, Avant, ReglagesAssumption
     DEF Coherent, Lectures, CacheAJour, Section, ReglagesAssumption
<1>5. s \notin troublees' => \A b \in Operateurs : b # a /\ onglets[b].section = s =>
        onglets[b].lu = Aucun /\ onglets[b].pc \notin {"ecrire", "invalider"}
  BY <1>2 DEF TientUneLecture
<1> HIDE DEF o, s
<1>6. ASSUME NEW b \in Operateurs, onglets'[b].section \notin troublees'
      PROVE  CacheAJour(onglets[b])' /\ ATracer(onglets[b])'
  <2>1. CASE b = a
    <3>1. s \notin troublees
      BY <1>1, <1>3, <1>6, <2>1
    <3>2. CacheAJour(onglets[b])'
      BY <1>1, <1>4, <2>1, <3>1 DEF CacheAJour
    <3>3. \A d \in journalises : d.section = s => d.apres <= reglages[s].version /\ d.apres \in Nat
      BY <3>1 DEF ReglagesInv, JournalBorne, ReglagesTypeInv, ReglagesTypeOK
    <3>4. ATracer(onglets[b])'
      BY <1>1, <1>4, <2>1, <3>1, <3>3 DEF ATracer, LectureEnAttente
    <3> QED
      BY <3>2, <3>4
  <2>2. CASE b # a /\ onglets[b].section = s
    <3>1. /\ onglets'[b] = onglets[b] /\ s \notin troublees' /\ s \notin troublees
          /\ onglets[b].lu = Aucun /\ onglets[b].pc \notin {"ecrire", "invalider"}
      BY <1>1, <1>3, <1>5, <1>6, <2>2 DEF AutresOnglets
    <3>2. CacheAJour(onglets[b]) /\ ATracer(onglets[b]) /\ onglets[b].version \in Nat
          /\ onglets[b].avant.version \in Nat
      BY <2>2, <3>1, Avant, ReglagesAssumption DEF Section, ReglagesAssumption
    <3>3. CacheAJour(onglets[b])'
      BY <1>4, <2>2, <3>1, <3>2 DEF CacheAJour
    <3>4. ATracer(onglets[b])'
      BY <1>1, <1>4, <2>2, <3>1, <3>2 DEF ATracer, LectureEnAttente
    <3> QED
      BY <3>3, <3>4
  <2>3. CASE b # a /\ onglets[b].section # s
    <3>1. /\ onglets'[b] = onglets[b] /\ onglets[b].section \notin troublees
          /\ onglets[b].section \in Sections
      BY <1>1, <1>3, <1>6, <2>3, Avant DEF AutresOnglets
    <3>2. reglages'[onglets[b].section] = reglages[onglets[b].section]
      BY <1>1, <2>3, <3>1
    <3>3. CacheAJour(onglets[b]) /\ ATracer(onglets[b])
      BY <3>1, Avant
    <3> QED
      BY <1>1, <3>1, <3>2, <3>3 DEF CacheAJour, ATracer, LectureEnAttente
  <2> QED
    BY <2>1, <2>2, <2>3
<1>7. TracesDistinctes'
  <2> SUFFICES ASSUME NEW b \in Operateurs, NEW c \in Operateurs, b # c,
                      onglets'[b].section = onglets'[c].section,
                      onglets'[b].section \notin troublees',
                      LectureEnAttente(onglets'[b]), LectureEnAttente(onglets'[c])
               PROVE  onglets'[b].avant.version # onglets'[c].avant.version
    BY DEF TracesDistinctes, LectureEnAttente
  <2>1. ASSUME NEW x \in Operateurs, x # a, onglets[x].section = s, s \notin troublees',
               LectureEnAttente(onglets[x])
        PROVE  onglets[x].avant.version # o.avant.version
    <3>1. onglets[x].avant.version < reglages[s].version /\ o.avant.version = reglages[s].version
      BY <1>3, <1>4, <2>1, Avant DEF ATracer
    <3>2. onglets[x].avant.version \in Nat
      BY Avant, ReglagesAssumption DEF Section, ReglagesAssumption
    <3> QED
      BY <1>4, <3>1, <3>2
  <2>2. CASE b # a /\ c # a
    BY <1>1, <1>3, <2>2 DEF AutresOnglets, ReglagesInv, TracesDistinctes
  <2>3. CASE b = a
    BY <1>1, <2>1, <2>3 DEF AutresOnglets
  <2>4. CASE c = a
    BY <1>1, <2>1, <2>4 DEF AutresOnglets
  <2> QED
    BY <2>2, <2>3, <2>4
<1>8. JournalBorne'
  <2> SUFFICES ASSUME NEW d \in journalises, d.section \notin troublees'
               PROVE  d.apres <= reglages'[d.section].version
    BY <1>1 DEF JournalBorne
  <2>1. /\ d.section \in Sections /\ d.apres \in Nat /\ d.section \notin troublees
        /\ d.apres <= reglages[d.section].version
    BY <1>3 DEF ReglagesInv, ReglagesTypeInv, ReglagesTypeOK, JournalBorne
  <2>2. CASE d.section = s
    BY <1>4, <2>1, <2>2
  <2>3. CASE d.section # s
    BY <1>1, <2>1, <2>3
  <2> QED
    BY <2>2, <2>3
<1>9. ReglageTenu'
  <2> SUFFICES ASSUME NEW t \in Sections \ troublees'
               PROVE  /\ t \notin ecrasees' /\ CacheTenu(t)' /\ reglages'[t].secret = donnes'[t]
                      /\ \A d, e \in journalises' :
                           d.section = t /\ e.section = t /\ d.apres = e.apres => d = e
    BY DEF ReglageTenu, CacheTenu
  <2>1. /\ t \notin troublees /\ t \notin ecrasees /\ CacheTenu(t)
        /\ reglages[t].secret = donnes[t]
        /\ \A d, e \in journalises : d.section = t /\ e.section = t /\ d.apres = e.apres => d = e
    BY <1>3 DEF ReglagesInv, ReglageTenu, CacheTenu
  <2>2. CASE t = s
    <3>1. s \notin ecrasees'
      BY <1>2, <1>4, <2>1, <2>2
    <3>2. CacheTenu(t)'
      BY <1>1, <2>2 DEF CacheTenu
    <3>3. reglages'[s].secret = donnes'[s]
      <4>1. CASE o.secret # Aucun
        <5>1. o.garde = o.secret
          BY <1>1, <1>4, <2>1, <2>2, <4>1 DEF CacheAJour
        <5>2. donnes'[s] = o.secret
          BY <1>1, <1>2, <4>1 DEF ReglagesInv, ReglagesTypeInv, ReglagesTypeOK
        <5> QED
          BY <1>1, <5>1, <5>2
      <4>2. CASE o.secret = Aucun
        <5>1. o.garde = reglages[s].secret
          BY <1>1, <1>4, <2>1, <2>2, <4>2 DEF CacheAJour, s
        <5> QED
          BY <1>1, <1>2, <2>1, <2>2, <4>2, <5>1
      <4> QED
        BY <4>1, <4>2
    <3> QED
      BY <1>1, <2>1, <2>2, <3>1, <3>2, <3>3
  <2>3. CASE t # s
    <3>1. t \notin ecrasees' /\ reglages'[t] = reglages[t]
      BY <1>1, <1>2, <2>1, <2>3
    <3>2. donnes'[t] = donnes[t]
      BY <1>2, <2>3 DEF ReglagesInv, ReglagesTypeInv, ReglagesTypeOK
    <3>3. CacheTenu(t)'
      BY <1>1, <2>1, <2>3, <3>1 DEF CacheTenu, AutresOnglets, o
    <3> QED
      BY <1>1, <2>1, <3>1, <3>2, <3>3
  <2> QED
    BY <2>2, <2>3
<1> QED
  BY <1>6, <1>7, <1>8, <1>9 DEF ReglagesInv, OngletsTenus

(* The entry of the journal, for a version that had none.                   *)
LEMMA TracerStable ==
  ASSUME ReglagesInv, ReglagesTypeInv', NEW a \in Operateurs, Tracer(a)
  PROVE  ReglagesInv'
<1> DEFINE s == onglets[a].section
           n == onglets[a].avant.version
<1>1. /\ AutresOnglets(a) /\ UNCHANGED <<reglages, cache, troublees, ecrasees, donnes>>
      /\ onglets[a].pc = "tracer" /\ onglets'[a].pc = "lire"
      /\ onglets'[a].section = s /\ onglets'[a].version = onglets[a].version
      /\ onglets'[a].lu = Aucun
  BY EffetTracer DEF ReglagesInv
<1>2. PICK remplace \in BOOLEAN :
        journalises' = journalises \cup
          {[section |-> s, avant |-> n, apres |-> n + 1, remplace |-> remplace]}
  BY EffetTracer DEF ReglagesInv
<1> DEFINE e == [section |-> s, avant |-> n, apres |-> n + 1, remplace |-> remplace]
<1>3. e.section = s /\ e.apres = n + 1 /\ n \in Nat /\ s \in Sections
  BY Avant, ReglagesAssumption DEF Section, ReglagesAssumption
<1>4. s \notin troublees =>
        /\ n < reglages[s].version /\ reglages[s].version \in Nat
        /\ \A d \in journalises : d.section = s => d.apres # n + 1
  BY <1>1, Avant DEF ATracer, LectureEnAttente
<1>5. journalises' = journalises \cup {e}
  BY <1>2
<1> HIDE DEF e, s, n
<1>6. ASSUME NEW b \in Operateurs, onglets'[b].section \notin troublees'
      PROVE  CacheAJour(onglets[b])' /\ ATracer(onglets[b])'
  <2>1. CASE b = a
    <3>1. s \notin troublees
      BY <1>1, <1>6, <2>1
    <3>2. CacheAJour(onglets[a])
      BY <3>1, Avant DEF s
    <3> QED
      BY <1>1, <2>1, <3>1, <3>2 DEF CacheAJour, ATracer, LectureEnAttente, s
  <2>2. CASE b # a
    <3>1. onglets'[b] = onglets[b] /\ onglets[b].section \notin troublees
      BY <1>1, <1>6, <2>2 DEF AutresOnglets
    <3>2. CacheAJour(onglets[b]) /\ ATracer(onglets[b]) /\ onglets[b].avant.version \in Nat
      BY <3>1, Avant, ReglagesAssumption DEF Section, ReglagesAssumption
    <3>3. LectureEnAttente(onglets[b]) /\ onglets[b].section = s => onglets[b].avant.version # n
      BY <1>1, <2>2, <3>1 DEF ReglagesInv, TracesDistinctes, LectureEnAttente, s, n
    <3>4. LectureEnAttente(onglets[b]) /\ onglets[b].section = e.section =>
            e.apres # onglets[b].avant.version + 1
      BY <1>3, <3>2, <3>3
    <3>5. CacheAJour(onglets[b])'
      BY <1>1, <3>1, <3>2 DEF CacheAJour
    <3> QED
      BY <1>1, <1>5, <3>1, <3>2, <3>4, <3>5 DEF ATracer, LectureEnAttente
  <2> QED
    BY <2>1, <2>2
<1>7. TracesDistinctes'
  BY <1>1 DEF ReglagesInv, TracesDistinctes, LectureEnAttente, AutresOnglets
<1>8. JournalBorne'
  <2> SUFFICES ASSUME NEW d \in journalises \cup {e}, d.section \notin troublees
               PROVE  d.apres <= reglages[d.section].version
    BY <1>1, <1>5 DEF JournalBorne
  <2>1. CASE d = e
    BY <1>3, <1>4, <2>1
  <2>2. CASE d \in journalises
    BY <2>2 DEF ReglagesInv, JournalBorne
  <2> QED
    BY <2>1, <2>2
<1>9. ReglageTenu'
  <2> SUFFICES ASSUME NEW t \in Sections \ troublees
               PROVE  /\ t \notin ecrasees /\ CacheTenu(t)' /\ reglages[t].secret = donnes[t]
                      /\ \A d, f \in journalises \cup {e} :
                           d.section = t /\ f.section = t /\ d.apres = f.apres => d = f
    BY <1>1, <1>5 DEF ReglageTenu, CacheTenu
  <2>1. /\ t \notin ecrasees /\ CacheTenu(t) /\ reglages[t].secret = donnes[t]
        /\ \A d, f \in journalises : d.section = t /\ f.section = t /\ d.apres = f.apres => d = f
    BY DEF ReglagesInv, ReglageTenu, CacheTenu
  <2>2. CacheTenu(t)'
    BY <1>1, <2>1 DEF CacheTenu, AutresOnglets
  <2>3. t = s => \A d \in journalises : d.section = t => d.apres # e.apres
    BY <1>3, <1>4
  <2> QED
    BY <1>3, <2>1, <2>2, <2>3
<1> QED
  BY <1>6, <1>7, <1>8, <1>9 DEF ReglagesInv, OngletsTenus

-----------------------------------------------------------------------------
LEMMA ReglagesStable ==
  ASSUME ReglagesInv, ReglagesTypeInv', [ReglagesNext]_reglagesVars
  PROVE  ReglagesInv'
<1>1. ASSUME NEW a \in Operateurs, LireDuCache(a)
      PROVE  ReglagesInv'
  <2> DEFINE s == onglets[a].section
             v == cache[s]
  <2>1. s \in Sections /\ v \in Section /\ onglets[a].pc \in Lectures
    BY <1>1, Avant DEF LireDuCache, ReglagesInv, ReglagesTypeInv, ReglagesTypeOK
  <2>2. /\ onglets' = [onglets EXCEPT ![a] = Lue(onglets[a], v)]
        /\ UNCHANGED <<reglages, cache, journalises, ecrasees, donnes>>
        /\ troublees' = IF EnInvalidation(a) THEN troublees \cup {s} ELSE troublees
        /\ v # Aucun
    BY <1>1 DEF LireDuCache
  <2>3. s \notin troublees' => v = reglages[s]
    <3> SUFFICES ASSUME s \notin troublees'
                 PROVE  v = reglages[s]
      OBVIOUS
    <3>1. ~EnInvalidation(a) /\ CacheTenu(s)
      BY <2>2, Avant
    <3> QED
      BY <2>1, <2>2, <3>1 DEF CacheTenu, EnInvalidation, Lectures
  <2> HIDE DEF v
  <2>4. AutresOnglets(a) /\ troublees \subseteq troublees'
    BY <2>1, <2>2, EffetLecture DEF ReglagesInv
  <2>5. \A t \in Sections \ troublees' : CacheTenu(t)'
    BY <2>1, <2>2, <2>4, CacheInchange DEF Lectures
  <2> QED
    BY <2>1, <2>2, <2>3, <2>4, <2>5, LectureStable
<1>2. ASSUME NEW a \in Operateurs, LireEnBase(a)
      PROVE  ReglagesInv'
  <2>1. \A t \in Sections \ troublees' : CacheTenu(t)'
    BY <1>2, EffetLireEnBase, CacheInchange DEF ReglagesInv, Lectures
  <2>2. onglets'[a].section \notin troublees' => CacheAJour(onglets[a])'
    <3>1. /\ onglets'[a].pc = onglets[a].pc /\ onglets[a].pc \in Lectures
          /\ onglets'[a].section = onglets[a].section /\ onglets'[a].version = onglets[a].version
          /\ onglets'[a].secret = onglets[a].secret /\ onglets'[a].garde = onglets[a].garde
          /\ onglets'[a].lu = reglages[onglets[a].section] /\ UNCHANGED <<reglages, troublees>>
      BY <1>2, EffetLireEnBase DEF ReglagesInv
    <3>2. onglets[a].section \notin troublees => CacheAJour(onglets[a])
      BY Avant
    <3> QED
      BY <3>1, <3>2 DEF CacheAJour, Lectures
  <2> QED
    BY <1>2, <2>1, <2>2, EffetLireEnBase, SansEcriture DEF ReglagesInv, LectureEnAttente, Lectures
<1>3. ASSUME NEW a \in Operateurs, MettreEnCache(a)
      PROVE  ReglagesInv'
  <2> DEFINE s == onglets[a].section
             v == onglets[a].lu
  <2>1. s \in Sections /\ v \in Section /\ onglets[a].pc \in Lectures
    BY <1>3, Avant DEF MettreEnCache, Coherent, Onglet
  <2>2. /\ onglets' = [onglets EXCEPT ![a] = Lue(onglets[a], v)]
        /\ cache' = [cache EXCEPT ![s] = v] /\ v # Aucun
        /\ UNCHANGED <<reglages, journalises, troublees, ecrasees, donnes>>
    BY <1>3 DEF MettreEnCache
  <2>3. s \notin troublees => v = reglages[s]
    BY <2>2, Avant DEF CacheAJour
  <2> HIDE DEF v
  <2>4. AutresOnglets(a)
    BY <2>1, <2>2, EffetLecture DEF ReglagesInv
  <2>5. ASSUME NEW t \in Sections \ troublees'
        PROVE  CacheTenu(t)'
    <3>1. t \notin troublees /\ CacheTenu(t)
      BY <2>2 DEF ReglagesInv, ReglageTenu, CacheTenu
    <3>2. cache'[t] = IF t = s THEN v ELSE cache[t]
      BY <2>1, <2>2 DEF ReglagesInv, ReglagesTypeInv, ReglagesTypeOK
    <3>3. CASE t = s
      BY <2>2, <2>3, <3>1, <3>2, <3>3 DEF CacheTenu
    <3>4. CASE t # s
      BY <2>1, <2>2, <2>4, <3>1, <3>2, <3>4 DEF CacheTenu, AutresOnglets, Lectures
    <3> QED
      BY <3>3, <3>4
  <2> QED
    BY <2>1, <2>2, <2>3, <2>5, LectureStable
<1>4. ASSUME NEW a \in Operateurs, NEW s \in Sections, Ouvrir(a, s)
      PROVE  ReglagesInv'
  <2>1. \A t \in Sections \ troublees' : CacheTenu(t)'
    BY <1>4, EffetOuvrir, CacheInchange DEF ReglagesInv
  <2>2. onglets'[a].section \in Sections => reglages'[onglets'[a].section].version \in Nat
    BY <1>4, EffetOuvrir, ReglagesAssumption
       DEF ReglagesInv, ReglagesTypeInv, ReglagesTypeOK, Section, ReglagesAssumption
  <2>3. onglets'[a].section \in Sections
    BY <1>4, EffetOuvrir DEF ReglagesInv, AutresOnglets, Onglet
  <2>4. CacheAJour(onglets[a])'
    BY <1>4, <2>2, <2>3, EffetOuvrir DEF ReglagesInv, CacheAJour
  <2> QED
    BY <1>4, <2>1, <2>4, EffetOuvrir, SansEcriture DEF ReglagesInv, LectureEnAttente
<1>5. ASSUME NEW a \in Operateurs, NEW c \in Contenus, NEW k \in Secrets \cup {Aucun},
             DefinirSection(a, c, k)
      PROVE  ReglagesInv'
  <2>1. \A t \in Sections \ troublees' : CacheTenu(t)'
    BY <1>5, EffetDefinir, CacheInchange DEF ReglagesInv
  <2>2. /\ onglets[a].section \notin Secretes => reglages[onglets[a].section].secret = Aucun
        /\ onglets[a].secret = Aucun /\ onglets[a].garde = Aucun /\ onglets[a].lu = Aucun
    BY <1>5, EffetDefinir, Avant DEF ReglagesInv, ReglagesTypeInv, Coherent, Lectures
  <2>3. onglets'[a].section \notin troublees' => CacheAJour(onglets[a])'
    BY <1>5, <2>2, EffetDefinir, Avant DEF ReglagesInv, CacheAJour
  <2> QED
    BY <1>5, <2>1, <2>3, EffetDefinir, SansEcriture DEF ReglagesInv, LectureEnAttente
<1>6. ASSUME NEW a \in Operateurs, Valider(a)
      PROVE  ReglagesInv'
  <2>1. \A t \in Sections \ troublees' : CacheTenu(t)'
    BY <1>6, EffetValider, CacheInchange DEF ReglagesInv
  <2>2. onglets'[a].section \notin troublees' => CacheAJour(onglets[a])'
    BY <1>6, EffetValider, Avant DEF ReglagesInv, CacheAJour
  <2> QED
    BY <1>6, <2>1, <2>2, EffetValider, SansEcriture DEF ReglagesInv, LectureEnAttente
<1>7. ASSUME NEW a \in Operateurs, Invalider(a)
      PROVE  ReglagesInv'
  <2>1. ASSUME NEW t \in Sections \ troublees'
        PROVE  CacheTenu(t)'
    <3>1. CacheTenu(t)
      BY <1>7, EffetInvalider DEF ReglagesInv, ReglageTenu, CacheTenu
    <3>2. cache'[t] = IF t = onglets[a].section THEN Aucun ELSE cache[t]
      BY <1>7, EffetInvalider DEF ReglagesInv, ReglagesTypeInv, ReglagesTypeOK
    <3> QED
      BY <1>7, <3>1, <3>2, EffetInvalider DEF ReglagesInv, CacheTenu, AutresOnglets
  <2>2. onglets'[a].section \notin troublees' => CacheAJour(onglets[a])'
    BY <1>7, EffetInvalider, Avant DEF ReglagesInv, CacheAJour
  <2> QED
    BY <1>7, <2>1, <2>2, EffetInvalider, SansEcriture DEF ReglagesInv, LectureEnAttente
<1>8. ASSUME NEW a \in Operateurs, RequeteRompue(a)
      PROVE  ReglagesInv'
  <2>1. /\ onglets' = [onglets EXCEPT ![a] = AuRepos(onglets[a])]
        /\ UNCHANGED <<reglages, cache, journalises, ecrasees, donnes>>
        /\ troublees' = IF onglets[a].pc = "invalider" THEN troublees \cup {onglets[a].section}
                        ELSE troublees
    BY <1>8 DEF RequeteRompue
  <2>2. /\ AutresOnglets(a) /\ onglets'[a].section = onglets[a].section
        /\ onglets'[a].version = onglets[a].version /\ onglets'[a].pc \in {"ferme", "repos"}
        /\ onglets'[a].lu = Aucun
    BY <2>1, EffetRompue DEF ReglagesInv
  <2>3. ASSUME NEW t \in Sections \ troublees'
        PROVE  CacheTenu(t)'
    <3>1. CacheTenu(t) /\ (onglets[a].pc = "invalider" => t # onglets[a].section)
      BY <2>1 DEF ReglagesInv, ReglageTenu, CacheTenu
    <3> QED
      BY <2>1, <2>2, <3>1 DEF CacheTenu, AutresOnglets
  <2>4. onglets'[a].section \notin troublees' => CacheAJour(onglets[a])'
    BY <2>1, <2>2, Avant DEF CacheAJour
  <2>5. troublees \subseteq troublees'
    BY <2>1
  <2> QED
    BY <2>1, <2>2, <2>3, <2>4, <2>5, SansEcriture DEF LectureEnAttente
<1>9. CASE Redemarrer
  <2>1. /\ UNCHANGED <<reglages, journalises, troublees, ecrasees, donnes>>
        /\ \A s \in Sections : cache'[s] = Aucun
        /\ \A a \in Operateurs : onglets'[a] = AuRepos(onglets[a])
    BY <1>9 DEF Redemarrer
  <2>2. ASSUME NEW a \in Operateurs
        PROVE  /\ onglets'[a].pc \in {"ferme", "repos"} /\ onglets'[a].section = onglets[a].section
               /\ onglets'[a].version = onglets[a].version /\ onglets'[a].lu = Aucun
    BY <2>1, Avant, AuReposType
  <2>3. OngletsTenus'
    BY <2>1, <2>2, Avant DEF OngletsTenus, CacheAJour, ATracer, LectureEnAttente
  <2>4. TracesDistinctes' /\ JournalBorne' /\ ReglageTenu'
    BY <2>1, <2>2 DEF ReglagesInv, TracesDistinctes, LectureEnAttente, JournalBorne, ReglageTenu
  <2> QED
    BY <2>3, <2>4 DEF ReglagesInv
<1>10. CASE UNCHANGED reglagesVars
  BY <1>10 DEF reglagesVars, ReglagesInv, OngletsTenus, CacheAJour, ATracer, TracesDistinctes,
               LectureEnAttente, JournalBorne, ReglageTenu
<1> QED
  BY <1>1, <1>2, <1>3, <1>4, <1>5, <1>6, <1>7, <1>8, <1>9, <1>10, EcrireStable, TracerStable
     DEF ReglagesNext

LEMMA ReglagesInvariant == ReglagesSpec => []ReglagesInv
<1>1. ReglagesInit => ReglagesInv
  <2> SUFFICES ASSUME ReglagesInit
               PROVE  ReglagesInv
    OBVIOUS
  <2>1. \A a \in Operateurs :
          onglets[a].pc = "ferme" /\ onglets[a].version = 0 /\ onglets[a].lu = Aucun
    BY DEF ReglagesInit
  <2>2. \A a \in Operateurs : reglages[onglets[a].section].version = 0
    BY ReglagesInitial, JamaisType DEF ReglagesInit, ReglagesTypeInv, ReglagesTypeOK, Onglet
  <2>3. OngletsTenus /\ TracesDistinctes
    BY <2>1, <2>2 DEF OngletsTenus, CacheAJour, ATracer, LectureEnAttente, TracesDistinctes
  <2>4. JournalBorne /\ ReglageTenu
    BY JamaisType DEF ReglagesInit, JournalBorne, ReglageTenu
  <2> QED
    BY <2>3, <2>4, ReglagesInitial DEF ReglagesInv
<1>2. ReglagesInv /\ [ReglagesNext]_reglagesVars => ReglagesInv'
  BY ReglagesTypeStable, ReglagesStable DEF ReglagesInv
<1> QED
  BY <1>1, <1>2, PTL DEF ReglagesSpec

-----------------------------------------------------------------------------
(* Every state of the settings is well typed (instance-settings.service.ts, *)
(* AnnuaireService.definir).                                                *)
THEOREM ReglagesType == ReglagesSpec => []ReglagesTypeOK
<1>1. ReglagesInv => ReglagesTypeOK
  BY DEF ReglagesInv, ReglagesTypeInv
<1> QED
  BY <1>1, ReglagesInvariant, PTL

(* As long as no write met another request half-way, no setting is lost,    *)
(* the cache tells the row, the secret in place is the one given last and   *)
(* each version is journalised once, for any number of administrators and   *)
(* requests (instance-settings.service.ts:31-36, 68-73,                     *)
(* annuaire.service.ts:143-157).                                            *)
THEOREM Reglage == ReglagesSpec => []ReglageTenu
<1>1. ReglagesInv => ReglageTenu
  BY DEF ReglagesInv
<1> QED
  BY <1>1, ReglagesInvariant, PTL
=============================================================================
