------------------------------ MODULE Limiteur ------------------------------
(***************************************************************************)
(* LimitationConnexion: the wrong passwords of each address within a        *)
(* sliding window, in the memory of the process, and the guard that refuses *)
(* an address with too many of them.  The guard looks before the password   *)
(* is verified and the failure is counted after, so several logins of one   *)
(* address may be under way past the guard.  A change of password with a    *)
(* wrong current one counts as well, and no guard is on its route; the      *)
(* refresh of a session passes the guard and counts nothing, as a login     *)
(* that succeeds.                                                           *)
(***************************************************************************)
EXTENDS Naturals, Sequences, FiniteSets
Ordre == INSTANCE SequencesExt

CONSTANTS
  Adresses,     \* IP addresses
  Essais,       \* logins under way at once (bound)
  Max,          \* AUTH_RATE_MAX
  Fenetre,      \* AUTH_RATE_WINDOW_SEC
  MaxAdresses,  \* AUTH_RATE_MAX_ADRESSES
  HeureMax,     \* bound on the time
  MaxLibres,    \* bound on the refused changes of password of an episode
  Aucune        \* no address

ASSUME LimiteurAssumption ==
  /\ Max \in Nat \ {0} /\ Fenetre \in Nat \ {0} /\ MaxAdresses \in Nat \ {0}
  /\ HeureMax \in Nat /\ MaxLibres \in Nat
  /\ IsFiniteSet(Essais)
  /\ Aucune \notin Adresses

VARIABLES
  heure,      \* the clock of the service
  echecs,     \* the times of the failures kept for each address
  recence,    \* the addresses of the map, the least recently looked at first
  signalees,  \* the addresses whose blocking is in the journal
  essais,     \* the address of each login under way
  blocages,   \* history: the LOGIN events of the guard, with what they counted
  oubliees,   \* history: addresses forgotten while more than MaxAdresses failed
  libres      \* history: failures no guard let through, since the map last had none

limiteurVars == <<heure, echecs, recence, signalees, essais, blocages, oubliees, libres>>

LimiteurTypeOK ==
  /\ heure \in 0..HeureMax
  /\ echecs \in [Adresses -> Seq(0..HeureMax)]
  /\ recence \in Seq(Adresses)
  /\ signalees \subseteq Adresses
  /\ essais \in [Essais -> Adresses \cup {Aucune}]
  /\ blocages \subseteq [ip : Adresses, premier : 0..HeureMax, dernier : 0..HeureMax]
  /\ oubliees \subseteq Adresses
  /\ libres \in [Adresses -> 0..MaxLibres]

LimiteurInit ==
  /\ heure = 0
  /\ echecs = [ip \in Adresses |-> <<>>]
  /\ recence = <<>> /\ signalees = {}
  /\ essais = [e \in Essais |-> Aucune]
  /\ blocages = {} /\ oubliees = {}
  /\ libres = [ip \in Adresses |-> 0]

-----------------------------------------------------------------------------
(* filter: the times of a sequence that are still in the window at h.       *)
DansFenetre(s, h) ==
  LET g[n \in 0..Len(s)] ==
        IF n = 0 THEN <<>>
        ELSE IF s[n] + Fenetre > h THEN Append(g[n - 1], s[n]) ELSE g[n - 1]
  IN  g[Len(s)]

(* recents: what is still in the window; an address that is looked at       *)
(* becomes the most recent, one with nothing left leaves the map.           *)
Recents(ip) == DansFenetre(echecs[ip], heure)
Sauf(ip) == Ordre!RemoveFirst(recence, ip)

(* Mutant: a success gives the address a clean slate.                       *)
MutantReussirEfface(e) ==
  LET ip == essais[e] IN
  /\ ip # Aucune
  /\ essais' = [essais EXCEPT ![e] = Aucune]
  /\ echecs' = [echecs EXCEPT ![ip] = <<>>]
  /\ recence' = Sauf(ip)
  /\ signalees' = signalees \ {ip}
  /\ UNCHANGED <<heure, blocages, oubliees, libres>>

Tic ==
  /\ heure < HeureMax
  /\ heure' = heure + 1
  /\ UNCHANGED <<echecs, recence, signalees, essais, blocages, oubliees, libres>>

(* verifier, as the guard of a login calls it: let through or refused, and  *)
(* the first refusal of an episode is journalised.                          *)
Verifier(e, ip) ==
  LET gardes == Recents(ip) IN
  /\ essais[e] = Aucune
  /\ echecs' = [echecs EXCEPT ![ip] = gardes]
  /\ recence' = IF gardes = <<>> THEN Sauf(ip) ELSE Append(Sauf(ip), ip)
  /\ \/ /\ Len(gardes) < Max
        /\ essais' = [essais EXCEPT ![e] = ip]
        /\ signalees' = IF gardes = <<>> THEN signalees \ {ip} ELSE signalees
        /\ UNCHANGED blocages
     \/ /\ Len(gardes) >= Max
        /\ signalees' = signalees \cup {ip}
        /\ blocages' = IF ip \in signalees THEN blocages ELSE
             blocages \cup {[ip |-> ip, premier |-> Head(gardes), dernier |-> gardes[Len(gardes)]]}
        /\ UNCHANGED essais
  /\ libres' = IF gardes = <<>> THEN [libres EXCEPT ![ip] = 0] ELSE libres
  /\ UNCHANGED <<heure, oubliees>>

(* signalerEchec, then oublierLesPlusAnciennes: one address at most is      *)
(* above the limit, and it is the least recent.  "libre" is 1 for a failure *)
(* that no guard let through.                                               *)
CompterEchec(ip, libre) ==
  LET ordre == Append(Sauf(ip), ip)
      oubliee == IF Len(ordre) > MaxAdresses THEN {Head(ordre)} ELSE {}
  IN
  /\ echecs' = [a \in Adresses |->
       IF a \in oubliee THEN <<>> ELSE IF a = ip THEN Append(Recents(ip), heure) ELSE echecs[a]]
  /\ recence' = IF oubliee = {} THEN ordre ELSE Tail(ordre)
  /\ signalees' = (IF Recents(ip) = <<>> THEN signalees \ {ip} ELSE signalees) \ oubliee
  /\ oubliees' = oubliees \cup oubliee
  /\ libres' = [a \in Adresses |->
       IF a \in oubliee THEN 0
       ELSE IF a = ip THEN (IF Recents(ip) = <<>> THEN 0 ELSE libres[ip]) + libre
       ELSE libres[a]]

SignalerEchec(e) ==
  /\ essais[e] # Aucune
  /\ essais' = [essais EXCEPT ![e] = Aucune]
  /\ CompterEchec(essais[e], 0)
  /\ UNCHANGED <<heure, blocages>>

(* changerMotDePasse: the current password is wrong.                        *)
ChangerRefuse(ip) ==
  /\ libres[ip] < MaxLibres
  /\ CompterEchec(ip, 1)
  /\ UNCHANGED <<heure, essais, blocages>>

(* A login that succeeds clears nothing.                                    *)
Reussir(e) ==
  /\ essais[e] # Aucune
  /\ essais' = [essais EXCEPT ![e] = Aucune]
  /\ UNCHANGED <<heure, echecs, recence, signalees, blocages, oubliees, libres>>

LimiteurNext ==
  \/ Tic
  \/ \E ip \in Adresses : ChangerRefuse(ip)
  \/ \E e \in Essais :
       (\E ip \in Adresses : Verifier(e, ip)) \/ SignalerEchec(e) \/ Reussir(e)

LimiteurSpec == LimiteurInit /\ [][LimiteurNext]_limiteurVars

-----------------------------------------------------------------------------
(* However many logins of an address are past the guard at once, its        *)
(* failures in the window exceed the limit by those under way at most, and  *)
(* by the changes of password refused, which no guard holds back            *)
(* (auth.service.ts:313-316); the journal never counts one failure in two   *)
(* entries, so that an address cannot swell it at will, nor, unless it was  *)
(* forgotten, has two entries less than a window apart; and the memory      *)
(* stays within its bound (limitation-connexion.service.ts:75-80, 104-109). *)
LimitationTenue ==
  /\ \A ip \in Adresses :
       Len(Recents(ip)) + Cardinality({e \in Essais : essais[e] = ip})
         < Max + Cardinality(Essais) + libres[ip]
  /\ \A b, c \in blocages :
       b.ip = c.ip /\ b # c => b.dernier <= c.premier \/ c.dernier <= b.premier
  /\ \A b, c \in blocages :
       b.ip = c.ip /\ b # c /\ b.ip \notin oubliees =>
         b.dernier + Fenetre <= c.premier \/ c.dernier + Fenetre <= b.premier
  /\ Len(recence) <= MaxAdresses
  /\ \A ip \in Adresses : echecs[ip] # <<>> <=> \E i \in DOMAIN recence : recence[i] = ip
=============================================================================
