------------------------------- MODULE Ecoute -------------------------------
(***************************************************************************)
(* Those who read the vault: the listener, who obtains a ticket and then    *)
(* asks for the audio range by range, and the export of a call.  Both read  *)
(* the row first and the file later, and trust what the row said of the     *)
(* file; the writers of module Coffre work in between.                      *)
(***************************************************************************)
EXTENDS Coffre, Plages

CONSTANTS
  Octets,       \* sizeBytes of each call
  TailleTrame   \* clear bytes of a frame

ASSUME EcouteAssumption ==
  /\ Octets \in [Pieces -> Nat]
  /\ TailleTrame \in Nat \ {0}

VARIABLES
  billets,     \* the calls a ticket was issued for
  journal,     \* the acts of reading in the audit journal, or lost by it
  lecture      \* the locals of the request at work

ecouteVars == <<billets, journal, lecture>>

Actes == {"LISTEN", "EXPORT"}

(* What a reader received: intervals of clear bytes, bytes of a container   *)
(* taken for audio, or nothing.                                             *)
Recu(forme, son, tranches) == [forme |-> forme, son |-> son, tranches |-> tranches]
RienRecu == Recu("rien", Nul, Rien)

PasLecture ==
  {"repos", "tracer", "mesurer", "servir", "servi", "lireEntier", "tracerExport", "exporte"}

Lecture(pc, p, l) ==
  [pc |-> pc, piece |-> p, vu |-> l, entete |-> SansPlage, taille |-> 0,
   recu |-> RienRecu, integrite |-> Nul]
AucuneLecture == Lecture("repos", Nul, PasDeLigne)

EcouteTypeOK ==
  /\ billets \subseteq Pieces
  /\ journal \subseteq (Actes \X Pieces)
  /\ lecture.pc \in PasLecture
  /\ lecture.piece \in Pieces \cup {Nul}
  /\ lecture.vu \in Ligne
  /\ lecture.taille \in Nat
  /\ lecture.recu.forme \in {"rien", "clair", "conteneur"}
  /\ lecture.integrite \in {Nul, "concordante", "divergente"}

EcouteInit ==
  /\ billets = {}
  /\ journal = {}
  /\ lecture = AucuneLecture

TailleFichier(p) ==
  IF disque[p].sceau = "aucun" THEN Octets[p] ELSE TailleConteneur(Octets[p], TailleTrame)

(* An unknown or purged call is answered by 404 or 410.                     *)
Lisible(p) == lignes[p].statut = "stored"

-----------------------------------------------------------------------------
(* RecordingsService.ouvrirEcoute: the row, then the LISTEN event, then the *)
(* ticket.  The event is written at best; "journal" also holds the lost     *)
(* ones, which the log of the service reports.                              *)

OuvrirEcoute(p) ==
  /\ lecture.pc = "repos" /\ Lisible(p)
  /\ lecture' = Lecture("tracer", p, lignes[p])
  /\ UNCHANGED <<billets, journal>>

TracerEcoute ==
  /\ lecture.pc = "tracer"
  /\ journal' = journal \cup {<<"LISTEN", lecture.piece>>}
  /\ billets' = billets \cup {lecture.piece}
  /\ lecture' = AucuneLecture

(* ListenTicketService.verify: the ticket b presented for the call p.       *)
BilletVaut(b, p) == b \in billets /\ b = p

(* RecordingsController.audio, then ouvrirFlux: the row is read again.      *)
DemanderAudio(b, p, e) ==
  /\ lecture.pc = "repos"
  /\ BilletVaut(b, p) /\ Lisible(p)
  /\ lecture' = [Lecture("mesurer", p, lignes[p]) EXCEPT !.entete = e]
  /\ UNCHANGED <<billets, journal>>

(* Mutant: the size served is that of the file.                             *)
MutantTailleDuFichier ==
  /\ lecture.pc = "mesurer"
  /\ lecture' =
       IF disque[lecture.piece] = Nul THEN AucuneLecture
       ELSE [lecture EXCEPT !.pc = "servir", !.taille = TailleFichier(lecture.piece)]
  /\ UNCHANGED <<billets, journal>>

(* stat: a missing file is a 404; the size served is that of the clear text. *)
Mesurer ==
  /\ lecture.pc = "mesurer"
  /\ lecture' =
       IF disque[lecture.piece] = Nul THEN AucuneLecture
       ELSE [lecture EXCEPT
               !.pc = "servir",
               !.taille = IF lecture.vu.chiffre THEN Octets[lecture.piece]
                          ELSE TailleFichier(lecture.piece)]
  /\ UNCHANGED <<billets, journal>>

(* StorageService.fluxPartiel on the file as it is now.  A row that says    *)
(* sealed and a file that does not open make the stream fail.               *)
Flux(p, chiffre, d, f) ==
  LET fichier == disque[p] IN
  CASE fichier = Nul -> RienRecu
    [] fichier # Nul /\ ~chiffre /\ fichier.sceau = "aucun" ->
         Recu("clair", fichier.son, FluxBrut(d, f, Octets[p]))
    [] fichier # Nul /\ ~chiffre /\ fichier.sceau # "aucun" -> Recu("conteneur", Nul, Rien)
    [] fichier # Nul /\ chiffre /\ fichier.sceau = "ouvrable" /\ fichier.cle = CleApi ->
         Recu("clair", fichier.son, Trames(d, f, Octets[p], TailleTrame))
    [] OTHER -> RienRecu

(* The whole of the audio when the header asks for no range.                *)
Demande == AnalyserRange(lecture.entete, lecture.taille)
PremierOctet == Demande.debut
DernierOctet ==
  IF Demande.type = "complet" THEN PlusGrand(0, lecture.taille - 1) ELSE Demande.fin

Servir ==
  /\ lecture.pc = "servir"
  /\ lecture' =
       [lecture EXCEPT
          !.pc = "servi",
          !.recu = IF Demande.type = "insatisfiable" \/ lecture.taille = 0 THEN RienRecu
                   ELSE Flux(lecture.piece, lecture.vu.chiffre, PremierOctet, DernierOctet)]
  /\ UNCHANGED <<billets, journal>>

-----------------------------------------------------------------------------
(* ExportService.exporter: the row, the whole of the file, its fingerprint  *)
(* compared with that of the row, the EXPORT event, and the archive.        *)

Exporter(p) ==
  /\ lecture.pc = "repos" /\ Lisible(p)
  /\ lecture' = Lecture("lireEntier", p, lignes[p])
  /\ UNCHANGED <<billets, journal>>

(* Mutant: the export reads the file as it is on the disk.                  *)
MutantEntierBrut(p, chiffre) ==
  LET fichier == disque[p] IN
  CASE fichier = Nul -> RienRecu
    [] fichier # Nul /\ fichier.sceau = "aucun" -> Recu("clair", fichier.son, Rien)
    [] fichier # Nul /\ fichier.sceau # "aucun" -> Recu("conteneur", Nul, Rien)

(* StorageService.lireEntier.                                               *)
Entier(p, chiffre) ==
  LET fichier == disque[p] IN
  CASE fichier = Nul -> RienRecu
    [] fichier # Nul /\ ~chiffre /\ fichier.sceau = "aucun" -> Recu("clair", fichier.son, Rien)
    [] fichier # Nul /\ ~chiffre /\ fichier.sceau # "aucun" -> Recu("conteneur", Nul, Rien)
    [] fichier # Nul /\ chiffre /\ fichier.sceau = "ouvrable" /\ fichier.cle = CleApi ->
         Recu("clair", fichier.son, Rien)
    [] OTHER -> RienRecu

Concorde(r) == r.forme = "clair" /\ r.son = "intact"

LireEntier ==
  /\ lecture.pc = "lireEntier"
  /\ LET r == Entier(lecture.piece, lecture.vu.chiffre) IN
     lecture' =
       IF r = RienRecu THEN AucuneLecture
       ELSE [lecture EXCEPT
               !.pc = "tracerExport", !.recu = r,
               !.integrite = IF Concorde(r) THEN "concordante" ELSE "divergente"]
  /\ UNCHANGED <<billets, journal>>

TracerExport ==
  /\ lecture.pc = "tracerExport"
  /\ journal' = journal \cup {<<"EXPORT", lecture.piece>>}
  /\ lecture' = [lecture EXCEPT !.pc = "exporte"]
  /\ UNCHANGED billets

Clore ==
  /\ lecture.pc \in {"servi", "exporte"}
  /\ lecture' = AucuneLecture
  /\ UNCHANGED <<billets, journal>>

EcouteNext(entetes) ==
  \/ \E p \in Pieces : OuvrirEcoute(p) \/ Exporter(p)
  \/ \E b, p \in Pieces, e \in entetes : DemanderAudio(b, p, e)
  \/ TracerEcoute \/ Mesurer \/ Servir \/ LireEntier \/ TracerExport \/ Clore

(* The readers with the writers of the vault, and every header.             *)
TousEntetes == [debut : {Vide} \cup Nat, fin : {Vide} \cup Nat]

EcouteSpec ==
  /\ CoffreInit /\ EcouteInit
  /\ [][\/ CoffreNext /\ UNCHANGED ecouteVars
        \/ EcouteNext(TousEntetes) /\ UNCHANGED coffreVars]_<<coffreVars, ecouteVars>>

-----------------------------------------------------------------------------
(* A listener who receives audio receives exactly the bytes the header      *)
(* designates of the wav, in order and without a gap, whether the file was  *)
(* clear or sealed, and of a call whose listening the journal names         *)
(* (range.ts, coffre.ts:192-240, recordings.service.ts:115-121).  Of a call *)
(* sealed twice it would be bytes of a container.                           *)
PlageExacte ==
  lecture.pc = "servi" /\ lecture.recu.forme = "clair" /\ lecture.piece \notin croisees =>
    LET d == Designes(lecture.entete, Octets[lecture.piece])
        t == lecture.recu.tranches
    IN /\ <<"LISTEN", lecture.piece>> \in journal
       /\ d # {} => DOMAIN t # {} /\ \E a, z \in d : Couvre(t, a, z) /\ d = a..z
       /\ d = {} => DOMAIN t = {}

(* An export is in the journal; certified concordant, it holds the audio of *)
(* the ingestion; certified divergent, of a call whose row said sealed, it  *)
(* was sealed twice, for a damaged container does not open and leaves no    *)
(* export (export.service.ts:91-102).                                       *)
ExportFidele ==
  lecture.pc = "exporte" =>
    /\ <<"EXPORT", lecture.piece>> \in journal
    /\ lecture.integrite = "concordante" => lecture.recu.forme = "clair" /\ lecture.recu.son = "intact"
    /\ lecture.integrite = "divergente" /\ lecture.vu.chiffre => lecture.piece \in croisees

(* The divergence of an export is an incident of integrity (97), hence of a *)
(* damaged file.  Fails while the tool has renamed a container whose row it *)
(* has not updated, and for ever if it stopped there.                       *)
DivergenceFondee ==
  lecture.pc = "exporte" /\ lecture.integrite = "divergente" => lecture.piece \in alterees
=============================================================================
