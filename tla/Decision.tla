------------------------------ MODULE Decision ------------------------------
(***************************************************************************)
(* The engine that decides whether a call is recorded, and says why: the    *)
(* exclusions first, then the first rule that matches, then the default.    *)
(* A number is a sequence of digits; names, labels and categories are model *)
(* values; the wording of the reason is reduced to what it cites.           *)
(***************************************************************************)
EXTENDS Naturals, Sequences
Suites == INSTANCE SequencesExt

CONSTANTS
  Directions,    \* INGEST_DIRECTIONS
  CategoriesAppel,    \* INGEST_OPERATION_CATEGORIES
  Vide,          \* a field left empty: no rate, no value, no category
  CleDefaut,     \* "defaut", what the draw of the default is keyed by
  Tirage(_, _)   \* tirageEchantillon: 0..99 for a call reference and a key

Decisions == {"always", "never", "sample", "on_demand"}
Criteres == {"near", "far", "liste", "direction", "category"}
Taux == 1..99

(* The first element of a sequence that passes a test, or Vide.             *)
Premier(s, Test(_)) ==
  LET I == {i \in 1..Len(s) : Test(s[i])} IN IF I # {} THEN s[Suites!Min(I)] ELSE Vide

(* A pattern is a root, with or without the joker at its end.               *)
Correspond(motif, numero) ==
  IF motif.joker THEN Suites!IsPrefix(motif.racine, numero) ELSE motif.racine = numero

Touche(motif, appel) == Correspond(motif, appel.near) \/ Correspond(motif, appel.far)

CritereCorrespond(regle, appel, politique) ==
  \/ regle.critere = "near" /\ regle.valeur # Vide /\ Correspond(regle.valeur, appel.near)
  \/ regle.critere = "far" /\ regle.valeur # Vide /\ Correspond(regle.valeur, appel.far)
  \/ regle.critere = "direction" /\ regle.valeur = appel.direction
  \/ regle.critere = "category" /\ appel.category # Vide /\ regle.valeur = appel.category
  \/ /\ regle.critere = "liste"
     /\ LET liste == Premier(politique.listes, LAMBDA l : l.nom = regle.valeur)
        IN  liste # Vide /\ \E m \in Suites!Range(liste.numeros) : Touche(m, appel)

(* appliquer: the draw decides a sample; a rate left empty counts as 0.     *)
Appliquer(decision, appel, taux, cle) ==
  \/ decision = "always"
  \/ decision = "sample" /\ taux # Vide /\ Tirage(appel.refci, cle) < taux

(* Mutant: the rules are looked at before the exclusions.                   *)
MutantDeciderReglesDabord(politique, appel) ==
  LET exclusion == Premier(politique.exclusions, LAMBDA m : Touche(m, appel))
      regle == Premier(politique.regles, LAMBDA r : CritereCorrespond(r, appel, politique))
  IN
  CASE regle # Vide ->
         [enregistrer |-> Appliquer(regle.decision, appel, regle.taux, regle.libelle),
          decision |-> regle.decision, origine |-> "regle", par |-> regle, taux |-> regle.taux]
    [] regle = Vide /\ exclusion # Vide ->
         [enregistrer |-> FALSE, decision |-> "never", origine |-> "exclusion", par |-> exclusion,
          taux |-> Vide]
    [] OTHER ->
         [enregistrer |-> Appliquer(politique.parDefaut, appel, politique.tauxParDefaut, CleDefaut),
          decision |-> politique.parDefaut, origine |-> "defaut", par |-> Vide,
          taux |-> politique.tauxParDefaut]

(* deciderEnregistrement.  par: the pattern or the rule the reason cites.   *)
Decider(politique, appel) ==
  LET exclusion == Premier(politique.exclusions, LAMBDA m : Touche(m, appel))
      regle == Premier(politique.regles, LAMBDA r : CritereCorrespond(r, appel, politique))
  IN
  CASE exclusion # Vide ->
         [enregistrer |-> FALSE, decision |-> "never", origine |-> "exclusion", par |-> exclusion,
          taux |-> Vide]
    [] exclusion = Vide /\ regle # Vide ->
         [enregistrer |-> Appliquer(regle.decision, appel, regle.taux, regle.libelle),
          decision |-> regle.decision, origine |-> "regle", par |-> regle, taux |-> regle.taux]
    [] OTHER ->
         [enregistrer |-> Appliquer(politique.parDefaut, appel, politique.tauxParDefaut, CleDefaut),
          decision |-> politique.parDefaut, origine |-> "defaut", par |-> Vide,
          taux |-> politique.tauxParDefaut]

(* parseRecordingPolicy, for a pattern, a rule and the document: the joker  *)
(* alone is no pattern.                                                     *)
MotifValide(motif) == motif.racine # <<>>

RegleValide(regle, politique) ==
  /\ regle.libelle # Vide /\ regle.valeur # Vide
  /\ regle.critere \in {"near", "far"} => MotifValide(regle.valeur)
  /\ IF regle.decision = "sample" THEN regle.taux \in Taux ELSE regle.taux = Vide
  /\ regle.critere = "liste" => \E l \in Suites!Range(politique.listes) : l.nom = regle.valeur
  /\ regle.critere = "direction" => regle.valeur \in Directions
  /\ regle.critere = "category" => regle.valeur \in CategoriesAppel

Valide(politique) ==
  /\ politique.tauxParDefaut \in Taux \cup {Vide}
  /\ politique.parDefaut = "sample" => politique.tauxParDefaut # Vide
  /\ \A m \in Suites!Range(politique.exclusions) : MotifValide(m)
  /\ \A l \in Suites!Range(politique.listes) :
       l.numeros # <<>> /\ \A m \in Suites!Range(l.numeros) : MotifValide(m)
  /\ \A r \in Suites!Range(politique.regles) : RegleValide(r, politique)

(* What POLICY_SET says of a version: it gives up some recordings.          *)
Renonce(politique) ==
  \/ politique.parDefaut # "always"
  \/ politique.exclusions # <<>>
  \/ \E r \in Suites!Range(politique.regles) : r.decision # "always"

(* politiqueParDefaut                                                       *)
PolitiqueParDefaut ==
  [parDefaut |-> "always", tauxParDefaut |-> Vide, exclusions |-> <<>>, listes |-> <<>>,
   regles |-> <<>>]
=============================================================================
