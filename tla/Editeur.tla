------------------------------- MODULE Editeur -------------------------------
(***************************************************************************)
(* The editor of a draft of the recording policy, with the simulator beside *)
(* it: every change of a field, a list or a rule is one event of the page,  *)
(* and the simulator runs the engine on the document as it is, valid or     *)
(* not.  The reading of a text area as a sequence of patterns, the notice   *)
(* to the caller and the right to pause are left out.                       *)
(***************************************************************************)
EXTENDS Decision

CONSTANTS
  Motifs,        \* patterns an administrator types
  Noms,          \* names of lists
  Libelles,      \* labels of rules
  TauxSaisis,    \* rates typed, legal or not
  TauxPropose,   \* the rate the editor gives a rule that starts to sample
  Appels,        \* the calls tried in the simulator
  NbListes,      \* bound on the lists
  NbRegles       \* bound on the rules

Valeurs == Motifs \cup Noms \cup Directions \cup CategoriesAppel \cup {Vide}
TauxPossibles == TauxSaisis \cup {TauxPropose, Vide}
Liste == [nom : Noms, numeros : Seq(Motifs)]
Regle ==
  [libelle : Libelles \cup {Vide}, critere : Criteres, valeur : Valeurs,
   decision : Decisions, taux : TauxPossibles]

(* A field left empty is neither a pattern nor a rule.                      *)
ASSUME EditeurAssumption == Vide \notin Motifs /\ Vide \notin Regle

VARIABLE document
editeurVars == <<document>>

EditeurTypeOK ==
  /\ document.parDefaut \in Decisions /\ document.tauxParDefaut \in TauxPossibles
  /\ document.exclusions \in Seq(Motifs)
  /\ document.listes \in Seq(Liste)
  /\ document.regles \in Seq(Regle)

EditeurInit == document = PolitiqueParDefaut

RegleVide ==
  [libelle |-> Vide, critere |-> "near", valeur |-> Vide, decision |-> "always", taux |-> Vide]

-----------------------------------------------------------------------------
(* The default; its rate stays when the decision changes.                   *)
ChangerDefaut ==
  \/ \E d \in Decisions : document' = [document EXCEPT !.parDefaut = d]
  \/ /\ document.parDefaut = "sample"
     /\ \E t \in TauxSaisis \cup {Vide} : document' = [document EXCEPT !.tauxParDefaut = t]

ChangerExclusions ==
  \E s \in {<<>>} \cup {<<m>> : m \in Motifs} : document' = [document EXCEPT !.exclusions = s]

(* A list is added empty, whatever the names in use; filled; deleted, the   *)
(* rules that name it left as they are.                                     *)
ChangerListes ==
  \/ /\ Len(document.listes) < NbListes
     /\ \E n \in Noms :
          document' = [document EXCEPT !.listes = Append(@, [nom |-> n, numeros |-> <<>>])]
  \/ \E i \in DOMAIN document.listes :
       \/ \E m \in Motifs : document' = [document EXCEPT !.listes[i].numeros = <<m>>]
       \/ document' = [document EXCEPT !.listes = Suites!RemoveAt(@, i)]

AjouterRegle ==
  /\ Len(document.regles) < NbRegles
  /\ document' = [document EXCEPT !.regles = Append(@, RegleVide)]

SupprimerRegle(i) == document' = [document EXCEPT !.regles = Suites!RemoveAt(@, i)]

(* deplacer, up or down: the rule and its neighbour change places.          *)
DeplacerRegle(i) ==
  /\ i + 1 \in DOMAIN document.regles
  /\ document' = [document EXCEPT !.regles[i] = document.regles[i + 1],
                                  !.regles[i + 1] = document.regles[i]]

NommerRegle(i) == \E l \in Libelles \cup {Vide} : document' = [document EXCEPT !.regles[i].libelle = l]

(* Another criterion clears the value; a value is chosen for the criterion. *)
ChangerCritere(i, c) ==
  document' = [document EXCEPT !.regles[i].critere = c, !.regles[i].valeur = Vide]

Choix(critere) ==
  CASE critere \in {"near", "far"} -> Motifs
    [] critere = "direction" -> Directions
    [] critere = "category" -> CategoriesAppel
    [] critere = "liste" -> {l.nom : l \in Suites!Range(document.listes)}

ChangerValeur(i) ==
  \E v \in Choix(document.regles[i].critere) \cup {Vide} :
    document' = [document EXCEPT !.regles[i].valeur = v]

(* A rule that starts to sample gets a rate, one that stops loses it.       *)
ChangerDecision(i, d) ==
  document' = [document EXCEPT
    !.regles[i].decision = d,
    !.regles[i].taux = IF d # "sample" THEN Vide ELSE IF @ = Vide THEN TauxPropose ELSE @]

ChangerTaux(i) ==
  /\ document.regles[i].decision = "sample"
  /\ \E t \in TauxSaisis \cup {Vide} : document' = [document EXCEPT !.regles[i].taux = t]

EditeurNext ==
  \/ ChangerDefaut \/ ChangerExclusions \/ ChangerListes \/ AjouterRegle
  \/ \E i \in DOMAIN document.regles :
       \/ SupprimerRegle(i) \/ DeplacerRegle(i) \/ NommerRegle(i)
       \/ \E c \in Criteres : ChangerCritere(i, c)
       \/ ChangerValeur(i)
       \/ \E d \in Decisions : ChangerDecision(i, d)
       \/ ChangerTaux(i)

EditeurSpec == EditeurInit /\ [][EditeurNext]_editeurVars

-----------------------------------------------------------------------------
(* The simulator: the engine on the document as it is.                      *)
Verdict(appel) == Decider(document, appel)

(* What a decision cites is enough to explain it: the policy cut down to    *)
(* the exclusion, the rule or the default it names decides the same.        *)
Reduite(politique, decision) ==
  [politique EXCEPT
     !.exclusions = IF decision.origine = "exclusion" THEN <<decision.par>> ELSE <<>>,
     !.regles = IF decision.origine = "regle" THEN <<decision.par>> ELSE <<>>]

(* A decision can be defended, whatever was edited and in which order: an   *)
(* excluded number is never recorded, not by any rule; what the reason      *)
(* cites is enough; a document accepted never samples at no rate, and if    *)
(* the journal does not say that it gives up recordings, it records every   *)
(* call; and the editor leaves no rate on a rule that does not sample       *)
(* (decision.ts:7-13, 118-121, contract.ts:123-172, policy.service.ts:237). *)
DecisionOpposable ==
  /\ \A a \in Appels :
       LET d == Verdict(a) IN
       /\ (\E m \in Suites!Range(document.exclusions) : Touche(m, a)) => ~d.enregistrer
       /\ Decider(Reduite(document, d), a) = d
       /\ Valide(document) =>
            /\ d.decision = "sample" => d.taux \in Taux
            /\ Renonce(document) \/ d.enregistrer
  /\ \A r \in Suites!Range(document.regles) : r.decision # "sample" => r.taux = Vide
=============================================================================
