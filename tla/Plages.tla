------------------------------- MODULE Plages -------------------------------
(***************************************************************************)
(* The arithmetic of partial reads: which bytes of a call the header Range  *)
(* asks for, and which frames of a sealed container hold them.  Pure        *)
(* operators; module Ecoute serves calls with them, module CoffreProofs     *)
(* proves them for every size.                                              *)
(***************************************************************************)
EXTENDS Integers

(* One group of "bytes=S-E" that is empty.                                  *)
Vide == -1

(* A header is absent (blank, several ranges or no range at all count as    *)
(* absent), or the two groups of UNE_PLAGE.                                 *)
SansPlage == [debut |-> Vide, fin |-> Vide]
Entetes(max) == [debut : {Vide} \cup 0..max, fin : {Vide} \cup 0..max]

Complet == [type |-> "complet", debut |-> 0, fin |-> 0]
Insatisfiable == [type |-> "insatisfiable", debut |-> 0, fin |-> 0]
Partiel(d, f) == [type |-> "partiel", debut |-> d, fin |-> f]

PlusPetit(a, b) == IF a <= b THEN a ELSE b
PlusGrand(a, b) == IF a <= b THEN b ELSE a

Suffixe(n, taille) ==
  IF n = 0 THEN Insatisfiable ELSE Partiel(PlusGrand(0, taille - n), taille - 1)

FinServie(e, taille) ==
  IF e.fin = Vide THEN taille - 1 ELSE PlusPetit(e.fin, taille - 1)

Intervalle(e, taille) ==
  IF e.debut >= taille \/ FinServie(e, taille) < e.debut
  THEN Insatisfiable
  ELSE Partiel(e.debut, FinServie(e, taille))

AnalyserRange(e, taille) ==
  CASE e = SansPlage -> Complet
    [] e # SansPlage /\ taille = 0 -> Insatisfiable
    [] e.debut = Vide /\ e.fin # Vide /\ taille # 0 -> Suffixe(e.fin, taille)
    [] e.debut # Vide /\ taille # 0 -> Intervalle(e, taille)

(* RFC 9110: the bytes of a content of that size a header designates.       *)
Designes(e, taille) ==
  {x \in 0..(taille - 1) :
     IF e.debut = Vide THEN e.fin = Vide \/ x >= taille - e.fin
     ELSE x >= e.debut /\ (e.fin = Vide \/ x <= e.fin)}

-----------------------------------------------------------------------------
(* A container: a header, then one frame for each slice of "trame" bytes of *)
(* clear text, each with its nonce and its seal.                            *)

TailleEntete == 40
TailleTrameChiffree(octets) == 12 + octets + 16

NombreDeTrames(clair, trame) == (clair + trame - 1) \div trame

TailleConteneur(clair, trame) ==
  TailleEntete + clair + NombreDeTrames(clair, trame) * TailleTrameChiffree(0)

(* Where sceller puts frame i: after the header and the frames before it.   *)
DebutClair(i, trame) == i * trame
ClairDeTrame(i, clair, trame) == PlusPetit(trame, clair - i * trame)
PositionDeTrame(i, trame) == TailleEntete + i * TailleTrameChiffree(trame)

PremiereTrame(d, trame) == d \div trame
DerniereTrame(f, trame) == f \div trame

(* The interval of the clear text, bounds included, that frame i yields.    *)
Tranche(i, d, f, clair, trame) ==
  [de |-> i * trame + PlusGrand(0, d - i * trame),
   a |-> i * trame + PlusPetit(ClairDeTrame(i, clair, trame), f - i * trame + 1) - 1]

Rien == [i \in 0..-1 |-> [de |-> 0, a |-> 0]]

Trames(d, f, clair, trame) ==
  IF d > f \/ d < 0 \/ f >= clair
  THEN Rien
  ELSE [i \in PremiereTrame(d, trame)..DerniereTrame(f, trame) |->
          Tranche(i, d, f, clair, trame)]

(* What createReadStream yields of a file of that size.                     *)
FluxBrut(d, f, taille) ==
  IF d >= taille THEN Rien ELSE [i \in {0} |-> [de |-> d, a |-> PlusPetit(f, taille - 1)]]

(* The intervals of t follow one another and cover exactly d..f.            *)
Couvre(t, d, f) ==
  /\ \A i \in DOMAIN t : t[i].de <= t[i].a
  /\ \A i \in DOMAIN t : IF i - 1 \in DOMAIN t THEN t[i].de = t[i - 1].a + 1 ELSE t[i].de = d
  /\ \A i \in DOMAIN t : i + 1 \in DOMAIN t \/ t[i].a = f
=============================================================================
