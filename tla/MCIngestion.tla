----------------------------- MODULE MCIngestion -----------------------------
(***************************************************************************)
(* Small instances of Ingestion: one name of call, dropped again and again  *)
(* with either of two audio contents.                                       *)
(***************************************************************************)
EXTENDS Ingestion, TLC

(* The contents are interchangeable.                                        *)
Symetrie == Permutations(Sons)
=============================================================================
