------------------------------ MODULE Instance ------------------------------
(***************************************************************************)
(* What administrators decide on an instance, and the screens of those who  *)
(* use it: retention periods and legal holds, versions of the recording     *)
(* policy, the editor of a policy, the settings, the limiter of logins, the *)
(* pages of the calls and of the journal, the session of a tab.  No step of *)
(* one of these subjects reads what another one writes, so that a behaviour *)
(* of the instance is a behaviour of each.                                  *)
(***************************************************************************)
EXTENDS Retention, LegalHolds, Politique, Editeur, Reglages, Limiteur, Consultation,
        LectureJournal, Portail

ConservationSpec ==
  /\ RegistreInit /\ [][RegistreNext]_registreVars
  /\ RetentionInit /\ [][RetentionNext]_politiques
  /\ HoldsInit /\ [][HoldsNext]_holdsVars

InstanceSpec ==
  /\ ConservationSpec /\ PolitiqueSpec /\ EditeurSpec /\ ReglagesSpec /\ LimiteurSpec
  /\ ConsultationSpec /\ LectureJournalSpec /\ PortailSpec

InstanceTypeOK ==
  /\ RegistreTypeOK /\ RetentionTypeOK /\ HoldsTypeOK
  /\ PolitiqueTypeOK /\ EditeurTypeOK /\ ReglagesTypeOK /\ LimiteurTypeOK
  /\ ConsultationTypeOK /\ LectureJournalTypeOK /\ PortailTypeOK

-----------------------------------------------------------------------------
(* What the screens of calls and of the journal show is what they say.      *)
PagesTenues == ListeTenue /\ FicheTenue /\ JournalTenu
=============================================================================
