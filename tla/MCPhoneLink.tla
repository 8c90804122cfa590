----------------------------- MODULE MCPhoneLink -----------------------------
(***************************************************************************)
(* Instances of PhoneLink for TLC.                                          *)
(***************************************************************************)
EXTENDS PhoneLink, TLC

\* Every message says the same, so any entry may be taken for any of them.
MCSameText == [p \in Prompts |-> "yes"]
=============================================================================
