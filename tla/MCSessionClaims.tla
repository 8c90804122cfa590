--------------------------- MODULE MCSessionClaims ---------------------------
(***************************************************************************)
(* Instances of SessionClaims for TLC: every contact and session of an      *)
(* instance is of one backend, since the two backends' ids never meet.      *)
(***************************************************************************)
EXTENDS SessionClaims, TLC

MCClaude == [c \in Contacts |-> "claude"]
MCClaudeSessions == [s \in Sessions |-> "claude"]
MCOpencode == [c \in Contacts |-> "opencode"]
MCOpencodeSessions == [s \in Sessions |-> "opencode"]

Symmetric == Permutations(Contacts) \cup Permutations(Sessions)

\* Nobody picks a conversation inside a CLI.
SpecUnpicked == Init /\ [][NextUnpicked]_vars
=============================================================================
