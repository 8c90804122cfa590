------------------------------ MODULE MCClaims -------------------------------
(***************************************************************************)
(* SessionClaims with contacts of either backend.  A contact and a session  *)
(* are of one backend, and the two never meet: two contacts of Claude, or   *)
(* two of OpenCode.                                                         *)
(***************************************************************************)
EXTENDS MCSessionClaims

VARIABLE backend   \* of every contact

Claude == INSTANCE SessionClaims WITH BackendOf <- MCClaude,
                                      BackendOfSession <- MCClaudeSessions
Opencode == INSTANCE SessionClaims WITH BackendOf <- MCOpencode,
                                        BackendOfSession <- MCOpencodeSessions

\* Three launches about two conversations, or two about three.
InBounds == launched' <= 2 \/ minted' # Sessions

SpecOfEither ==
  /\ \/ backend = "claude" /\ Claude!Init
     \/ backend = "opencode" /\ Opencode!Init
  /\ [][/\ UNCHANGED backend
        /\ \/ backend = "claude" /\ Claude!Next /\ InBounds
           \/ backend = "opencode" /\ Opencode!Next /\ InBounds]_<<vars, backend>>
=============================================================================
