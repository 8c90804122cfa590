--------------------------- MODULE MCSessionHistory --------------------------
(***************************************************************************)
(* SessionClaims with the history of where each contact's processes have    *)
(* worked, kept for one property.                                           *)
(***************************************************************************)
EXTENDS MCSessionClaims

VARIABLE worked   \* the sessions each contact's processes have worked in

WorkedNow(c) == IF ptyProcess'[c] = NoPid THEN {} ELSE {working'[ptyProcess'[c]]}

SpecWithHistory ==
  /\ Init /\ worked = [c \in Contacts |-> {}]
  /\ [][Next /\ worked' = [c \in Contacts |-> worked[c] \cup WorkedNow(c)]]_<<vars, worked>>

\* A contact goes back only to a conversation one of its own processes has worked
\* in (SavedContact.sessionId: "The session this contact last worked in").
OwnSessionWasWorkedIn ==
  \A c \in instances : ownSessionId[c] \in worked[c] \cup {None}
=============================================================================
