------------------------- MODULE MCOpencodeAttention -------------------------
(***************************************************************************)
(* Instances of OpencodeAttention for TLC: each budget spends the bounds on *)
(* one kind of trouble.                                                     *)
(***************************************************************************)
EXTENDS OpencodeAttention

CONSTANTS own, sub, alien   \* a root, a subagent of it, and a root of another client

MCParentOf == [s \in Sessions |-> IF s = sub THEN own ELSE Root]

Budget(sessions, turns, asks, drops, routes, fails, stops, lag) ==
  [sessions |-> sessions, turns |-> turns, asks |-> asks, drops |-> drops, routes |-> routes,
   fails |-> fails, stops |-> stops, lag |-> lag]

\* A turn of the contact, and what is asked in it, around an outage.
MCOutage == {Budget({own}, 1, 1, 1, 0, 0, 0, 2)}
=============================================================================
