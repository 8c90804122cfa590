----------------------------- MODULE MCSecretary -----------------------------
(***************************************************************************)
(* Instances of Secretary for TLC: each budget spends the bounds on one     *)
(* kind of trouble.                                                         *)
(***************************************************************************)
EXTENDS Secretary, TLC

Budget(events, turns, desk, phone, views, starts, modes, reads, replies) ==
  [events |-> events, turns |-> turns, desk |-> desk, phone |-> phone, views |-> views,
   starts |-> starts, modes |-> modes, reads |-> reads, replies |-> replies]

\* In turn: answers of phones against the desk, and against the desk and a restart; a
\* phone's answer against the secretary's; two dialogs; a reply, its question and its
\* confirmation; a reply while the process goes; a turn stopped; a turn stopped in OpenCode
\* while its view and turn change; the mode and what was read; a reply while the mode is
\* switched.
MCBudgets ==
  {Budget(2, 0, 1, 2, 0, 0, 0, 0, 0), Budget(2, 0, 1, 1, 0, 1, 0, 0, 0),
   Budget(1, 0, 1, 2, 0, 1, 0, 0, 0), Budget(1, 0, 0, 1, 0, 0, 0, 0, 1),
   Budget(2, 0, 0, 0, 0, 0, 0, 0, 1), Budget(1, 0, 0, 0, 0, 0, 0, 0, 3),
   Budget(1, 0, 0, 0, 0, 1, 0, 0, 1), Budget(1, 1, 0, 2, 0, 0, 0, 0, 0),
   Budget(1, 2, 0, 2, 1, 0, 0, 0, 0), Budget(2, 0, 0, 0, 0, 0, 2, 1, 0),
   Budget(1, 0, 0, 0, 0, 0, 2, 0, 1)}
=============================================================================
