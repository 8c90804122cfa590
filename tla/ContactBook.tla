----------------------------- MODULE ContactBook -----------------------------
(***************************************************************************)
(* What Multi-Code promises about contacts and conversations, whatever      *)
(* crashes, polls and restarts happen underneath: contacts.json is a book   *)
(* of members, each with at most one conversation; no conversation has two  *)
(* holders; and a member who has a conversation can trade it for a free     *)
(* one but never lose it.  SessionClaims implements this specification.     *)
(***************************************************************************)
CONSTANTS Contacts,   \* the contacts the app can ever have
          Sessions,   \* the conversations the agents' CLIs can ever have
          None        \* "no conversation on record"

VARIABLES members,       \* the contacts in the book
          conversation   \* the conversation each one goes back to

bookVars == <<members, conversation>>

Free(s) == \A c \in Contacts : conversation[c] # s

Init == /\ members = {}
        /\ conversation = [c \in Contacts |-> None]

Join(c, s) == /\ c \notin members
              /\ s # None => Free(s)
              /\ members' = members \cup {c}
              /\ conversation' = [conversation EXCEPT ![c] = s]

Adopt(c, s) == /\ c \in members
               /\ Free(s)
               /\ conversation' = [conversation EXCEPT ![c] = s]
               /\ UNCHANGED members

Leave(c) == /\ c \in members
            /\ members' = members \ {c}
            /\ conversation' = [conversation EXCEPT ![c] = None]

Next == \E c \in Contacts : \/ Leave(c)
                            \/ \E s \in Sessions : Adopt(c, s)
                            \/ \E s \in Sessions \cup {None} : Join(c, s)

Spec == Init /\ [][Next]_bookVars
==============================================================================
