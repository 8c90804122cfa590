---------------------------- MODULE UnreadBadges ----------------------------
(***************************************************************************)
(* The unread badges of the contact list: the main process reports what     *)
(* happens, the renderer counts it once it has been quiet for a moment, and *)
(* it is read at the desk, on the secretary's bar or on a paired phone.     *)
(* Reports and reads cross on the wire between the two.                     *)
(***************************************************************************)
EXTENDS Integers, Sequences, FiniteSets, SequencesExt

CONSTANTS Contacts,     \* 1..n, in the order of the list
          Sockets,      \* sockets of paired phones
          Budgets       \* bounds of each scenario: how often what may happen

VARIABLES main,         \* the last event of each contact, and its phones' sockets
          wire,         \* from the main process to the renderer, in order
          asked,        \* from the renderer to the main process, in order
          page,         \* the renderer
          owed,         \* by contact, the events nobody has read
          left          \* what may still happen

vars == <<main, wire, asked, page, owed, left>>

Message(type, c, seq) == [type |-> type, on |-> c, seq |-> seq]
Nothing == [seq |-> 0, kind |-> "none"]

Init ==
  /\ left \in Budgets
  /\ main = [event |-> [c \in Contacts |-> Nothing], seqs |-> 0,
             sockets |-> [k \in Sockets |-> [subs |-> {}, looking |-> FALSE]]]
  /\ wire = <<>> /\ asked = <<>>
  /\ page = [unread |-> [c \in Contacts |-> 0], timers |-> {}, selected |-> 1,
             brief |-> [c \in Contacts |-> Nothing]]
  /\ owed = [c \in Contacts |-> {}]

Spend(what) == left[what] > 0 /\ left' = [left EXCEPT ![what] = @ - 1]

---------------------------------------------------------------------------
(* The main process.                                                       *)

isReading(c) == \E k \in Sockets : c \in main.sockets[k].subs /\ main.sockets[k].looking

readOnPhone(c) == Message("read", c, 0)

(* Slip: the phone's read goes out before the report it covers. *)
ReadFirst(report, c) == <<readOnPhone(c), report>>

ReadAfter(report, c) == <<report, readOnPhone(c)>>

\* A turn ends or a dialog opens: the secretary's event and its brief first, then the report,
\* and the read of a phone that shows the contact, unless the turn was of another session.
reportActivity ==
  /\ Spend("events")
  /\ \E c \in Contacts, kind \in {"finished", "needs-you"}, elsewhere \in BOOLEAN :
       LET event == [seq |-> main.seqs + 1, kind |-> kind]
           report == Message("activity", c, event.seq)
           read == isReading(c) /\ ~elsewhere
       IN /\ elsewhere => kind = "finished"
          /\ main' = [main EXCEPT !.event[c] = event, !.seqs = @ + 1]
          /\ wire' = wire \o <<[type |-> "brief", on |-> c, seq |-> event]>>
                          \o IF read THEN ReadAfter(report, c) ELSE <<report>>
          /\ owed' = [owed EXCEPT ![c] = IF read THEN {} ELSE @ \cup {event.seq}]
  /\ UNCHANGED <<asked, page>>

\* The dialog is answered or the session goes on: its brief is taken down.
EventCleared ==
  /\ \E c \in Contacts :
       /\ main.event[c].kind = "needs-you" /\ Spend("events")
       /\ main' = [main EXCEPT !.event[c] = Nothing]
       /\ wire' = Append(wire, [type |-> "brief", on |-> c, seq |-> Nothing])
  /\ UNCHANGED <<asked, page, owed>>

\* All of these were read on a phone.
OnRead(cs) ==
  /\ \E order \in SetToSeqs(cs) : wire' = wire \o [i \in DOMAIN order |-> readOnPhone(order[i])]
  /\ owed' = [c \in Contacts |-> IF c \in cs THEN {} ELSE owed[c]]

\* Anything heard on a socket that had gone quiet reads what it shows, then the frame is handled.
Heard(k) == IF main.sockets[k].looking THEN {} ELSE main.sockets[k].subs

Subscribe ==
  /\ Spend("phone")
  /\ \E k \in Sockets, c \in Contacts :
       /\ main' = [main EXCEPT !.sockets[k] = [subs |-> @.subs \cup {c}, looking |-> TRUE]]
       /\ OnRead(Heard(k) \cup {c})
  /\ UNCHANGED <<asked, page>>

Unsubscribe ==
  /\ Spend("phone")
  /\ \E k \in Sockets : \E c \in main.sockets[k].subs :
       /\ main' = [main EXCEPT !.sockets[k] = [subs |-> @.subs \ {c}, looking |-> TRUE]]
       /\ OnRead(Heard(k))
  /\ UNCHANGED <<asked, page>>

\* Nothing was heard for LOOKING_MS; or a ping is, again.
Quiet ==
  /\ Spend("phone")
  /\ \E k \in Sockets : /\ main.sockets[k].looking
                        /\ main' = [main EXCEPT !.sockets[k].looking = FALSE]
  /\ UNCHANGED <<wire, asked, page, owed>>

HeardAgain ==
  /\ Spend("phone")
  /\ \E k \in Sockets : /\ Heard(k) # {}
                        /\ main' = [main EXCEPT !.sockets[k].looking = TRUE]
                        /\ OnRead(Heard(k))
  /\ UNCHANGED <<asked, page>>

SocketCloses ==
  /\ \E k \in Sockets : /\ main.sockets[k].subs # {}
                        /\ main' = [main EXCEPT !.sockets[k] = [subs |-> {}, looking |-> FALSE]]
  /\ UNCHANGED <<wire, asked, page, owed, left>>

\* The main process hears the bar: a brief is seen only while it is the contact's, and finished.
Asked ==
  /\ asked # <<>>
  /\ LET ask == Head(asked)
         current == main.event[ask.on] = [seq |-> ask.seq, kind |-> "finished"]
     IN wire' = IF current THEN Append(wire, Message("seen", ask.on, ask.seq))
                ELSE wire
  /\ asked' = Tail(asked)
  /\ UNCHANGED <<main, page, owed, left>>

---------------------------------------------------------------------------
(* The renderer.                                                           *)

clear(p, c) == [p EXCEPT !.unread[c] = 0, !.timers = @ \ {c}]

\* The reports of a contact that have reached the renderer.
Told(c) ==
  LET Waits(n) == \E i \in DOMAIN wire : wire[i].type = "activity" /\ wire[i].on = c /\ wire[i].seq = n
  IN {n \in 1..main.seqs : ~Waits(n)}

\* Read at the desk, as far as the renderer has been told.  (The main process hears of it too,
\* for the phones' rows; no badge depends on that.)
markRead(p, c) ==
  /\ page' = clear(p, c)
  /\ owed' = [owed EXCEPT ![c] = @ \ Told(c)]

\* A key press, or a click in the page of the contact shown.
Acknowledge ==
  /\ page.selected # 0 /\ Spend("keys")
  /\ markRead(page, page.selected)
  /\ UNCHANGED <<main, wire, asked>>

Select(c) == markRead([page EXCEPT !.selected = c], c)

\* A click in the list, or Cmd and a digit.
ClickContact ==
  /\ Spend("keys")
  /\ \E c \in Contacts : Select(c)
  /\ UNCHANGED <<main, wire, asked>>

\* Option+Shift and an arrow: the nearest other contact with unread reports, going round.
nextUnread(step) ==
  LET n == Cardinality(Contacts)
      from == IF page.selected # 0 THEN page.selected ELSE IF step = 1 THEN 0 ELSE n + 1
      At(i) == ((from + step * i - 1) % n) + 1
      hits == {i \in 1..n : At(i) # page.selected /\ page.unread[At(i)] > 0}
  IN IF hits = {} THEN 0 ELSE At(Min(hits))

NextUnread ==
  /\ Spend("keys")
  /\ \E step \in {1, -1} : nextUnread(step) # 0 /\ Select(nextUnread(step))
  /\ UNCHANGED <<main, wire, asked>>

isReadableBrief(c, seq) == page.brief[c] = [seq |-> seq, kind |-> "finished"]

\* The bar's "Got it", or a brief played to its end.
BriefRead ==
  /\ Spend("keys")
  /\ \E c \in Contacts :
       /\ isReadableBrief(c, page.brief[c].seq)
       /\ asked' = Append(asked, Message("seen", c, page.brief[c].seq))
  /\ UNCHANGED <<main, wire, page, owed>>

Receives ==
  /\ wire # <<>>
  /\ LET msg == Head(wire)
         c == msg.on
         stale == msg.type = "seen" /\ ~isReadableBrief(c, msg.seq)
     IN /\ page' = CASE msg.type = "activity" -> [page EXCEPT !.timers = @ \cup {c}]
                     [] msg.type = "brief" -> [page EXCEPT !.brief[c] = msg.seq]
                     [] stale -> page
                     [] OTHER -> clear(page, c)
        /\ owed' = IF msg.type = "seen" /\ ~stale THEN [owed EXCEPT ![c] = @ \ (1..msg.seq)] ELSE owed
  /\ wire' = Tail(wire)
  /\ UNCHANGED <<main, asked, left>>

\* Half a second without another report: a burst counts once.
Debounced ==
  /\ \E c \in page.timers :
       page' = [page EXCEPT !.unread[c] = @ + 1, !.timers = @ \ {c}]
  /\ UNCHANGED <<main, wire, asked, owed, left>>

Next ==
  \/ reportActivity \/ EventCleared \/ Subscribe \/ Unsubscribe \/ Quiet \/ HeardAgain \/ SocketCloses
  \/ Asked \/ Acknowledge \/ ClickContact \/ NextUnread \/ BriefRead \/ Receives \/ Debounced

Spec == Init /\ [][Next]_vars

---------------------------------------------------------------------------
(* Properties.                                                             *)

dockBadge == SumFunctionOnSet(page.unread, Contacts)

\* Once what was reported has arrived and been quiet, a contact has a badge exactly when
\* something of it was read nowhere: not at the desk after the renderer was told, not on a
\* phone after it was reported, not by its brief on the bar; and the Dock has a number exactly
\* while some contact has.
BadgesAreOwed ==
  /\ \A c \in Contacts :
       LET settled == c \notin page.timers /\ \A i \in DOMAIN wire : wire[i].on # c
       IN settled => (page.unread[c] > 0 <=> owed[c] # {})
  /\ wire = <<>> /\ page.timers = {} => (dockBadge > 0 <=> \E c \in Contacts : owed[c] # {})
=============================================================================
