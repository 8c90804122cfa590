---------------------------- MODULE PhoneScreen ----------------------------
(***************************************************************************)
(* What a phone shows of the Mac's contacts, kept true without asking       *)
(* again: the list (broadcast when it changes, compared with the last one   *)
(* broadcast to anyone), the dialogs (broadcast when they open and close),  *)
(* and for the open session its chat, re-read on a trailing timer, and its  *)
(* terminal, fed by the PTY's bytes.  All of it over one socket that drops. *)
(*                                                                         *)
(* `mac` is process-manager's contacts with ws-server's and remote-host's   *)
(* own state; a handler is a composition of functions on it, as it is of    *)
(* calls in the code.  A row stands for RemoteInstance without its preview, *)
(* a transcript for what its CLI session has said so far (written no later  *)
(* than the output that shows it), a terminal for the last chunk painted.   *)
(***************************************************************************)
EXTENDS Naturals, Sequences, FiniteSets, Functions

CONSTANTS Contacts,
          MaxSockets,   \* bound: connections, at most
          Budgets       \* bounds of each scenario: what may still happen

VARIABLES mac, phone, up, down, left

vars == <<mac, phone, up, down, left>>

NoContact == "none"
Sockets == 1..MaxSockets
Unsubscribed == [c \in Contacts |-> 0]
NoEvent == [kind |-> "none", seq |-> 0]
Unread == [cli |-> 0, said |-> 0, of |-> 0, turns |-> 1, dialog |-> 0]
NoTerminal == [to |-> 0, whole |-> TRUE, fed |-> FALSE]

MacAtFirst ==
  [event |-> [c \in Contacts |-> NoEvent], working |-> {}, running |-> Contacts,
   cli |-> [c \in Contacts |-> 1], said |-> [c \in Contacts |-> 0],
   out |-> [c \in Contacts |-> 0], seq |-> 0, seen |-> [c \in Contacts |-> 0],
   last |-> <<>>, listed |-> [c \in Contacts |-> 0], moved |-> {}, timers |-> {},
   authed |-> {}, subs |-> [s \in Sockets |-> Unsubscribed], sent |-> <<>>, cut |-> {}]

PhoneAtFirst ==
  [socket |-> 0, link |-> "off", openId |-> NoContact, list |-> <<>>,
   sess |-> [c \in Contacts |-> Unread], terminal |-> [c \in Contacts |-> NoTerminal]]

Init ==
  /\ left \in Budgets
  /\ mac = MacAtFirst /\ phone = PhoneAtFirst
  /\ up = <<>> /\ down = <<>>

---------------------------------------------------------------------------
(* The server's sends.  A frame to a socket the phone has left is lost.    *)

Send(m, s, frame) ==
  IF s = phone.socket /\ phone.link # "off" THEN [m EXCEPT !.sent = Append(@, frame)] ELSE m

broadcast(m, frame) ==
  IF phone.socket \in m.authed THEN Send(m, phone.socket, frame) ELSE m

Subscribed(m, s, c) == s \in m.authed /\ m.subs[s][c] > 0

toSubscribers(m, c, frame) ==
  IF phone.socket \in Sockets /\ Subscribed(m, phone.socket, c)
    THEN Send(m, phone.socket, frame) ELSE m

sendTranscript(m, s, c) ==
  Send(m, s, [type |-> "transcript", c |-> c, cli |-> m.cli[c], said |-> m.said[c],
              of |-> m.subs[s][c]])

broadcastTranscript(m, c) ==
  LET cleared == [m EXCEPT !.timers = @ \ {c}]
  IN IF phone.socket \in Sockets /\ Subscribed(m, phone.socket, c)
       THEN sendTranscript(cleared, phone.socket, c) ELSE cleared

(* A dialog over a running turn, a running turn over a result nobody read.  *)
stateOf(m, c) ==
  LET e == m.event[c]
      Row(state, since) == [state |-> state, since |-> since, running |-> TRUE]
  IN IF e.kind = "needs-you" THEN Row("needs-you", e.seq)
     ELSE IF c \in m.working THEN Row("working", 0)
     ELSE IF e.kind = "finished" /\ e.seq # m.seen[c] THEN Row("finished", e.seq)
     ELSE Row("idle", 0)

Rows(m) == [c \in Contacts |-> [stateOf(m, c) EXCEPT !.running = c \in m.running]]

(* A listing notices a contact in another CLI session; whoever has it open  *)
(* is sent the new one's transcript once the listing is out (AfterListing). *)
listInstances(m) ==
  [m EXCEPT !.moved = @ \cup {c \in Contacts : m.listed[c] \notin {0, m.cli[c]}},
            !.listed = m.cli]

broadcastInstances(m) ==
  IF m.authed = {} THEN m
  ELSE LET listed == listInstances(m)
       IN IF Rows(m) = m.last THEN listed
          ELSE broadcast([listed EXCEPT !.last = Rows(m)],
                         [type |-> "instances", rows |-> Rows(m)])

(* Slip: the list sent on connecting leaves the last one broadcast standing. *)
SendsItsList(m, s) ==
  Send(listInstances(m), s, [type |-> "instances", rows |-> Rows(m)])

sendInstances(m, s) ==
  Send(listInstances([m EXCEPT !.last = <<>>]), s, [type |-> "instances", rows |-> Rows(m)])

AfterListing(m) ==
  [FoldFunctionOnSet(LAMBDA c, done : broadcastTranscript(done, c), m,
                     [c \in Contacts |-> c], m.moved) EXCEPT !.moved = {}]

MacDoes(m) ==
  LET done == AfterListing(m)
  IN mac' = [done EXCEPT !.sent = <<>>] /\ down' = down \o done.sent

Spend(what) == left[what] > 0 /\ left' = [left EXCEPT ![what] = @ - 1]

---------------------------------------------------------------------------
(* The Mac's contacts.                                                     *)

promptStateFrame(m, c) == [type |-> "prompt-state", c |-> c, seq |-> m.event[c].seq]

(* remote-host's listener, on an event raised or taken away. *)
OnSecretaryEvent(m, c, event) ==
  LET was == m.event[c]
      set == [m EXCEPT !.event[c] = event]
      dialog == IF event.kind = "needs-you"
                  THEN broadcast(set, promptStateFrame(set, c))
                ELSE IF was.kind = "needs-you"
                  THEN broadcast(set, [type |-> "prompt-cleared", c |-> c, seq |-> was.seq])
                ELSE set
      chat == IF event.kind = "none" THEN dialog ELSE broadcastTranscript(dialog, c)
  IN broadcastInstances(chat)

(* The agent's own word that a turn runs, or no longer does, comes apart    *)
(* from its events (a status file polled, a service's stream).              *)
OnWorking(c) ==
  /\ c \in mac.running /\ Spend("works")
  /\ MacDoes(broadcastInstances([mac EXCEPT !.working = IF c \in @ THEN @ \ {c} ELSE @ \cup {c}]))
  /\ UNCHANGED <<phone, up>>

(* A finished turn, its conclusion said; a dialog, or one restated. *)
reportActivity(c, kind) ==
  /\ c \in mac.running /\ Spend("events")
  /\ LET m == [mac EXCEPT !.seq = @ + 1,
                          !.said[c] = IF kind = "finished" THEN @ + 1 ELSE @]
     IN MacDoes(OnSecretaryEvent(m, c, [kind |-> kind, seq |-> m.seq]))
  /\ UNCHANGED <<phone, up>>

(* A dialog answered on either side, or a write into the contact. *)
clearSecretaryEvent(c) ==
  /\ mac.event[c] # NoEvent
  /\ MacDoes(OnSecretaryEvent(mac, c, NoEvent))
  /\ UNCHANGED <<phone, up, left>>

(* PTY bytes, with something said in them or not.  A watcher's chat is      *)
(* re-read on a trailing timer; one already running is left to run.         *)
broadcastOutput(c, says) ==
  /\ c \in mac.running /\ Spend("outputs")
  /\ LET n == mac.out[c] + 1
         m == [mac EXCEPT !.out[c] = n, !.said[c] = IF says THEN @ + 1 ELSE @,
                          !.timers = IF \E s \in Sockets : Subscribed(mac, s, c)
                                       THEN @ \cup {c} ELSE @]
     IN MacDoes(toSubscribers(m, c, [type |-> "output", c |-> c, n |-> n]))
  /\ UNCHANGED <<phone, up>>

TranscriptTimer(c) ==
  /\ c \in mac.timers
  /\ MacDoes(broadcastTranscript(mac, c))
  /\ UNCHANGED <<phone, up, left>>

(* `/new`, `/clear`, a resume: the contact goes on in another CLI session. *)
attachSession(c) ==
  /\ c \in mac.running /\ Spend("moves")
  /\ MacDoes(broadcastInstances([mac EXCEPT !.cli[c] = @ + 1, !.said[c] = 0]))
  /\ UNCHANGED <<phone, up>>

(* The process exits: nothing more is re-read of it. *)
broadcastExit(c) ==
  /\ c \in mac.running /\ Spend("exits")
  /\ LET over == [mac EXCEPT !.running = @ \ {c}, !.working = @ \ {c},
                             !.cut = IF c \in mac.timers THEN @ \cup {c} ELSE @]
         cleared == IF mac.event[c] = NoEvent THEN over ELSE OnSecretaryEvent(over, c, NoEvent)
     IN MacDoes(broadcastInstances(broadcast([cleared EXCEPT !.timers = @ \ {c}],
                                             [type |-> "exit", c |-> c])))
  /\ UNCHANGED <<phone, up>>

(* Read at the desk: Finished becomes Idle on the phones. *)
markSeen(m, c) ==
  IF m.event[c].kind # "finished" \/ m.seen[c] = m.event[c].seq THEN m
  ELSE broadcastInstances([m EXCEPT !.seen[c] = m.event[c].seq])

ReadAtDesk(c) ==
  /\ markSeen(mac, c) # mac
  /\ MacDoes(markSeen(mac, c))
  /\ UNCHANGED <<phone, up, left>>

---------------------------------------------------------------------------
(* The Mac's end of the socket.                                            *)

Subscribe(m, s, f) ==
  LET seen == markSeen([m EXCEPT !.subs[s][f.c] = f.turns], f.c)
      chat == sendTranscript(seen, s, f.c)
      tail == Send(chat, s, [type |-> "snapshot", c |-> f.c, n |-> m.out[f.c]])
  IN IF m.event[f.c].kind = "needs-you" THEN Send(tail, s, promptStateFrame(m, f.c)) ELSE tail

Authenticated(m, s) ==
  sendInstances(Send([m EXCEPT !.authed = @ \cup {s}], s, [type |-> "auth-ok"]), s)

handleClientFrame ==
  /\ up # <<>>
  /\ LET f == Head(up)
     IN MacDoes(CASE f.type = "auth" -> Authenticated(mac, f.on)
                  [] f.type = "subscribe" -> Subscribe(mac, f.on, f)
                  [] f.type = "unsubscribe" -> [mac EXCEPT !.subs[f.on][f.c] = 0])
  /\ up' = Tail(up)
  /\ UNCHANGED <<phone, left>>

(* The Mac finds that a socket is gone, when all that came on it is handled. *)
SocketClosed(s) ==
  /\ s \in mac.authed /\ (s # phone.socket \/ phone.link = "off")
  /\ \A i \in DOMAIN up : up[i].on # s
  /\ mac' = [mac EXCEPT !.authed = @ \ {s}, !.subs[s] = Unsubscribed]
  /\ UNCHANGED <<phone, up, down, left>>

---------------------------------------------------------------------------
(* The phone.                                                              *)

Uplink(p, frames) == IF p.link = "on" THEN up \o frames ELSE up

subscribeOpen(p) ==
  IF p.openId = NoContact THEN <<>>
  ELSE <<[type |-> "subscribe", c |-> p.openId, turns |-> p.sess[p.openId].turns,
          on |-> p.socket]>>

Dial ==
  /\ phone.link = "off"
  /\ phone' = [phone EXCEPT !.link = "dialing", !.socket = @ + 1]
  /\ up' = Append(up, [type |-> "auth", on |-> phone.socket + 1])
  /\ UNCHANGED <<mac, down, left>>

(* The socket drops: of what the phone sent, some may still arrive. *)
Drop ==
  /\ phone.link # "off" /\ phone.socket < MaxSockets /\ Spend("drops")
  /\ phone' = [phone EXCEPT !.link = "off"]
  /\ \E n \in 0..Len(up) : up' = SubSeq(up, 1, n)
  /\ down' = <<>>
  /\ UNCHANGED mac

Opens(c) ==
  /\ c # phone.openId /\ Spend("opens")
  /\ LET was == phone.openId
         leave == IF was = NoContact THEN <<>>
                  ELSE <<[type |-> "unsubscribe", c |-> was, on |-> phone.socket]>>
         quiet == IF was = NoContact THEN phone
                  ELSE [phone EXCEPT !.terminal[was] = NoTerminal]
         p == IF c = NoContact THEN [quiet EXCEPT !.openId = c]
              ELSE [quiet EXCEPT !.openId = c, !.sess[c].turns = 1]
     IN phone' = p /\ up' = Uplink(p, leave \o subscribeOpen(p))
  /\ UNCHANGED <<mac, down>>

loadEarlier ==
  /\ phone.openId # NoContact /\ Spend("pages")
  /\ LET p == [phone EXCEPT !.sess[phone.openId].turns = @ + 1]
     IN phone' = p /\ up' = Uplink(p, subscribeOpen(p))
  /\ UNCHANGED <<mac, down>>

(* The list: a session that is not in needs-you has no dialog. *)
OnInstances(p, f) ==
  [p EXCEPT !.list = f.rows,
            !.sess = [c \in Contacts |->
                        IF f.rows[c].state = "needs-you" THEN @[c]
                        ELSE [@[c] EXCEPT !.dialog = 0]]]

(* The chat; in a new CLI session it starts afresh at its last page. *)
OnTranscript(p, f) ==
  LET was == p.sess[f.c]
      anew == was.cli \notin {0, f.cli}
  IN [p EXCEPT !.sess[f.c] = [@ EXCEPT !.cli = f.cli, !.said = f.said, !.of = f.of,
                                       !.turns = IF anew THEN 1 ELSE @]]

feedTerminal(p, f) ==
  IF f.type = "snapshot"
    THEN [p EXCEPT !.terminal[f.c] = [to |-> f.n, whole |-> TRUE, fed |-> TRUE]]
  ELSE IF p.terminal[f.c].fed
    THEN [p EXCEPT !.terminal[f.c] = [@ EXCEPT !.to = f.n, !.whole = @ /\ f.n = p.terminal[f.c].to + 1]]
  ELSE p

Reduced(p, f) ==
  CASE f.type = "instances" -> OnInstances(p, f)
    [] f.type = "transcript" -> OnTranscript(p, f)
    [] f.type \in {"snapshot", "output"} -> feedTerminal(p, f)
    [] f.type = "prompt-state" -> [p EXCEPT !.sess[f.c].dialog = f.seq]
    [] f.type = "prompt-cleared" ->
         IF p.sess[f.c].dialog = f.seq THEN [p EXCEPT !.sess[f.c].dialog = 0] ELSE p
    [] f.type = "exit" -> [p EXCEPT !.sess[f.c].dialog = 0]
    [] f.type = "auth-ok" -> [p EXCEPT !.link = "on"]

onFrame ==
  /\ down # <<>>
  /\ LET f == Head(down)
         p == Reduced(phone, f)
         paged == /\ f.type = "transcript" /\ f.c = p.openId
                  /\ p.sess[f.c].turns < phone.sess[f.c].turns
     IN /\ phone' = p
        /\ up' = IF f.type = "auth-ok" \/ paged THEN Uplink(p, subscribeOpen(p)) ELSE up
  /\ down' = Tail(down)
  /\ UNCHANGED <<mac, left>>

---------------------------------------------------------------------------
Next ==
  \/ \E c \in Contacts :
       \/ OnWorking(c) \/ clearSecretaryEvent(c) \/ TranscriptTimer(c)
       \/ \E kind \in {"needs-you", "finished"} : reportActivity(c, kind)
       \/ \E says \in BOOLEAN : broadcastOutput(c, says)
       \/ attachSession(c) \/ broadcastExit(c) \/ ReadAtDesk(c)
  \/ \E c \in Contacts \cup {NoContact} : Opens(c)
  \/ \E s \in Sockets : SocketClosed(s)
  \/ handleClientFrame \/ onFrame \/ Dial \/ Drop \/ loadEarlier

Spec == Init /\ [][Next]_vars

(***************************************************************************)
(* With nothing on its way and no re-read due, the phone shows the Mac: its *)
(* list is the Mac's; a dialog is shown only on a session that needs you;   *)
(* the open session, and no other, is subscribed, at the turns it shows,    *)
(* and its dialog, its chat and its terminal are the Mac's.  A terminal is  *)
(* never painted over a gap.  (A chat whose re-read an exit cancelled is    *)
(* as it was last sent.)                                                    *)
(***************************************************************************)
Quiet == phone.link = "on" /\ up = <<>> /\ down = <<>> /\ mac.timers = {}

OpenIsTrue(c) ==
  LET shown == phone.sess[c]
  IN /\ shown.dialog = (IF mac.event[c].kind = "needs-you" THEN mac.event[c].seq ELSE 0)
     /\ shown.cli = mac.cli[c] /\ shown.of = shown.turns
     /\ c \notin mac.cut => shown.said = mac.said[c]
     /\ phone.terminal[c].to = mac.out[c]

ScreenIsTrue ==
  /\ \A c \in Contacts : phone.terminal[c].whole
  /\ Quiet =>
       /\ phone.list = Rows(mac)
       /\ \A c \in Contacts :
            /\ phone.sess[c].dialog # 0 => phone.list[c].state = "needs-you"
            /\ mac.subs[phone.socket][c] =
                 (IF c = phone.openId THEN phone.sess[c].turns ELSE 0)
            /\ c = phone.openId => OpenIsTrue(c)
============================================================================
