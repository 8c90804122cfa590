------------------------------ MODULE PhoneLink ------------------------------
(***************************************************************************)
(* How what a paired phone asks for reaches the agent's terminal: the       *)
(* phone's outbox, its sockets to the Mac, the server's acks by client      *)
(* message id, and the transcript that takes a message's bubble over.  One  *)
(* phone, one contact, open on the phone.  Handshake and sealing are left   *)
(* out: a socket exists once it is authenticated.  A frame written to a     *)
(* socket the phone has since dropped may still arrive, or be lost; within  *)
(* a socket frames keep their order.                                        *)
(***************************************************************************)
EXTENDS Naturals, Sequences, FiniteSets, SequencesExt

CONSTANTS Prompts,      \* messages the builder may send, numbered as they are made
          Answers,      \* frames that are never queued: answer, interrupt
          Subs,         \* push subscriptions the phone may hand over
          None,
          TextOf,       \* what each prompt says
          MaxFrames,    \* bound: frames the builder makes
          MaxSockets,   \* bound: connections the phone makes
          MaxUpsets,    \* bound: restarts of Multi-Code, new pairings and new CLI
                        \* sessions, together
          MaxItems,     \* MAX_ITEMS
          AcksKept      \* ACKS_KEPT

Frames == Prompts \cup Answers \cup Subs
Sockets == 1..MaxSockets
Devices == 1..MaxUpsets + 1
Runs == 1..MaxUpsets + 1
CliSessions == 1..MaxUpsets + 1
NoSocket == 0

ASSUME LinkAssumption ==
  /\ Prompts \cap Answers = {} /\ Prompts \cap Subs = {} /\ Answers \cap Subs = {}
  /\ Prompts \subseteq Nat /\ None \notin Frames
  /\ DOMAIN TextOf = Prompts
  /\ MaxFrames \in Nat /\ MaxSockets \in Nat /\ MaxUpsets \in Nat
  /\ MaxItems \in Nat /\ AcksKept \in Nat

VARIABLES
  (* the phone, its outbox and delivered entries kept in localStorage *)
  made,         \* the frames made so far, in order
  status,       \* each one's outbox status; "none" before it is made; once it has left
                \* the outbox "delivered", taken over by the transcript, "settled",
                \* by its ack or a new CLI session, or "forgotten"
  sentOnce, dropped, oldSession,   \* the outbox items with these flags
  delivered,    \* the transcript entries that delivered a prompt
  transcript,   \* the entries last received
  knownCli,     \* the CLI session they are of; 0 before the first
  seen,         \* the entries received so far (history)
  socket,       \* the authenticated socket; NoSocket while there is none
  device,       \* the pairing in use
  (* the network *)
  sockets,      \* sockets made so far
  open,         \* those the Mac has not seen close
  deviceOf,     \* the device each authenticated as
  wire,         \* frames on their way to the Mac, by socket
  inbox,        \* frames on their way to the phone, on its socket
  (* RemoteServer and its host, in memory *)
  run,          \* Multi-Code's launch
  acks,         \* by device, the acks kept, oldest first
  acting,       \* answers being worked on, with the socket each ack goes to
  subscription, \* device-store: each device's push subscription on file
  (* the agent *)
  typed,        \* what was written to its terminal, in order
  cli,          \* its CLI session
  shown         \* how many of that session's messages its transcript has

outbox == <<made, status, sentOnce, dropped, oldSession, delivered>>
screen == <<transcript, knownCli, seen>>
phone == <<outbox, screen, socket, device>>
network == <<sockets, open, deviceOf, wire>>
server == <<run, acks, acting>>
agent == <<typed, cli, shown>>
vars == <<phone, network, inbox, server, subscription, agent>>

Statuses == {"none", "waiting", "sent", "acked", "refused", "unknown", "delivered",
             "settled", "forgotten"}
InOutbox == {"waiting", "sent", "acked", "refused", "unknown"}
Entries == 1..Len(typed)

TypeOK ==
  /\ made \in Seq(Frames)
  /\ status \in [Frames -> Statuses]
  /\ sentOnce \subseteq Frames /\ dropped \subseteq Frames /\ oldSession \subseteq Prompts
  /\ delivered \subseteq Entries /\ transcript \subseteq Entries /\ seen \subseteq Entries
  /\ knownCli \in CliSessions \cup {0}
  /\ socket \in Sockets \cup {NoSocket} /\ device \in Devices
  /\ sockets \in 0..MaxSockets /\ open \subseteq 1..sockets
  /\ deviceOf \in [Sockets -> Devices]
  /\ wire \in [Sockets -> Seq(Frames)]
  /\ inbox \in Seq([ack : Frames, ok : BOOLEAN] \cup [entries : SUBSET Entries, cli : CliSessions])
  /\ run \in Runs
  /\ acks \in [Devices -> Seq([frame : Frames, result : {"pending", "ok", "refused"}])]
  /\ acting \subseteq [frame : Answers, on : Sockets]
  /\ subscription \in [Devices -> Subs \cup {None}]
  /\ typed \in Seq([frame : Prompts \cup Answers, device : Devices, run : Runs, cli : CliSessions])
  /\ cli \in CliSessions
  /\ shown \in 0..Len(typed)

Init ==
  /\ made = <<>> /\ status = [f \in Frames |-> "none"]
  /\ sentOnce = {} /\ dropped = {} /\ oldSession = {} /\ delivered = {}
  /\ transcript = {} /\ knownCli = 0 /\ seen = {}
  /\ socket = NoSocket /\ device = 1
  /\ sockets = 0 /\ open = {} /\ deviceOf = [s \in Sockets |-> 1]
  /\ wire = [s \in Sockets |-> <<>>] /\ inbox = <<>>
  /\ run = 1 /\ acks = [d \in Devices |-> <<>>] /\ acting = {}
  /\ subscription = [d \in Devices |-> None]
  /\ typed = <<>> /\ cli = 1 /\ shown = 0

-----------------------------------------------------------------------------
(* The outbox (pure functions of outbox.ts) *)

isQueued(f) == f \notin Answers

Before(order, f, g) ==
  \E i, j \in DOMAIN order : i < j /\ order[i] = f /\ order[j] = g

\* Beyond MaxItems the oldest settled items go; never one still on its way.
trim(st, order) ==
  LET present == {f \in Frames : st[f] \in InOutbox}
      settled == {f \in present : st[f] \notin {"waiting", "sent"}}
      excess == {f \in settled : Cardinality({g \in settled : Before(order, g, f)}) + MaxItems
                                   < Cardinality(present)}
  IN [f \in Frames |-> IF f \in excess THEN "forgotten" ELSE st[f]]

\* A newer push-subscribe replaces one still unacked.
enqueue(f, sent) ==
  LET replaced == IF f \in Subs THEN {g \in Subs : status[g] \in {"waiting", "sent", "unknown"}}
                                ELSE {}
      st == [g \in Frames |-> IF g = f THEN (IF sent THEN "sent" ELSE "waiting")
                              ELSE IF g \in replaced THEN "forgotten" ELSE status[g]]
  IN /\ made' = Append(made, f)
     /\ status' = trim(st, made')
     /\ sentOnce' = IF sent THEN sentOnce \cup {f} ELSE sentOnce

\* (A slip: what can be resent stays "sent".)
LostAnswersOnly(st) ==
  [f \in Frames |-> IF st[f] = "sent" /\ ~isQueued(f) THEN "unknown" ELSE st[f]]

SocketLost(st) ==
  [f \in Frames |-> IF st[f] # "sent" THEN st[f]
                    ELSE IF isQueued(f) THEN "waiting" ELSE "unknown"]

socketLost == /\ status' = SocketLost(status)
              /\ dropped' = dropped \cup {f \in Frames : status[f] = "sent" /\ isQueued(f)}

\* (A slip: what the old device may have delivered is resent by the new one.)
KeepForNewDevice(st) == st

newDevice(st) ==
  [f \in Frames |-> IF f \in Prompts \cap sentOnce /\ st[f] \in {"waiting", "sent"}
                    THEN "unknown" ELSE st[f]]

\* settleDelivered: the prompts, acked or unknown, that transcript entries deliver. One
\* entry of a text delivers one prompt of it, the oldest first, and only once.
Says(i) == TextOf[typed[i].frame]
Open(st) == {p \in Prompts : st[p] \in {"acked", "unknown"}}

Delivered(st, entries, used) ==
  LET free(t) == {i \in entries \ used : Says(i) = t}
  IN {p \in Open(st) :
        Cardinality({q \in Open(st) : TextOf[q] = TextOf[p] /\ Before(made, q, p)})
          < Cardinality(free(TextOf[p]))}

Used(st, entries, used) ==
  LET free == entries \ used IN
  {i \in free : Cardinality({j \in free : j < i /\ Says(j) = Says(i)})
                  < Cardinality({p \in Open(st) : TextOf[p] = Says(i)})}

settle(st, entries, used) ==
  /\ status' = [f \in Frames |-> IF f \in Delivered(st, entries, used) THEN "delivered" ELSE st[f]]
  /\ delivered' = used \cup Used(st, entries, used)

-----------------------------------------------------------------------------
(* The phone *)

\* Written to the socket, which the Mac may no longer hold.
Write(fs) == wire' = IF socket \in open THEN [wire EXCEPT ![socket] = @ \o fs] ELSE wire

Unmade(f) ==
  /\ status[f] = "none" /\ Len(made) < MaxFrames
  /\ f \in Prompts => \A p \in Prompts : p < f => status[p] # "none"

\* sendPrompt, pushSubscribe: now if the link is up, else it waits.
queue(f) ==
  /\ isQueued(f) /\ Unmade(f)
  /\ enqueue(f, socket # NoSocket)
  /\ IF socket # NoSocket THEN Write(<<f>>) ELSE UNCHANGED wire
  /\ UNCHANGED <<dropped, oldSession, delivered, screen, socket, device, sockets, open,
                 deviceOf, inbox, server, subscription, agent>>

\* An answer or interrupt: on the open link, or not at all.
sendNow(f) ==
  /\ ~isQueued(f) /\ Unmade(f) /\ socket # NoSocket
  /\ enqueue(f, TRUE)
  /\ Write(<<f>>)
  /\ UNCHANGED <<dropped, oldSession, delivered, screen, socket, device, sockets, open,
                 deviceOf, inbox, server, subscription, agent>>

\* Only a prompt that never left can be taken back; only a settled item dismissed.
Forget(f) ==
  /\ \/ f \in Prompts /\ status[f] = "waiting" /\ f \notin sentOnce
     \/ status[f] \in {"acked", "refused", "unknown"}
  /\ status' = [status EXCEPT ![f] = "forgotten"]
  /\ UNCHANGED <<made, sentOnce, dropped, oldSession, delivered, screen, socket, device,
                 network, inbox, server, subscription, agent>>

\* What still waits, by its place in the outbox; the n-th of it, oldest first.
Waiting == {i \in DOMAIN made : status[made[i]] = "waiting"}
Nth(n) == CHOOSE i \in Waiting : Cardinality({j \in Waiting : j <= i}) = n

\* (A slip: newest first.)
NewestFirst == [n \in 1..Cardinality(Waiting) |-> made[Nth(Cardinality(Waiting) + 1 - n)]]

\* Everything still waiting, oldest first.
toSend == [n \in 1..Cardinality(Waiting) |-> made[Nth(n)]]

connected ==
  /\ socket = NoSocket /\ sockets < MaxSockets
  /\ sockets' = sockets + 1 /\ socket' = sockets' /\ open' = open \cup {sockets'}
  /\ deviceOf' = [deviceOf EXCEPT ![sockets'] = device]
  /\ wire' = [wire EXCEPT ![sockets'] = toSend]
  /\ status' = [f \in Frames |-> IF status[f] = "waiting" THEN "sent" ELSE status[f]]
  /\ sentOnce' = sentOnce \cup {f \in Frames : status[f] = "waiting"}
  /\ UNCHANGED <<made, dropped, oldSession, delivered, screen, device, inbox, server,
                 subscription, agent>>

\* Bound: nothing goes wrong with the last connection.
MoreSockets == socket = NoSocket \/ sockets < MaxSockets
Upset == device + run + cli < MaxUpsets + 3

\* The socket closed, stopped answering, or was dropped because the page was hidden.
lost ==
  /\ socket # NoSocket /\ MoreSockets
  /\ socket' = NoSocket /\ inbox' = <<>>
  /\ socketLost
  /\ UNCHANGED <<made, sentOnce, oldSession, delivered, screen, device, network, server,
                 subscription, agent>>

\* The app is closed and opened again: loadOutbox. Answers are gone, acked and unknown
\* ones after ACKED_KEPT_MS too, and what was on the socket waits.
relaunch ==
  /\ MoreSockets
  /\ socket' = NoSocket /\ inbox' = <<>>
  /\ \/ UNCHANGED screen
     \/ transcript' = {} /\ knownCli' = 0 /\ UNCHANGED seen
  /\ \E old \in SUBSET {f \in Frames : status[f] \in {"acked", "unknown"}} :
       status' = [f \in Frames |->
                    IF status[f] \in InOutbox /\ (~isQueued(f) \/ f \in old) THEN "forgotten"
                    ELSE SocketLost(status)[f]]
  /\ dropped' = dropped \cup {f \in Frames : status[f] = "sent" /\ isQueued(f)}
  /\ UNCHANGED <<made, sentOnce, oldSession, delivered, device, network, server,
                 subscription, agent>>

\* Paired with the same Mac again, under a new token.
pair ==
  /\ MoreSockets /\ Upset
  /\ device' = device + 1 /\ socket' = NoSocket /\ inbox' = <<>>
  /\ status' = newDevice(SocketLost(status))
  /\ dropped' = dropped \cup {f \in Frames : status[f] = "sent" /\ isQueued(f)}
  /\ UNCHANGED <<made, sentOnce, oldSession, delivered, screen, network, server,
                 subscription, agent>>

\* applyAck, then what the transcript on screen already shows.
onAck ==
  LET m == Head(inbox)
      f == m.ack
      st == IF status[f] \notin InOutbox THEN status
            ELSE [status EXCEPT ![f] = IF ~m.ok THEN "refused"
                                       ELSE IF f \in Subs \cup oldSession THEN "settled"
                                       ELSE "acked"]
  IN /\ inbox # <<>> /\ "ack" \in DOMAIN m
     /\ inbox' = Tail(inbox)
     /\ IF f \in Prompts /\ m.ok /\ status[f] \in InOutbox
        THEN settle(st, transcript, delivered)
        ELSE status' = st /\ UNCHANGED delivered
     /\ UNCHANGED <<made, sentOnce, dropped, oldSession, screen, socket, device, network,
                    server, subscription, agent>>

inFlight == {p \in Prompts \cap dropped : status[p] \in {"waiting", "sent"}}

\* A transcript; one of another CLI session than before renews the session first.
onTranscript ==
  LET m == Head(inbox)
      renewed == knownCli # 0 /\ m.cli # knownCli
      acked == {p \in Prompts : status[p] = "acked"}
      st == [f \in Frames |-> IF renewed /\ f \in acked THEN "settled" ELSE status[f]]
  IN /\ inbox # <<>> /\ "entries" \in DOMAIN m
     /\ inbox' = Tail(inbox)
     /\ transcript' = m.entries /\ knownCli' = m.cli /\ seen' = seen \cup m.entries
     /\ oldSession' = IF renewed THEN oldSession \cup inFlight ELSE oldSession
     /\ settle(st, m.entries, IF renewed THEN {} ELSE delivered)
     /\ UNCHANGED <<made, sentOnce, dropped, socket, device, network, server,
                    subscription, agent>>

-----------------------------------------------------------------------------
(* The Mac *)

\* send: to the phone's socket, or nowhere once the phone has dropped it.
Reply(s, f, ok) ==
  inbox' = IF s = socket /\ s \in open THEN Append(inbox, [ack |-> f, ok |-> ok]) ELSE inbox

remember(d, f, result) ==
  LET kept == Append(acks[d], [frame |-> f, result |-> result])
  IN acks' = [acks EXCEPT ![d] = IF Len(kept) > AcksKept THEN Tail(kept) ELSE kept]

AckOf(d, f) == {a \in Range(acks[d]) : a.frame = f}

type(f, d) == typed' = Append(typed, [frame |-> f, device |-> d, run |-> run, cli |-> cli])

\* (A slip: a resend is always acked as taken.)
ResentOk(s, f) ==
  /\ AckOf(deviceOf[s], f) # {}
  /\ Reply(s, f, TRUE)
  /\ UNCHANGED <<acting, acks, typed, subscription>>

\* acked: a frame already handled for this device is not acted on again.
Resent(s, f) ==
  \E a \in AckOf(deviceOf[s], f) :
    /\ IF a.result = "pending"
       THEN acting' = acting \cup {[frame |-> f, on |-> s]} /\ UNCHANGED inbox
       ELSE Reply(s, f, a.result = "ok") /\ UNCHANGED acting
    /\ UNCHANGED <<acks, typed, subscription>>

\* host.sendPrompt, which refuses while the contact is stopped or a dialog is open.
sendPrompt(s, f) ==
  /\ f \in Prompts
  /\ \E ok \in BOOLEAN :
       /\ Reply(s, f, ok)
       /\ remember(deviceOf[s], f, IF ok THEN "ok" ELSE "refused")
       /\ IF ok THEN type(f, deviceOf[s]) ELSE UNCHANGED typed
  /\ UNCHANGED <<acting, subscription>>

\* setPushSubscription, undone and refused when it cannot be saved.
setPushSubscription(s, f) ==
  /\ f \in Subs
  /\ \E saved \in BOOLEAN :
       /\ Reply(s, f, saved)
       /\ remember(deviceOf[s], f, IF saved THEN "ok" ELSE "refused")
       /\ subscription' = IF saved THEN [subscription EXCEPT ![deviceOf[s]] = f]
                                  ELSE subscription
  /\ UNCHANGED <<acting, typed>>

\* host.answer takes its time over the keys.
startAnswer(s, f) ==
  /\ f \in Answers
  /\ remember(deviceOf[s], f, "pending")
  /\ acting' = acting \cup {[frame |-> f, on |-> s]}
  /\ UNCHANGED <<inbox, typed, subscription>>

handleClientFrame(s) ==
  LET f == Head(wire[s]) IN
  /\ s \in open /\ wire[s] # <<>>
  /\ wire' = [wire EXCEPT ![s] = Tail(@)]
  /\ \/ Resent(s, f)
     \/ /\ AckOf(deviceOf[s], f) = {}
        /\ sendPrompt(s, f) \/ setPushSubscription(s, f) \/ startAnswer(s, f)
  /\ UNCHANGED <<phone, sockets, open, deviceOf, run, cli, shown>>

\* The keys are in, or some of them, or none.
finishAnswer(f) ==
  LET waiting == {a \in acting : a.frame = f} IN
  /\ waiting # {}
  /\ acting' = acting \ waiting
  /\ \E ok \in BOOLEAN :
       /\ acks' = [d \in Devices |-> [i \in DOMAIN acks[d] |->
                     IF acks[d][i] = [frame |-> f, result |-> "pending"]
                     THEN [frame |-> f, result |-> IF ok THEN "ok" ELSE "refused"]
                     ELSE acks[d][i]]]
       /\ \E a \in waiting :
            /\ (\E b \in waiting : b.on = socket) => a.on = socket
            /\ Reply(a.on, f, ok)
            /\ \/ type(f, deviceOf[a.on])
               \/ ~ok /\ UNCHANGED typed
  /\ UNCHANGED <<phone, network, run, subscription, cli, shown>>

\* A socket closes on the Mac's side; what was still on its way there is lost.
onClose(s) ==
  /\ s \in open /\ (s = socket => MoreSockets)
  /\ open' = open \ {s} /\ wire' = [wire EXCEPT ![s] = <<>>]
  /\ UNCHANGED <<phone, sockets, deviceOf, inbox, server, subscription, agent>>

\* Multi-Code quits or dies, and is started again with every contact stopped.
Restart ==
  /\ MoreSockets /\ Upset
  /\ run' = run + 1
  /\ acks' = [d \in Devices |-> <<>>] /\ acting' = {}
  /\ open' = {} /\ wire' = [s \in Sockets |-> <<>>]
  /\ UNCHANGED <<phone, sockets, deviceOf, inbox, subscription, agent>>

-----------------------------------------------------------------------------
(* The contact *)

Here == {i \in Entries : typed[i].cli = cli /\ typed[i].frame \in Prompts}

\* A message shows in the transcript.
Show ==
  /\ shown < Cardinality(Here)
  /\ shown' = shown + 1
  /\ UNCHANGED <<phone, network, inbox, server, subscription, typed, cli>>

\* `/new`, `/clear`.
NewSession ==
  /\ Upset
  /\ cli' = cli + 1 /\ shown' = 0
  /\ UNCHANGED <<phone, network, inbox, server, subscription, typed>>

\* broadcastTranscript, sendTranscript: the contact's session as it reads now.
sendTranscript ==
  /\ socket \in open
  /\ \A i \in DOMAIN inbox : "entries" \notin DOMAIN inbox[i]
  /\ inbox' = Append(inbox,
       [cli |-> cli,
        entries |-> {i \in Here : Cardinality({j \in Here : j <= i}) <= shown}])
  /\ UNCHANGED <<phone, network, server, subscription, agent>>

-----------------------------------------------------------------------------
Phone == \/ \E f \in Frames : queue(f) \/ sendNow(f) \/ Forget(f)
         \/ connected \/ lost \/ relaunch \/ pair \/ onAck \/ onTranscript

Mac == \/ \E s \in Sockets : handleClientFrame(s) \/ onClose(s)
       \/ \E f \in Answers : finishAnswer(f)
       \/ Restart \/ sendTranscript

Contact == Show \/ NewSession

Next == Phone \/ Mac \/ Contact

\* Both ends keep working, a phone whose socket has closed notices, and (see
\* MoreSockets) some connection lasts.
Fairness ==
  /\ WF_vars(connected) /\ WF_vars(onAck) /\ WF_vars(onTranscript)
  /\ WF_vars(socket \notin open /\ lost)
  /\ \A s \in Sockets : WF_vars(handleClientFrame(s))
  /\ \A f \in Answers : WF_vars(finishAnswer(f))

Spec == Init /\ [][Next]_vars
FairSpec == Spec /\ Fairness

-----------------------------------------------------------------------------
(* Properties *)

\* While Multi-Code runs it types no message twice, over all the phone's sockets and
\* pairings, however many times it is resent (acked, newDevice); and an answer or interrupt
\* is acted on at most once, restarts and all: the moment it was for has passed (outbox.ts:
\* "never queued and never resent").
OncePerRun ==
  /\ TypeOK
  /\ \A i, j \in Entries : i < j /\ typed[i].frame = typed[j].frame =>
       typed[i].run # typed[j].run /\ typed[i].frame \notin Answers

\* One pairing's messages reach the agent in the order they were written, also those
\* that waited and were resent next to newer ones (toSend, and one socket at a time).
InOrder ==
  LET prompts == {i \in Entries : typed[i].frame \in Prompts} IN
  \A i, j \in prompts :
    i < j /\ typed[i].run = typed[j].run /\ typed[i].device = typed[j].device
      => ~Before(made, typed[j].frame, typed[i].frame)

\* What the outbox says became of a prompt is what did: one taken or settled was typed, one
\* refused was not, by the launch that refused it; and no more messages of a text are counted
\* delivered than entries of it came ("One transcript entry delivers one prompt, so two
\* identical messages need two").
AcksAreTrue ==
  \A p \in Prompts :
    /\ status[p] \in {"acked", "settled"} => \E i \in Entries : typed[i].frame = p
    /\ status[p] = "refused" => \A i \in Entries : typed[i].frame = p => typed[i].run < run
    /\ Cardinality({q \in Prompts : TextOf[q] = TextOf[p] /\ status[q] = "delivered"})
         <= Cardinality({i \in seen : Says(i) = TextOf[p]})

\* No message waits for ever: the Mac takes or refuses it, or the phone says it does
\* not know, through lost sockets, relaunches, restarts and new pairings.
PromptSettled ==
  \A p \in Prompts :
    status[p] \in {"waiting", "sent"} ~> status[p] \notin {"waiting", "sent"}

\* The Mac never sends the same message twice.
NeverTwice ==
  \A i, j \in Entries : i < j => typed[i].frame # typed[j].frame
=============================================================================
