----------------------------- MODULE PhonePush -----------------------------
(***************************************************************************)
(* One paired phone's push subscription, in four places at once: in its     *)
(* browser, which may lose it silently; in a push-subscribe on its way; in  *)
(* the Mac's memory; in remote-devices.json.  The phone compares what it    *)
(* has with what `auth-ok` says on every connect (startPush); the Mac drops *)
(* its copy when the push service no longer knows it.                       *)
(*                                                                         *)
(* A subscription is named by its number and the key it was made for.  Of   *)
(* the outbox only the push-subscribe is kept: send() dismisses refused     *)
(* ones and enqueue replaces one unacked, so there is at most one.  The     *)
(* handshake is one step; a frame on a socket the phone has dropped may     *)
(* still arrive.                                                            *)
(***************************************************************************)
EXTENDS Naturals, Sequences, FiniteSets

CONSTANTS RESENDS,
          MaxSockets,  \* bound: connections, at most
          Budgets      \* bounds of each scenario: taps, sockets, upsets, fails, pushes

VARIABLES
  browser, subs,      \* the subscription it has; how many it has made
  permission, off,    \* Notification.permission; OFF_KEY
  item, ids,          \* the push-subscribe in the outbox; how many were made
  push,               \* state.push, from auth-ok and acks
  app,                \* startPush: checked, sentThisLaunch, resends, resendTimer
  run,                \* where the check and the tapped button are, and what they captured
  socket, open, wire, inbox,
  device, file,       \* the StoredDevice's push and lastPushError, and as saved
  key,                \* the VAPID pair
  acks,               \* what each push-subscribe was answered
  sending,            \* the subscription a push is going out to
  stale,              \* something changed that the next connect's check is to find
  overtaken,          \* an older push-subscribe, late on a dropped socket, was acted on
                      \* after a newer one
  left

phone == <<browser, subs, permission, off, item, ids, push, app, run, socket>>
mac == <<device, file, key, acks, sending>>
noted == <<stale, overtaken>>
vars == <<phone, open, wire, inbox, mac, noted, left>>

None == [no |-> 0, key |-> 0]
NoItem == [id |-> 0, sub |-> None, status |-> "none"]
Idle == [at |-> "idle", key |-> 0, enabled |-> FALSE]
Launched == [checked |-> FALSE, sentThisLaunch |-> FALSE, resends |-> 0, timer |-> 0]
Sockets == 1..MaxSockets

Init ==
  /\ left \in Budgets
  /\ browser = None /\ subs = 0 /\ permission = "default" /\ off = FALSE
  /\ item = NoItem /\ ids = 0
  /\ push = [key |-> 0, enabled |-> FALSE]
  /\ app = Launched /\ run = [check |-> Idle, tap |-> Idle]
  /\ socket = 0 /\ open = {} /\ wire = [s \in Sockets |-> <<>>] /\ inbox = <<>>
  /\ device = [push |-> None, error |-> 0] /\ file = device /\ key = 1
  /\ acks = {} /\ sending = None
  /\ stale = FALSE /\ overtaken = FALSE

Spend(what) == left[what] > 0 /\ left' = [left EXCEPT ![what] = @ - 1]

\* saveDevices: written, or it throws.
SaveFails == Spend("fails")

inFlight(i) == i.status \in {"waiting", "sent"}

-----------------------------------------------------------------------------
(* The phone *)

\* pushSubscribe, in place of any earlier one.
send(sub) ==
  /\ ids' = ids + 1
  /\ item' = [id |-> ids', sub |-> sub, status |-> IF socket # 0 THEN "sent" ELSE "waiting"]
  /\ wire' = IF socket \in open THEN [wire EXCEPT ![socket] = Append(@, item')] ELSE wire

SendsNothing == UNCHANGED <<ids, item, wire>>

Enter(op, at) == run' = [run EXCEPT ![op].at = at]

\* The state.push this launch or connection knows, captured as an operation starts.
Capture(op, at) ==
  run' = [run EXCEPT ![op] = [at |-> at, key |-> push.key, enabled |-> push.enabled]]

CheckDue == socket # 0 /\ ~app.checked /\ run["check"].at = "idle" /\ ~inFlight(item)

\* onChange, then check() up to its first wait.
StartCheck ==
  /\ CheckDue
  /\ IF off \/ permission # "granted"
     THEN /\ IF push.enabled /\ (off \/ permission = "denied") THEN send(None) ELSE SendsNothing
          /\ UNCHANGED run
     ELSE Capture("check", "looking") /\ SendsNothing
  /\ app' = [app EXCEPT !.checked = TRUE]
  /\ UNCHANGED <<browser, subs, permission, off, push, socket, open, inbox, mac, noted, left>>

\* madeFor, and the Mac has one.
Usable(sub, c) == sub # None /\ sub.key = c.key /\ c.enabled

\* getSubscription answered.
Look ==
  /\ run["check"].at = "looking"
  /\ IF Usable(browser, run["check"])
     THEN /\ Enter("check", "idle")
          /\ IF app.sentThisLaunch \/ off
             THEN SendsNothing /\ UNCHANGED app
             ELSE send(browser) /\ app' = [app EXCEPT !.sentThisLaunch = TRUE]
     ELSE Enter("check", "forgetting") /\ SendsNothing /\ UNCHANGED app
  /\ UNCHANGED <<browser, subs, permission, off, push, socket, open, inbox, mac, noted, left>>

\* subscribeAfresh: what there is goes first.
Unsubscribe(op) ==
  /\ run[op].at = "forgetting"
  /\ browser' = None
  /\ Enter(op, "subscribing")
  /\ UNCHANGED <<subs, permission, off, item, ids, push, app, socket, open, wire, inbox,
                 mac, noted, left>>

\* subscribe: the one there is, when another made it meanwhile.  Turned off meanwhile,
\* the check sends nothing; the button is what turns them on.
Subscribe(op) ==
  /\ run[op].at = "subscribing" /\ permission = "granted"
  /\ browser # None => browser.key = run[op].key
  /\ browser' = IF browser # None THEN browser ELSE [no |-> subs + 1, key |-> run[op].key]
  /\ subs' = IF browser # None THEN subs ELSE subs + 1
  /\ Enter(op, "idle")
  /\ off' = (off /\ op = "check")
  /\ IF off' THEN SendsNothing ELSE send(browser')
  /\ app' = [app EXCEPT !.sentThisLaunch = @ \/ (op = "check" /\ ~off')]
  /\ stale' = (stale \/ run[op].key # push.key)
  /\ UNCHANGED <<permission, push, socket, open, inbox, mac, left, overtaken>>

\* The service worker, or the push service, does not answer; or permission is gone; or
\* there is one for another key.
SubscribeFails(op) ==
  /\ run[op].at \in {"looking", "forgetting", "subscribing"}
  /\ \/ /\ run[op].at = "subscribing" /\ UNCHANGED left
        /\ permission # "granted" \/ (browser # None /\ browser.key # run[op].key)
     \/ Spend("fails")
  /\ Enter(op, "idle") /\ stale' = TRUE
  /\ UNCHANGED <<browser, subs, permission, off, item, ids, push, app, socket, open, wire, inbox, mac, overtaken>>

\* SetupScreen's button: not while one is busy, or a push-subscribe on its way.
Tappable == push.key # 0 /\ run["tap"].at = "idle" /\ ~inFlight(item)

turnOn ==
  /\ Tappable /\ ~push.enabled /\ permission # "denied" /\ Spend("taps")
  /\ \/ permission' = "granted" /\ Capture("tap", "forgetting")
     \/ permission = "default" /\ permission' = "denied" /\ UNCHANGED run
  /\ UNCHANGED <<browser, subs, off, item, ids, push, app, socket, open, wire, inbox, mac, noted>>

turnOff ==
  /\ Tappable /\ push.enabled /\ Spend("taps")
  /\ off' = TRUE
  /\ send(None)
  /\ Capture("tap", "dropping")
  /\ UNCHANGED <<browser, subs, permission, push, app, socket, open, inbox, mac, noted>>

dropSubscription ==
  /\ run["tap"].at = "dropping"
  /\ browser' = None \/ UNCHANGED browser
  /\ Enter("tap", "idle")
  /\ UNCHANGED <<subs, permission, off, item, ids, push, app, socket, open, wire, inbox, mac,
                 noted, left>>

scheduleResend ==
  /\ socket # 0 /\ item.status = "refused" /\ app.timer = 0 /\ app.resends < RESENDS
  /\ app' = [app EXCEPT !.resends = @ + 1, !.timer = item.id]
  /\ UNCHANGED <<browser, subs, permission, off, item, ids, push, run, socket, open, wire, inbox,
                 mac, noted, left>>

\* It does not look whether the browser still has the subscription.
resend ==
  /\ app.timer # 0
  /\ app' = [app EXCEPT !.timer = 0]
  /\ IF item.id = app.timer /\ item.status = "refused" /\ ~(item.sub # None /\ off)
     THEN send(item.sub) /\ stale' = (stale \/ item.sub \notin {None, browser})
     ELSE SendsNothing /\ UNCHANGED stale
  /\ UNCHANGED <<browser, subs, permission, off, push, run, socket, open, inbox, mac, left, overtaken>>

onAck ==
  /\ inbox # <<>> /\ inbox' = Tail(inbox)
  /\ IF Head(inbox).id # item.id THEN UNCHANGED <<item, push>>
     ELSE IF Head(inbox).ok
     THEN item' = NoItem /\ push' = [push EXCEPT !.enabled = item.sub # None]
     ELSE item' = [item EXCEPT !.status = "refused"] /\ UNCHANGED push
  /\ UNCHANGED <<browser, subs, permission, off, ids, app, run, socket, open, wire, mac, noted, left>>

Waiting == IF item.status = "sent" THEN [item EXCEPT !.status = "waiting"] ELSE item

disconnected ==
  /\ socket # 0
  /\ socket' = 0 /\ inbox' = <<>> /\ item' = Waiting
  /\ app' = [Launched EXCEPT !.sentThisLaunch = app.sentThisLaunch]
  /\ UNCHANGED <<browser, subs, permission, off, ids, push, run, open, wire, mac, noted, left>>

\* The app is closed, whatever it was doing, and opened again.
relaunch ==
  /\ Spend("upsets")
  /\ socket' = 0 /\ inbox' = <<>> /\ item' = Waiting
  /\ app' = Launched /\ run' = [check |-> Idle, tap |-> Idle]
  /\ push' = [key |-> 0, enabled |-> FALSE]
  /\ UNCHANGED <<browser, subs, permission, off, ids, open, wire, mac, noted>>

\* iOS drops the subscription, or the builder changes the permission in its Settings.
iOS ==
  /\ Spend("upsets") /\ stale' = TRUE
  /\ \/ browser # None /\ browser' = None /\ UNCHANGED permission
     \/ permission = "granted" /\ permission' = "denied" /\ browser' = None
     \/ permission = "denied" /\ permission' = "granted" /\ UNCHANGED browser
  /\ UNCHANGED <<subs, off, item, ids, push, app, run, socket, open, wire, inbox, mac, overtaken>>

-----------------------------------------------------------------------------
(* The Mac *)

\* auth, answered: what is in memory is saved first (or the socket is closed), and the
\* phone writes what waits.
connected ==
  /\ socket = 0 /\ Spend("sockets")
  /\ socket' = left["sockets"]
  /\ open' = open \cup {socket'}
  /\ file' = device
  /\ push' = [key |-> key, enabled |-> device.push # None]
  /\ stale' = FALSE
  /\ IF item.status = "waiting"
     THEN item' = [item EXCEPT !.status = "sent"] /\ wire' = [wire EXCEPT ![socket'] = <<item'>>]
     ELSE UNCHANGED <<item, wire>>
  /\ UNCHANGED <<browser, subs, permission, off, ids, app, run, inbox, device, key, acks, sending, overtaken>>

\* (A slip: what could not be saved stays in memory.)
KeptUnsaved(sub, ok) ==
  \/ ok /\ device.push = sub /\ UNCHANGED <<device, file, left>>
  \/ /\ device.push # sub /\ device' = [push |-> sub, error |-> 0]
     /\ \/ ok /\ file' = device' /\ UNCHANGED left
        \/ ~ok /\ SaveFails /\ UNCHANGED file

\* An unchanged one writes nothing; one that cannot be saved is undone and refused.
setPushSubscription(sub, ok) ==
  \/ ok /\ device.push = sub /\ UNCHANGED <<device, file, left>>
  \/ /\ ok /\ device.push # sub
     /\ device' = [push |-> sub, error |-> 0] /\ file' = device' /\ UNCHANGED left
  \/ ~ok /\ device.push # sub /\ SaveFails /\ UNCHANGED <<device, file>>

\* Once per id: a resend gets the first one's answer.
acked(f, ok) ==
  /\ IF \E a \in acks : a.id = f.id
     THEN [id |-> f.id, ok |-> ok] \in acks /\ UNCHANGED <<device, file, left>>
     ELSE setPushSubscription(f.sub, ok)
  /\ acks' = acks \cup {[id |-> f.id, ok |-> ok]}

pushSubscribe(s) ==
  LET f == Head(wire[s]) IN
  /\ s \in open /\ wire[s] # <<>>
  /\ wire' = [wire EXCEPT ![s] = Tail(@)]
  /\ \E ok \in BOOLEAN :
       /\ acked(f, ok)
       /\ inbox' = IF s = socket THEN Append(inbox, [id |-> f.id, ok |-> ok]) ELSE inbox
  /\ overtaken' = (overtaken \/ (device' # device /\ \E a \in acks : a.id > f.id))
  /\ UNCHANGED <<phone, open, key, sending, stale>>

\* A socket closes on the Mac's side, with what was on its way.
closed(s) ==
  /\ s \in open
  /\ open' = open \ {s} /\ wire' = [wire EXCEPT ![s] = <<>>]
  /\ UNCHANGED <<phone, inbox, mac, noted, left>>

\* pushSession, sendTestPush: one at a time, to the subscription as it is then.
deliver ==
  /\ sending = None /\ device.push # None /\ Spend("pushes")
  /\ sending' = device.push
  /\ UNCHANGED <<phone, open, wire, inbox, device, file, key, acks, noted>>

OfThisPush(sub) == device.push = sub

\* The send settled, or was given up at its deadline.  A change of the device that
\* cannot be saved stays in memory.
recordPush(result) ==
  /\ sending # None /\ sending' = None
  /\ result = "ok" => sending = browser /\ sending.key = key
  /\ result = "gone" => sending # browser
  /\ device' = IF ~OfThisPush(sending) THEN device
               ELSE CASE result = "ok" -> [device EXCEPT !.error = 0]
                      [] result = "gone" -> [push |-> None, error |-> 0]
                      [] OTHER -> [device EXCEPT !.error = sending.no]
  /\ \/ file' = (IF device' = device THEN file ELSE device') /\ UNCHANGED left
     \/ device' # device /\ SaveFails /\ UNCHANGED file
  /\ stale' = (stale \/ device'.push # device.push)
  /\ overtaken' = (overtaken /\ device'.push = device.push)
  /\ UNCHANGED <<phone, open, wire, inbox, key, acks>>

\* Multi-Code is started again: loadDevices; and vapidKeys, which forgets every
\* subscription when it has to make a new pair.
restart ==
  /\ Spend("upsets")
  /\ open' = {} /\ wire' = [s \in Sockets |-> <<>>]
  /\ acks' = {} /\ sending' = None
  /\ \/ key' = key /\ device' = file /\ UNCHANGED file
     \/ /\ key' = key + 1
        /\ device' = [push |-> None, error |-> 0]
        /\ file' \in {device', file}
  /\ UNCHANGED <<phone, inbox, noted>>

-----------------------------------------------------------------------------
Operations == {"check", "tap"}

Others ==
  \/ Look \/ turnOn \/ turnOff \/ dropSubscription
  \/ \E op \in Operations : Unsubscribe(op) \/ Subscribe(op) \/ SubscribeFails(op)
  \/ scheduleResend \/ resend \/ onAck \/ disconnected \/ relaunch \/ iOS \/ connected
  \/ \E s \in Sockets : pushSubscribe(s) \/ closed(s)
  \/ deliver \/ (\E result \in {"ok", "gone", "error"} : recordPush(result)) \/ restart

\* onChange runs with the change of the store that makes the check due.
Next == StartCheck \/ (~CheckDue /\ Others)

Spec == Init /\ [][Next]_vars

-----------------------------------------------------------------------------
(* Properties *)

Subscriptions == [no : 0..subs, key : 0..key]

TypeOK ==
  /\ browser \in Subscriptions /\ device.push \in Subscriptions /\ sending \in Subscriptions
  /\ permission \in {"default", "granted", "denied"} /\ off \in BOOLEAN
  /\ item.sub \in Subscriptions /\ item.status \in {"none", "waiting", "sent", "refused"}
  /\ app.resends \in 0..RESENDS /\ app.timer \in 0..ids
  /\ socket \in Sockets \cup {0} /\ open \subseteq Sockets
  /\ \A op \in Operations :
       run[op].at \in {"idle", "looking", "forgetting", "subscribing", "dropping"}

\* Nothing is on its way or under way, and nothing changed since the Mac said what it has.
Settled ==
  /\ socket \in open /\ ~CheckDue /\ ~stale /\ ~overtaken
  /\ item = NoItem /\ inbox = <<>> /\ sending = None /\ app.timer = 0
  /\ \A s \in Sockets : wire[s] = <<>>
  /\ \A op \in Operations : run[op].at = "idle"

\* Once a connection has settled, the Mac pushes to this phone's very subscription, one
\* made for the Mac's present key, or, turned off or blocked here, to none: through lost
\* sockets, relaunches, restarts, new keys, refusals, taps during the check, frames of a
\* socket already dropped (startPush, setPushSubscription, acked).
SubscriptionsAgree ==
  /\ TypeOK
  /\ Settled /\ (off \/ permission = "denied") => device.push = None
  /\ Settled /\ ~off /\ permission = "granted" =>
       device.push = browser /\ browser # None /\ browser.key = key

\* A subscription the Mac goes by is on file, so that what it acked survives a restart;
\* and the error its Phone section shows is about that subscription, not one the phone
\* has replaced since (setPushSubscription, recordPush).
RecordIsTrue ==
  /\ device.push # None => file.push = device.push
  /\ device.error \in {0, device.push.no}
=============================================================================
