----------------------------- MODULE EventPush -----------------------------
(***************************************************************************)
(* Which push a contact's events give, and what it says (remote-host.ts).   *)
(* With the secretary on, a push waits for the first sentence of its        *)
(* event's brief, while newer events, restatements of a dialog, new turns   *)
(* and the mode come and go; without one it says the line the list showed   *)
(* for the event.                                                          *)
(*                                                                         *)
(* The listener here hears each event before the secretary does (main's     *)
(* index.ts subscribes them in that order), and a wait that ends gives its  *)
(* push once all listeners have run.                                        *)
(***************************************************************************)
EXTENDS Naturals, Sequences

CONSTANTS Dialogs, Finished,      \* what an event is of
          None,
          MaxEvents, MaxTurns, MaxModes   \* bounds

VARIABLES
  events,         \* each event so far: of, restated, and the turn it came in
  live,           \* the contact's live event, or None
  turn,           \* its latest turn, whose line the list shows
  link,           \* isRunning: the phone link is on
  fresh,          \* the latest event that gets a push, or 0
  restatements,   \* events that restated its very dialog since
  on,             \* the secretary is on
  brief,          \* the contact's brief, or None
  waiters,        \* pushes that wait for a brief, each with the line for its event
  pushed,         \* the pushes given
  modes           \* bound

vars == <<events, live, turn, link, fresh, restatements, on, brief, waiters, pushed, modes>>

Seqs == 1..MaxEvents
Bodies == [from : {"line"}, turn : 1..MaxTurns] \cup [from : {"brief"}, seq : Seqs]

Init ==
  /\ events = <<>> /\ live = None /\ turn = 1 /\ link \in BOOLEAN
  /\ fresh = 0 /\ restatements = {}
  /\ on \in BOOLEAN /\ brief = None
  /\ waiters = {} /\ pushed = <<>> /\ modes = MaxModes

----------------------------------------------------------------------------
(* A bug todayLine must not have: the line as it is when the wait ends.    *)
LineByNow(w) == [from |-> "line", turn |-> turn]

todayLine(w) == [from |-> "line", turn |-> w.turn]

(* What a push that looks for its brief makes of it: a body, or None while *)
(* it still waits.                                                         *)
briefLine(w, nowFresh, restated, nowOn, nowBrief) ==
  IF ~nowOn \/ nowFresh > w.seq THEN todayLine(w)
  ELSE IF nowBrief = None THEN None
  ELSE IF nowBrief.seq < w.seq THEN None
  ELSE IF nowBrief.seq # w.seq /\ nowBrief.seq \notin restated THEN todayLine(w)
  ELSE CASE nowBrief.status = "ready" -> [from |-> "brief", seq |-> nowBrief.seq]
         [] nowBrief.status = "failed" -> todayLine(w)
         [] OTHER -> None

(* The pushes whose wait is over, less those a newer fresh event replaces. *)
pushEvent(done, body, nowFresh) ==
  LET due == {w \in done : w.seq = nowFresh} IN
  pushed' = IF due = {} THEN pushed
            ELSE Append(pushed, [seq |-> nowFresh, body |-> body[CHOOSE w \in due : TRUE]])

(* Every wait looks again, once the rest of the step has happened.         *)
LookAgain(waiting) ==
  LET line == [w \in waiting |-> briefLine(w, fresh', restatements', on', brief')]
      done == {w \in waiting : line[w] # None} IN
  /\ waiters' = waiting \ done
  /\ pushEvent(done, line, fresh')

(* An event: the link off, it gets no push.  A restatement of the dialog   *)
(* that was pushed, or waits, stands for it; no other restatement counts.  *)
onSecretaryEvent(of, restated) ==
  LET seq == Len(events) + 1
      same == fresh # 0 /\ of # Finished /\ events[fresh].of = of
      pushes == link /\ ~restated IN
  /\ Len(events) < MaxEvents
  /\ restated => \E e \in Seqs \cap DOMAIN events : events[e].of = of /\ of # Finished
  /\ events' = Append(events, [of |-> of, restated |-> restated, turn |-> turn, link |-> link])
  /\ live' = seq
  /\ fresh' = IF pushes THEN seq ELSE fresh
  /\ restatements' = IF pushes THEN {}
                     ELSE IF link /\ same THEN restatements \cup {seq} ELSE restatements
  /\ brief' = IF on THEN [seq |-> seq, status |-> "preparing"] ELSE brief
  /\ UNCHANGED <<turn, link, on, modes>>
  /\ LookAgain(IF pushes THEN waiters \cup {[seq |-> seq, turn |-> turn]} ELSE waiters)

----------------------------------------------------------------------------
(* The secretary writes the brief of the latest event, or cannot.          *)
written(status) ==
  /\ brief # None /\ brief.status = "preparing"
  /\ brief' = [brief EXCEPT !.status = status]
  /\ UNCHANGED <<events, live, turn, link, fresh, restatements, on, modes>>
  /\ LookAgain(waiters)

(* Off, every brief goes; on, the live event gets one.                     *)
setSecretaryMode ==
  /\ modes > 0 /\ modes' = modes - 1
  /\ on' = ~on
  /\ brief' = IF on' /\ live # None THEN [seq |-> live, status |-> "preparing"] ELSE None
  /\ UNCHANGED <<events, live, turn, link, fresh, restatements>>
  /\ LookAgain(waiters)

(* BRIEF_WAIT_MS after its event.                                          *)
timedOut(w) ==
  /\ waiters' = waiters \ {w}
  /\ pushEvent({w}, [due \in {w} |-> todayLine(due)], fresh)
  /\ UNCHANGED <<events, live, turn, link, fresh, restatements, on, brief, modes>>

(* The event is dealt with: its brief stays, and its push still goes.      *)
cleared ==
  /\ live # None /\ live' = None
  /\ UNCHANGED <<events, turn, link, fresh, restatements, on, brief, waiters, pushed, modes>>

turnStarts ==
  /\ turn < MaxTurns /\ turn' = turn + 1
  /\ UNCHANGED <<events, live, link, fresh, restatements, on, brief, waiters, pushed, modes>>

setRemoteEnabled ==
  /\ modes > 0 /\ modes' = modes - 1 /\ link' = ~link
  /\ UNCHANGED <<events, live, turn, fresh, restatements, on, brief, waiters, pushed>>

Next ==
  \/ \E of \in Dialogs \cup {Finished}, restated \in BOOLEAN : onSecretaryEvent(of, restated)
  \/ \E status \in {"ready", "failed"} : written(status)
  \/ setSecretaryMode \/ setRemoteEnabled
  \/ \E w \in waiters : timedOut(w)
  \/ cleared \/ turnStarts

Spec == Init /\ [][Next]_vars

----------------------------------------------------------------------------
(* The pushes of a contact come in the order of its events, one at most for *)
(* each, and each says its own event's line or the brief of its own dialog; *)
(* an event due a push has had it, unless it waits for a brief that is not  *)
(* settled yet or a newer one has come (remote-host.ts's onSecretaryEvent   *)
(* listener, briefLine and pushEvent).                                     *)
PushesFollowEvents ==
  /\ waiters \subseteq [seq : Seqs, turn : 1..MaxTurns]
  /\ \A i \in DOMAIN pushed : \A j \in 1..(i - 1) : pushed[j].seq < pushed[i].seq
  /\ \A i \in DOMAIN pushed :
       LET e == pushed[i].seq  body == pushed[i].body IN
       /\ body \in Bodies /\ ~events[e].restated
       /\ IF body.from = "line" THEN body.turn = events[e].turn
          ELSE /\ events[body.seq].of = events[e].of
               /\ \A f \in (e + 1)..body.seq : events[f].link => events[f].restated
  /\ \A e \in DOMAIN events :
       events[e].link /\ ~events[e].restated =>
         \/ \E i \in DOMAIN pushed : pushed[i].seq = e
         \/ \E f \in DOMAIN events : f > e /\ events[f].link /\ ~events[f].restated
         \/ \E w \in waiters : w.seq = e
  /\ \A w \in waiters :
       w.seq = fresh => on /\ (brief = None \/ brief.status = "preparing" \/ brief.seq < w.seq)
=============================================================================
