---------------------------- MODULE DialogAnswer ----------------------------
(***************************************************************************)
(* What a contact waits for (its secretary event) and who writes to its     *)
(* terminal: the builder at the desk, a paired phone's text and Stop, and   *)
(* the answers to its dialogs, typed key by key with waits in between or    *)
(* sent through OpenCode's API.  One contact; its agent reports what it     *)
(* likes.  Secretary starts answers of its own and calls them off.          *)
(***************************************************************************)
EXTENDS Naturals, FiniteSets

CONSTANTS Backends,     \* the backends a contact may have
          MaxRecords,   \* bound: starts of the contact
          MaxCalls,     \* bound: calls of answerDialog
          MaxStops,     \* bound: Stops asked for on a phone
          MaxSeq,       \* bound: events the agent raises
          MaxTurns,     \* bound: turns it reports
          Budgets,      \* bounds, one chosen at the start: how often each of these happens
          None

Records == 1..MaxRecords
Calls == 1..MaxCalls
Stops == 1..MaxStops
BudgetItems == {"events", "turns", "desk", "phone", "views", "starts", "modes", "reads",
                "replies"}

ASSUME AnswerAssumption ==
  /\ Backends \subseteq {"claude", "opencode"}
  /\ MaxRecords \in Nat \ {0} /\ MaxCalls \in Nat /\ MaxStops \in Nat
  /\ MaxSeq \in Nat /\ MaxTurns \in Nat /\ Budgets \subseteq [BudgetItems -> Nat]
  /\ \A b \in Budgets : b.events <= MaxSeq /\ b.turns <= MaxTurns

VARIABLES
  backend,
  instances,        \* the contact's current record; 0 once it is removed
  (* each record *)
  pty,              \* its process: "none", "up", or "killed" while its exit is to come
  secretaryEvent,   \* its live event
  inputWrites,      \* writes that carried input
  answering,        \* answers writing their keys now
  workingSince,     \* the turn it reports it is in; 0 when idle
  runState,
  secretarySeq,
  (* what its attention knows of its terminal *)
  onScreen,         \* a dialog is up, with or without an event
  target,           \* the turn Stop's keys would stop (OpenCode); 0 when none
  (* what is under way *)
  calls, stops,
  signal,           \* the secretary's job, whose abort signal has not gone off; 0 if none
  stopping,         \* the turn last stopped, and whether that was within STOP_SETTLE_MS
  budget,
  (* history *)
  heard,            \* what listeners of secretary events were last told
  lastInput,        \* who wrote last to each record's terminal
  keyed             \* per event, the calls that pressed a key of its dialog

records == <<instances, pty, workingSince>>
event == <<secretaryEvent, heard, secretarySeq>>
writes == <<inputWrites, lastInput, keyed>>
attention == <<onScreen, target>>
answerVars == <<backend, records, event, writes, attention, answering, runState, calls,
                stops, stopping, budget>>

Dialogs == {"permission", "questions", None}   \* None: one that can't be answered in words
Events == [kind : {"finished", "needs-you"}, seq : 1..MaxSeq, dialog : Dialogs]
ASSUME NoEvent == None \notin Events
Pressed == {"settling", "keys", "follow", "record"}
Outcomes == {"ok", "answered", "changed", "interrupted", "stopped", "failed"}
Ids == ({"call"} \X Calls) \cup ({"stop"} \X Stops) \cup ({"other"} \X {0})
Other == <<"other", 0>>

\* What checkChoice makes of a choice: keys, then a denial's reason as a prompt, or, for a
\* question box, a record of the answers to expect (the phone expects none).
Plans(dialog) ==
  IF backend = "opencode" THEN {[keys |-> 0, followUp |-> FALSE, expect |-> FALSE]}
  ELSE IF dialog = "permission" THEN {[keys |-> 1, followUp |-> f, expect |-> FALSE] : f \in BOOLEAN}
  ELSE {[keys |-> 2, followUp |-> FALSE, expect |-> TRUE]}
AllPlans == [keys : 0..2, followUp : BOOLEAN, expect : BOOLEAN]

NoCall == [stage |-> "none", seq |-> 0, rec |-> 1, by |-> 0, plan |-> [keys |-> 0,
           followUp |-> FALSE, expect |-> FALSE], at |-> 0, mine |-> 0, record |-> "none",
           outcome |-> None]
NoStop == [stage |-> "none", rec |-> 1, turn |-> 0, target |-> 0]

TypeOK ==
  /\ backend \in Backends /\ instances \in Records \cup {0}
  /\ pty \in [Records -> {"none", "up", "killed"}]
  /\ secretaryEvent \in [Records -> Events \cup {None}] /\ heard \in Events \cup {None}
  /\ inputWrites \in [Records -> Nat] /\ answering \in [Records -> 0..MaxCalls]
  /\ workingSince \in [Records -> 0..MaxTurns]
  /\ runState \in [Records -> {"starting", "idle", "busy", "blocked"}]
  /\ secretarySeq \in 0..MaxSeq /\ onScreen \in BOOLEAN /\ target \in 0..2
  /\ calls \in [Calls -> [stage : {"none", "asking", "done"} \cup Pressed, seq : 0..MaxSeq,
        rec : Records, by : Nat, plan : AllPlans, at : 0..2, mine : Nat,
        record : {"none", "waiting", "got", "gone"}, outcome : Outcomes \cup {None}]]
  /\ stops \in [Stops -> [stage : {"none", "gap", "done"}, rec : Records,
                          turn : 0..MaxTurns, target : 0..2]]
  /\ stopping \in [turn : 0..MaxTurns, recent : BOOLEAN]
  /\ budget \in [BudgetItems -> Nat]
  /\ lastInput \in [Records -> Ids] /\ keyed \in [1..MaxSeq -> SUBSET Calls]

\* The contact was started: its agent is up, nothing heard from it yet.
AnswerInit ==
  /\ backend \in Backends /\ instances = 1
  /\ pty = [r \in Records |-> IF r = 1 THEN "up" ELSE "none"]
  /\ secretaryEvent = [r \in Records |-> None] /\ heard = None
  /\ inputWrites = [r \in Records |-> 0] /\ answering = [r \in Records |-> 0]
  /\ workingSince = [r \in Records |-> 0]
  /\ runState = [r \in Records |-> "starting"]
  /\ secretarySeq = 0 /\ onScreen = FALSE /\ target = 0
  /\ calls = [c \in Calls |-> NoCall] /\ stops = [s \in Stops |-> NoStop]
  /\ stopping = [turn |-> 0, recent |-> FALSE]
  /\ budget \in Budgets
  /\ lastInput = [r \in Records |-> Other] /\ keyed = [q \in 1..MaxSeq |-> {}]

-----------------------------------------------------------------------------
(* The record and its event *)

Live(r) == r # 0 /\ pty[r] # "none"
Current == Live(instances)
NeedsYou(r) == secretaryEvent[r] # None /\ secretaryEvent[r].kind = "needs-you"
Spend(item) == budget[item] > 0 /\ budget' = [budget EXCEPT ![item] = @ - 1]

\* Listeners hear of the current record only.
emit(r, e) == heard' = IF instances = r THEN e ELSE heard

clearSecretaryEvent(r) ==
  IF secretaryEvent[r] = None THEN UNCHANGED <<secretaryEvent, heard>>
  ELSE /\ secretaryEvent' = [secretaryEvent EXCEPT ![r] = None]
       /\ emit(r, None)

raise(r, kind, dialog) ==
  LET e == [kind |-> kind, seq |-> secretarySeq + 1, dialog |-> dialog] IN
  /\ secretarySeq' = e.seq
  /\ secretaryEvent' = [secretaryEvent EXCEPT ![r] = e]
  /\ emit(r, e)

\* Focus and mouse reports carry no input.
noteWrite(r, who, input) ==
  /\ runState' = [runState EXCEPT ![r] = "busy"]
  /\ IF input
     THEN /\ clearSecretaryEvent(r)
          /\ inputWrites' = [inputWrites EXCEPT ![r] = @ + 1]
          /\ lastInput' = [lastInput EXCEPT ![r] = who]
     ELSE UNCHANGED <<secretaryEvent, heard, inputWrites, lastInput>>

-----------------------------------------------------------------------------
(* The agent's reports *)

\* The waiters for a box's record hear of a clearing that carries answers.
Recorded(r, got) ==
  [c \in Calls |-> IF calls[c].record = "waiting" /\ calls[c].rec = r
                   THEN [calls[c] EXCEPT !.record = got] ELSE calls[c]]

prompt(dialog) ==
  /\ Current /\ Spend("events")
  /\ runState' = [runState EXCEPT ![instances] = "blocked"]
  /\ raise(instances, "needs-you", dialog)
  /\ onScreen' = TRUE
  /\ UNCHANGED <<backend, records, writes, target, answering, calls, stops, stopping>>

promptCleared ==
  /\ Current
  /\ runState' = [runState EXCEPT ![instances] = "busy"]
  /\ IF NeedsYou(instances) THEN clearSecretaryEvent(instances)
     ELSE UNCHANGED <<secretaryEvent, heard>>
  /\ onScreen' \in BOOLEAN
  /\ \E answers \in BOOLEAN :
       calls' = IF answers THEN Recorded(instances, "got") ELSE calls
  /\ UNCHANGED <<backend, records, secretarySeq, writes, target, answering, stops, stopping,
                 budget>>

\* The CLI's own record of a dialog: one that is denied goes, one of its own comes, unreported.
dialogOnScreen ==
  /\ Current /\ onScreen' = ~onScreen
  /\ UNCHANGED <<backend, records, event, writes, target, answering, runState, calls, stops,
                 stopping, budget>>

waiting ==
  /\ Current /\ Spend("events")
  /\ runState' = [runState EXCEPT ![instances] = "idle"]
  /\ raise(instances, "finished", None)
  /\ onScreen' \in {onScreen, FALSE}
  /\ UNCHANGED <<backend, records, writes, target, answering, calls, stops, stopping>>

onWorking ==
  /\ Current
  /\ \/ /\ workingSince[instances] = 0 /\ Spend("turns")
        /\ workingSince' = [workingSince EXCEPT ![instances] = MaxTurns - budget'["turns"]]
     \/ /\ workingSince[instances] # 0 /\ UNCHANGED budget
        /\ workingSince' = [workingSince EXCEPT ![instances] = 0]
  /\ UNCHANGED <<backend, instances, pty, event, writes, attention, answering, runState,
                 calls, stops, stopping>>

\* OpenCode's terminal shows another session, running or not.
interruptTarget ==
  /\ Current /\ backend = "opencode" /\ Spend("views")
  /\ target' \in (0..2) \ {target}
  /\ UNCHANGED <<backend, records, event, writes, onScreen, answering, runState, calls,
                 stops, stopping>>

-----------------------------------------------------------------------------
(* The desk, and a phone's text and Stop *)

writeToInstance(input) ==
  /\ Current
  /\ Spend("desk")
  /\ noteWrite(instances, Other, input)
  /\ UNCHANGED <<backend, records, secretarySeq, keyed, attention, answering, calls, stops,
                 stopping>>

dialogOpen == NeedsYou(instances) \/ answering[instances] > 0 \/ onScreen
canInterrupt == backend = "claude" \/ target # 0

\* A phone's text: refused while a dialog is up, as it could answer it.
sendPrompt ==
  /\ Current /\ ~dialogOpen /\ Spend("phone")
  /\ noteWrite(instances, Other, TRUE)
  /\ UNCHANGED <<backend, records, secretarySeq, keyed, attention, answering, calls, stops,
                 stopping>>

\* Claude takes one Esc, OpenCode two with a wait between.
interrupt(s) ==
  LET r == instances IN
  /\ stops[s].stage = "none" /\ \A t \in Stops : t < s => stops[t].stage # "none"
  /\ Current /\ ~dialogOpen /\ workingSince[r] # 0 /\ canInterrupt /\ Spend("phone")
  /\ ~(stopping.recent /\ stopping.turn = workingSince[r])
  /\ stopping' = [turn |-> workingSince[r], recent |-> TRUE]
  /\ stops' = [stops EXCEPT ![s] = [stage |-> IF backend = "claude" THEN "done" ELSE "gap",
                                    rec |-> r, turn |-> workingSince[r], target |-> target]]
  /\ noteWrite(r, <<"stop", s>>, TRUE)
  /\ UNCHANGED <<backend, records, secretarySeq, keyed, attention, answering, calls>>

\* (A slip: only the process is checked between the keys.)
AimedAtProcess(s) == instances = stops[s].rec /\ Live(stops[s].rec)

\* Still the turn, the view and the process Stop was asked for, and no dialog.
Aimed(s) ==
  LET r == stops[s].rec IN
  /\ instances = r /\ Live(r)
  /\ ~NeedsYou(r) /\ ~onScreen
  /\ workingSince[r] = stops[s].turn
  /\ target = stops[s].target

interruptAgain(s) ==
  LET r == stops[s].rec IN
  /\ stops[s].stage = "gap"
  /\ stops' = [stops EXCEPT ![s].stage = "done"]
  /\ IF Aimed(s) THEN noteWrite(r, <<"stop", s>>, TRUE)
     ELSE UNCHANGED <<runState, secretaryEvent, heard, inputWrites, lastInput>>
  /\ UNCHANGED <<backend, records, secretarySeq, keyed, attention, answering, calls,
                 stopping, budget>>

\* STOP_SETTLE_MS later; far longer than a Stop's own keys take.
StopSettled ==
  /\ stopping.recent /\ \A s \in Stops : stops[s].stage # "gap"
  /\ stopping' = [stopping EXCEPT !.recent = FALSE]
  /\ UNCHANGED <<backend, records, event, writes, attention, answering, runState, calls,
                 stops, budget>>

-----------------------------------------------------------------------------
(* answerDialog: by is the job whose abort signal it has, 0 for a phone *)

New(c) == calls[c].stage = "none" /\ \A d \in Calls : d < c => calls[d].stage # "none"
same(r) == instances = r /\ Live(r)
Aborted(by) == by \notin {0, signal}
Done(cl, outcome) == [cl EXCEPT !.stage = "done", !.outcome = outcome, !.record = "none"]

Stop(c, outcome) ==
  /\ calls' = [calls EXCEPT ![c] = Done(calls[c], outcome)]
  /\ answering' = IF calls[c].stage # "keys" THEN answering
                  ELSE [answering EXCEPT ![calls[c].rec] = @ - 1]

\* The next key of the answer cl; a box's record is waited for from before the first.
press(c, cl) ==
  LET r == cl.rec
      last == cl.at + 1 = cl.plan.keys
      stage == IF ~last THEN "keys" ELSE IF cl.plan.followUp THEN "follow"
               ELSE IF cl.plan.expect THEN "record" ELSE "done"
  IN /\ noteWrite(r, <<"call", c>>, TRUE)
     /\ keyed' = [keyed EXCEPT ![cl.seq] = @ \cup {c}]
     /\ answering' = [answering EXCEPT ![r] = (IF cl.at = 0 THEN @ + 1 ELSE @) - (IF last THEN 1 ELSE 0)]
     /\ calls' = [calls EXCEPT ![c] =
          [cl EXCEPT !.stage = stage, !.at = @ + 1, !.mine = inputWrites[r] + 1,
                     !.record = IF cl.at = 0 /\ cl.plan.expect THEN "waiting" ELSE @,
                     !.outcome = IF stage = "done" THEN "ok" ELSE @]]

untyped == <<event, runState, writes>>

\* An answer of by to the event q. The wait for a young dialog to take keys may be over.
answerDialog(c, q, plan, by) ==
  LET r == instances
      cl == [NoCall EXCEPT !.seq = q, !.rec = r, !.by = by, !.plan = plan]
      known == NeedsYou(r) /\ secretaryEvent[r].seq = q
      begin(stage) == calls' = [calls EXCEPT ![c] = [cl EXCEPT !.stage = stage]]
  IN /\ New(c)
     /\ IF ~Live(r) \/ Aborted(by) \/ ~known \/ backend = "opencode"
        THEN /\ IF ~Live(r) \/ Aborted(by) THEN calls' = [calls EXCEPT ![c] = Done(cl, "stopped")]
                ELSE IF ~known THEN calls' = [calls EXCEPT ![c] = Done(cl, "answered")]
                ELSE begin("asking")
             /\ UNCHANGED <<untyped, answering>>
        ELSE \/ begin("settling") /\ UNCHANGED <<untyped, answering>>
             \/ press(c, cl) /\ UNCHANGED secretarySeq

\* The phone's answer, to the dialog it shows.
answer(c) ==
  LET e == secretaryEvent[instances] IN
  /\ Current /\ NeedsYou(instances) /\ e.dialog # None /\ Spend("phone")
  /\ \E plan \in Plans(e.dialog) :
       answerDialog(c, e.seq, [plan EXCEPT !.expect = FALSE], 0)
  /\ UNCHANGED <<backend, records, attention, stops, stopping>>

\* (A slip: a dialog that came up in between is no reason to stop.)
OursOrNew(c) ==
  LET r == calls[c].rec IN
  IF ~same(r) \/ Aborted(calls[c].by) THEN "stopped"
  ELSE IF inputWrites[r] # calls[c].mine THEN "interrupted" ELSE "ok"

\* Before each key after the first, and before a follow-up.
stillOurs(c) ==
  LET r == calls[c].rec IN
  IF ~same(r) \/ Aborted(calls[c].by) THEN "stopped"
  ELSE IF NeedsYou(r) THEN "changed"
  ELSE IF inputWrites[r] # calls[c].mine THEN "interrupted" ELSE "ok"

afterSettle(c) ==
  LET r == calls[c].rec IN
  IF ~same(r) \/ Aborted(calls[c].by) THEN "stopped"
  ELSE IF secretaryEvent[r] = None \/ secretaryEvent[r].seq # calls[c].seq THEN "answered"
  ELSE "ok"

pressNext(c) ==
  /\ calls[c].stage \in {"settling", "keys"}
  /\ LET ours == IF calls[c].stage = "settling" THEN afterSettle(c) ELSE stillOurs(c) IN
     IF ours # "ok" THEN Stop(c, ours) /\ UNCHANGED untyped
     ELSE press(c, calls[c]) /\ UNCHANGED secretarySeq
  /\ UNCHANGED <<backend, records, attention, stops, stopping, budget>>

\* A denial's reason, as an ordinary prompt.
followUp(c) ==
  LET cl == calls[c] IN
  /\ cl.stage = "follow"
  /\ calls' = [calls EXCEPT ![c] = Done(cl, stillOurs(c))]
  /\ IF stillOurs(c) = "ok" THEN noteWrite(cl.rec, <<"call", c>>, TRUE)
     ELSE UNCHANGED <<runState, secretaryEvent, heard, inputWrites, lastInput>>
  /\ UNCHANGED <<backend, records, secretarySeq, keyed, attention, answering, stops,
                 stopping, budget>>

\* (A slip: the wait has no end of its own.)
RecordedOnly(c) ==
  /\ calls[c].stage = "record" /\ calls[c].record # "waiting"
  /\ Stop(c, IF same(calls[c].rec) THEN "ok" ELSE "stopped")
  /\ UNCHANGED <<backend, records, untyped, attention, stops, stopping, budget>>

\* The record came, the process went, or clearWaitMs is over.
recorded(c) ==
  /\ calls[c].stage = "record"
  /\ Stop(c, IF same(calls[c].rec) THEN "ok" ELSE "stopped")
  /\ UNCHANGED <<backend, records, untyped, attention, stops, stopping, budget>>

\* What OpenCode says: it takes one answer to a dialog, once.
asked(c) ==
  /\ calls[c].stage = "asking"
  /\ \E outcome \in {"ok", "answered", "failed"} : Stop(c, outcome)
  /\ UNCHANGED <<backend, records, untyped, attention, stops, stopping, budget>>

-----------------------------------------------------------------------------
(* The contact's process *)

onExit(r) ==
  /\ Live(r)
  /\ IF pty[r] = "up" THEN Spend("starts") ELSE UNCHANGED budget
  /\ pty' = [pty EXCEPT ![r] = "none"]
  /\ runState' = [runState EXCEPT ![r] = "starting"]
  /\ workingSince' = [workingSince EXCEPT ![r] = 0]
  /\ clearSecretaryEvent(r)
  /\ calls' = Recorded(r, "gone")
  /\ IF instances = r THEN onScreen' = FALSE /\ target' = 0 ELSE UNCHANGED attention
  /\ UNCHANGED <<backend, instances, secretarySeq, writes, answering, stops, stopping>>

Killed(r) == IF pty[r] = "up" THEN "killed" ELSE pty[r]

killInstance ==
  /\ Current /\ pty[instances] = "up" /\ Spend("starts")
  /\ pty' = [pty EXCEPT ![instances] = "killed"]
  /\ UNCHANGED <<backend, instances, workingSince, event, writes, attention, answering,
                 runState, calls, stops, stopping>>

\* restartInstance, or startInstance when it is stopped; the backend may refuse.
restartInstance ==
  LET r == instances IN
  /\ r # 0 /\ r < MaxRecords /\ Spend("starts")
  /\ clearSecretaryEvent(r)
  /\ instances' = r + 1
  /\ \E spawned \in {"up", "none"} :
       pty' = [pty EXCEPT ![r] = Killed(r), ![r + 1] = spawned]
  /\ onScreen' = FALSE /\ target' = 0
  /\ UNCHANGED <<backend, workingSince, secretarySeq, writes, answering, runState, calls,
                 stops, stopping>>

removeInstance ==
  LET r == instances IN
  /\ r # 0 /\ Spend("starts")
  /\ pty' = [pty EXCEPT ![r] = Killed(r)]
  /\ clearSecretaryEvent(r)
  /\ instances' = 0 /\ onScreen' = FALSE /\ target' = 0
  /\ UNCHANGED <<backend, workingSince, secretarySeq, writes, answering, runState, calls,
                 stops, stopping>>

Agent == prompt("permission") \/ prompt("questions") \/ prompt(None) \/ promptCleared
         \/ dialogOnScreen \/ waiting \/ onWorking \/ interruptTarget
Builder == (\E input \in BOOLEAN : writeToInstance(input)) \/ sendPrompt
           \/ (\E s \in Stops : interrupt(s))
Waits == (\E s \in Stops : interruptAgain(s)) \/ StopSettled
         \/ (\E c \in Calls : pressNext(c) \/ followUp(c) \/ recorded(c) \/ asked(c))
Process == (\E r \in Records : onExit(r)) \/ killInstance \/ restartInstance
AnswerNext == Agent \/ Builder \/ Waits \/ Process \/ (\E c \in Calls : answer(c))

-----------------------------------------------------------------------------
(* Properties *)

\* A dialog is answered by the keys of one answer at most, however many phones and the
\* secretary answer it at once (answerDialog's checks of the event).
OneAnswerPerDialog == \A q \in DOMAIN keyed : Cardinality(keyed[q]) <= 1

\* An answer's first key goes to its own dialog while that is the live one; each later key
\* to the same process, with no new dialog reported and nothing typed by anyone else since
\* the key before; and none once the answer is called off (answerDialog's stillOurs).
KeysStayTogether ==
  [][\A c \in Calls : calls'[c].at > calls[c].at =>
       LET cl == calls'[c] IN
       /\ instances = cl.rec /\ Live(cl.rec) /\ ~Aborted(cl.by)
       /\ IF calls[c].at = 0 THEN NeedsYou(cl.rec) /\ secretaryEvent[cl.rec].seq = cl.seq
          ELSE ~NeedsYou(cl.rec) /\ lastInput[cl.rec] = <<"call", c>>]_answerVars

\* No Esc of a Stop goes to a dialog known to be up or lands between an answer's keys, and
\* each hits the turn, in the view, that was to be stopped (interrupt, interruptInstance).
StopHitsItsTurn ==
  [][\A s \in Stops, r \in Records :
       (inputWrites'[r] > inputWrites[r] /\ lastInput'[r] = <<"stop", s>>) =>
         /\ r = instances /\ ~NeedsYou(r) /\ ~onScreen
         /\ \A c \in Calls : calls[c].rec = r => calls[c].stage # "keys"
         /\ workingSince[r] = stops'[s].turn /\ target = stops'[s].target]_answerVars

\* A contact that quitting asks about as blocked waits for an answer, and one said to be
\* idle does not (RunStateTracker against the secretary event).
RunStateAgrees ==
  Current => /\ runState[instances] = "blocked" => NeedsYou(instances)
             /\ runState[instances] = "idle" => ~NeedsYou(instances)

\* Every answer ends: with all its keys in, or with the reason it stopped (answerDialog).
AnswersEnd == \A c \in Calls : calls[c].stage # "none" ~> calls[c].stage = "done"
=============================================================================
