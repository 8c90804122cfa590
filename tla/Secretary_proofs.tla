-------------------------- MODULE Secretary_proofs --------------------------
(***************************************************************************)
(* Proofs about DialogAnswer and Secretary, for any backends, records,      *)
(* calls, Stops and budgets.  First the invariant that DialogAnswer's own   *)
(* steps, and the answers a secretary starts, keep; then what the           *)
(* secretary's cards, briefs and replies promise, and what the keys of      *)
(* answers and of Stops do whoever sends them.                              *)
(***************************************************************************)
EXTENDS Secretary, FiniteSetTheorems, SequenceTheorems, TLAPS

-----------------------------------------------------------------------------
(* Answering a dialog (DialogAnswer) *)

\* What is raised, and what turns are begun, fits the bounds.
BoundsOK == secretarySeq + budget["events"] <= MaxSeq /\ budget["turns"] <= MaxTurns

\* Only the current record has an event, and listeners know it; later records are unused.
HeardOK ==
  /\ \A r \in Records : r # instances => secretaryEvent[r] = None
  /\ heard = IF instances = 0 THEN None ELSE secretaryEvent[instances]
  /\ instances # 0 => \A r \in Records : r > instances => pty[r] = "none" /\ runState[r] = "starting"

\* Events and calls are of events raised.
SeqOK ==
  /\ \A r \in Records : secretaryEvent[r] # None => secretaryEvent[r].seq <= secretarySeq
  /\ \A c \in Calls : calls[c].seq <= secretarySeq

StageOK ==
  \A c \in Calls :
    /\ calls[c].stage = "none" => calls[c].at = 0
    /\ calls[c].stage = "settling" => calls[c].at = 0 /\ calls[c].plan.keys \in 1..2 /\ backend = "claude"
    /\ calls[c].stage = "keys" => calls[c].at = 1 /\ calls[c].plan.keys = 2 /\ backend = "claude"
    /\ calls[c].stage \in Pressed => calls[c].seq \in 1..MaxSeq

\* A call that waits for a young dialog waits for one: no other event has its number.
SettlingOK ==
  \A c \in Calls, r \in Records :
    calls[c].stage = "settling" /\ secretaryEvent[r] # None /\ secretaryEvent[r].seq = calls[c].seq =>
      secretaryEvent[r].kind = "needs-you"

\* A call that pressed a key is the only one for its event, which is live no more.
KeyedOK ==
  /\ \A q \in 1..MaxSeq : \A c \in Calls : c \in keyed[q] <=> calls[c].at > 0 /\ calls[c].seq = q
  /\ \A c, d \in Calls : calls[c].at > 0 /\ calls[d].at > 0 /\ calls[c].seq = calls[d].seq => c = d
  /\ \A c \in Calls, r \in Records :
       calls[c].at > 0 /\ secretaryEvent[r] # None => secretaryEvent[r].seq # calls[c].seq

\* While nothing was written since a call's last key, that key was the last input.
MineOK ==
  \A c \in Calls : calls[c].at > 0 =>
    LET r == calls[c].rec IN
    /\ calls[c].mine <= inputWrites[r]
    /\ calls[c].mine = inputWrites[r] => lastInput[r] = <<"call", c>>

Typing(r) == {c \in Calls : calls[c].stage = "keys" /\ calls[c].rec = r}

CountOK == \A r \in Records : answering[r] = Cardinality(Typing(r))

GapOK == \A s \in Stops : stops[s].stage = "gap" => backend = "opencode"

AnswerInv == TypeOK /\ BoundsOK /\ HeardOK /\ SeqOK /\ StageOK /\ SettlingOK /\ KeyedOK /\ MineOK
             /\ CountOK /\ GapOK /\ RunStateAgrees

-----------------------------------------------------------------------------
(* Types *)

CallRecords ==
  [stage : {"none", "asking", "done"} \cup Pressed, seq : 0..MaxSeq, rec : Records, by : Nat,
   plan : AllPlans, at : 0..2, mine : Nat, record : {"none", "waiting", "got", "gone"},
   outcome : Outcomes \cup {None}]
StopRecords == [stage : {"none", "gap", "done"}, rec : Records, turn : 0..MaxTurns, target : 0..2]

(* The types, by what changes together. *)
RecordTypes ==
  /\ backend \in Backends /\ instances \in Records \cup {0}
  /\ pty \in [Records -> {"none", "up", "killed"}]
  /\ workingSince \in [Records -> 0..MaxTurns]
  /\ runState \in [Records -> {"starting", "idle", "busy", "blocked"}]
  /\ onScreen \in BOOLEAN /\ target \in 0..2
EventTypes ==
  /\ secretaryEvent \in [Records -> Events \cup {None}] /\ heard \in Events \cup {None}
  /\ secretarySeq \in 0..MaxSeq
WriteTypes == inputWrites \in [Records -> Nat] /\ lastInput \in [Records -> Ids]
CallTypes == calls \in [Calls -> CallRecords] /\ keyed \in [1..MaxSeq -> SUBSET Calls]
StopTypes == stops \in [Stops -> StopRecords] /\ stopping \in [turn : 0..MaxTurns, recent : BOOLEAN]
BudgetTypes == budget \in [BudgetItems -> Nat]
AnsweringTypes == answering \in [Records -> 0..MaxCalls]

(* TypeOK in parts, so that a step shows only what it disturbs. *)
LEMMA AnswerParts ==
  TypeOK <=> /\ RecordTypes /\ EventTypes /\ WriteTypes /\ CallTypes /\ StopTypes /\ BudgetTypes
             /\ AnsweringTypes
BY DEF TypeOK, RecordTypes, EventTypes, WriteTypes, CallTypes, StopTypes, BudgetTypes,
       AnsweringTypes, CallRecords, StopRecords

(* The same after the step, where the definitions are expanded once and for all. *)
LEMMA AnswerPartsNext ==
  TypeOK' <=> /\ RecordTypes' /\ EventTypes' /\ WriteTypes' /\ CallTypes' /\ StopTypes' /\ BudgetTypes'
              /\ AnsweringTypes'
BY DEF TypeOK, RecordTypes, EventTypes, WriteTypes, CallTypes, StopTypes, BudgetTypes,
       AnsweringTypes, CallRecords, StopRecords

-----------------------------------------------------------------------------
(* The kinds of steps *)

\* What a step does to the event of the current record and what listeners hear.
Calm == UNCHANGED <<secretaryEvent, heard, secretarySeq>>
Raised(e) == /\ instances # 0 /\ instances' = instances /\ e \in Events
             /\ e.seq = secretarySeq + 1 /\ secretarySeq' = secretarySeq + 1
             /\ secretaryEvent' = [secretaryEvent EXCEPT ![instances] = e] /\ heard' = e
Cleared(r) == /\ secretarySeq' = secretarySeq
              /\ secretaryEvent' = [secretaryEvent EXCEPT ![r] = None]
              /\ heard' = IF instances = r THEN None ELSE heard
Told == \/ Calm
        \/ \E e \in Events : Raised(e)
        \/ \E r \in Records : Cleared(r)

\* What it does to the terminals.
Silent == UNCHANGED <<inputWrites, lastInput>>
Input(r, who) == /\ inputWrites' = [inputWrites EXCEPT ![r] = @ + 1]
                 /\ lastInput' = [lastInput EXCEPT ![r] = who]

\* What it does to the calls of answerDialog.
Core(cl) == <<cl.stage, cl.seq, cl.rec, cl.by, cl.plan, cl.at, cl.mine>>
Apart == /\ calls' \in [Calls -> CallRecords]
         /\ \A c \in Calls : Core(calls'[c]) = Core(calls[c])
         /\ UNCHANGED <<answering, keyed>>
Ending(c) ==
  /\ calls[c].stage # "none"
  /\ \E cl \in CallRecords : /\ calls' = [calls EXCEPT ![c] = cl]
                             /\ Core(cl) = Core([calls[c] EXCEPT !.stage = "done"])
  /\ answering' = IF calls[c].stage # "keys" THEN answering
                  ELSE [answering EXCEPT ![calls[c].rec] = @ - 1]
  /\ keyed' = keyed
Beginning(c, cl) ==
  /\ calls[c].stage = "none" /\ cl \in CallRecords /\ cl.at = 0
  /\ cl.stage \in {"done", "asking", "settling"}
  /\ cl.stage = "settling" => /\ cl.plan.keys \in 1..2 /\ cl.seq # 0 /\ backend = "claude"
                             /\ NeedsYou(instances) /\ secretaryEvent[instances].seq = cl.seq
  /\ cl.seq <= secretarySeq
  /\ calls' = [calls EXCEPT ![c] = cl]
  /\ UNCHANGED <<answering, keyed>>
\* The n-th key: the first while the event is live, a later one while it is the call's own turn.
Pressing(c, cl) ==
  /\ cl \in CallRecords /\ cl.rec = instances /\ Current /\ ~Aborted(cl.by) /\ backend = "claude"
  /\ \/ /\ cl.at = 0 /\ calls[c].at = 0 /\ calls[c].stage \in {"none", "settling"} /\ cl.plan.keys \in 1..2
        /\ NeedsYou(instances) /\ secretaryEvent[instances].seq = cl.seq
     \/ /\ cl = calls[c] /\ cl.stage = "keys"
        /\ ~NeedsYou(instances) /\ inputWrites[instances] = cl.mine
  /\ press(c, cl)

\* An answer to an event, however it is asked for.
Pays == budget' = budget \/ \E i \in BudgetItems : Spend(i)
Answers ==
  /\ Pays /\ instances # 0
  /\ \E c \in Calls, q \in 1..secretarySeq, by \in Nat, plan \in AllPlans :
       /\ backend = "claude" => plan.keys \in 1..2
       /\ answerDialog(c, q, plan, by)
  /\ UNCHANGED <<backend, records, attention, stops, stopping>>

\* The steps of this module, and those of it that a secretary takes.
AnswerStep == AnswerNext \/ removeInstance \/ Answers

Writings == (\E input \in BOOLEAN : writeToInstance(input)) \/ sendPrompt \/ (\E s \in Stops : interrupt(s))
            \/ (\E s \in Stops : interruptAgain(s)) \/ (\E c \in Calls : followUp(c))
Raisings == prompt("permission") \/ prompt("questions") \/ prompt(None) \/ waiting
Clearings == promptCleared \/ (\E r \in Records : onExit(r)) \/ restartInstance \/ removeInstance
Asides == dialogOnScreen \/ onWorking \/ interruptTarget \/ StopSettled \/ killInstance
          \/ (\E c \in Calls : recorded(c) \/ asked(c))
Keyings == (\E c \in Calls : pressNext(c)) \/ Answers

(* Types, as the lemmas below need them. *)
LEMMA RecordFacts ==
  ASSUME TypeOK
  PROVE  /\ instances \in Nat /\ \A r \in Records : r \in Nat /\ r # 0
         /\ Current => instances \in Records /\ instances # 0 /\ pty[instances] # "none"
         /\ \A r \in Records : secretaryEvent[r] \in Events \cup {None}
<1>1. \A r \in Records : r \in Nat /\ r # 0
  BY AnswerAssumption DEF Records
<1>2. instances \in Records \cup {0}
  BY AnswerParts DEF RecordTypes
<1>3. \A r \in Records : secretaryEvent[r] \in Events \cup {None}
  BY AnswerParts DEF EventTypes
<1>4. QED BY <1>1, <1>2, <1>3 DEF Current, Live

(* An answer under Claude has keys to press. *)
LEMMA PlanTypes ==
  ASSUME NEW dialog, NEW plan \in Plans(dialog)
  PROVE  plan \in AllPlans /\ (backend = "claude" => plan.keys \in 1..2)
<1>1. CASE backend = "opencode"
  <2>1. plan = [keys |-> 0, followUp |-> FALSE, expect |-> FALSE]
    BY <1>1 DEF Plans
  <2>2. QED BY <1>1, <2>1 DEF AllPlans
<1>2. CASE backend # "opencode" /\ dialog = "permission"
  <2>1. PICK f \in BOOLEAN : plan = [keys |-> 1, followUp |-> f, expect |-> FALSE]
    BY <1>2 DEF Plans
  <2>2. QED BY <2>1 DEF AllPlans
<1>3. CASE backend # "opencode" /\ dialog # "permission"
  <2>1. plan = [keys |-> 2, followUp |-> FALSE, expect |-> TRUE]
    BY <1>3 DEF Plans
  <2>2. QED BY <2>1 DEF AllPlans
<1>4. QED BY <1>1, <1>2, <1>3

(* A phone's answer is one of these. *)
LEMMA PhoneAnswers ==
  ASSUME TypeOK, SeqOK, NEW c \in Calls, answer(c)
  PROVE  Answers
<1> DEFINE e == secretaryEvent[instances]
<1>1. instances \in Records /\ NeedsYou(instances) /\ e.dialog # None
  BY AnswerParts DEF answer, Current, Live, RecordTypes
<1>2. e \in Events /\ e # None
  BY <1>1, AnswerParts DEF NeedsYou, EventTypes
<1>3. e.seq \in 1..MaxSeq /\ e.seq <= secretarySeq /\ e.dialog \in {"permission", "questions"}
  BY <1>1, <1>2 DEF SeqOK, Events, Dialogs
<1>4. e.seq \in 1..secretarySeq
  BY <1>3, AnswerAssumption, AnswerParts DEF EventTypes
<1>5. PICK plan \in Plans(e.dialog) : answerDialog(c, e.seq, [plan EXCEPT !.expect = FALSE], 0)
  BY DEF answer
<1>6. plan \in AllPlans /\ (backend = "claude" => plan.keys \in 1..2)
  BY <1>5, PlanTypes
<1>7. /\ [plan EXCEPT !.expect = FALSE] \in AllPlans
      /\ backend = "claude" => [plan EXCEPT !.expect = FALSE].keys \in 1..2
  BY <1>6 DEF AllPlans
<1>8. UNCHANGED <<backend, records, attention, stops, stopping>> /\ Pays /\ instances # 0
  BY RecordFacts DEF answer, Pays, BudgetItems
<1>9. 0 \in Nat
  OBVIOUS
<1> HIDE DEF e
<1>10. QED BY <1>4, <1>5, <1>7, <1>8, <1>9 DEF Answers

(* Every step is one of these. *)
LEMMA Steps ==
  ASSUME TypeOK, SeqOK, AnswerStep
  PROVE  Writings \/ Raisings \/ Clearings \/ Asides \/ Keyings
BY PhoneAnswers DEF AnswerStep, AnswerNext, Agent, Builder, Waits, Process, Writings, Raisings,
   Clearings, Asides, Keyings

-----------------------------------------------------------------------------
(* The budget *)

(* What is spent was there. *)
LEMMA Spent ==
  ASSUME BudgetTypes, NEW i \in BudgetItems, Spend(i)
  PROVE  /\ BudgetTypes' /\ budget'[i] = budget[i] - 1
         /\ \A j \in BudgetItems : budget'[j] <= budget[j] /\ (j # i => budget'[j] = budget[j])
BY DEF BudgetTypes, Spend

(* What is not spent stays. *)
LEMMA NothingSpent == BudgetTypes /\ budget' = budget => BudgetTypes' /\ \A j \in BudgetItems : budget'[j] <= budget[j]
BY DEF BudgetTypes

Paid == BudgetTypes' /\ BoundsOK' /\ \A j \in BudgetItems : budget'[j] <= budget[j]

(* Each event raised is paid for, and each turn is one of those it may begin. *)
LEMMA BudgetKept ==
  ASSUME TypeOK, BoundsOK, Writings \/ Raisings \/ Clearings \/ Asides \/ Keyings
  PROVE  Paid
<1>1. BudgetTypes /\ secretarySeq \in Nat /\ MaxSeq \in Nat
  BY AnswerParts, AnswerAssumption DEF EventTypes
<1>2. ASSUME NEW i \in BudgetItems, Spend(i), secretarySeq' = secretarySeq \/ (i = "events" /\ secretarySeq' = secretarySeq + 1)
      PROVE  Paid
  <2>1. /\ BudgetTypes' /\ budget'[i] = budget[i] - 1
        /\ \A j \in BudgetItems : budget'[j] <= budget[j] /\ (j # i => budget'[j] = budget[j])
    BY <1>1, <1>2, Spent
  <2>2. "events" \in BudgetItems /\ "turns" \in BudgetItems
    BY DEF BudgetItems
  <2>3. \A j \in BudgetItems : budget[j] \in Nat /\ budget'[j] \in Nat
    BY <1>1, <2>1 DEF BudgetTypes
  <2>4. MaxTurns \in Nat
    BY AnswerAssumption
  <2>5. BoundsOK'
    BY <1>1, <1>2, <2>1, <2>2, <2>3, <2>4 DEF BoundsOK
  <2>6. QED BY <2>1, <2>5 DEF Paid
<1>3. ASSUME budget' = budget, secretarySeq' = secretarySeq
      PROVE  Paid
  <2>1. BudgetTypes' /\ \A j \in BudgetItems : budget'[j] <= budget[j]
    BY <1>1, <1>3, NothingSpent
  <2>2. BoundsOK'
    BY <1>3 DEF BoundsOK
  <2>3. QED BY <2>1, <2>2 DEF Paid
<1>4. CASE Raisings
  <2>1. Spend("events") /\ secretarySeq' = secretarySeq + 1
    BY <1>4 DEF Raisings, prompt, waiting, raise
  <2>2. QED BY <1>2, <2>1 DEF BudgetItems
<1>5. CASE Writings
  <2>1. secretarySeq' = secretarySeq /\ (Spend("desk") \/ Spend("phone") \/ budget' = budget)
    BY <1>5 DEF Writings, writeToInstance, sendPrompt, interrupt, interruptAgain, followUp
  <2>2. QED BY <1>2, <1>3, <2>1 DEF BudgetItems
<1>6. CASE Clearings
  <2>1. secretarySeq' = secretarySeq /\ (Spend("starts") \/ budget' = budget)
    BY <1>6 DEF Clearings, promptCleared, onExit, restartInstance, removeInstance
  <2>2. QED BY <1>2, <1>3, <2>1 DEF BudgetItems
<1>7. CASE Asides
  <2>1. secretarySeq' = secretarySeq /\ (Spend("turns") \/ Spend("views") \/ Spend("starts") \/ budget' = budget)
    BY <1>7 DEF Asides, dialogOnScreen, onWorking, interruptTarget, StopSettled, killInstance, recorded,
                asked, event, untyped
  <2>2. QED BY <1>2, <1>3, <2>1 DEF BudgetItems
<1>8. CASE Keyings
  <2>1. ASSUME NEW c \in Calls, pressNext(c) PROVE secretarySeq' = secretarySeq /\ Pays
    BY <2>1 DEF pressNext, untyped, event, Pays
  <2>2. ASSUME Answers PROVE secretarySeq' = secretarySeq /\ Pays
    <3>1. PICK c \in Calls, q \in 1..secretarySeq, by \in Nat, plan \in AllPlans : answerDialog(c, q, plan, by)
      BY <2>2 DEF Answers
    <3>2. secretarySeq' = secretarySeq
      BY <3>1 DEF answerDialog, untyped, event
    <3>3. QED BY <2>2, <3>2 DEF Answers
  <2>3. secretarySeq' = secretarySeq /\ Pays
    BY <1>8, <2>1, <2>2 DEF Keyings
  <2>4. QED BY <1>2, <1>3, <2>3 DEF Pays
<1>9. QED BY <1>4, <1>5, <1>6, <1>7, <1>8

-----------------------------------------------------------------------------
(* The event and the run state *)

World == RecordTypes' /\ EventTypes' /\ HeardOK' /\ RunStateAgrees' /\ Told

(* What is typed into the current record clears its event. *)
LEMMA WritesWorld ==
  ASSUME TypeOK, HeardOK, RunStateAgrees, Current, NEW who, NEW input \in BOOLEAN,
         noteWrite(instances, who, input),
         UNCHANGED <<backend, records, secretarySeq, attention>>
  PROVE  World /\ (input => secretaryEvent' = [secretaryEvent EXCEPT ![instances] = None])
<1> DEFINE E == Events \cup {None}
<1>1. /\ instances \in Records /\ instances # 0 /\ RecordTypes /\ EventTypes
      /\ secretaryEvent \in [Records -> E] /\ heard \in E /\ None \in E
  BY RecordFacts, AnswerParts DEF EventTypes
<1> HIDE DEF E
<1>2. UNCHANGED <<backend, instances, pty, workingSince, onScreen, target, secretarySeq>>
  BY DEF records, attention
<1>3. runState' = [runState EXCEPT ![instances] = "busy"]
  BY DEF noteWrite
<1>4. RecordTypes'
  BY <1>1, <1>2, <1>3 DEF RecordTypes
<1>5. \/ UNCHANGED <<secretaryEvent, heard>> /\ (input => secretaryEvent[instances] = None)
      \/ secretaryEvent' = [secretaryEvent EXCEPT ![instances] = None] /\ heard' = None
  BY DEF noteWrite, clearSecretaryEvent, emit
<1>6. secretaryEvent' \in [Records -> E] /\ heard' \in E
  BY <1>1, <1>5
<1>7. EventTypes'
  BY <1>1, <1>2, <1>6 DEF EventTypes, E
<1>8. input => secretaryEvent' = [secretaryEvent EXCEPT ![instances] = None]
  BY <1>1, <1>5
<1>9. Told
  BY <1>1, <1>2, <1>5 DEF Told, Calm, Cleared
<1>10. \A r \in Records : r # instances => secretaryEvent'[r] = secretaryEvent[r] /\ runState'[r] = runState[r]
  BY <1>1, <1>3, <1>5 DEF RecordTypes
<1>11. heard' = secretaryEvent'[instances]
  BY <1>1, <1>5 DEF HeardOK
<1>12. HeardOK'
  <2>1. \A r \in Records : r > instances => r # instances
    BY RecordFacts
  <2>2. QED BY <1>1, <1>2, <1>10, <1>11, <2>1 DEF HeardOK
<1>13. RunStateAgrees'
  <2>1. runState'[instances] = "busy"
    BY <1>1, <1>3 DEF RecordTypes
  <2>2. QED BY <1>2, <2>1 DEF RunStateAgrees
<1>14. QED BY <1>4, <1>7, <1>8, <1>9, <1>12, <1>13 DEF World

(* Nothing of this changes. *)
LEMMA CalmWorld ==
  ASSUME TypeOK, HeardOK, RunStateAgrees, RecordTypes',
         UNCHANGED <<secretaryEvent, heard, secretarySeq, instances, runState>>,
         \A r \in Records : pty[r] = "none" => pty'[r] = "none"
  PROVE  World
<1>1. EventTypes'
  BY AnswerParts DEF EventTypes
<1>2. HeardOK'
  BY DEF HeardOK
<1>3. RunStateAgrees'
  <2>1. Current' => Current
    <3>1. instances \in Records \cup {0}
      BY AnswerParts DEF RecordTypes
    <3>2. QED BY <3>1 DEF Current, Live
  <2>2. QED BY <2>1 DEF RunStateAgrees, NeedsYou
<1>4. QED BY <1>1, <1>2, <1>3 DEF World, Told, Calm

(* An event raised is the current record's. *)
LEMMA RaisesWorld ==
  ASSUME TypeOK, BoundsOK, HeardOK, NEW kind \in {"finished", "needs-you"}, NEW dialog \in Dialogs,
         Current, Spend("events"), raise(instances, kind, dialog),
         runState' = [runState EXCEPT ![instances] = IF kind = "finished" THEN "idle" ELSE "blocked"],
         UNCHANGED <<backend, records, target>>, onScreen' \in BOOLEAN
  PROVE  World
<1> DEFINE e == [kind |-> kind, seq |-> secretarySeq + 1, dialog |-> dialog]
<1>1. instances \in Records /\ instances # 0 /\ RecordTypes /\ EventTypes /\ BudgetTypes
  BY RecordFacts, AnswerParts
<1>2. secretarySeq \in Nat /\ secretarySeq + 1 <= MaxSeq /\ MaxSeq \in Nat
  <2>1. "events" \in BudgetItems
    BY DEF BudgetItems
  <2>2. budget["events"] \in Nat /\ budget["events"] > 0
    BY <1>1, <2>1 DEF BudgetTypes, Spend
  <2>3. QED BY <1>1, <2>2, AnswerAssumption DEF EventTypes, BoundsOK
<1>3. e \in Events /\ e.kind = kind /\ e.seq = secretarySeq + 1
  BY <1>2 DEF Events
<1>4. /\ secretarySeq' = secretarySeq + 1 /\ secretaryEvent' = [secretaryEvent EXCEPT ![instances] = e]
      /\ heard' = e
  BY DEF raise, emit
<1> HIDE DEF e
<1> DEFINE E == Events \cup {None}
<1>5. /\ secretaryEvent \in [Records -> E] /\ e \in E
      /\ UNCHANGED <<backend, instances, pty, workingSince, target>>
  BY <1>1, <1>3 DEF EventTypes, records
<1> HIDE DEF E
<1>6. secretaryEvent' \in [Records -> E] /\ heard' \in E /\ secretaryEvent'[instances] = e
  BY <1>1, <1>4, <1>5
<1>7. EventTypes'
  BY <1>1, <1>2, <1>4, <1>6 DEF EventTypes, E
<1>8. RecordTypes' /\ runState'[instances] = IF kind = "finished" THEN "idle" ELSE "blocked"
  BY <1>1, <1>5 DEF RecordTypes
<1>9. \A r \in Records : r # instances => secretaryEvent'[r] = secretaryEvent[r] /\ runState'[r] = runState[r]
  BY <1>1, <1>4, <1>5 DEF RecordTypes
<1>10. HeardOK'
  <2>1. \A r \in Records : r > instances => r # instances
    BY RecordFacts
  <2>2. QED BY <1>1, <1>4, <1>5, <1>6, <1>9, <2>1 DEF HeardOK
<1>11. RunStateAgrees'
  BY <1>3, <1>5, <1>6, <1>8, NoEvent DEF RunStateAgrees, NeedsYou
<1>12. Told
  BY <1>1, <1>3, <1>4, <1>5 DEF Told, Raised
<1>13. QED BY <1>7, <1>8, <1>10, <1>11, <1>12 DEF World

(* What is cleared is None, and listeners hear so. *)
LEMMA Clears ==
  ASSUME TypeOK, HeardOK, NEW r \in Records, clearSecretaryEvent(r), secretarySeq' = secretarySeq
  PROVE  /\ EventTypes' /\ Told /\ secretaryEvent' = [secretaryEvent EXCEPT ![r] = None]
         /\ secretaryEvent'[r] = None /\ heard' = IF instances = r THEN None ELSE heard
<1> DEFINE E == Events \cup {None}
<1>1. secretaryEvent \in [Records -> E] /\ heard \in E /\ None \in E /\ secretarySeq \in 0..MaxSeq
  BY AnswerParts DEF EventTypes
<1> HIDE DEF E
<1>2. /\ secretaryEvent' = [secretaryEvent EXCEPT ![r] = None]
      /\ heard' = IF instances = r THEN None ELSE heard
  <2>1. CASE secretaryEvent[r] = None
    <3>1. instances = r => r # 0 /\ heard = None
      BY <2>1, RecordFacts DEF HeardOK
    <3>2. UNCHANGED <<secretaryEvent, heard>>
      BY <2>1 DEF clearSecretaryEvent
    <3>3. QED BY <1>1, <2>1, <3>1, <3>2
  <2>2. CASE secretaryEvent[r] # None
    BY <2>2 DEF clearSecretaryEvent, emit
  <2>3. QED BY <2>1, <2>2
<1>3. secretaryEvent' \in [Records -> E] /\ heard' \in E /\ secretaryEvent'[r] = None
  BY <1>1, <1>2
<1>4. EventTypes'
  BY <1>1, <1>3 DEF EventTypes, E
<1>5. Told
  BY <1>2 DEF Told, Cleared
<1>6. QED BY <1>2, <1>3, <1>4, <1>5

(* An agent that goes on is busy, an exit leaves its record behind, and a start or a removal
   leaves the event of the record before. *)
LEMMA ClearingsWorld ==
  ASSUME TypeOK, HeardOK, RunStateAgrees, Clearings
  PROVE  World
<1>1. /\ RecordTypes /\ \A r \in Records : secretaryEvent[r] \in Events \cup {None}
      /\ instances \in Records \cup {0} /\ instances \in Nat /\ \A r \in Records : r \in Nat /\ r # 0
  BY AnswerParts, RecordFacts DEF RecordTypes
<1>2. CASE promptCleared
  <2>1. /\ Current /\ runState' = [runState EXCEPT ![instances] = "busy"] /\ onScreen' \in BOOLEAN
        /\ UNCHANGED <<backend, instances, pty, workingSince, target, secretarySeq>>
    BY <1>2 DEF promptCleared, records
  <2>2. instances \in Records /\ instances # 0
    BY <2>1, RecordFacts
  <2>3. RecordTypes' /\ runState'[instances] = "busy"
    BY <1>1, <2>1, <2>2 DEF RecordTypes
  <2>4. /\ EventTypes' /\ Told /\ \A r \in Records : r # instances => secretaryEvent'[r] = secretaryEvent[r]
        /\ heard' = secretaryEvent'[instances]
    <3>1. CASE NeedsYou(instances)
      <4>1. clearSecretaryEvent(instances)
        BY <1>2, <3>1 DEF promptCleared
      <4>2. /\ EventTypes' /\ Told /\ secretaryEvent' = [secretaryEvent EXCEPT ![instances] = None]
            /\ secretaryEvent'[instances] = None /\ heard' = None
        BY <2>1, <2>2, <4>1, Clears
      <4>3. QED BY <4>2
    <3>2. CASE ~NeedsYou(instances)
      <4>1. UNCHANGED <<secretaryEvent, heard, secretarySeq>>
        BY <1>2, <2>1, <3>2 DEF promptCleared
      <4>2. EventTypes' /\ Told
        BY <4>1, AnswerParts DEF EventTypes, Told, Calm
      <4>3. QED BY <2>2, <4>1, <4>2 DEF HeardOK
    <3>3. QED BY <3>1, <3>2
  <2>5. HeardOK'
    <3>1. \A r \in Records : r > instances => runState'[r] = runState[r]
      BY <1>1, <2>1 DEF RecordTypes
    <3>2. QED BY <2>1, <2>2, <2>4, <3>1 DEF HeardOK
  <2>6. RunStateAgrees'
    BY <2>1, <2>3 DEF RunStateAgrees
  <2>7. QED BY <2>3, <2>4, <2>5, <2>6 DEF World
<1>3. ASSUME NEW r \in Records, onExit(r) PROVE World
  <2>1. /\ Live(r) /\ clearSecretaryEvent(r) /\ UNCHANGED <<backend, instances, secretarySeq>>
        /\ pty' = [pty EXCEPT ![r] = "none"] /\ runState' = [runState EXCEPT ![r] = "starting"]
        /\ workingSince' = [workingSince EXCEPT ![r] = 0]
        /\ onScreen' \in BOOLEAN /\ (target' = 0 \/ target' = target)
    BY <1>1, <1>3 DEF onExit, attention, RecordTypes
  <2>2. RecordTypes'
    BY <1>1, <2>1, AnswerAssumption DEF RecordTypes
  <2>3. /\ EventTypes' /\ Told /\ secretaryEvent' = [secretaryEvent EXCEPT ![r] = None]
        /\ secretaryEvent'[r] = None /\ heard' = IF instances = r THEN None ELSE heard
    BY <2>1, Clears
  <2>4. \A x \in Records : x # r => /\ secretaryEvent'[x] = secretaryEvent[x] /\ pty'[x] = pty[x]
                                    /\ runState'[x] = runState[x]
    BY <2>1, <2>3
  <2>5. pty'[r] = "none" /\ runState'[r] = "starting"
    BY <1>1, <2>1 DEF RecordTypes
  <2>6. HeardOK'
    BY <1>1, <2>1, <2>3, <2>4, <2>5 DEF HeardOK
  <2>7. RunStateAgrees'
    BY <1>1, <2>1, <2>4, <2>5 DEF RunStateAgrees, Current, Live, NeedsYou
  <2>8. QED BY <2>2, <2>3, <2>6, <2>7 DEF World
<1>4. CASE restartInstance
  <2>1. /\ instances # 0 /\ instances < MaxRecords /\ clearSecretaryEvent(instances) /\ instances' = instances + 1
        /\ onScreen' \in BOOLEAN /\ target' = 0
        /\ UNCHANGED <<backend, workingSince, secretarySeq, runState>>
    BY <1>4 DEF restartInstance
  <2>2. PICK spawned \in {"up", "none"} :
          pty' = [pty EXCEPT ![instances] = Killed(instances), ![instances + 1] = spawned]
    BY <1>4 DEF restartInstance
  <2>3. instances \in Records /\ instances + 1 \in Records
    BY <1>1, <2>1, AnswerAssumption DEF Records
  <2>4. Killed(instances) \in {"none", "up", "killed"}
    BY <1>1, <2>3 DEF RecordTypes, Killed
  <2>5. RecordTypes' /\ \A r \in Records : r # instances /\ r # instances + 1 => pty'[r] = pty[r]
    BY <1>1, <2>1, <2>2, <2>3, <2>4 DEF RecordTypes
  <2>6. /\ EventTypes' /\ Told /\ secretaryEvent' = [secretaryEvent EXCEPT ![instances] = None]
        /\ secretaryEvent'[instances] = None /\ heard' = None
    BY <2>1, <2>3, Clears
  <2>7. \A r \in Records : secretaryEvent'[r] = None
    BY <2>6 DEF HeardOK
  <2>8. HeardOK'
    BY <1>1, <2>1, <2>3, <2>5, <2>6, <2>7 DEF HeardOK
  <2>9. RunStateAgrees'
    <3>1. runState'[instances + 1] = "starting"
      BY <1>1, <2>1, <2>3 DEF HeardOK
    <3>2. QED BY <2>1, <3>1 DEF RunStateAgrees
  <2>10. QED BY <2>5, <2>6, <2>8, <2>9 DEF World
<1>5. CASE removeInstance
  <2>1. /\ instances # 0 /\ clearSecretaryEvent(instances) /\ instances' = 0
        /\ pty' = [pty EXCEPT ![instances] = Killed(instances)]
        /\ onScreen' \in BOOLEAN /\ target' = 0
        /\ UNCHANGED <<backend, workingSince, secretarySeq, runState>>
    BY <1>5 DEF removeInstance
  <2>2. instances \in Records
    BY <1>1, <2>1
  <2>3. Killed(instances) \in {"none", "up", "killed"}
    BY <1>1, <2>2 DEF RecordTypes, Killed
  <2>4. RecordTypes'
    BY <1>1, <2>1, <2>2, <2>3 DEF RecordTypes
  <2>5. /\ EventTypes' /\ Told /\ secretaryEvent' = [secretaryEvent EXCEPT ![instances] = None]
        /\ secretaryEvent'[instances] = None /\ heard' = None
    BY <2>1, <2>2, Clears
  <2>6. \A r \in Records : secretaryEvent'[r] = None
    BY <2>5 DEF HeardOK
  <2>7. HeardOK'
    BY <2>1, <2>5, <2>6 DEF HeardOK
  <2>8. RunStateAgrees'
    BY <2>1 DEF RunStateAgrees, Current, Live
  <2>9. QED BY <2>4, <2>5, <2>7, <2>8 DEF World
<1>6. QED BY <1>2, <1>3, <1>4, <1>5 DEF Clearings

-----------------------------------------------------------------------------
(* The answers: how each goes on *)

(* An answer that is not stopped presses its next key in its own process. *)
LEMMA Presses ==
  ASSUME TypeOK, StageOK, SettlingOK, NEW c \in Calls, pressNext(c)
  PROVE  \/ Ending(c) /\ UNCHANGED untyped
         \/ Pressing(c, calls[c]) /\ secretarySeq' = secretarySeq
<1> DEFINE cl == calls[c]
<1>1. cl \in CallRecords /\ cl.stage \in {"settling", "keys"} /\ cl.at \in 0..2
      /\ (cl.stage = "settling" => cl.at = 0 /\ cl.plan.keys \in 1..2) /\ backend = "claude"
  BY AnswerParts DEF CallTypes, pressNext, StageOK, CallRecords
<1> DEFINE ours == IF cl.stage = "settling" THEN afterSettle(c) ELSE stillOurs(c)
<1>2. CASE ours # "ok"
  <2>1. Stop(c, ours) /\ UNCHANGED untyped
    BY <1>2 DEF pressNext
  <2>2. ours \in Outcomes
    BY DEF afterSettle, stillOurs, Outcomes
  <2>3. UNCHANGED keyed
    BY <2>1 DEF untyped, writes
  <2> HIDE DEF ours
  <2>4. Done(cl, ours) \in CallRecords /\ Core(Done(cl, ours)) = Core([cl EXCEPT !.stage = "done"])
    BY <1>1, <2>2 DEF Done, CallRecords, Core
  <2>5. QED BY <1>1, <2>1, <2>3, <2>4 DEF Ending, Stop
<1>3. CASE ours = "ok"
  <2>1. press(c, cl) /\ UNCHANGED secretarySeq
    BY <1>3 DEF pressNext
  <2>2. instances = cl.rec /\ Current /\ ~Aborted(cl.by)
    BY <1>3 DEF afterSettle, stillOurs, same, Current
  <2>3. CASE cl.stage = "settling"
    <3>1. secretaryEvent[instances] # None /\ secretaryEvent[instances].seq = cl.seq
      BY <1>3, <2>2, <2>3 DEF afterSettle
    <3>2. instances \in Records
      BY <1>1, <2>2 DEF CallRecords
    <3>3. NeedsYou(instances)
      BY <2>3, <3>1, <3>2 DEF SettlingOK, NeedsYou
    <3>4. cl.at = 0 /\ cl.stage \in {"none", "settling"} /\ cl.plan.keys \in 1..2
      BY <1>1, <2>3
    <3>5. QED BY <1>1, <2>1, <2>2, <3>1, <3>3, <3>4 DEF Pressing
  <2>4. CASE cl.stage = "keys"
    <3>1. ~NeedsYou(instances) /\ inputWrites[instances] = cl.mine
      BY <1>3, <2>2, <2>4 DEF stillOurs
    <3>2. QED BY <1>1, <2>1, <2>2, <2>4, <3>1 DEF Pressing
  <2>5. QED BY <1>1, <2>3, <2>4
<1>4. QED BY <1>2, <1>3

(* An answer begins as one that waits, presses or is refused at once. *)
LEMMA Begins ==
  ASSUME TypeOK, StageOK, instances # 0, NEW c \in Calls, NEW q \in 1..secretarySeq, NEW plan \in AllPlans,
         NEW by \in Nat, backend = "claude" => plan.keys \in 1..2, answerDialog(c, q, plan, by)
  PROVE  \E cl \in CallRecords :
           /\ cl.by = by
           /\ \/ Beginning(c, cl) /\ UNCHANGED untyped
              \/ Pressing(c, cl) /\ secretarySeq' = secretarySeq
<1> DEFINE cl == [NoCall EXCEPT !.seq = q, !.rec = instances, !.by = by, !.plan = plan]
<1> DEFINE known == NeedsYou(instances) /\ secretaryEvent[instances].seq = q
<1>1. /\ instances \in Records /\ 0 \in Nat /\ q \in 0..MaxSeq /\ q # 0 /\ q <= secretarySeq
      /\ backend \in {"claude", "opencode"} /\ calls[c].stage = "none" /\ calls[c] \in CallRecords
  BY AnswerParts, AnswerAssumption DEF RecordTypes, EventTypes, CallTypes, answerDialog, New
<1>2. NoCall \in CallRecords /\ NoCall.stage = "none" /\ NoCall.at = 0
  <2>1. [keys |-> 0, followUp |-> FALSE, expect |-> FALSE] \in AllPlans /\ 1 \in Records /\ 0 \in 0..MaxSeq
    BY AnswerAssumption DEF AllPlans, Records
  <2>2. QED BY <2>1 DEF NoCall, CallRecords
<1>3. cl \in CallRecords /\ cl.by = by /\ cl.seq = q /\ cl.rec = instances /\ cl.plan = plan /\ cl.at = 0
      /\ cl.stage = "none"
  BY <1>1, <1>2 DEF CallRecords
<1>4. \/ \E outcome \in Outcomes : calls' = [calls EXCEPT ![c] = Done(cl, outcome)] /\ UNCHANGED <<untyped, answering>>
      \/ calls' = [calls EXCEPT ![c] = [cl EXCEPT !.stage = "asking"]] /\ UNCHANGED <<untyped, answering>>
      \/ /\ known /\ backend = "claude" /\ Current /\ ~Aborted(by)
         /\ \/ calls' = [calls EXCEPT ![c] = [cl EXCEPT !.stage = "settling"]] /\ UNCHANGED <<untyped, answering>>
            \/ press(c, cl) /\ UNCHANGED secretarySeq
  <2>1. "stopped" \in Outcomes /\ "answered" \in Outcomes
    BY DEF Outcomes
  <2>2. QED BY <1>1, <2>1 DEF answerDialog, Current
<1> HIDE DEF cl
<1>5. ASSUME NEW d \in CallRecords, calls' = [calls EXCEPT ![c] = d], UNCHANGED <<untyped, answering>>,
             d.stage \in {"done", "asking"} \/ (d.stage = "settling" /\ known /\ plan.keys \in 1..2 /\ backend = "claude"),
             Core(d) = Core([cl EXCEPT !.stage = d.stage])
      PROVE  d.by = by /\ Beginning(c, d) /\ UNCHANGED untyped
  <2>1. d.at = 0 /\ d.seq = q /\ d.by = by /\ d.plan = plan
    BY <1>3, <1>5 DEF Core, CallRecords
  <2>2. keyed' = keyed
    BY <1>5 DEF untyped, writes
  <2>3. cl.plan = plan /\ d.plan = plan
    BY <1>3, <2>1
  <2>4. d.stage \in {"done", "asking", "settling"}
    BY <1>5
  <2>5. d.stage = "settling" => known /\ plan.keys \in 1..2 /\ backend = "claude"
    BY <1>5
  <2>6. Beginning(c, d)
    BY <1>1, <1>5, <2>1, <2>2, <2>4, <2>5 DEF Beginning
  <2>7. QED BY <1>5, <2>1, <2>6
<1>6. \A stage \in {"done", "asking", "settling"} :
        LET d == [cl EXCEPT !.stage = stage]
        IN  d \in CallRecords /\ d.stage = stage /\ Core(d) = Core([cl EXCEPT !.stage = d.stage])
  BY <1>3 DEF CallRecords, Core, Pressed
<1>7. \A outcome \in Outcomes :
        LET d == Done(cl, outcome)
        IN  d \in CallRecords /\ d.stage = "done" /\ Core(d) = Core([cl EXCEPT !.stage = d.stage])
  BY <1>3 DEF CallRecords, Core, Done
<1>8. CASE press(c, cl) /\ UNCHANGED secretarySeq /\ known /\ backend = "claude" /\ Current /\ ~Aborted(by)
  <2>1. calls[c].at = 0
    BY <1>1 DEF StageOK
  <2>2. Pressing(c, cl)
    BY <1>1, <1>3, <1>8, <2>1 DEF Pressing
  <2>3. QED BY <1>3, <1>8, <2>2
<1>9. CASE \E outcome \in Outcomes : calls' = [calls EXCEPT ![c] = Done(cl, outcome)] /\ UNCHANGED <<untyped, answering>>
  BY <1>5, <1>7, <1>9
<1>10. CASE calls' = [calls EXCEPT ![c] = [cl EXCEPT !.stage = "asking"]] /\ UNCHANGED <<untyped, answering>>
  BY <1>5, <1>6, <1>10
<1>11. CASE known /\ backend = "claude" /\ calls' = [calls EXCEPT ![c] = [cl EXCEPT !.stage = "settling"]] /\ UNCHANGED <<untyped, answering>>
  BY <1>5, <1>6, <1>11
<1>12. QED BY <1>4, <1>8, <1>9, <1>10, <1>11

\* The answer after its next key.
Advances(c, cl, d) ==
  /\ calls' = [calls EXCEPT ![c] = d]
  /\ d.seq = cl.seq /\ d.rec = instances /\ d.by = cl.by /\ d.plan = cl.plan
  /\ d.at = cl.at + 1 /\ d.mine = inputWrites[instances] + 1
  /\ d.stage \in {"keys", "follow", "record", "done"}
  /\ d.stage = "keys" <=> cl.at + 1 # cl.plan.keys

(* A key that is pressed. *)
LEMMA PressedCall ==
  ASSUME TypeOK, StageOK, NEW c \in Calls, NEW cl, Pressing(c, cl)
  PROVE  /\ instances \in Records /\ Input(instances, <<"call", c>>)
         /\ keyed' = [keyed EXCEPT ![cl.seq] = @ \cup {c}] /\ cl.seq \in 1..MaxSeq
         /\ answering' = [answering EXCEPT ![instances] =
              (IF cl.at = 0 THEN @ + 1 ELSE @) - (IF cl.at + 1 = cl.plan.keys THEN 1 ELSE 0)]
         /\ cl.at \in {0, 1} /\ (cl.at = 1 => cl.plan.keys = 2) /\ calls[c].at = cl.at
         /\ \E d \in CallRecords : Advances(c, cl, d)
<1>1. cl \in CallRecords /\ cl.rec = instances /\ instances \in Records /\ inputWrites[instances] \in Nat
      /\ calls[c] \in CallRecords
  BY AnswerParts, RecordFacts DEF Pressing, WriteTypes, CallTypes
<1>2. cl.seq \in 1..MaxSeq
  <2>1. CASE NeedsYou(instances) /\ secretaryEvent[instances].seq = cl.seq
    BY <1>1, <2>1, RecordFacts DEF NeedsYou, Events
  <2>2. CASE cl = calls[c] /\ cl.stage = "keys"
    BY <2>2 DEF StageOK, Pressed
  <2>3. QED BY <2>1, <2>2 DEF Pressing
<1>3. cl.at \in {0, 1} /\ (cl.at = 1 => cl.plan.keys = 2) /\ calls[c].at = cl.at /\ cl.plan.keys \in 1..2
  BY DEF Pressing, StageOK
<1>4. Input(instances, <<"call", c>>)
  BY <1>1 DEF Pressing, press, noteWrite, Input
<1> DEFINE last == cl.at + 1 = cl.plan.keys
           stage == IF ~last THEN "keys" ELSE IF cl.plan.followUp THEN "follow"
                    ELSE IF cl.plan.expect THEN "record" ELSE "done"
           d == [cl EXCEPT !.stage = stage, !.at = @ + 1, !.mine = inputWrites[instances] + 1,
                           !.record = IF cl.at = 0 /\ cl.plan.expect THEN "waiting" ELSE @,
                           !.outcome = IF stage = "done" THEN "ok" ELSE @]
<1>5. /\ keyed' = [keyed EXCEPT ![cl.seq] = @ \cup {c}]
      /\ answering' = [answering EXCEPT ![instances] =
              (IF cl.at = 0 THEN @ + 1 ELSE @) - (IF cl.at + 1 = cl.plan.keys THEN 1 ELSE 0)]
      /\ calls' = [calls EXCEPT ![c] = d]
  BY <1>1 DEF Pressing, press
<1>6. stage \in {"keys", "follow", "record", "done"} /\ (stage = "keys" <=> cl.at + 1 # cl.plan.keys)
  OBVIOUS
<1> HIDE DEF stage
<1>7. cl.at + 1 \in 0..2 /\ inputWrites[instances] + 1 \in Nat
  BY <1>1, <1>3
<1>8. d \in CallRecords
  BY ZenonT(40), <1>1, <1>6, <1>7 DEF CallRecords, Pressed, Outcomes
<1>9. /\ d.stage = stage /\ d.seq = cl.seq /\ d.rec = instances /\ d.by = cl.by /\ d.plan = cl.plan
      /\ d.at = cl.at + 1 /\ d.mine = inputWrites[instances] + 1
  BY <1>1 DEF CallRecords
<1> HIDE DEF d
<1>10. Advances(c, cl, d)
  BY <1>1, <1>5, <1>6, <1>9 DEF Advances
<1>11. QED BY <1>1, <1>2, <1>3, <1>4, <1>5, <1>8, <1>10

-----------------------------------------------------------------------------
(* The answers: what holds of them *)

(* Every event is one there was, or a new one. *)
LEMMA EventsAfter ==
  ASSUME TypeOK, Told
  PROVE  /\ secretarySeq \in Nat /\ secretarySeq' \in {secretarySeq, secretarySeq + 1}
         /\ \A r \in Records : secretaryEvent'[r] # None =>
              \/ secretaryEvent'[r] = secretaryEvent[r]
              \/ secretarySeq' = secretarySeq + 1 /\ secretaryEvent'[r].seq = secretarySeq + 1
<1> DEFINE E == Events \cup {None}
<1>1. secretaryEvent \in [Records -> E] /\ secretarySeq \in Nat
  BY AnswerParts, AnswerAssumption DEF EventTypes
<1> HIDE DEF E
<1>2. CASE Calm
  BY <1>1, <1>2 DEF Calm
<1>3. ASSUME NEW e \in Events, Raised(e)
      PROVE  /\ secretarySeq' = secretarySeq + 1
             /\ \A r \in Records : secretaryEvent'[r] = secretaryEvent[r] \/ secretaryEvent'[r].seq = secretarySeq + 1
  BY <1>1, <1>3 DEF Raised
<1>4. ASSUME NEW x \in Records, Cleared(x)
      PROVE  /\ secretarySeq' = secretarySeq
             /\ \A r \in Records : secretaryEvent'[r] # None => secretaryEvent'[r] = secretaryEvent[r]
  BY <1>1, <1>4 DEF Cleared
<1>5. QED BY <1>1, <1>2, <1>3, <1>4 DEF Told

(* Their numbers are of events raised. *)
LEMMA SeqAfter ==
  ASSUME TypeOK, SeqOK, Told
  PROVE  /\ secretarySeq \in Nat /\ secretarySeq' \in {secretarySeq, secretarySeq + 1}
         /\ \A r \in Records : secretaryEvent'[r] # None => secretaryEvent'[r].seq <= secretarySeq'
<1>1. /\ secretarySeq \in Nat /\ secretarySeq' \in {secretarySeq, secretarySeq + 1}
  BY EventsAfter
<1>2. ASSUME NEW r \in Records, secretaryEvent'[r] # None
      PROVE  secretaryEvent'[r].seq <= secretarySeq'
  <2>1. CASE secretaryEvent'[r] = secretaryEvent[r]
    <3>1. secretaryEvent[r] \in Events /\ secretaryEvent[r].seq <= secretarySeq
      BY <1>2, <2>1, RecordFacts DEF SeqOK
    <3>2. secretaryEvent[r].seq \in Nat
      BY <3>1 DEF Events
    <3>3. QED BY <1>1, <2>1, <3>1, <3>2
  <2>2. CASE secretarySeq' = secretarySeq + 1 /\ secretaryEvent'[r].seq = secretarySeq + 1
    BY <1>1, <2>2
  <2>3. QED BY <1>2, <2>1, <2>2, EventsAfter
<1>3. QED BY <1>1, <1>2

CallsHold == CallTypes /\ SeqOK /\ StageOK /\ SettlingOK /\ KeyedOK

(* Where no call moves, a new event disturbs none. *)
LEMMA ApartHolds ==
  ASSUME TypeOK, CallsHold, Told, backend' = backend, Apart
  PROVE  CallsHold'
<1>1. \A c \in Calls : /\ calls'[c].stage = calls[c].stage /\ calls'[c].seq = calls[c].seq
                       /\ calls'[c].at = calls[c].at /\ calls'[c].plan = calls[c].plan
  BY DEF Apart, Core
<1>2. CallTypes'
  BY DEF CallsHold, CallTypes, Apart, CallRecords
<1>3. \A c \in Calls : calls[c].seq \in Nat /\ calls[c].seq <= secretarySeq
  BY AnswerAssumption DEF CallsHold, CallTypes, CallRecords, SeqOK
<1>4. SeqOK'
  BY <1>1, <1>3, SeqAfter DEF CallsHold, SeqOK
<1>5. StageOK'
  BY <1>1 DEF CallsHold, StageOK
<1>6. SettlingOK'
  BY <1>1, <1>3, EventsAfter DEF CallsHold, SettlingOK
<1>7. KeyedOK'
  BY <1>1, <1>3, EventsAfter DEF CallsHold, KeyedOK, Apart
<1>8. QED BY <1>2, <1>4, <1>5, <1>6, <1>7 DEF CallsHold

(* An answer that ends keeps what it pressed. *)
LEMMA EndingHolds ==
  ASSUME TypeOK, CallsHold, Told, backend' = backend, NEW c \in Calls, Ending(c)
  PROVE  CallsHold'
<1>1. PICK cl \in CallRecords : /\ calls' = [calls EXCEPT ![c] = cl]
                                /\ Core(cl) = Core([calls[c] EXCEPT !.stage = "done"])
  BY DEF Ending
<1>2. calls \in [Calls -> CallRecords] /\ keyed \in [1..MaxSeq -> SUBSET Calls]
  BY DEF CallsHold, CallTypes
<1>3. calls[c] \in CallRecords
  BY <1>2
<1>4. cl.stage = "done" /\ cl.seq = calls[c].seq /\ cl.at = calls[c].at
  BY <1>1, <1>3 DEF Core, CallRecords
<1>5. \A d \in Calls : calls'[d] = IF d = c THEN cl ELSE calls[d]
  BY <1>1, <1>2
<1>6. \A d \in Calls : calls'[d].seq = calls[d].seq /\ calls'[d].at = calls[d].at
                       /\ (calls'[d] = calls[d] \/ calls'[d].stage = "done")
  BY <1>4, <1>5
<1>7. CallTypes'
  <2>1. calls' \in [Calls -> CallRecords] /\ keyed' = keyed
    BY <1>1, <1>2 DEF Ending
  <2>2. QED BY <1>2, <2>1 DEF CallTypes, CallRecords
<1>8. \A d \in Calls : calls[d].seq \in Nat /\ calls[d].seq <= secretarySeq
  BY <1>2, AnswerAssumption DEF CallsHold, CallRecords, SeqOK
<1>9. SeqOK'
  BY <1>6, <1>8, SeqAfter DEF CallsHold, SeqOK
<1>10. StageOK'
  BY <1>6 DEF CallsHold, StageOK, Pressed
<1>11. SettlingOK'
  BY <1>6, <1>8, EventsAfter DEF CallsHold, SettlingOK
<1>12. KeyedOK'
  BY <1>6, <1>8, EventsAfter DEF CallsHold, KeyedOK, Ending
<1>13. QED BY <1>7, <1>9, <1>10, <1>11, <1>12 DEF CallsHold

(* An answer that begins has pressed nothing. *)
LEMMA BeginningHolds ==
  ASSUME TypeOK, HeardOK, CallsHold, Calm, backend' = backend, NEW c \in Calls, NEW cl, Beginning(c, cl)
  PROVE  CallsHold'
<1>1. /\ calls \in [Calls -> CallRecords] /\ keyed \in [1..MaxSeq -> SUBSET Calls]
      /\ cl \in CallRecords /\ calls' = [calls EXCEPT ![c] = cl] /\ keyed' = keyed
  BY DEF CallsHold, CallTypes, Beginning
<1>2. \A d \in Calls : calls'[d] = IF d = c THEN cl ELSE calls[d]
  BY <1>1
<1>3. /\ cl.at = 0 /\ calls[c].at = 0 /\ cl.stage \in {"done", "asking", "settling"} /\ cl.seq <= secretarySeq
      /\ cl.seq \in 0..MaxSeq
  BY <1>1 DEF CallsHold, StageOK, Beginning, CallRecords
<1>4. \A d \in Calls : calls[d].at \in 0..2 /\ calls[d].seq \in Nat
  BY <1>1, AnswerAssumption DEF CallRecords
<1>5. CallTypes'
  BY <1>1 DEF CallTypes, CallRecords
<1>6. SeqOK'
  BY <1>2, <1>3 DEF CallsHold, SeqOK, Calm
<1>7. StageOK'
  <2>1. \A d \in Calls : d # c => calls'[d] = calls[d]
    BY <1>2
  <2>2. calls'[c] = cl
    BY <1>2
  <2>3. cl.stage = "settling" => cl.seq \in 1..MaxSeq /\ cl.plan.keys \in 1..2 /\ backend = "claude"
    BY <1>3, AnswerAssumption DEF Beginning
  <2>4. QED BY <1>3, <2>1, <2>2, <2>3 DEF CallsHold, StageOK, Pressed
<1>8. SettlingOK'
  <2>1. cl.stage = "settling" => \A r \in Records : secretaryEvent[r] # None => secretaryEvent[r].kind = "needs-you"
    BY DEF Beginning, NeedsYou, HeardOK
  <2>2. QED BY <1>2, <2>1 DEF CallsHold, SettlingOK, Calm
<1>9. KeyedOK'
  <2>1. \A d \in Calls : calls'[d].at > 0 => d # c /\ calls'[d] = calls[d]
    BY <1>2, <1>3
  <2>2. \A d \in Calls : calls[d].at > 0 => calls'[d] = calls[d]
    BY <1>2, <1>3
  <2>3. QED BY <1>1, <2>1, <2>2 DEF CallsHold, KeyedOK, Calm
<1>10. QED BY <1>5, <1>6, <1>7, <1>8, <1>9 DEF CallsHold

(* The first key of an answer takes its event, which no other can then press for. *)
LEMMA PressingHolds ==
  ASSUME TypeOK, HeardOK, CallsHold, Told, backend' = backend, secretarySeq' = secretarySeq,
         secretaryEvent' = [secretaryEvent EXCEPT ![instances] = None], NEW c \in Calls, NEW cl, Pressing(c, cl)
  PROVE  CallsHold'
<1>1. /\ instances \in Records /\ keyed' = [keyed EXCEPT ![cl.seq] = @ \cup {c}] /\ cl.seq \in 1..MaxSeq
      /\ cl.at \in {0, 1} /\ (cl.at = 1 => cl.plan.keys = 2) /\ calls[c].at = cl.at
  <2>1. StageOK
    BY DEF CallsHold
  <2>2. instances \in Records /\ keyed' = [keyed EXCEPT ![cl.seq] = @ \cup {c}] /\ cl.seq \in 1..MaxSeq
    BY <2>1, PressedCall
  <2>3. cl.at \in {0, 1} /\ (cl.at = 1 => cl.plan.keys = 2) /\ calls[c].at = cl.at
    BY <2>1 DEF Pressing, StageOK
  <2>4. QED BY <2>2, <2>3
<1>2. PICK d \in CallRecords : Advances(c, cl, d)
  BY PressedCall DEF CallsHold
<1>3. calls \in [Calls -> CallRecords] /\ keyed \in [1..MaxSeq -> SUBSET Calls]
  BY DEF CallsHold, CallTypes
<1>4. calls' \in [Calls -> CallRecords] /\ \A x \in Calls : calls'[x] = IF x = c THEN d ELSE calls[x]
  BY <1>2, <1>3 DEF Advances
<1>5. \A x \in Calls : calls[x].seq \in Nat /\ calls[x].seq <= secretarySeq /\ calls[x].at \in 0..2
  BY <1>3, AnswerAssumption DEF CallsHold, SeqOK, CallRecords
<1>6. secretaryEvent \in [Records -> Events \cup {None}] /\ secretarySeq \in Nat /\ MaxSeq \in Nat
  BY AnswerParts, AnswerAssumption DEF EventTypes
<1>7. \A r \in Records : secretaryEvent'[r] = None
  BY <1>1, <1>6 DEF HeardOK
<1>8. keyed' \in [1..MaxSeq -> SUBSET Calls]
        /\ \A q \in 1..MaxSeq : keyed'[q] = IF q = cl.seq THEN keyed[q] \cup {c} ELSE keyed[q]
  BY <1>1, <1>3
<1>9. CallTypes'
  BY <1>4, <1>8 DEF CallTypes, CallRecords
<1>10. cl.seq <= secretarySeq
         /\ \A x \in Calls : x # c /\ calls[x].at > 0 => calls[x].seq # cl.seq
  <2>1. CASE NeedsYou(instances) /\ secretaryEvent[instances].seq = cl.seq
    <3>1. secretaryEvent[instances] # None
      BY <2>1 DEF NeedsYou
    <3>2. QED BY <1>1, <2>1, <3>1 DEF CallsHold, SeqOK, KeyedOK
  <2>2. CASE cl = calls[c] /\ cl.stage = "keys"
    <3>1. calls[c].at = 1
      BY <2>2 DEF CallsHold, StageOK
    <3>2. \A x \in Calls : x # c /\ calls[x].at > 0 => calls[x].seq # calls[c].seq
      BY <3>1 DEF CallsHold, KeyedOK
    <3>3. QED BY <1>5, <2>2, <3>2
  <2>3. QED BY <2>1, <2>2 DEF Pressing
<1>11. SeqOK'
  BY <1>2, <1>4, <1>5, <1>7, <1>10 DEF SeqOK, Advances
<1>12. StageOK'
  <2>1. /\ d.stage # "none" /\ d.stage # "settling" /\ d.seq \in 1..MaxSeq /\ backend = "claude"
        /\ d.stage = "keys" => d.at = 1 /\ d.plan.keys = 2
    <3>1. cl.plan.keys \in 1..2
      BY DEF Pressing, CallsHold, StageOK
    <3>2. QED BY <1>1, <1>2, <3>1 DEF Pressing, Advances
  <2>2. \A x \in Calls : x # c => calls'[x] = calls[x]
    BY <1>4
  <2>3. calls'[c] = d
    BY <1>4
  <2>4. QED BY <2>1, <2>2, <2>3 DEF CallsHold, StageOK
<1>13. SettlingOK'
  BY <1>7 DEF SettlingOK
<1>14. KeyedOK'
  <2>1. ASSUME NEW q \in 1..MaxSeq, NEW x \in Calls
        PROVE  x \in keyed'[q] <=> calls'[x].at > 0 /\ calls'[x].seq = q
    <3>1. x \in keyed[q] <=> calls[x].at > 0 /\ calls[x].seq = q
      BY DEF CallsHold, KeyedOK
    <3>2. calls[c].at > 0 => calls[c].seq = cl.seq
      BY <1>1 DEF Pressing
    <3>3. CASE x = c
      <4>1. calls'[x].at > 0 /\ calls'[x].seq = cl.seq
        BY <1>1, <1>2, <1>4, <3>3 DEF Advances
      <4>2. QED BY <1>8, <3>1, <3>2, <3>3, <4>1
    <3>4. CASE x # c
      BY <1>4, <1>8, <3>1, <3>4
    <3>5. QED BY <3>3, <3>4
  <2>2. ASSUME NEW x \in Calls, NEW y \in Calls, calls'[x].at > 0, calls'[y].at > 0, calls'[x].seq = calls'[y].seq
        PROVE  x = y
    <3>1. CASE x # c /\ y # c
      BY <1>4, <2>2, <3>1 DEF CallsHold, KeyedOK
    <3>2. CASE x = c /\ y # c
      BY <1>2, <1>4, <1>10, <2>2, <3>2 DEF Advances
    <3>3. CASE x # c /\ y = c
      BY <1>2, <1>4, <1>10, <2>2, <3>3 DEF Advances
    <3>4. QED BY <3>1, <3>2, <3>3
  <2>3. QED BY <1>7, <2>1, <2>2 DEF KeyedOK
<1>15. QED BY <1>9, <1>11, <1>12, <1>13, <1>14 DEF CallsHold

-----------------------------------------------------------------------------
(* The answers: what was typed, and who types *)

Typed == Silent \/ \E r \in Records, who \in Ids : Input(r, who)

(* The types of what was typed. *)
LEMMA WritesTyped ==
  ASSUME WriteTypes, Typed
  PROVE  WriteTypes'
BY DEF WriteTypes, Typed, Silent, Input

(* Who does not press has had the last word for as long as before. *)
LEMMA MineKept ==
  ASSUME TypeOK, MineOK, Typed,
         \A c \in Calls : calls'[c].at > 0 =>
           calls'[c].at = calls[c].at /\ calls'[c].rec = calls[c].rec /\ calls'[c].mine = calls[c].mine
  PROVE  MineOK'
<1>1. /\ inputWrites \in [Records -> Nat] /\ lastInput \in [Records -> Ids]
      /\ \A c \in Calls : calls[c].rec \in Records /\ calls[c].mine \in Nat
  BY AnswerParts DEF WriteTypes, CallTypes, CallRecords
<1>2. \A r \in Records : \/ inputWrites'[r] = inputWrites[r] /\ lastInput'[r] = lastInput[r]
                         \/ inputWrites'[r] = inputWrites[r] + 1
  BY <1>1 DEF Typed, Silent, Input
<1>3. ASSUME NEW c \in Calls, calls'[c].at > 0
      PROVE  /\ calls'[c].mine <= inputWrites'[calls'[c].rec]
             /\ calls'[c].mine = inputWrites'[calls'[c].rec] => lastInput'[calls'[c].rec] = <<"call", c>>
  <2>1. calls'[c].at = calls[c].at /\ calls'[c].rec = calls[c].rec /\ calls'[c].mine = calls[c].mine
    BY <1>3
  <2>2. PICK r \in Records : r = calls[c].rec
    BY <1>1
  <2>3. calls[c].mine <= inputWrites[r] /\ (calls[c].mine = inputWrites[r] => lastInput[r] = <<"call", c>>)
    BY <1>3, <2>1, <2>2 DEF MineOK
  <2>4. inputWrites[r] \in Nat /\ calls[c].mine \in Nat
    BY <1>1
  <2>5. QED BY <1>2, <2>1, <2>2, <2>3, <2>4
<1>4. QED BY <1>3 DEF MineOK

(* A key pressed is the last word. *)
LEMMA MinePressed ==
  ASSUME TypeOK, StageOK, MineOK, NEW c \in Calls, NEW cl, Pressing(c, cl)
  PROVE  MineOK'
<1>1. /\ inputWrites \in [Records -> Nat] /\ lastInput \in [Records -> Ids] /\ calls \in [Calls -> CallRecords]
      /\ \A x \in Calls : calls[x].rec \in Records /\ calls[x].mine \in Nat
  BY AnswerParts DEF WriteTypes, CallTypes, CallRecords
<1>2. instances \in Records /\ Input(instances, <<"call", c>>)
  BY PressedCall
<1>3. PICK d \in CallRecords : Advances(c, cl, d)
  BY PressedCall
<1>4. PICK i \in Records : i = instances
  BY <1>2
<1>5. /\ inputWrites' = [inputWrites EXCEPT ![i] = @ + 1] /\ lastInput' = [lastInput EXCEPT ![i] = <<"call", c>>]
  BY <1>2, <1>4 DEF Input
<1>6. \A x \in Calls : calls'[x] = IF x = c THEN d ELSE calls[x]
  BY <1>1, <1>3 DEF Advances
<1>7. ASSUME NEW x \in Calls, calls'[x].at > 0
      PROVE  /\ calls'[x].mine <= inputWrites'[calls'[x].rec]
             /\ calls'[x].mine = inputWrites'[calls'[x].rec] => lastInput'[calls'[x].rec] = <<"call", x>>
  <2>1. CASE x = c
    BY <1>1, <1>3, <1>4, <1>5, <1>6, <2>1 DEF Advances
  <2>2. CASE x # c
    <3>1. calls'[x] = calls[x]
      BY <1>6, <2>2
    <3>2. PICK r \in Records : r = calls[x].rec
      BY <1>1
    <3>3. calls[x].mine <= inputWrites[r] /\ (calls[x].mine = inputWrites[r] => lastInput[r] = <<"call", x>>)
      BY <1>7, <3>1, <3>2 DEF MineOK
    <3>4. inputWrites[r] \in Nat /\ calls[x].mine \in Nat
      BY <1>1
    <3>5. inputWrites'[r] = (IF r = i THEN inputWrites[r] + 1 ELSE inputWrites[r]) /\ (r # i => lastInput'[r] = lastInput[r])
      BY <1>1, <1>5
    <3>6. QED BY <3>1, <3>2, <3>3, <3>4, <3>5
  <2>3. QED BY <2>1, <2>2
<1>8. QED BY <1>7 DEF MineOK

(* The answers typing into a record are finitely many. *)
LEMMA TypingFinite ==
  ASSUME NEW r
  PROVE  /\ IsFiniteSet(Typing(r)) /\ Cardinality(Typing(r)) \in 0..MaxCalls
         /\ IsFiniteSet(Typing(r)') /\ Cardinality(Typing(r)') \in 0..MaxCalls
<1>1. IsFiniteSet(Calls) /\ Cardinality(Calls) = MaxCalls
  BY AnswerAssumption, FS_Interval DEF Calls
<1>2. ASSUME NEW S \in SUBSET Calls PROVE IsFiniteSet(S) /\ Cardinality(S) \in 0..MaxCalls
  BY <1>1, FS_Subset, FS_CardinalityType, AnswerAssumption
<1>3. Typing(r) \in SUBSET Calls /\ Typing(r)' \in SUBSET Calls
  BY DEF Typing
<1>4. QED BY <1>2, <1>3

(* The types of the counts follow from what they count. *)
LEMMA AnsweringTyped ==
  ASSUME CountOK', NEW r, NEW v, AnsweringTypes, answering' = answering \/ answering' = [answering EXCEPT ![r] = v]
  PROVE  AnsweringTypes'
<1>1. \A x \in Records : answering'[x] \in 0..MaxCalls
  <2>1. \A x \in Records : answering'[x] = Cardinality(Typing(x)')
    BY DEF CountOK
  <2>2. QED BY <2>1, TypingFinite
<1>2. answering' = [x \in Records |-> answering'[x]]
  BY DEF AnsweringTypes
<1>3. QED BY <1>1, <1>2 DEF AnsweringTypes

(* Who neither starts nor stops typing is counted as before. *)
LEMMA CountKept ==
  ASSUME CountOK, answering' = answering,
         \A c \in Calls : /\ calls'[c].stage = "keys" <=> calls[c].stage = "keys"
                          /\ calls[c].stage = "keys" => calls'[c].rec = calls[c].rec
  PROVE  CountOK'
<1>1. \A r \in Records : Typing(r)' = Typing(r)
  BY DEF Typing
<1>2. QED BY <1>1 DEF CountOK

(* One that starts is one more, one that stops one less. *)
LEMMA CountMoved ==
  ASSUME TypeOK, CountOK, NEW c \in Calls, NEW r \in Records,
         \A d \in Calls : d # c => calls'[d] = calls[d],
         \/ /\ calls[c].stage # "keys" /\ calls'[c].stage = "keys" /\ calls'[c].rec = r
            /\ answering' = [answering EXCEPT ![r] = @ + 1]
         \/ /\ calls[c].stage = "keys" /\ calls[c].rec = r /\ calls'[c].stage # "keys"
            /\ answering' = [answering EXCEPT ![r] = @ - 1]
  PROVE  CountOK'
<1>1. answering \in [Records -> 0..MaxCalls]
  BY AnswerParts DEF AnsweringTypes
<1>2. \A x \in Records : x # r => Typing(x)' = Typing(x)
  BY DEF Typing
<1>3. \A x \in Records : x # r => answering'[x] = Cardinality(Typing(x)')
  BY <1>1, <1>2 DEF CountOK
<1>4. answering[r] = Cardinality(Typing(r)) /\ Cardinality(Typing(r)) \in 0..MaxCalls
  BY TypingFinite DEF CountOK
<1>5. CASE /\ calls[c].stage # "keys" /\ calls'[c].stage = "keys" /\ calls'[c].rec = r
           /\ answering' = [answering EXCEPT ![r] = @ + 1]
  <2>1. Typing(r)' = Typing(r) \cup {c} /\ c \notin Typing(r)
    BY <1>5 DEF Typing
  <2>2. Cardinality(Typing(r) \cup {c}) = Cardinality(Typing(r)) + 1
    BY <2>1, FS_AddElement, TypingFinite
  <2>3. answering'[r] = Cardinality(Typing(r)')
    BY <1>1, <1>4, <1>5, <2>1, <2>2
  <2>4. QED BY <1>3, <2>3 DEF CountOK
<1>6. CASE /\ calls[c].stage = "keys" /\ calls[c].rec = r /\ calls'[c].stage # "keys"
           /\ answering' = [answering EXCEPT ![r] = @ - 1]
  <2>1. Typing(r)' = Typing(r) \ {c} /\ c \in Typing(r)
    BY <1>6 DEF Typing
  <2>2. Cardinality(Typing(r) \ {c}) = Cardinality(Typing(r)) - 1
    BY <2>1, FS_RemoveElement, TypingFinite
  <2>3. answering'[r] = Cardinality(Typing(r)')
    BY <1>1, <1>4, <1>6, <2>1, <2>2
  <2>4. QED BY <1>3, <2>3 DEF CountOK
<1>7. QED BY <1>5, <1>6

(* Pressing a key is counted: the first of two starts the typing, the last one ends it. *)
LEMMA CountPressed ==
  ASSUME TypeOK, StageOK, CountOK, NEW c \in Calls, NEW cl, Pressing(c, cl)
  PROVE  CountOK'
<1>1. /\ instances \in Records /\ calls \in [Calls -> CallRecords] /\ answering \in [Records -> 0..MaxCalls]
      /\ cl.plan.keys \in 1..2 /\ cl.at \in {0, 1}
  <2>1. cl.plan.keys \in 1..2 /\ cl.at \in {0, 1}
    BY DEF Pressing, StageOK
  <2>2. QED BY <2>1, PressedCall, AnswerParts DEF CallTypes, AnsweringTypes
<1>2. PICK d \in CallRecords : Advances(c, cl, d)
  BY PressedCall
<1>3. answering' = [answering EXCEPT ![instances] =
              (IF cl.at = 0 THEN @ + 1 ELSE @) - (IF cl.at + 1 = cl.plan.keys THEN 1 ELSE 0)]
  BY PressedCall
<1>4. calls'[c] = d /\ \A x \in Calls : x # c => calls'[x] = calls[x]
  BY <1>1, <1>2 DEF Advances
<1>5. answering[instances] \in 0..MaxCalls /\ MaxCalls \in Nat
  BY <1>1, AnswerAssumption
<1>6. CASE cl.at = 0 /\ cl.plan.keys = 1
  <2>1. calls[c].stage # "keys" /\ d.stage # "keys"
    BY <1>2, <1>6 DEF Pressing, StageOK, Advances
  <2>2. answering' = answering
    BY <1>1, <1>3, <1>5, <1>6
  <2>3. QED BY <1>4, <2>1, <2>2, CountKept
<1>7. CASE cl.at = 0 /\ cl.plan.keys = 2
  <2>1. calls[c].stage # "keys" /\ d.stage = "keys"
    BY <1>2, <1>7 DEF Pressing, StageOK, Advances
  <2>2. answering' = [answering EXCEPT ![instances] = @ + 1]
    <3>1. (IF cl.at = 0 THEN answering[instances] + 1 ELSE answering[instances])
            - (IF cl.at + 1 = cl.plan.keys THEN 1 ELSE 0) = answering[instances] + 1
      BY <1>5, <1>7
    <3>2. QED BY <1>3, <3>1
  <2>3. QED BY <1>1, <1>2, <1>4, <2>1, <2>2, CountMoved DEF Advances
<1>8. CASE cl.at = 1
  <2>1. calls[c].stage = "keys" /\ calls[c].rec = instances /\ cl.plan.keys = 2
    BY <1>8 DEF Pressing, StageOK
  <2>2. d.stage # "keys"
    BY <1>2, <1>8, <2>1 DEF Advances
  <2>3. answering' = [answering EXCEPT ![instances] = @ - 1]
    BY <1>1, <1>3, <1>5, <1>8, <2>1
  <2>4. QED BY <1>1, <1>4, <2>1, <2>2, <2>3, CountMoved
<1>9. QED BY <1>1, <1>6, <1>7, <1>8

(* So is the end of an answer that was typing. *)
LEMMA CountEnding ==
  ASSUME TypeOK, CountOK, NEW c \in Calls, Ending(c)
  PROVE  CountOK'
<1>1. PICK cl \in CallRecords : /\ calls' = [calls EXCEPT ![c] = cl]
                                /\ Core(cl) = Core([calls[c] EXCEPT !.stage = "done"])
  BY DEF Ending
<1>2. calls \in [Calls -> CallRecords]
  BY AnswerParts DEF CallTypes
<1>3. cl.stage = "done"
  BY <1>1, <1>2 DEF Core, CallRecords
<1>4. calls'[c] = cl /\ (\A x \in Calls : x # c => calls'[x] = calls[x]) /\ calls[c].rec \in Records
  BY <1>1, <1>2 DEF CallRecords
<1>5. CASE calls[c].stage = "keys"
  <2>1. answering' = [answering EXCEPT ![calls[c].rec] = @ - 1]
    BY <1>5 DEF Ending
  <2>2. QED BY <1>3, <1>4, <1>5, <2>1, CountMoved
<1>6. CASE calls[c].stage # "keys"
  <2>1. answering' = answering
    BY <1>6 DEF Ending
  <2>2. QED BY <1>3, <1>4, <1>6, <2>1, CountKept
<1>7. QED BY <1>5, <1>6

Onward == (Apart \/ \E c \in Calls : Ending(c)) /\ Typed
Kinds ==
  \/ Onward
  \/ (\E c \in Calls, cl \in CallRecords : Beginning(c, cl)) /\ Calm /\ Silent
  \/ /\ \E c \in Calls, cl \in CallRecords : Pressing(c, cl)
     /\ secretarySeq' = secretarySeq /\ secretaryEvent' = [secretaryEvent EXCEPT ![instances] = None]

CallInv == CallsHold /\ MineOK /\ CountOK /\ WriteTypes /\ AnsweringTypes

(* Whatever the answers do keeps what holds of them. *)
LEMMA KindsHold ==
  ASSUME TypeOK, HeardOK, CallInv, Told, backend' = backend, Kinds
  PROVE  CallInv'
<1>1. CallsHold /\ MineOK /\ CountOK /\ WriteTypes /\ AnsweringTypes /\ StageOK /\ calls \in [Calls -> CallRecords]
  BY DEF CallInv, CallsHold, CallTypes
<1>2. CASE Apart /\ Typed
  <2>1. \A c \in Calls : /\ calls'[c].at = calls[c].at /\ calls'[c].rec = calls[c].rec
                         /\ calls'[c].mine = calls[c].mine /\ calls'[c].stage = calls[c].stage
    BY <1>2 DEF Apart, Core
  <2>2. answering' = answering
    BY <1>2 DEF Apart
  <2>3. CountOK'
    BY <1>1, <2>1, <2>2, CountKept
  <2>4. MineOK'
    BY <1>1, <1>2, <2>1, MineKept
  <2>5. AnsweringTypes'
    BY <1>1, <2>2, <2>3, AnsweringTyped
  <2>6. QED BY <1>1, <1>2, <2>3, <2>4, <2>5, ApartHolds, WritesTyped DEF CallInv
<1>3. ASSUME NEW c \in Calls, Ending(c), Typed PROVE CallInv'
  <2>1. PICK cl \in CallRecords : /\ calls' = [calls EXCEPT ![c] = cl]
                                  /\ Core(cl) = Core([calls[c] EXCEPT !.stage = "done"])
    BY <1>3 DEF Ending
  <2>2. \A d \in Calls : /\ calls'[d].at = calls[d].at /\ calls'[d].rec = calls[d].rec
                         /\ calls'[d].mine = calls[d].mine
    <3>1. cl.at = calls[c].at /\ cl.rec = calls[c].rec /\ cl.mine = calls[c].mine
      BY <1>1, <2>1 DEF Core, CallRecords
    <3>2. \A d \in Calls : calls'[d] = IF d = c THEN cl ELSE calls[d]
      BY <1>1, <2>1
    <3>3. QED BY <3>1, <3>2
  <2>3. CountOK'
    BY <1>1, <1>3, CountEnding
  <2>4. MineOK'
    BY <1>1, <1>3, <2>2, MineKept
  <2>5. AnsweringTypes'
    <3>1. answering' = answering \/ answering' = [answering EXCEPT ![calls[c].rec] = answering[calls[c].rec] - 1]
      BY <1>3 DEF Ending
    <3>2. QED BY <1>1, <2>3, <3>1, AnsweringTyped
  <2>6. QED BY <1>1, <1>3, <2>3, <2>4, <2>5, EndingHolds, WritesTyped DEF CallInv
<1>4. ASSUME NEW c \in Calls, NEW cl \in CallRecords, Beginning(c, cl), Calm, Silent PROVE CallInv'
  <2>1. /\ cl.at = 0 /\ calls[c].stage = "none" /\ cl.stage # "keys" /\ answering' = answering
        /\ \A d \in Calls : calls'[d] = IF d = c THEN cl ELSE calls[d]
    BY <1>1, <1>4 DEF Beginning
  <2>2. Typed
    BY <1>4 DEF Typed
  <2>3. CountOK'
    BY <1>1, <2>1, CountKept
  <2>4. MineOK'
    BY <1>1, <2>1, <2>2, MineKept
  <2>5. AnsweringTypes'
    BY <1>1, <2>1, <2>3, AnsweringTyped
  <2>6. QED BY <1>1, <1>4, <2>2, <2>3, <2>4, <2>5, BeginningHolds, WritesTyped DEF CallInv
<1>5. ASSUME NEW c \in Calls, NEW cl \in CallRecords, Pressing(c, cl), secretarySeq' = secretarySeq,
             secretaryEvent' = [secretaryEvent EXCEPT ![instances] = None]
      PROVE  CallInv'
  <2>1. instances \in Records /\ Input(instances, <<"call", c>>) /\ <<"call", c>> \in Ids
    BY <1>1, <1>5, PressedCall DEF Ids
  <2>2. Typed
    BY <2>1 DEF Typed
  <2>3. CountOK'
    BY <1>1, <1>5, CountPressed
  <2>4. MineOK'
    BY <1>1, <1>5, MinePressed
  <2>5. AnsweringTypes'
    <3>1. answering' = [answering EXCEPT ![instances] =
            (IF cl.at = 0 THEN @ + 1 ELSE @) - (IF cl.at + 1 = cl.plan.keys THEN 1 ELSE 0)]
      BY <1>1, <1>5, PressedCall
    <3>2. QED BY <1>1, <2>3, <3>1, AnsweringTyped
  <2>6. CallsHold'
    BY <1>1, <1>5, PressingHolds
  <2>7. QED BY <1>1, <2>2, <2>3, <2>4, <2>5, <2>6, WritesTyped DEF CallInv
<1>6. QED BY <1>2, <1>3, <1>4, <1>5 DEF Kinds, Onward

-----------------------------------------------------------------------------
(* The steps *)

(* Where no answer moves. *)
LEMMA SameApart ==
  ASSUME TypeOK, UNCHANGED <<calls, answering, keyed>>
  PROVE  Apart
BY AnswerParts DEF CallTypes, Apart

(* A box's record is heard of by those that wait for it, and moves nothing else. *)
LEMMA RecordedApart ==
  ASSUME TypeOK, NEW r, NEW got \in {"got", "gone"}, calls' = Recorded(r, got), UNCHANGED <<answering, keyed>>
  PROVE  Apart
<1>1. calls \in [Calls -> CallRecords]
  BY AnswerParts DEF CallTypes
<1>2. ASSUME NEW c \in Calls PROVE calls'[c] \in CallRecords /\ Core(calls'[c]) = Core(calls[c])
  <2>1. calls[c] \in CallRecords
    BY <1>1
  <2>2. /\ [calls[c] EXCEPT !.record = got] \in CallRecords
        /\ Core([calls[c] EXCEPT !.record = got]) = Core(calls[c])
    BY <2>1 DEF CallRecords, Core
  <2>3. calls'[c] = calls[c] \/ calls'[c] = [calls[c] EXCEPT !.record = got]
    BY DEF Recorded
  <2>4. QED BY <2>1, <2>2, <2>3
<1>3. calls' = [c \in Calls |-> calls'[c]]
  BY DEF Recorded
<1>4. calls' \in [Calls -> CallRecords]
  BY <1>2, <1>3
<1>5. QED BY <1>2, <1>4 DEF Apart

(* An answer that waited has ended. *)
LEMMA WaitedEnds ==
  ASSUME TypeOK, NEW c \in Calls, NEW outcome \in Outcomes, calls[c].stage \in {"follow", "record", "asking"},
         calls' = [calls EXCEPT ![c] = Done(calls[c], outcome)], UNCHANGED <<answering, keyed>>
  PROVE  Ending(c)
<1>1. calls[c] \in CallRecords
  BY AnswerParts DEF CallTypes
<1>2. /\ Done(calls[c], outcome) \in CallRecords
      /\ Core(Done(calls[c], outcome)) = Core([calls[c] EXCEPT !.stage = "done"])
  BY <1>1 DEF Done, CallRecords, Core
<1>3. QED BY <1>2 DEF Ending

(* What a write does to the terminal it goes to. *)
LEMMA WritesTyping ==
  ASSUME TypeOK, NEW r \in Records, NEW who \in Ids, NEW input \in BOOLEAN, noteWrite(r, who, input)
  PROVE  Typed /\ (input => Input(r, who)) /\ (~input => Silent)
BY DEF noteWrite, Typed, Input, Silent

(* The desk, a phone's text and Stop, and an answer's follow-up write to the current record, or to none. *)
LEMMA WritingsGo ==
  ASSUME TypeOK, HeardOK, RunStateAgrees, Writings
  PROVE  World /\ Onward /\ backend' = backend
<1>1. RecordTypes /\ Other \in Ids /\ \A s \in Stops : <<"stop", s>> \in Ids
  BY AnswerParts DEF Other, Ids
<1>2. \A c \in Calls : <<"call", c>> \in Ids
  BY DEF Ids
<1>3. ASSUME NEW who \in Ids, NEW input \in BOOLEAN, Current, noteWrite(instances, who, input),
             UNCHANGED <<backend, records, secretarySeq, attention>>
      PROVE  World /\ Typed
  <2>1. instances \in Records
    BY <1>3, RecordFacts
  <2>2. QED BY <1>3, <2>1, WritesWorld, WritesTyping
<1>4. ASSUME UNCHANGED <<backend, records, secretarySeq, attention, runState, secretaryEvent, heard, inputWrites, lastInput>>
      PROVE  World /\ Typed
  <2>1. UNCHANGED <<backend, instances, pty, workingSince, onScreen, target>>
    BY <1>4 DEF records, attention
  <2>2. RecordTypes'
    BY <1>1, <1>4, <2>1 DEF RecordTypes
  <2>3. QED BY <1>4, <2>1, <2>2, CalmWorld DEF Typed, Silent
<1>5. CASE (\E input \in BOOLEAN : writeToInstance(input)) \/ sendPrompt \/ (\E s \in Stops : interrupt(s))
  <2>1. PICK who \in Ids, input \in BOOLEAN : Current /\ noteWrite(instances, who, input)
    BY <1>1, <1>5 DEF writeToInstance, sendPrompt, interrupt
  <2>2. UNCHANGED <<backend, records, secretarySeq, attention>> /\ UNCHANGED <<calls, answering, keyed>>
    BY <1>5 DEF writeToInstance, sendPrompt, interrupt
  <2>3. QED BY <1>3, <2>1, <2>2, SameApart DEF Onward
<1>6. ASSUME NEW s \in Stops, interruptAgain(s) PROVE World /\ Onward /\ backend' = backend
  <2>1. UNCHANGED <<backend, records, secretarySeq, attention>> /\ UNCHANGED <<calls, answering, keyed>>
    BY <1>6 DEF interruptAgain
  <2>2. CASE Aimed(s)
    <3>1. Current /\ noteWrite(instances, <<"stop", s>>, TRUE)
      BY <1>6, <2>2 DEF interruptAgain, Aimed, Current
    <3>2. QED BY <1>1, <1>3, <2>1, <3>1, SameApart DEF Onward
  <2>3. CASE ~Aimed(s)
    <3>1. UNCHANGED <<runState, secretaryEvent, heard, inputWrites, lastInput>>
      BY <1>6, <2>3 DEF interruptAgain
    <3>2. QED BY <1>4, <2>1, <3>1, SameApart DEF Onward
  <2>4. QED BY <2>2, <2>3
<1>7. ASSUME NEW c \in Calls, followUp(c) PROVE World /\ Onward /\ backend' = backend
  <2>1. UNCHANGED <<backend, records, secretarySeq, attention>> /\ UNCHANGED <<answering, keyed>>
    BY <1>7 DEF followUp
  <2>2. stillOurs(c) \in Outcomes
    BY DEF stillOurs, Outcomes
  <2>3. Ending(c)
    BY <1>7, <2>1, <2>2, WaitedEnds DEF followUp
  <2>4. CASE stillOurs(c) = "ok"
    <3>1. instances = calls[c].rec /\ Live(calls[c].rec)
      BY <2>4 DEF stillOurs, same
    <3>2. Current /\ noteWrite(instances, <<"call", c>>, TRUE)
      BY <1>7, <2>4, <3>1 DEF followUp, Current
    <3>3. QED BY <1>2, <1>3, <2>1, <2>3, <3>2 DEF Onward
  <2>5. CASE stillOurs(c) # "ok"
    <3>1. UNCHANGED <<runState, secretaryEvent, heard, inputWrites, lastInput>>
      BY <1>7, <2>5 DEF followUp
    <3>2. QED BY <1>4, <2>1, <2>3, <3>1 DEF Onward
  <2>6. QED BY <2>4, <2>5
<1>8. QED BY <1>5, <1>6, <1>7 DEF Writings

(* Events are raised beside the answers. *)
LEMMA RaisingsGo ==
  ASSUME TypeOK, BoundsOK, HeardOK, RunStateAgrees, Raisings
  PROVE  World /\ Onward /\ backend' = backend
<1>1. UNCHANGED <<backend, records, target, inputWrites, lastInput, keyed, calls, answering>>
  BY DEF Raisings, prompt, waiting, writes
<1>2. onScreen' \in BOOLEAN /\ Current /\ Spend("events")
  BY AnswerParts DEF Raisings, prompt, waiting, RecordTypes
<1>3. \E kind \in {"finished", "needs-you"}, dialog \in Dialogs :
        /\ raise(instances, kind, dialog)
        /\ runState' = [runState EXCEPT ![instances] = IF kind = "finished" THEN "idle" ELSE "blocked"]
  BY DEF Raisings, prompt, waiting, Dialogs
<1>4. World
  BY <1>1, <1>2, <1>3, RaisesWorld
<1>5. Onward
  BY <1>1, SameApart DEF Onward, Typed, Silent
<1>6. QED BY <1>1, <1>4, <1>5

(* So are they cleared by the agent, an exit, a start or a removal. *)
LEMMA ClearingsGo ==
  ASSUME TypeOK, HeardOK, RunStateAgrees, Clearings
  PROVE  World /\ Onward /\ backend' = backend
<1>1. UNCHANGED <<backend, inputWrites, lastInput, keyed, answering>>
  BY DEF Clearings, promptCleared, onExit, restartInstance, removeInstance, writes
<1>2. Apart
  <2>1. \/ calls' = calls
        \/ calls' = Recorded(instances, "got")
        \/ \E r \in Records : calls' = Recorded(r, "gone")
    BY DEF Clearings, promptCleared, onExit, restartInstance, removeInstance
  <2>2. QED BY <1>1, <2>1, SameApart, RecordedApart
<1>3. Onward
  BY <1>1, <1>2 DEF Onward, Typed, Silent
<1>4. QED BY <1>1, <1>3, ClearingsWorld

(* The rest touches no event and no terminal. *)
LEMMA AsidesGo ==
  ASSUME TypeOK, BoundsOK, HeardOK, RunStateAgrees, BudgetTypes', Asides
  PROVE  World /\ Onward /\ backend' = backend
<1>1. /\ RecordTypes /\ instances \in Nat /\ \A r \in Records : r \in Nat /\ r # 0
      /\ Current => instances \in Records
  BY AnswerParts, RecordFacts
<1>2. /\ UNCHANGED <<backend, instances, secretaryEvent, heard, secretarySeq, inputWrites, lastInput, keyed, runState>>
  BY DEF Asides, dialogOnScreen, onWorking, interruptTarget, StopSettled, killInstance, recorded, asked, event, writes,
         untyped, records
<1>3. RecordTypes' /\ \A r \in Records : pty[r] = "none" => pty'[r] = "none"
  <2>1. CASE dialogOnScreen \/ interruptTarget \/ StopSettled \/ (\E c \in Calls : recorded(c) \/ asked(c))
    <3>1. UNCHANGED <<backend, instances, pty, workingSince, runState>> /\ onScreen' \in BOOLEAN /\ target' \in 0..2
      BY <1>1, <2>1 DEF dialogOnScreen, interruptTarget, StopSettled, recorded, asked, records, attention,
                        untyped, RecordTypes
    <3>2. QED BY <1>1, <3>1 DEF RecordTypes
  <2>2. CASE onWorking
    <3>1. UNCHANGED <<backend, instances, pty, runState, onScreen, target>> /\ Current
      BY <2>2 DEF onWorking, attention
    <3>2. PICK t : workingSince' = [workingSince EXCEPT ![instances] = t]
                   /\ (t = 0 \/ (t = MaxTurns - budget'["turns"] /\ Spend("turns")))
      BY <2>2 DEF onWorking
    <3>3. t \in 0..MaxTurns
      <4>1. CASE t = 0
        BY <4>1, AnswerAssumption
      <4>2. CASE t = MaxTurns - budget'["turns"] /\ Spend("turns")
        <5>1. BudgetTypes /\ "turns" \in BudgetItems /\ MaxTurns \in Nat /\ budget["turns"] <= MaxTurns
          BY AnswerParts, AnswerAssumption DEF BudgetItems, BoundsOK
        <5>2. budget'["turns"] = budget["turns"] - 1 /\ budget["turns"] \in Nat /\ budget'["turns"] \in Nat
          BY <4>2, <5>1, Spent DEF BudgetTypes
        <5>3. QED BY <4>2, <5>1, <5>2
      <4>3. QED BY <3>2, <4>1, <4>2
    <3>4. QED BY <1>1, <3>1, <3>2, <3>3 DEF RecordTypes
  <2>3. CASE killInstance
    <3>1. /\ UNCHANGED <<backend, instances, runState, workingSince, onScreen, target>> /\ Current
          /\ pty' = [pty EXCEPT ![instances] = "killed"] /\ pty[instances] = "up"
      BY <2>3 DEF killInstance, attention
    <3>2. QED BY <1>1, <3>1 DEF RecordTypes
  <2>4. QED BY <2>1, <2>2, <2>3 DEF Asides
<1>4. World
  BY <1>2, <1>3, CalmWorld
<1>5. Apart \/ \E c \in Calls : Ending(c)
  <2>1. CASE UNCHANGED <<calls, answering>>
    BY <1>2, <2>1, SameApart
  <2>2. ASSUME NEW c \in Calls, recorded(c) \/ asked(c) PROVE Ending(c)
    <3>1. calls[c].stage \in {"record", "asking"}
      BY <2>2 DEF recorded, asked
    <3>2. PICK outcome \in Outcomes : Stop(c, outcome)
      BY <2>2 DEF recorded, asked, Outcomes
    <3>3. calls' = [calls EXCEPT ![c] = Done(calls[c], outcome)] /\ answering' = answering
      BY <3>1, <3>2 DEF Stop
    <3>4. QED BY <1>2, <3>1, <3>3, WaitedEnds
  <2>3. CASE dialogOnScreen \/ onWorking \/ interruptTarget \/ StopSettled \/ killInstance
    <3>1. UNCHANGED <<calls, answering>>
      BY <2>3 DEF dialogOnScreen, onWorking, interruptTarget, StopSettled, killInstance
    <3>2. QED BY <2>1, <3>1
  <2>4. QED BY <2>2, <2>3 DEF Asides
<1>6. Onward
  BY <1>2, <1>5 DEF Onward, Typed, Silent
<1>7. QED BY <1>2, <1>4, <1>6

(* A key goes to the current record and clears its event. *)
LEMMA KeyGoes ==
  ASSUME TypeOK, HeardOK, RunStateAgrees, StageOK, NEW c \in Calls, NEW cl \in CallRecords, Pressing(c, cl),
         secretarySeq' = secretarySeq, UNCHANGED <<backend, records, attention>>
  PROVE  World /\ Kinds
<1>1. noteWrite(instances, <<"call", c>>, TRUE) /\ instances \in Records
  BY PressedCall DEF Pressing, press
<1>2. Current
  BY DEF Pressing
<1>3. World /\ secretaryEvent' = [secretaryEvent EXCEPT ![instances] = None]
  BY <1>1, <1>2, WritesWorld
<1>4. Kinds
  BY <1>3 DEF Kinds
<1>5. QED BY <1>3, <1>4

(* An answer that only waits or ends touches nothing else. *)
LEMMA UntypedWorld ==
  ASSUME TypeOK, HeardOK, RunStateAgrees, UNCHANGED <<backend, records, attention, untyped>>
  PROVE  World /\ Typed /\ Calm /\ Silent /\ UNCHANGED keyed
<1>1. UNCHANGED <<backend, instances, pty, workingSince, runState, onScreen, target, secretaryEvent, heard,
                  secretarySeq, inputWrites, lastInput, keyed>>
  BY DEF records, attention, untyped, event, writes
<1>2. RecordTypes'
  BY <1>1, AnswerParts DEF RecordTypes
<1>3. QED BY <1>1, <1>2, CalmWorld DEF Typed, Silent, Calm

(* An answer goes on, or begins. *)
LEMMA KeyingsGo ==
  ASSUME TypeOK, HeardOK, RunStateAgrees, StageOK, SettlingOK, Keyings
  PROVE  World /\ Kinds /\ backend' = backend
<1>1. UNCHANGED <<backend, records, attention>>
  BY DEF Keyings, pressNext, Answers
<1>2. CASE \E c \in Calls : pressNext(c)
  <2>1. PICK c \in Calls : pressNext(c)
    BY <1>2
  <2>2. CASE Ending(c) /\ UNCHANGED untyped
    BY <1>1, <2>2, UntypedWorld DEF Kinds, Onward
  <2>3. CASE Pressing(c, calls[c]) /\ secretarySeq' = secretarySeq
    <3>1. calls[c] \in CallRecords
      BY AnswerParts DEF CallTypes
    <3>2. QED BY <1>1, <2>3, <3>1, KeyGoes
  <2>4. QED BY <2>1, <2>2, <2>3, Presses, <1>1
<1>3. CASE Answers
  <2>1. PICK c \in Calls, q \in 1..secretarySeq, by \in Nat, plan \in AllPlans :
          /\ backend = "claude" => plan.keys \in 1..2
          /\ answerDialog(c, q, plan, by)
    BY <1>3 DEF Answers
  <2>2. instances # 0
    BY <1>3 DEF Answers
  <2>3. PICK cl \in CallRecords : \/ Beginning(c, cl) /\ UNCHANGED untyped
                                  \/ Pressing(c, cl) /\ secretarySeq' = secretarySeq
    BY <2>1, <2>2, Begins
  <2>4. CASE Beginning(c, cl) /\ UNCHANGED untyped
    BY <1>1, <2>4, UntypedWorld DEF Kinds, Onward
  <2>5. CASE Pressing(c, cl) /\ secretarySeq' = secretarySeq
    BY <1>1, <2>5, KeyGoes
  <2>6. QED BY <1>1, <2>3, <2>4, <2>5
<1>4. QED BY <1>2, <1>3 DEF Keyings

(* A Stop that waits between its keys is OpenCode's. *)
LEMMA StopsGo ==
  ASSUME TypeOK, GapOK, Writings \/ Raisings \/ Clearings \/ Asides \/ Keyings, backend' = backend
  PROVE  StopTypes' /\ GapOK'
<1>1. /\ stops \in [Stops -> StopRecords] /\ stopping \in [turn : 0..MaxTurns, recent : BOOLEAN]
      /\ workingSince \in [Records -> 0..MaxTurns] /\ target \in 0..2 /\ backend \in {"claude", "opencode"}
  BY AnswerParts, AnswerAssumption DEF StopTypes, RecordTypes
<1>2. CASE UNCHANGED <<stops, stopping>>
  BY <1>1, <1>2 DEF StopTypes, GapOK
<1>3. ASSUME NEW s \in Stops, interrupt(s) PROVE StopTypes' /\ GapOK'
  <2>1. instances \in Records
    BY <1>3, RecordFacts DEF interrupt
  <2>2. PICK t \in 0..MaxTurns : t = workingSince[instances]
    BY <1>1, <2>1
  <2>3. PICK st \in StopRecords : /\ stops' = [stops EXCEPT ![s] = st]
                                  /\ st.stage = "gap" => backend = "opencode"
    <3>1. [stage |-> IF backend = "claude" THEN "done" ELSE "gap", rec |-> instances, turn |-> t,
           target |-> target] \in StopRecords
      BY <1>1, <2>1 DEF StopRecords
    <3>2. QED BY <1>1, <1>3, <2>2, <3>1 DEF interrupt
  <2>4. stopping' = [turn |-> t, recent |-> TRUE]
    BY <1>3, <2>2 DEF interrupt
  <2>5. StopTypes'
    BY <1>1, <2>3, <2>4 DEF StopTypes, StopRecords
  <2>6. GapOK'
    BY <1>1, <2>3 DEF GapOK
  <2>7. QED BY <2>5, <2>6
<1>4. ASSUME NEW s \in Stops, interruptAgain(s) PROVE StopTypes' /\ GapOK'
  <2>1. stops' = [stops EXCEPT ![s].stage = "done"] /\ stopping' = stopping
    BY <1>4 DEF interruptAgain
  <2>2. stops' = [stops EXCEPT ![s] = [stops[s] EXCEPT !.stage = "done"]]
    BY <2>1
  <2>3. [stops[s] EXCEPT !.stage = "done"] \in StopRecords
    BY <1>1 DEF StopRecords
  <2>4. [stops[s] EXCEPT !.stage = "done"].stage = "done"
    BY <1>1 DEF StopRecords
  <2>5. stops' \in [Stops -> StopRecords] /\ \A x \in Stops : stops'[x].stage = "gap" => stops[x].stage = "gap"
    BY <1>1, <2>2, <2>3, <2>4
  <2>6. QED BY <1>1, <2>1, <2>5 DEF StopTypes, StopRecords, GapOK
<1>5. CASE StopSettled
  <2>1. stops' = stops /\ stopping' = [stopping EXCEPT !.recent = FALSE]
    BY <1>5 DEF StopSettled
  <2>2. stopping' \in [turn : 0..MaxTurns, recent : BOOLEAN]
    BY <1>1, <2>1
  <2>3. QED BY <1>1, <2>1, <2>2 DEF StopTypes, GapOK
<1>6. CASE \/ (\E input \in BOOLEAN : writeToInstance(input)) \/ sendPrompt \/ (\E c \in Calls : followUp(c))
           \/ Raisings \/ Clearings \/ Keyings
  <2>1. CASE (\E input \in BOOLEAN : writeToInstance(input)) \/ sendPrompt \/ (\E c \in Calls : followUp(c))
    BY <1>2, <2>1 DEF writeToInstance, sendPrompt, followUp
  <2>2. CASE Raisings \/ Clearings
    BY <1>2, <2>2 DEF Raisings, prompt, waiting, Clearings, promptCleared, onExit, restartInstance, removeInstance
  <2>3. CASE Keyings
    BY <1>2, <2>3 DEF Keyings, pressNext, Answers
  <2>4. QED BY <1>6, <2>1, <2>2, <2>3
<1>7. CASE dialogOnScreen \/ onWorking \/ interruptTarget \/ killInstance \/ (\E c \in Calls : recorded(c) \/ asked(c))
  BY <1>2, <1>7 DEF dialogOnScreen, onWorking, interruptTarget, killInstance, recorded, asked
<1>8. QED BY <1>3, <1>4, <1>5, <1>6, <1>7 DEF Writings, Asides

(* Every step, by what it does to the event and to the answers. *)
LEMMA StepKinds ==
  ASSUME AnswerInv, AnswerStep
  PROVE  /\ Paid /\ World /\ Kinds /\ backend' = backend
         /\ Writings \/ Raisings \/ Clearings \/ Asides \/ Keyings
<1>1. TypeOK /\ BoundsOK /\ HeardOK /\ SeqOK /\ StageOK /\ SettlingOK /\ RunStateAgrees
  BY DEF AnswerInv
<1>2. Writings \/ Raisings \/ Clearings \/ Asides \/ Keyings
  BY <1>1, Steps
<1>3. Paid /\ BudgetTypes'
  BY <1>1, <1>2, BudgetKept DEF Paid
<1>4. World /\ Kinds /\ backend' = backend
  BY <1>1, <1>2, <1>3, WritingsGo, RaisingsGo, ClearingsGo, AsidesGo, KeyingsGo DEF Kinds
<1>5. QED BY <1>2, <1>3, <1>4

(* The invariant holds after every step of the contact, its terminal and its answers. *)
LEMMA AnswerStepKeeps ==
  ASSUME AnswerInv, AnswerStep
  PROVE  AnswerInv' /\ Told
<1>1. /\ TypeOK /\ BoundsOK /\ HeardOK /\ SeqOK /\ StageOK /\ SettlingOK /\ KeyedOK /\ MineOK
      /\ CountOK /\ GapOK /\ RunStateAgrees
  BY DEF AnswerInv
<1>2. Writings \/ Raisings \/ Clearings \/ Asides \/ Keyings
  BY StepKinds
<1>3. BudgetTypes' /\ BoundsOK'
  BY StepKinds DEF Paid
<1>4. World /\ Kinds /\ backend' = backend
  BY StepKinds
<1>5. CallInv
  BY <1>1, AnswerParts DEF CallInv, CallsHold
<1>6. CallInv' /\ Told
  BY <1>1, <1>4, <1>5, KindsHold DEF World
<1>7. StopTypes' /\ GapOK'
  BY <1>1, <1>2, <1>4, StopsGo
<1>8. TypeOK'
  BY <1>3, <1>4, <1>6, <1>7, AnswerPartsNext DEF World, CallInv, CallsHold
<1>9. QED BY <1>3, <1>4, <1>6, <1>7, <1>8 DEF World, CallInv, CallsHold, AnswerInv

(* So it does where only the budget moves. *)
LEMMA AnswerBeside ==
  ASSUME AnswerInv, Pays,
         UNCHANGED <<backend, records, event, writes, attention, answering, runState, calls, stops, stopping>>
  PROVE  AnswerInv'
<1>1. /\ TypeOK /\ BoundsOK /\ HeardOK /\ SeqOK /\ StageOK /\ SettlingOK /\ KeyedOK /\ MineOK
      /\ CountOK /\ GapOK /\ RunStateAgrees
  BY DEF AnswerInv
<1>2. UNCHANGED <<backend, instances, pty, workingSince, secretaryEvent, heard, secretarySeq, inputWrites, lastInput, keyed,
                  onScreen, target, answering, runState, calls, stops, stopping>>
  BY DEF records, event, writes, attention
<1>3. BudgetTypes' /\ BoundsOK'
  <2>1. BudgetTypes /\ secretarySeq \in 0..MaxSeq /\ MaxSeq \in Nat /\ MaxTurns \in Nat /\ "events" \in BudgetItems /\ "turns" \in BudgetItems
    BY <1>1, AnswerParts, AnswerAssumption DEF EventTypes, BudgetItems
  <2>2. BudgetTypes' /\ \A j \in BudgetItems : budget'[j] <= budget[j]
    BY <2>1, Spent, NothingSpent DEF Pays
  <2>3. \A j \in BudgetItems : budget[j] \in Nat /\ budget'[j] \in Nat
    BY <2>1, <2>2 DEF BudgetTypes
  <2>4. QED BY <1>1, <1>2, <2>1, <2>2, <2>3 DEF BoundsOK
<1>4. TypeOK'
  <2>1. RecordTypes' /\ EventTypes'
    BY <1>1, <1>2, AnswerParts DEF RecordTypes, EventTypes
  <2>2. WriteTypes' /\ CallTypes' /\ AnsweringTypes'
    BY <1>1, <1>2, AnswerParts DEF WriteTypes, CallTypes, AnsweringTypes, CallRecords
  <2>3. StopTypes'
    BY <1>1, <1>2, AnswerParts DEF StopTypes, StopRecords
  <2>4. QED BY <1>3, <2>1, <2>2, <2>3, AnswerPartsNext
<1>5. HeardOK' /\ SeqOK' /\ SettlingOK' /\ KeyedOK' /\ MineOK' /\ GapOK'
  BY <1>1, <1>2 DEF HeardOK, SeqOK, SettlingOK, KeyedOK, MineOK, GapOK
<1>6. StageOK'
  BY <1>1, <1>2 DEF StageOK
<1>7. CountOK'
  BY <1>1, <1>2, CountKept
<1>8. RunStateAgrees'
  BY <1>1, <1>2 DEF RunStateAgrees, Current, Live, NeedsYou
<1>9. QED BY <1>3, <1>4, <1>5, <1>6, <1>7, <1>8 DEF AnswerInv

(* It holds at the start. *)
LEMMA AnswerInitHolds ==
  ASSUME AnswerInit
  PROVE  AnswerInv
<1>1. /\ MaxRecords \in Nat \ {0} /\ MaxCalls \in Nat /\ MaxStops \in Nat /\ MaxSeq \in Nat /\ MaxTurns \in Nat
      /\ Budgets \subseteq [BudgetItems -> Nat] /\ \A b \in Budgets : b.events <= MaxSeq /\ b.turns <= MaxTurns
  BY AnswerAssumption
<1>2. 1 \in Records /\ 0 \in 0..MaxSeq /\ 0 \in 0..MaxTurns /\ Other \in Ids
  BY <1>1 DEF Records, Other, Ids
<1>3. NoCall \in CallRecords /\ NoStop \in StopRecords
  <2>1. [keys |-> 0, followUp |-> FALSE, expect |-> FALSE] \in AllPlans
    BY DEF AllPlans
  <2>2. QED BY <1>2, <2>1 DEF NoCall, NoStop, CallRecords, StopRecords
<1>4. BudgetTypes /\ BoundsOK
  <2>1. budget \in Budgets /\ secretarySeq = 0
    BY DEF AnswerInit
  <2>2. budget["events"] \in Nat /\ budget["turns"] \in Nat
    BY <1>1, <2>1 DEF BudgetItems
  <2>3. QED BY <1>1, <2>1, <2>2 DEF BudgetTypes, BoundsOK
<1>5. RecordTypes
  <2>1. onScreen \in BOOLEAN /\ backend \in Backends /\ instances = 1 /\ target = 0
    BY DEF AnswerInit
  <2>2. pty \in [Records -> {"none", "up", "killed"}]
    BY DEF AnswerInit
  <2>3. /\ workingSince \in [Records -> 0..MaxTurns]
        /\ runState \in [Records -> {"starting", "idle", "busy", "blocked"}]
    BY <1>2 DEF AnswerInit
  <2>4. QED BY <1>2, <2>1, <2>2, <2>3 DEF RecordTypes
<1>6. EventTypes /\ WriteTypes
  BY <1>2 DEF AnswerInit, EventTypes, WriteTypes
<1>7. CallTypes /\ StopTypes /\ AnsweringTypes
  BY <1>1, <1>2, <1>3 DEF AnswerInit, CallTypes, StopTypes, AnsweringTypes
<1>8. TypeOK
  BY <1>4, <1>5, <1>6, <1>7, AnswerParts
<1>9. HeardOK /\ SeqOK /\ SettlingOK /\ GapOK /\ RunStateAgrees
  <2>1. HeardOK
    BY <1>1, <1>2 DEF AnswerInit, HeardOK, Records
  <2>2. SeqOK /\ SettlingOK
    BY <1>1 DEF AnswerInit, SeqOK, SettlingOK, NoCall
  <2>3. GapOK /\ RunStateAgrees
    BY <1>2 DEF AnswerInit, GapOK, RunStateAgrees, NoStop
  <2>4. QED BY <2>1, <2>2, <2>3
<1>10. StageOK /\ KeyedOK /\ MineOK
  BY DEF AnswerInit, StageOK, KeyedOK, MineOK, NoCall, Pressed
<1>11. CountOK
  <2>1. \A r \in Records : Typing(r) = {} /\ answering[r] = 0
    BY DEF AnswerInit, Typing, NoCall
  <2>2. QED BY <2>1, FS_EmptySet DEF CountOK
<1>12. QED BY <1>4, <1>8, <1>9, <1>10, <1>11 DEF AnswerInv

-----------------------------------------------------------------------------
(* The properties *)

(* OneAnswerPerDialog (answerDialog): who pressed a key of a dialog is the only one. *)
LEMMA OneAnswers ==
  ASSUME AnswerInv
  PROVE  OneAnswerPerDialog
<1>1. keyed \in [1..MaxSeq -> SUBSET Calls] /\ KeyedOK
  BY AnswerParts DEF AnswerInv, CallTypes
<1>2. ASSUME NEW q \in DOMAIN keyed PROVE Cardinality(keyed[q]) <= 1
  <2>1. q \in 1..MaxSeq /\ keyed[q] \subseteq Calls
    BY <1>1, <1>2
  <2>2. \A c, d \in keyed[q] : c = d
    BY <1>1, <2>1 DEF KeyedOK
  <2>3. CASE keyed[q] = {}
    BY <2>3, FS_EmptySet
  <2>4. CASE keyed[q] # {}
    <3>1. PICK c \in keyed[q] : TRUE
      BY <2>4
    <3>2. keyed[q] = {c}
      BY <2>2, <3>1
    <3>3. Cardinality({c}) = 1
      BY FS_Singleton
    <3>4. QED BY <3>2, <3>3
  <2>5. QED BY <2>3, <2>4
<1>3. QED BY <1>2 DEF OneAnswerPerDialog

\* What KeysStayTogether and StopHitsItsTurn say of one step.
KeysTogether ==
  \A c \in Calls : calls'[c].at > calls[c].at =>
    LET cl == calls'[c] IN
    /\ instances = cl.rec /\ Live(cl.rec) /\ ~Aborted(cl.by)
    /\ IF calls[c].at = 0 THEN NeedsYou(cl.rec) /\ secretaryEvent[cl.rec].seq = cl.seq
       ELSE ~NeedsYou(cl.rec) /\ lastInput[cl.rec] = <<"call", c>>
StopHits ==
  \A s \in Stops, r \in Records :
    (inputWrites'[r] > inputWrites[r] /\ lastInput'[r] = <<"stop", s>>) =>
      /\ r = instances /\ ~NeedsYou(r) /\ ~onScreen
      /\ \A c \in Calls : calls[c].rec = r => calls[c].stage # "keys"
      /\ workingSince[r] = stops'[s].turn /\ target = stops'[s].target

(* Who presses the n-th key of an answer does so in its own process, and had the last word. *)
LEMMA KeysStep ==
  ASSUME AnswerInv, AnswerStep
  PROVE  KeysTogether
<1>1. TypeOK /\ StageOK /\ MineOK /\ calls \in [Calls -> CallRecords] /\ Kinds
  BY StepKinds, AnswerParts DEF AnswerInv, CallTypes
<1>2. \A c \in Calls : calls[c].at \in 0..2
  BY <1>1 DEF CallRecords
<1>3. ASSUME NEW c \in Calls, calls'[c].at > calls[c].at
      PROVE  \E cl \in CallRecords : Pressing(c, cl)
  <2>1. ASSUME Apart PROVE FALSE
    <3>1. calls'[c].at = calls[c].at
      BY <2>1 DEF Apart, Core
    <3>2. QED BY <1>2, <1>3, <3>1
  <2>2. ASSUME NEW d \in Calls, Ending(d) PROVE FALSE
    <3>1. PICK cl \in CallRecords : /\ calls' = [calls EXCEPT ![d] = cl]
                                    /\ Core(cl) = Core([calls[d] EXCEPT !.stage = "done"])
      BY <2>2 DEF Ending
    <3>2. cl.at = calls[d].at
      BY <1>1, <3>1 DEF Core, CallRecords
    <3>3. calls'[c].at = calls[c].at
      BY <1>1, <3>1, <3>2
    <3>4. QED BY <1>2, <1>3, <3>3
  <2>3. ASSUME NEW d \in Calls, NEW cl \in CallRecords, Beginning(d, cl) PROVE FALSE
    <3>1. calls' = [calls EXCEPT ![d] = cl] /\ cl.at = 0
      BY <2>3 DEF Beginning
    <3>2. calls'[c].at = calls[c].at \/ calls'[c].at = 0
      BY <1>1, <3>1
    <3>3. QED BY <1>2, <1>3, <3>2
  <2>4. ASSUME NEW d \in Calls, NEW cl \in CallRecords, Pressing(d, cl), d # c PROVE FALSE
    <3>1. PICK e \in CallRecords : Advances(d, cl, e)
      BY <1>1, <2>4, PressedCall
    <3>2. calls'[c] = calls[c]
      BY <1>1, <2>4, <3>1 DEF Advances
    <3>3. QED BY <1>2, <1>3, <3>2
  <2>5. QED BY <1>1, <2>1, <2>2, <2>3, <2>4 DEF Kinds, Onward
<1>4. ASSUME NEW c \in Calls, NEW cl \in CallRecords, Pressing(c, cl), calls'[c].at > calls[c].at
      PROVE  /\ instances = calls'[c].rec /\ Live(instances) /\ ~Aborted(calls'[c].by)
             /\ IF calls[c].at = 0 THEN NeedsYou(instances) /\ secretaryEvent[instances].seq = calls'[c].seq
                ELSE ~NeedsYou(instances) /\ lastInput[instances] = <<"call", c>>
  <2>1. PICK d \in CallRecords : Advances(c, cl, d)
    BY <1>1, <1>4, PressedCall
  <2>2. calls'[c] = d
    BY <1>1, <2>1 DEF Advances
  <2>3. Current /\ ~Aborted(cl.by)
    BY <1>4 DEF Pressing
  <2>4. CASE calls[c].at = 0
    <3>1. NeedsYou(instances) /\ secretaryEvent[instances].seq = cl.seq
      BY <1>1, <1>4, <2>4 DEF Pressing, StageOK
    <3>2. QED BY <2>1, <2>2, <2>3, <2>4, <3>1 DEF Current, Advances
  <2>5. CASE calls[c].at # 0
    <3>1. cl = calls[c] /\ cl.rec = instances /\ ~NeedsYou(instances) /\ inputWrites[instances] = cl.mine
      BY <1>4, <2>5 DEF Pressing
    <3>2. calls[c].at > 0
      BY <1>2, <2>5
    <3>3. lastInput[instances] = <<"call", c>>
      BY <1>1, <3>1, <3>2 DEF MineOK
    <3>4. QED BY <2>1, <2>2, <2>3, <2>5, <3>1, <3>3 DEF Current, Advances
  <2>6. QED BY <2>4, <2>5
<1>5. QED BY <1>3, <1>4 DEF KeysTogether

(* A Stop's Esc is typed while no dialog is known to be up, and no answer is between its keys. *)
LEMMA StopStep ==
  ASSUME AnswerInv, AnswerStep
  PROVE  StopHits
<1>1. /\ TypeOK /\ StageOK /\ CountOK /\ GapOK /\ HeardOK /\ RunStateAgrees /\ SettlingOK
      /\ inputWrites \in [Records -> Nat] /\ lastInput \in [Records -> Ids] /\ stops \in [Stops -> StopRecords]
      /\ Writings \/ Raisings \/ Clearings \/ Asides \/ Keyings
  BY StepKinds, AnswerParts DEF AnswerInv, WriteTypes, StopTypes
<1> SUFFICES ASSUME NEW s \in Stops, NEW r \in Records, inputWrites'[r] > inputWrites[r], lastInput'[r] = <<"stop", s>>
             PROVE  /\ r = instances /\ ~NeedsYou(r) /\ ~onScreen
                    /\ \A c \in Calls : calls[c].rec = r => calls[c].stage # "keys"
                    /\ workingSince[r] = stops'[s].turn /\ target = stops'[s].target
  BY DEF StopHits
<1>2. ASSUME UNCHANGED inputWrites PROVE FALSE
  BY <1>1, <1>2
<1>3. ASSUME NEW x \in Records, NEW who, Input(x, who) PROVE r = x /\ who = <<"stop", s>>
  <2>1. inputWrites' = [inputWrites EXCEPT ![x] = @ + 1] /\ lastInput' = [lastInput EXCEPT ![x] = who]
    BY <1>3 DEF Input
  <2>2. r = x
    <3>1. r # x => inputWrites'[r] = inputWrites[r] /\ inputWrites[r] \in Nat
      BY <1>1, <2>1
    <3>2. QED BY <3>1
  <2>3. QED BY <1>1, <2>1, <2>2
<1>4. ASSUME NEW x, NEW c, NEW input \in BOOLEAN, noteWrite(x, <<"call", c>>, input) \/ noteWrite(x, Other, input), x \in Records
      PROVE  FALSE
  <2>1. UNCHANGED inputWrites \/ Input(x, <<"call", c>>) \/ Input(x, Other)
    BY <1>4 DEF noteWrite, Input
  <2>2. <<"call", c>> # <<"stop", s>> /\ Other # <<"stop", s>>
    BY DEF Other
  <2>3. QED BY <1>2, <1>3, <1>4, <2>1, <2>2
<1>5. ASSUME Raisings \/ Clearings \/ Asides PROVE FALSE
  <2>1. UNCHANGED inputWrites
    BY <1>5 DEF Raisings, prompt, waiting, writes, Clearings, promptCleared, onExit, restartInstance, removeInstance,
                Asides, dialogOnScreen, onWorking, interruptTarget, StopSettled, killInstance, recorded, asked, untyped
  <2>2. QED BY <1>2, <2>1
<1>6. ASSUME Keyings PROVE FALSE
  <2>1. \/ UNCHANGED untyped
        \/ \E c \in Calls : \E cl : Pressing(c, cl)
    <3>1. CASE \E c \in Calls : pressNext(c)
      BY <1>1, <3>1, Presses
    <3>2. CASE Answers
      BY <1>1, <3>2, Begins DEF Answers
    <3>3. QED BY <1>6, <3>1, <3>2 DEF Keyings
  <2>2. CASE UNCHANGED untyped
    BY <1>2, <2>2 DEF untyped, writes
  <2>3. ASSUME NEW c \in Calls, NEW cl, Pressing(c, cl) PROVE FALSE
    <3>1. instances \in Records /\ Input(instances, <<"call", c>>)
      BY <1>1, <2>3, PressedCall
    <3>2. QED BY <1>3, <3>1
  <2>4. QED BY <2>1, <2>2, <2>3
<1>7. ASSUME (\E input \in BOOLEAN : writeToInstance(input)) \/ sendPrompt PROVE FALSE
  BY <1>1, <1>4, <1>7, RecordFacts DEF writeToInstance, sendPrompt
<1>8. ASSUME NEW c \in Calls, followUp(c) PROVE FALSE
  <2>1. UNCHANGED inputWrites \/ noteWrite(calls[c].rec, <<"call", c>>, TRUE)
    BY <1>8 DEF followUp
  <2>2. calls[c].rec \in Records
    BY <1>1, AnswerParts DEF CallTypes, CallRecords
  <2>3. QED BY <1>2, <1>4, <2>1, <2>2
<1>9. ASSUME NEW t \in Stops, interrupt(t)
      PROVE  /\ r = instances /\ ~NeedsYou(r) /\ ~onScreen
             /\ \A c \in Calls : calls[c].rec = r => calls[c].stage # "keys"
             /\ workingSince[r] = stops'[s].turn /\ target = stops'[s].target
  <2>1. instances \in Records /\ ~dialogOpen /\ noteWrite(instances, <<"stop", t>>, TRUE)
    BY <1>1, <1>9, RecordFacts DEF interrupt
  <2>2. r = instances /\ s = t
    <3>1. Input(instances, <<"stop", t>>)
      BY <2>1 DEF noteWrite, Input
    <3>2. QED BY <1>3, <2>1, <3>1
  <2>3. ~NeedsYou(r) /\ ~onScreen /\ ~(answering[r] > 0)
    BY <2>1, <2>2 DEF dialogOpen
  <2>4. \A c \in Calls : calls[c].rec = r => calls[c].stage # "keys"
    <3>1. Cardinality(Typing(r)) = 0 /\ IsFiniteSet(Typing(r))
      <4>1. answering[r] = Cardinality(Typing(r)) /\ Cardinality(Typing(r)) \in 0..MaxCalls /\ IsFiniteSet(Typing(r))
        BY <1>1, TypingFinite DEF CountOK
      <4>2. QED BY <2>3, <4>1, AnswerAssumption
    <3>2. Typing(r) = {}
      BY <3>1, FS_EmptySet
    <3>3. QED BY <3>2 DEF Typing
  <2>5. stops'[s].turn = workingSince[r] /\ stops'[s].target = target
    BY <1>1, <1>9, <2>2 DEF interrupt
  <2>6. QED BY <2>2, <2>3, <2>4, <2>5
<1>10. ASSUME NEW t \in Stops, interruptAgain(t)
       PROVE  /\ r = instances /\ ~NeedsYou(r) /\ ~onScreen
              /\ \A c \in Calls : calls[c].rec = r => calls[c].stage # "keys"
              /\ workingSince[r] = stops'[s].turn /\ target = stops'[s].target
  <2>1. Aimed(t) /\ noteWrite(stops[t].rec, <<"stop", t>>, TRUE)
    BY <1>2, <1>10 DEF interruptAgain
  <2>2. stops[t].rec = r /\ s = t
    <3>1. Input(stops[t].rec, <<"stop", t>>) /\ stops[t].rec \in Records
      BY <1>1, <2>1 DEF noteWrite, Input, StopRecords
    <3>2. QED BY <1>3, <3>1
  <2>3. \A c \in Calls : calls[c].stage # "keys"
    <3>1. backend = "opencode"
      BY <1>1, <1>10 DEF interruptAgain, GapOK
    <3>2. QED BY <1>1, <3>1 DEF StageOK
  <2>4. stops'[s].turn = stops[s].turn /\ stops'[s].target = stops[s].target
    <3>1. stops' = [stops EXCEPT ![s].stage = "done"] /\ stops[s] \in StopRecords
      BY <1>1, <1>10, <2>2 DEF interruptAgain
    <3>2. QED BY <1>1, <3>1 DEF StopRecords
  <2>5. QED BY <2>1, <2>2, <2>3, <2>4 DEF Aimed
<1>11. QED BY <1>1, <1>5, <1>6, <1>7, <1>8, <1>9, <1>10 DEF Writings

-----------------------------------------------------------------------------
(* What a secretary may rely on *)

(* An answer under way that is somebody's was so before the step: the contact's own steps begin
   answers of phones only. *)
LEMMA ByKept ==
  ASSUME AnswerInv, AnswerNext \/ removeInstance, NEW c \in Calls, calls'[c].stage \in Pressed, calls'[c].by # 0
  PROVE  calls[c].stage \in Pressed /\ calls[c].by = calls'[c].by
<1>1. /\ TypeOK /\ SeqOK /\ HeardOK /\ StageOK /\ SettlingOK /\ BoundsOK /\ RunStateAgrees /\ calls \in [Calls -> CallRecords]
  BY AnswerParts DEF AnswerInv, CallTypes
<1>2. ASSUME Apart PROVE calls[c].stage \in Pressed /\ calls[c].by = calls'[c].by
  BY <1>2 DEF Apart, Core
<1>3. ASSUME NEW d \in Calls, Ending(d) PROVE calls[c].stage \in Pressed /\ calls[c].by = calls'[c].by
  <2>1. PICK cl \in CallRecords : /\ calls' = [calls EXCEPT ![d] = cl]
                                  /\ Core(cl) = Core([calls[d] EXCEPT !.stage = "done"])
    BY <1>3 DEF Ending
  <2>2. cl.stage = "done" /\ cl.by = calls[d].by
    BY <1>1, <2>1 DEF Core, CallRecords
  <2>3. QED BY <1>1, <2>1, <2>2 DEF Pressed
<1>4. ASSUME NEW d \in Calls, pressNext(d) PROVE calls[c].stage \in Pressed /\ calls[c].by = calls'[c].by
  <2>1. CASE Ending(d)
    BY <1>3, <2>1
  <2>2. CASE Pressing(d, calls[d])
    <3>1. PICK e \in CallRecords : Advances(d, calls[d], e)
      BY <1>1, <2>2, PressedCall
    <3>2. calls[d].stage \in Pressed
      BY <1>4 DEF pressNext, Pressed
    <3>3. QED BY <1>1, <3>1, <3>2 DEF Advances
  <2>3. QED BY <1>1, <1>4, <2>1, <2>2, Presses
<1>5. ASSUME NEW d \in Calls, answer(d) PROVE calls[c].stage \in Pressed /\ calls[c].by = calls'[c].by
  <2>1. PICK q, plan : answerDialog(d, q, plan, 0)
    BY <1>5 DEF answer
  <2>2. d # c => calls'[c] = calls[c]
    BY <1>1, <2>1 DEF answerDialog, press
  <2>3. d = c => calls'[c].by = 0
    <3> DEFINE cl == [NoCall EXCEPT !.seq = q, !.rec = instances, !.by = 0, !.plan = plan]
    <3>1. cl.by = 0 /\ \A outcome : Done(cl, outcome).by = 0
      BY DEF NoCall, Done
    <3>2. \A stage : [cl EXCEPT !.stage = stage].by = 0
      BY DEF NoCall
    <3>3. ASSUME press(d, cl) PROVE calls'[d].by = 0
      <4>1. cl.by = 0 /\ \A st, m, rc, o : [cl EXCEPT !.stage = st, !.at = @ + 1, !.mine = m, !.record = rc, !.outcome = o].by = 0
        BY DEF NoCall
      <4> HIDE DEF cl
      <4>2. \E st, m, rc, o :
              calls' = [calls EXCEPT ![d] = [cl EXCEPT !.stage = st, !.at = @ + 1, !.mine = m, !.record = rc, !.outcome = o]]
        BY ZenonT(40), <3>3 DEF press
      <4>3. QED BY <1>1, <4>1, <4>2
    <3>4. \/ \E outcome : calls' = [calls EXCEPT ![d] = Done(cl, outcome)]
          \/ \E stage : calls' = [calls EXCEPT ![d] = [cl EXCEPT !.stage = stage]]
          \/ press(d, cl)
      BY <2>1 DEF answerDialog
    <3> HIDE DEF cl
    <3>5. QED BY <1>1, <3>1, <3>2, <3>3, <3>4
  <2>4. QED BY <2>2, <2>3
<1>6. CASE Writings \/ Raisings \/ Clearings \/ Asides
  <2>1. Onward
    BY <1>1, <1>6, WritingsGo, RaisingsGo, ClearingsGo, AsidesGo, BudgetKept DEF Paid
  <2>2. QED BY <1>2, <1>3, <2>1 DEF Onward
<1>7. QED BY <1>4, <1>5, <1>6 DEF AnswerNext, Agent, Builder, Waits, Process, Writings, Raisings, Clearings, Asides

(* What listeners hear of a step: nothing new, that the event is gone, or the next event. *)
LEMMA Hears ==
  ASSUME AnswerInv, AnswerStep
  PROVE  /\ secretarySeq \in Nat /\ secretarySeq' \in {secretarySeq, secretarySeq + 1} /\ secretarySeq' <= MaxSeq
         /\ budget["modes"] \in Nat /\ budget'["modes"] \in Nat /\ budget'["modes"] <= budget["modes"]
         /\ \/ heard' = heard
            \/ heard' = None
            \/ /\ heard' \in Events /\ heard'.seq = secretarySeq + 1 /\ secretarySeq' = secretarySeq + 1
               /\ instances' # 0
<1>1. AnswerInv' /\ Told /\ Paid /\ TypeOK /\ TypeOK' /\ BudgetTypes /\ BudgetTypes'
  BY AnswerStepKeeps, StepKinds, AnswerParts DEF AnswerInv, Paid
<1>2. secretarySeq \in Nat /\ secretarySeq' \in {secretarySeq, secretarySeq + 1} /\ secretarySeq' <= MaxSeq
  <2>1. EventTypes'
    BY <1>1, AnswerPartsNext
  <2>2. QED BY <1>1, <2>1, EventsAfter, AnswerAssumption DEF EventTypes
<1>3. budget["modes"] \in Nat /\ budget'["modes"] \in Nat /\ budget'["modes"] <= budget["modes"]
  <2>1. "modes" \in BudgetItems
    BY DEF BudgetItems
  <2>2. QED BY <1>1, <2>1 DEF BudgetTypes, Paid
<1>4. CASE Calm
  BY <1>2, <1>3, <1>4 DEF Calm
<1>5. ASSUME NEW e \in Events, Raised(e)
      PROVE  heard' \in Events /\ heard'.seq = secretarySeq + 1 /\ secretarySeq' = secretarySeq + 1 /\ instances' # 0
  BY <1>5 DEF Raised
<1>6. ASSUME NEW r \in Records, Cleared(r) PROVE heard' = heard \/ heard' = None
  BY <1>6 DEF Cleared
<1>7. QED BY <1>1, <1>2, <1>3, <1>4, <1>5, <1>6 DEF Told

(* Only a removal leaves no record. *)
LEMMA StaysIn ==
  ASSUME TypeOK, SeqOK, AnswerNext, instances # 0
  PROVE  instances' # 0
<1>1. Raisings \/ Writings \/ Asides \/ Keyings => instances' = instances
  <2>1. Raisings \/ Writings => instances' = instances
    BY DEF Raisings, prompt, waiting, Writings, writeToInstance, sendPrompt, interrupt, interruptAgain, followUp, records
  <2>2. Asides \/ Keyings => instances' = instances
    BY DEF Asides, dialogOnScreen, onWorking, interruptTarget, StopSettled, killInstance, recorded, asked, Keyings,
           pressNext, Answers, records
  <2>3. QED BY <2>1, <2>2
<1>2. promptCleared \/ (\E r \in Records : onExit(r)) => instances' = instances
  BY DEF promptCleared, onExit, records
<1>3. restartInstance => instances' = instances + 1 /\ instances \in Nat
  BY RecordFacts DEF restartInstance
<1>4. Writings \/ Raisings \/ Asides \/ Keyings \/ promptCleared \/ (\E r \in Records : onExit(r)) \/ restartInstance
  BY PhoneAnswers DEF AnswerNext, Agent, Builder, Waits, Process, Writings, Raisings, Asides, Keyings
<1>5. QED BY <1>1, <1>2, <1>3, <1>4

-----------------------------------------------------------------------------
(* The secretary (Secretary) *)

\* A brief may be made anew by an event, or by a switch of the mode.
JobsOK == jobs + (IF ~on /\ saved /\ claude THEN 1 ELSE 0) + budget["modes"] <= secretarySeq + MaxModes

\* Nothing runs for a job to come, and there is no job while the secretary is off.
NewOK == \A n \in Jobs : n > jobs => run[n] = NoRun /\ talk[n] = NoTalk
OnOK == (~on => job = NoJob) /\ (on => saved)

\* The job is of an event of a contact that is there, and what runs for it is about that event.
JobOK ==
  job # NoJob => /\ instances # 0 /\ job.seq <= secretarySeq /\ job.text \in {0, job.seq}
                 /\ run[signal].stage # "none" => run[signal].seq = job.seq
                 /\ job.kind = "finished" /\ readUpTo >= job.seq => job.seen

\* While the secretary is on, the event listeners know of has its brief.
BriefOK ==
  on => IF heard # None THEN job # NoJob /\ job.seq = heard.seq /\ ~job.handled
        ELSE job # NoJob => job.handled

\* The exchange open on a card is the one its job's reading or pressing is about; those after
\* it were refused.
TalkOK ==
  job # NoJob =>
    /\ talk[signal].stage # "none" => /\ talk[signal].x \in DOMAIN job.exchanges
                                      /\ job.exchanges[talk[signal].x] = "open"
    /\ \A x \in DOMAIN job.exchanges : job.exchanges[x] = "open" =>
         /\ talk[signal].stage # "none" /\ talk[signal].x = x
         /\ \A k \in DOMAIN job.exchanges : k > x => job.exchanges[k] = "refused"

\* The question at i is the last thing said before exchange x.
Asks(i, x) == /\ job.exchanges[i] = "confirm"
              /\ \A k \in i + 1..x - 1 : job.exchanges[k] = "refused"

\* A plain yes confirms the last question, and a wider choice is pressed after one.
ConfirmOK ==
  job # NoJob =>
    /\ job.confirming => \E i \in 1..Len(job.exchanges) : Asks(i, Len(job.exchanges) + 1)
    /\ talk[signal].stage = "pressing" /\ talk[signal].wide =>
         \E i \in 1..talk[signal].x - 1 : Asks(i, talk[signal].x)

\* An answer under way for a job is the one it is pressing.
CallsOK ==
  \A n \in Jobs, c \in Calls : calls[c].by = n /\ calls[c].stage \in Pressed =>
    talk[n].stage = "pressing" /\ talk[n].call = c

(* The types, by what changes together. *)
RunRecords == [stage : {"none", "writing", "speaking"}, seq : 0..MaxSeq]
TalkRecords == [stage : {"none", "reading", "pressing"}, x : Nat, wide : BOOLEAN, call : Calls \cup {0}]
MarkTypes == saved \in BOOLEAN /\ on \in BOOLEAN /\ claude \in BOOLEAN /\ jobs \in Jobs \cup {0}
             /\ readUpTo \in 0..MaxSeq
JobTypes == /\ job \in Briefs \cup {NoJob} /\ shown = Card(job)
            /\ (job = NoJob => signal = 0) /\ (job # NoJob => signal = jobs /\ jobs # 0)
RunTypes == run \in [Jobs -> RunRecords]
TalkTypes == talk \in [Jobs -> TalkRecords]

Counts == JobsOK /\ OnOK /\ MarkTypes
Brief == JobTypes /\ RunTypes /\ JobOK /\ BriefOK
Talk == TalkTypes /\ NewOK /\ TalkOK /\ ConfirmOK /\ CallsOK
SecretaryInv == AnswerInv /\ Counts /\ Brief /\ Talk

(* A card is what its job shows. *)
LEMMA CardTypes ==
  ASSUME NEW j \in Briefs \cup {NoJob}
  PROVE  Card(j) \in Cards \cup {NoJob}
BY SecretaryAssumption DEF Card, Cards, Briefs

(* SecretaryTypeOK in these parts. *)
LEMMA SecretaryTypes ==
  ASSUME TypeOK, MarkTypes, JobTypes, RunTypes, TalkTypes
  PROVE  SecretaryTypeOK
<1>1. shown \in Cards \cup {NoJob}
  BY CardTypes DEF JobTypes
<1>2. signal \in {0, jobs} /\ (signal = 0) = (job = NoJob)
  BY DEF JobTypes
<1>3. QED BY <1>1, <1>2 DEF SecretaryTypeOK, MarkTypes, JobTypes, RunTypes, TalkTypes, RunRecords, TalkRecords

(* Jobs to be made have numbers. *)
LEMMA JobNumbers ==
  ASSUME MarkTypes
  PROVE  /\ MaxSeq \in Nat /\ MaxModes \in Nat /\ jobs \in Nat /\ jobs <= MaxSeq + MaxModes
         /\ \A n \in Jobs : n \in Nat /\ n # 0
         /\ \A n \in Nat : n # 0 /\ n <= MaxSeq + MaxModes => n \in Jobs
BY AnswerAssumption, SecretaryAssumption DEF MarkTypes, Jobs

-----------------------------------------------------------------------------
(* What a step does to the brief *)

Still == UNCHANGED <<job, shown, signal, jobs, run>>
Gone == job' = NoJob /\ shown' = Card(job') /\ signal' = 0 /\ UNCHANGED <<jobs, run>>
Fresh(e) ==
  /\ jobs' = jobs + 1 /\ signal' = jobs + 1
  /\ job' = [seq |-> e.seq, kind |-> e.kind, text |-> 0, status |-> "preparing",
             handled |-> FALSE, seen |-> e.kind = "finished" /\ readUpTo >= e.seq,
             dialog |-> e.dialog, exchanges |-> <<>>, confirming |-> FALSE]
  /\ shown' = Card(job')
  /\ run' = [run EXCEPT ![jobs + 1] = [stage |-> "writing", seq |-> e.seq]]

(* A brief that is made is a brief, with no exchange yet. *)
LEMMA FreshBrief ==
  ASSUME NEW e \in Events, Fresh(e), MarkTypes
  PROVE  /\ job' \in Briefs /\ job' # NoJob /\ job'.seq = e.seq /\ job'.kind = e.kind /\ job'.text = 0
         /\ ~job'.handled /\ ~job'.confirming /\ job'.exchanges = <<>>
         /\ job'.seen <=> e.kind = "finished" /\ readUpTo >= e.seq
<1> DEFINE T == Settled \cup {"open"}
<1>1. <<>> \in Seq(T)
  OBVIOUS
<1> HIDE DEF T
<1>2. /\ e.seq \in 1..MaxSeq /\ e.kind \in {"finished", "needs-you"} /\ e.dialog \in Dialogs /\ 0 \in 0..MaxSeq
  BY AnswerAssumption DEF Events
<1>3. (e.kind = "finished" /\ readUpTo >= e.seq) \in BOOLEAN
  OBVIOUS
<1>4. job' \in Briefs
  BY <1>1, <1>2, <1>3 DEF Fresh, Briefs, T
<1>5. job' # NoJob
  BY <1>4, SecretaryAssumption
<1>6. QED BY <1>4, <1>5 DEF Fresh

(* prepare makes one, or there is one as late. *)
LEMMA Prepares ==
  ASSUME NEW e, prepare(e)
  PROVE  \/ Still /\ job # NoJob /\ job.seq >= e.seq
         \/ Fresh(e)
BY DEF prepare, publish, Still, Fresh

(* The mode is left, entered with the event that waits, or kept. *)
LEMMA Applies ==
  ASSUME NEW next \in BOOLEAN, NEW live, OnOK, on \in BOOLEAN, apply(next, live)
  PROVE  /\ on' = next
         /\ \/ Still /\ (next <=> on)
            \/ Still /\ next /\ ~on /\ live = None /\ job = NoJob
            \/ Fresh(live) /\ next /\ ~on /\ live # None
            \/ Gone /\ ~next /\ on
<1>1. on' = next
  BY DEF apply
<1>2. CASE (next <=> on)
  <2>1. next = on
    BY <1>2
  <2>2. QED BY <1>1, <1>2, <2>1 DEF apply, Still
<1>3. CASE next /\ ~on
  <2>1. next # on /\ job = NoJob
    BY <1>3 DEF OnOK
  <2>2. live = None => Still
    BY <1>3 DEF apply, Still
  <2>3. live # None => Fresh(live)
    BY <1>3, <2>1, Prepares DEF apply
  <2>4. QED BY <1>1, <1>3, <2>1, <2>2, <2>3
<1>4. CASE ~next /\ on
  <2>1. drop
    BY <1>4 DEF apply
  <2>2. QED BY <1>1, <1>4, <2>1 DEF drop, publish, Gone
<1>5. QED BY <1>2, <1>3, <1>4

-----------------------------------------------------------------------------
(* What the secretary makes of the contact's own steps *)

Marked == job # NoJob /\ job' = [job EXCEPT !.handled = TRUE] /\ shown' = Card(job')

HeardSame == heard' = heard /\ UNCHANGED secretary
HeardNew ==
  /\ heard' \in Events /\ heard'.seq = secretarySeq' /\ secretarySeq' = secretarySeq + 1 /\ instances' # 0
  /\ UNCHANGED <<saved, claude, readUpTo, talk>>
  /\ \/ saved /\ claude /\ on' = TRUE /\ Fresh(heard')
     \/ (~claude \/ ~saved) /\ on' = FALSE /\ job' = NoJob /\ (Gone \/ Still)
HeardGone ==
  /\ heard' = None
  /\ UNCHANGED <<saved, on, claude, jobs, signal, run, readUpTo, talk>>
  /\ \/ UNCHANGED <<job, shown>> /\ (job # NoJob => job.handled)
     \/ Marked

(* An event heard of has its brief made, or the mode left; one that is gone is marked handled. *)
LEMMA HeardGoes ==
  ASSUME SecretaryInv, AnswerNext, Heard
  PROVE  HeardSame \/ HeardNew \/ HeardGone
<1>1. AnswerInv /\ OnOK /\ JobOK /\ saved \in BOOLEAN /\ on \in BOOLEAN /\ claude \in BOOLEAN
  BY DEF SecretaryInv, Counts, Brief, MarkTypes
<1>2. \/ heard' = heard
      \/ heard' = None
      \/ /\ heard' \in Events /\ heard'.seq = secretarySeq' /\ secretarySeq' = secretarySeq + 1
         /\ instances' # 0
  BY <1>1, Hears DEF AnswerStep
<1>3. CASE heard' = heard
  BY <1>3 DEF Heard, HeardSame
<1>4. CASE heard' # heard /\ heard' = None
  <2>1. UNCHANGED <<saved, claude, readUpTo, talk>>
    BY <1>4 DEF Heard, onEvent
  <2>2. CASE on
    <3>1. markHandled /\ UNCHANGED <<on, signal, jobs, run>>
      BY <1>4, <2>2 DEF Heard, onEvent
    <3>2. QED BY <1>4, <2>1, <3>1 DEF markHandled, publish, HeardGone, Marked
  <2>3. CASE ~on
    <3>1. job = NoJob /\ UNCHANGED <<job, shown, on, signal, jobs, run>>
      BY <1>1, <1>4, <2>3 DEF Heard, onEvent, OnOK
    <3>2. QED BY <1>4, <2>1, <3>1 DEF HeardGone
  <2>4. QED BY <2>2, <2>3
<1>5. CASE heard' # heard /\ heard' # None
  <2>1. /\ heard' \in Events /\ heard'.seq = secretarySeq' /\ secretarySeq' = secretarySeq + 1
        /\ instances' # 0 /\ onEvent(heard') /\ UNCHANGED <<saved, claude, readUpTo, talk>>
    BY <1>2, <1>5 DEF Heard, onEvent
  <2>2. CASE saved /\ claude /\ on
    <3>1. prepare(heard') /\ on' = on
      BY <1>5, <2>1, <2>2 DEF onEvent
    <3>2. job # NoJob => ~(job.seq >= heard'.seq)
      <4>1. secretarySeq \in Nat /\ (job # NoJob => job \in Briefs)
        BY <1>1, Hears DEF AnswerStep, SecretaryInv, Brief, JobTypes
      <4>2. QED BY <1>1, <2>1, <4>1 DEF JobOK, Briefs
    <3>3. Fresh(heard')
      BY <3>1, <3>2, Prepares
    <3>4. QED BY <2>1, <2>2, <3>1, <3>3 DEF HeardNew
  <2>3. CASE saved /\ ~(claude /\ on)
    <3>1. apply(claude, heard')
      BY <1>5, <2>1, <2>3 DEF onEvent
    <3>2. /\ on' = claude
          /\ \/ Still /\ (claude <=> on)
             \/ Still /\ claude /\ ~on /\ heard' = None /\ job = NoJob
             \/ Fresh(heard') /\ claude /\ ~on /\ heard' # None
             \/ Gone /\ ~claude /\ on
      BY <1>1, <3>1, Applies
    <3>3. CASE Fresh(heard') /\ claude
      BY <2>1, <2>3, <3>2, <3>3 DEF HeardNew
    <3>4. CASE Gone /\ ~claude
      BY <1>1, <2>1, <3>2, <3>4 DEF HeardNew, Gone
    <3>5. CASE Still /\ ~claude /\ ~on
      BY <1>1, <2>1, <3>2, <3>5 DEF HeardNew, Still, OnOK
    <3>6. QED BY <1>5, <2>3, <3>2, <3>3, <3>4, <3>5
  <2>4. CASE ~saved
    <3>1. ~on /\ job = NoJob
      BY <1>1, <2>4 DEF OnOK
    <3>2. UNCHANGED <<job, shown, on, signal, jobs, run>>
      BY <1>5, <2>1, <2>4 DEF onEvent
    <3>3. on' = FALSE
      BY <1>1, <3>1, <3>2
    <3>4. QED BY <2>1, <2>4, <3>1, <3>2, <3>3 DEF HeardNew, Still
  <2>5. QED BY <1>1, <2>2, <2>3, <2>4
<1>6. QED BY <1>2, <1>3, <1>4, <1>5

-----------------------------------------------------------------------------
(* The count of jobs, and the mode *)

(* Each job to be made is one there is room for. *)
LEMMA Room ==
  ASSUME SecretaryInv
  PROVE  /\ secretarySeq \in Nat /\ secretarySeq <= MaxSeq /\ MaxSeq \in Nat /\ MaxModes \in Nat /\ jobs \in Nat
         /\ budget["modes"] \in Nat
         /\ saved \in BOOLEAN /\ on \in BOOLEAN /\ claude \in BOOLEAN
         /\ jobs + 1 <= MaxSeq + MaxModes => jobs + 1 \in Jobs
<1>1. MarkTypes /\ EventTypes /\ BudgetTypes
  BY AnswerParts DEF SecretaryInv, Counts, AnswerInv
<1>2. secretarySeq \in Nat /\ secretarySeq <= MaxSeq /\ budget["modes"] \in Nat
  BY <1>1, AnswerAssumption DEF EventTypes, BudgetTypes, BudgetItems
<1>3. QED BY <1>1, <1>2, JobNumbers DEF MarkTypes

(* What the contact does. *)
LEMMA HeardCounts ==
  ASSUME SecretaryInv, AnswerNext, Heard
  PROVE  Counts' /\ (jobs' # jobs => jobs' = jobs + 1 /\ jobs + 1 \in Jobs)
<1>1. /\ secretarySeq \in Nat /\ secretarySeq' \in {secretarySeq, secretarySeq + 1} /\ secretarySeq' <= MaxSeq
      /\ budget["modes"] \in Nat /\ budget'["modes"] \in Nat /\ budget'["modes"] <= budget["modes"]
  BY Hears DEF SecretaryInv, AnswerStep
<1>2. /\ MaxSeq \in Nat /\ MaxModes \in Nat /\ jobs \in Nat
      /\ jobs + 1 <= MaxSeq + MaxModes => jobs + 1 \in Jobs
      /\ JobsOK /\ OnOK /\ MarkTypes
  BY Room DEF SecretaryInv, Counts
<1>3. CASE HeardSame
  <2>1. UNCHANGED <<saved, on, claude, jobs, job, readUpTo>>
    BY <1>3 DEF HeardSame, secretary, marks
  <2>2. JobsOK'
    BY <1>1, <1>2, <2>1 DEF JobsOK
  <2>3. QED BY <1>2, <2>1, <2>2 DEF Counts, OnOK, MarkTypes
<1>4. CASE HeardGone
  <2>1. UNCHANGED <<saved, on, claude, jobs, readUpTo>> /\ (job = NoJob => job' = NoJob)
    BY <1>4 DEF HeardGone, Marked
  <2>2. JobsOK'
    BY <1>1, <1>2, <2>1 DEF JobsOK
  <2>3. QED BY <1>2, <2>1, <2>2 DEF Counts, OnOK, MarkTypes
<1>5. CASE HeardNew
  <2>1. UNCHANGED <<saved, claude, readUpTo>> /\ secretarySeq' = secretarySeq + 1
    BY <1>5 DEF HeardNew
  <2>2. CASE saved /\ claude /\ on' = TRUE /\ Fresh(heard')
    <3>1. jobs' = jobs + 1
      BY <2>2 DEF Fresh
    <3>2. jobs + 1 + budget["modes"] <= secretarySeq + 1 + MaxModes
      BY <1>1, <1>2 DEF JobsOK
    <3>3. jobs + 1 \in Jobs
      BY <1>1, <1>2, <2>1, <3>2
    <3>4. JobsOK'
      BY <1>1, <1>2, <2>1, <2>2, <3>1, <3>2 DEF JobsOK
    <3>5. QED BY <1>2, <2>1, <2>2, <3>1, <3>3, <3>4 DEF Counts, OnOK, MarkTypes
  <2>3. CASE (~claude \/ ~saved) /\ on' = FALSE /\ job' = NoJob /\ (Gone \/ Still)
    <3>1. jobs' = jobs
      BY <2>3 DEF Gone, Still
    <3>2. jobs + budget["modes"] <= secretarySeq + MaxModes
      BY <1>1, <1>2 DEF JobsOK
    <3>3. JobsOK'
      BY <1>1, <1>2, <2>1, <2>3, <3>1, <3>2 DEF JobsOK
    <3>4. QED BY <1>2, <2>1, <2>3, <3>1, <3>3 DEF Counts, OnOK, MarkTypes
  <2>4. QED BY <1>5, <2>2, <2>3 DEF HeardNew
<1>6. QED BY <1>3, <1>4, <1>5, HeardGoes

-----------------------------------------------------------------------------
(* The secretary's own steps: the contact *)

ContactSame == UNCHANGED <<backend, records, event, writes, attention, answering, runState, calls, stops, stopping>>

\* An answer begins for the current job, whose brief is then j, or j handled by its first key.
PressedFor(j, x, wide) ==
  /\ Answers /\ secretarySeq' = secretarySeq /\ shown' = Card(job')
  /\ \/ heard' = heard /\ job' = j
     \/ heard' = None /\ job' = [j EXCEPT !.handled = TRUE]
  /\ \E c \in Calls :
       /\ talk' = [talk EXCEPT ![signal] = [stage |-> "pressing", x |-> x, wide |-> wide, call |-> c]]
       /\ calls'[c].by = signal /\ \A d \in Calls : d # c => calls'[d] = calls[d]

(* pressFor begins an answer to an event that was raised. *)
LEMMA PressesFor ==
  ASSUME SecretaryInv, job # NoJob, NEW j, j.seq = job.seq, NEW x, NEW plan \in Plans(job.dialog), NEW wide,
         pressFor(j, x, plan, wide), Pays, UNCHANGED <<backend, records, attention, stops, stopping>>
  PROVE  PressedFor(j, x, wide)
<1>1. /\ AnswerInv /\ TypeOK /\ StageOK /\ job \in Briefs /\ instances # 0 /\ job.seq <= secretarySeq
      /\ secretarySeq \in Nat /\ signal = jobs /\ jobs \in Nat /\ calls \in [Calls -> CallRecords]
  BY Room, AnswerParts DEF SecretaryInv, Brief, JobTypes, JobOK, AnswerInv, CallTypes
<1>2. j.seq \in 1..secretarySeq /\ signal \in Nat
  BY <1>1 DEF Briefs
<1>3. plan \in AllPlans /\ (backend = "claude" => plan.keys \in 1..2)
  BY PlanTypes
<1>4. PICK c \in Calls :
        /\ answerDialog(c, j.seq, plan, signal)
        /\ publish(IF heard' # heard THEN [j EXCEPT !.handled = TRUE] ELSE j)
        /\ talk' = [talk EXCEPT ![signal] = [stage |-> "pressing", x |-> x, wide |-> wide, call |-> c]]
  BY DEF pressFor
<1>5. Answers
  BY <1>1, <1>2, <1>3, <1>4 DEF Answers
<1>6. PICK cl \in CallRecords : /\ cl.by = signal
                                /\ \/ Beginning(c, cl) /\ UNCHANGED untyped
                                   \/ Pressing(c, cl) /\ secretarySeq' = secretarySeq
  BY <1>1, <1>2, <1>3, <1>4, Begins
<1>7. secretarySeq' = secretarySeq
  BY <1>6 DEF untyped, event
<1>8. heard' = heard \/ heard' = None
  <2>1. AnswerStep
    BY <1>5 DEF AnswerStep
  <2>2. QED BY <1>1, <1>7, <2>1, Hears
<1>9. calls'[c].by = signal /\ \A d \in Calls : d # c => calls'[d] = calls[d]
  <2>1. CASE Beginning(c, cl)
    BY <1>1, <1>6, <2>1 DEF Beginning
  <2>2. CASE Pressing(c, cl)
    <3>1. PICK d \in CallRecords : Advances(c, cl, d)
      BY <1>1, <2>2, PressedCall
    <3>2. QED BY <1>1, <1>6, <3>1 DEF Advances
  <2>3. QED BY <1>6, <2>1, <2>2
<1>10. shown' = Card(job') /\ ((heard' = heard /\ job' = j) \/ (heard' = None /\ job' = [j EXCEPT !.handled = TRUE]))
  BY <1>4, <1>8 DEF publish
<1>11. QED BY <1>4, <1>5, <1>7, <1>9, <1>10 DEF PressedFor

\* The four ways a reply goes: it is refused, read, given up with the mode, or pressed at once.
Said(v) == [job EXCEPT !.exchanges = Append(@, v)]
Refuses == /\ job' = settle(Said("open"), Len(job.exchanges) + 1, "refused") /\ shown' = Card(job')
           /\ UNCHANGED <<on, talk, signal>>
Listens ==
  /\ ~busy /\ job' = Unconfirmed(Said("open")) /\ shown' = Card(job')
  /\ talk' = [talk EXCEPT ![signal] = [stage |-> "reading", x |-> Len(job.exchanges) + 1, wide |-> FALSE, call |-> 0]]
  /\ UNCHANGED <<on, signal>>
GivesUp == ~claude /\ on' = FALSE /\ job' = NoJob /\ shown' = Card(job') /\ signal' = 0 /\ UNCHANGED talk
Confirms == /\ ~busy /\ job.confirming /\ PressedFor(Unconfirmed(Said("open")), Len(job.exchanges) + 1, TRUE)
            /\ UNCHANGED <<on, signal>>

(* One reply of the builder goes one of these ways. *)
LEMMA Replies ==
  ASSUME SecretaryInv, NEW yes \in BOOLEAN, reply(yes)
  PROVE  /\ job # NoJob /\ UNCHANGED <<saved, claude, jobs, readUpTo, run>>
         /\ \/ ContactSame /\ Pays /\ (Refuses \/ Listens \/ GivesUp)
            \/ Confirms
<1> DEFINE x == Len(job.exchanges) + 1
           j == Said("open")
<1>1. /\ job # NoJob /\ Spend("replies") /\ UNCHANGED <<saved, claude, jobs, readUpTo, run>>
      /\ UNCHANGED <<backend, records, attention, stops, stopping>>
  BY DEF reply
<1>2. Pays
  BY <1>1 DEF Pays, BudgetItems
<1>3. CASE /\ publish(settle(j, x, "refused"))
           /\ UNCHANGED <<untyped, answering, calls, on, talk, signal>>
  BY <1>1, <1>2, <1>3 DEF publish, Refuses, ContactSame, untyped
<1>4. CASE /\ ~busy /\ publish(Unconfirmed(j))
           /\ talk' = [talk EXCEPT ![signal] = [stage |-> "reading", x |-> x, wide |-> FALSE, call |-> 0]]
           /\ UNCHANGED <<on, signal>> /\ UNCHANGED <<untyped, answering, calls>>
  BY <1>1, <1>2, <1>4 DEF publish, Listens, ContactSame, untyped
<1>5. CASE ~claude /\ publish(NoJob) /\ signal' = 0 /\ on' = FALSE /\ UNCHANGED talk /\ UNCHANGED <<untyped, answering, calls>>
  BY <1>1, <1>2, <1>5 DEF publish, GivesUp, ContactSame, untyped
<1>6. ASSUME ~busy, job.confirming, NEW plan \in Plans(job.dialog), pressFor(Unconfirmed(j), x, plan, TRUE), UNCHANGED <<on, signal>>
      PROVE  Confirms
  <2>1. job \in Briefs
    BY <1>1 DEF SecretaryInv, Brief, JobTypes
  <2>2. Unconfirmed(j).seq = job.seq
    BY <2>1 DEF Unconfirmed, Said, Briefs
  <2> HIDE DEF j, x
  <2>3. PressedFor(Unconfirmed(j), x, TRUE)
    BY <1>1, <1>2, <1>6, <2>2, PressesFor
  <2>4. QED BY <1>6, <2>3 DEF Confirms, j, x
<1>7. \/ publish(settle(j, x, "refused")) /\ UNCHANGED <<untyped, answering, calls, on, talk, signal>>
      \/ /\ ~busy
         /\ \/ /\ job.confirming /\ (\E plan \in Plans(job.dialog) : pressFor(Unconfirmed(j), x, plan, TRUE))
               /\ UNCHANGED <<on, signal>>
            \/ /\ publish(Unconfirmed(j))
               /\ talk' = [talk EXCEPT ![signal] = [stage |-> "reading", x |-> x, wide |-> FALSE, call |-> 0]]
               /\ UNCHANGED <<on, signal>> /\ UNCHANGED <<untyped, answering, calls>>
            \/ ~claude /\ publish(NoJob) /\ signal' = 0 /\ on' = FALSE /\ UNCHANGED talk /\ UNCHANGED <<untyped, answering, calls>>
  BY DEF reply, Said
<1> HIDE DEF j, x
<1>8. QED BY <1>1, <1>3, <1>4, <1>5, <1>6, <1>7

(* What the model chose is pressed, for a brief that is not handled. *)
LEMMA Chooses ==
  ASSUME SecretaryInv, NEW n \in Jobs, chosen(n)
  PROVE  /\ job # NoJob /\ n = signal /\ talk[n].stage = "reading" /\ ~job.handled /\ PressedFor(job, talk[n].x, FALSE)
         /\ UNCHANGED <<saved, on, claude, jobs, readUpTo, run, signal>>
<1>1. /\ n = signal /\ talk[n].stage = "reading" /\ ~job.handled /\ UNCHANGED <<saved, on, claude, jobs, readUpTo, run, signal>>
      /\ UNCHANGED <<backend, records, attention, stops, stopping>> /\ Pays
  BY DEF chosen, isCurrent, marks, Pays
<1>2. job # NoJob
  <2>1. n # 0
    BY JobNumbers DEF SecretaryInv, Counts
  <2>2. QED BY <1>1, <2>1 DEF SecretaryInv, Brief, JobTypes
<1>3. PICK plan \in Plans(job.dialog) : pressFor(job, talk[n].x, plan, FALSE)
  BY DEF chosen
<1>4. QED BY <1>1, <1>2, <1>3, PressesFor

(* The contact, its terminal and its answers keep their invariant whatever the secretary does. *)
LEMMA ContactKept ==
  ASSUME SecretaryInv, Next
  PROVE  AnswerInv' /\ (AnswerStep \/ (ContactSame /\ Pays))
<1>1. AnswerInv
  BY DEF SecretaryInv
<1>2. ASSUME ContactSame, Pays PROVE AnswerInv'
  BY <1>1, <1>2, AnswerBeside DEF ContactSame
<1>3. ASSUME AnswerStep PROVE AnswerInv'
  BY <1>1, <1>3, AnswerStepKeeps
<1>4. CASE AnswerNext /\ Heard
  BY <1>3, <1>4 DEF AnswerStep
<1>5. CASE Mode
  <2>1. CASE forget
    BY <1>3, <2>1 DEF forget, AnswerStep
  <2>2. CASE setMode \/ installed \/ markSeen
    <3>1. ContactSame /\ Pays
      BY <2>2 DEF setMode, installed, markSeen, ContactSame, Pays, BudgetItems
    <3>2. QED BY <1>2, <3>1
  <2>3. CASE checkClaude
    <3>1. ContactSame /\ Pays
      BY <2>3 DEF checkClaude, ContactSame, Pays, answerVars
    <3>2. QED BY <1>2, <3>1
  <2>4. QED BY <1>5, <2>1, <2>2, <2>3 DEF Mode
<1>6. ASSUME NEW n \in Jobs, written(n) \/ spoken(n) \/ interpreted(n) \/ pressed(n) PROVE ContactSame /\ Pays
  <2>1. UNCHANGED answerVars
    BY <1>6 DEF written, spoken, interpreted, pressed
  <2>2. QED BY <2>1 DEF answerVars, ContactSame, Pays
<1>7. ASSUME NEW n \in Jobs, chosen(n) PROVE AnswerStep
  BY <1>7, Chooses DEF PressedFor, AnswerStep
<1>8. CASE \E yes \in BOOLEAN : reply(yes)
  <2>1. AnswerStep \/ (ContactSame /\ Pays)
    BY <1>8, Replies DEF Confirms, PressedFor, AnswerStep
  <2>2. QED BY <1>2, <1>3, <2>1
<1>9. QED BY <1>2, <1>3, <1>4, <1>5, <1>6, <1>7, <1>8 DEF Next, Job

-----------------------------------------------------------------------------
(* The secretary's own steps: the count of jobs *)

(* No step makes room for a job but an event raised. *)
LEMMA Modes ==
  ASSUME SecretaryInv, AnswerStep \/ (ContactSame /\ Pays)
  PROVE  /\ secretarySeq' \in Nat /\ secretarySeq <= secretarySeq'
         /\ budget'["modes"] \in Nat /\ budget'["modes"] <= budget["modes"]
<1>1. AnswerInv /\ BudgetTypes /\ secretarySeq \in Nat /\ "modes" \in BudgetItems
  BY Room, AnswerParts DEF SecretaryInv, AnswerInv, BudgetItems
<1>2. CASE AnswerStep
  BY <1>1, <1>2, Hears
<1>3. CASE ContactSame /\ Pays
  <2>1. secretarySeq' = secretarySeq
    BY <1>3 DEF ContactSame, event
  <2>2. BudgetTypes' /\ \A j \in BudgetItems : budget'[j] <= budget[j]
    BY <1>1, <1>3, Spent, NothingSpent DEF Pays
  <2>3. QED BY <1>1, <2>1, <2>2 DEF BudgetTypes
<1>4. QED BY <1>2, <1>3

(* Where no job is made, and the mode does not come to be asked for. *)
LEMMA CountsKept ==
  ASSUME SecretaryInv, AnswerStep \/ (ContactSame /\ Pays), jobs' = jobs,
         saved' \in BOOLEAN, on' \in BOOLEAN, claude' \in BOOLEAN, readUpTo' \in 0..MaxSeq,
         ~on' => job' = NoJob, on' => saved',
         (~on' /\ saved' /\ claude') => (~on /\ saved /\ claude) \/ budget'["modes"] < budget["modes"]
  PROVE  Counts'
<1>1. /\ secretarySeq \in Nat /\ MaxModes \in Nat /\ jobs \in Nat /\ budget["modes"] \in Nat
      /\ JobsOK /\ MarkTypes
  BY Room DEF SecretaryInv, Counts
<1>2. JobsOK'
  <2>1. jobs + budget["modes"] <= secretarySeq + MaxModes
    BY <1>1 DEF JobsOK
  <2>2. CASE ~on' /\ saved' /\ claude'
    <3>1. CASE ~on /\ saved /\ claude
      <4>1. jobs + 1 + budget["modes"] <= secretarySeq + MaxModes
        BY <1>1, <3>1 DEF JobsOK
      <4>2. QED BY <1>1, <2>2, <4>1, Modes DEF JobsOK
    <3>2. CASE budget'["modes"] < budget["modes"]
      BY <1>1, <2>1, <2>2, <3>2, Modes DEF JobsOK
    <3>3. QED BY <2>2, <3>1, <3>2
  <2>3. CASE ~(~on' /\ saved' /\ claude')
    BY <1>1, <2>1, <2>3, Modes DEF JobsOK
  <2>4. QED BY <2>2, <2>3
<1>3. QED BY <1>1, <1>2 DEF Counts, OnOK, MarkTypes

(* The mode is entered with a job that there is room for. *)
LEMMA EntersCounts ==
  ASSUME SecretaryInv, AnswerStep \/ (ContactSame /\ Pays), jobs' = jobs + 1, ~on, on' = TRUE, saved' = TRUE,
         claude' \in BOOLEAN, readUpTo' = readUpTo,
         (saved /\ claude) \/ budget'["modes"] < budget["modes"]
  PROVE  Counts' /\ jobs + 1 \in Jobs
<1>1. /\ secretarySeq \in Nat /\ MaxModes \in Nat /\ MaxSeq \in Nat /\ jobs \in Nat /\ budget["modes"] \in Nat
      /\ JobsOK /\ MarkTypes /\ secretarySeq <= MaxSeq
  BY Room DEF SecretaryInv, Counts
<1>2. jobs + 1 + budget'["modes"] <= secretarySeq + MaxModes
  <2>1. jobs + budget["modes"] <= secretarySeq + MaxModes
    BY <1>1 DEF JobsOK
  <2>2. CASE saved /\ claude
    <3>1. jobs + 1 + budget["modes"] <= secretarySeq + MaxModes
      BY <1>1, <2>2 DEF JobsOK
    <3>2. QED BY <1>1, <3>1, Modes
  <2>3. CASE budget'["modes"] < budget["modes"]
    BY <1>1, <2>1, <2>3, Modes
  <2>4. QED BY <2>2, <2>3
<1>3. JobsOK'
  BY <1>1, <1>2, Modes DEF JobsOK
<1>4. jobs + 1 \in Jobs
  BY <1>1, <1>2, Modes, Room
<1>5. QED BY <1>1, <1>3, <1>4 DEF Counts, OnOK, MarkTypes

(* The mode is switched, or claude comes or goes; a job is made only with the mode. *)
LEMMA ModeCounts ==
  ASSUME SecretaryInv, setMode \/ installed \/ checkClaude
  PROVE  Counts' /\ (jobs' # jobs => jobs' = jobs + 1 /\ jobs + 1 \in Jobs)
<1>1. /\ saved \in BOOLEAN /\ on \in BOOLEAN /\ claude \in BOOLEAN /\ OnOK /\ readUpTo \in 0..MaxSeq
      /\ budget["modes"] \in Nat
  BY Room DEF SecretaryInv, Counts, MarkTypes
<1>2. AnswerStep \/ (ContactSame /\ Pays)
  BY ContactKept DEF Next, Mode
<1>3. CASE setMode
  <2>1. Spend("modes") /\ saved' = ~saved /\ claude' = claude /\ readUpTo' = readUpTo /\ apply(saved' /\ claude, heard)
    BY <1>3 DEF setMode
  <2>2. budget'["modes"] < budget["modes"]
    <3>1. "modes" \in BudgetItems /\ BudgetTypes
      BY AnswerParts DEF BudgetItems, SecretaryInv, AnswerInv
    <3>2. budget'["modes"] = budget["modes"] - 1
      BY <2>1, <3>1, Spent
    <3>3. QED BY <1>1, <3>2
  <2>3. (saved' /\ claude) \in BOOLEAN
    OBVIOUS
  <2>4. PICK next \in BOOLEAN : next = (saved' /\ claude)
    BY <2>3
  <2>5. /\ on' = next
        /\ \/ Still /\ (next <=> on)
           \/ Still /\ next /\ ~on /\ heard = None /\ job = NoJob
           \/ Fresh(heard) /\ next /\ ~on /\ heard # None
           \/ Gone /\ ~next /\ on
    BY <1>1, <2>1, <2>4, Applies
  <2>6. next => saved'
    BY <2>4
  <2>7. CASE Fresh(heard) /\ next /\ ~on
    <3>1. jobs' = jobs + 1 /\ on' = TRUE /\ saved' = TRUE
      BY <1>1, <2>1, <2>5, <2>6, <2>7 DEF Fresh
    <3>2. QED BY <1>1, <1>2, <2>1, <2>2, <2>7, <3>1, EntersCounts
  <2>8. CASE Still \/ Gone
    <3>1. jobs' = jobs /\ (~on' => job' = NoJob)
      BY <1>1, <2>5, <2>8 DEF Still, Gone, OnOK
    <3>2. QED BY <1>1, <1>2, <2>1, <2>2, <2>5, <2>6, <3>1, CountsKept
  <2>9. QED BY <2>5, <2>7, <2>8
<1>4. CASE installed
  <2>1. Spend("modes") /\ UNCHANGED <<saved, on, jobs, job, readUpTo>> /\ claude' = ~claude
    BY <1>4 DEF installed
  <2>2. budget'["modes"] < budget["modes"]
    <3>1. "modes" \in BudgetItems /\ BudgetTypes
      BY AnswerParts DEF BudgetItems, SecretaryInv, AnswerInv
    <3>2. budget'["modes"] = budget["modes"] - 1
      BY <2>1, <3>1, Spent
    <3>3. QED BY <1>1, <3>2
  <2>3. QED BY <1>1, <1>2, <2>1, <2>2, CountsKept DEF OnOK
<1>5. CASE checkClaude
  <2>1. on # (saved /\ claude) /\ UNCHANGED <<saved, claude, readUpTo>> /\ apply(saved /\ claude, heard)
    BY <1>5 DEF checkClaude
  <2>2. PICK next \in BOOLEAN : next = (saved /\ claude)
    BY <1>1
  <2>3. /\ on' = next
        /\ \/ Still /\ (next <=> on)
           \/ Still /\ next /\ ~on /\ heard = None /\ job = NoJob
           \/ Fresh(heard) /\ next /\ ~on /\ heard # None
           \/ Gone /\ ~next /\ on
    BY <1>1, <2>1, <2>2, Applies
  <2>4. next <=> saved /\ claude
    BY <2>2
  <2>5. CASE Fresh(heard) /\ next /\ ~on
    <3>1. jobs' = jobs + 1 /\ on' = TRUE /\ saved' = TRUE /\ saved /\ claude
      BY <1>1, <2>1, <2>3, <2>4, <2>5 DEF Fresh
    <3>2. QED BY <1>1, <1>2, <2>1, <2>5, <3>1, EntersCounts
  <2>6. CASE (Still /\ next /\ job = NoJob) \/ (Gone /\ ~next)
    <3>1. jobs' = jobs /\ (~on' => job' = NoJob)
      BY <2>6 DEF Still, Gone
    <3>2. QED BY <1>1, <1>2, <2>1, <2>3, <2>4, <2>6, <3>1, CountsKept
  <2>7. CASE Still /\ (next <=> on)
    <3>1. next = on
      BY <1>1, <2>7
    <3>2. QED BY <2>1, <2>2, <3>1, Zenon
  <2>8. QED BY <2>3, <2>5, <2>6, <2>7
<1>6. QED BY <1>3, <1>4, <1>5

(* The rest makes no job. *)
LEMMA OtherCounts ==
  ASSUME SecretaryInv, markSeen \/ forget \/ Job \/ (\E yes \in BOOLEAN : reply(yes))
  PROVE  Counts' /\ jobs' = jobs
<1>1. /\ saved \in BOOLEAN /\ on \in BOOLEAN /\ claude \in BOOLEAN /\ OnOK /\ readUpTo \in 0..MaxSeq
  BY Room DEF SecretaryInv, Counts, MarkTypes
<1>2. AnswerStep \/ (ContactSame /\ Pays)
  BY ContactKept DEF Next, Mode
<1>3. CASE markSeen
  <2>1. /\ UNCHANGED <<saved, on, claude, jobs>> /\ (job = NoJob => job' = NoJob)
        /\ readUpTo' \in {Later(job.seq), Later(heard.seq)} /\ (job # NoJob \/ (heard # None /\ readUpTo' = Later(heard.seq)))
        /\ (job # NoJob => readUpTo' = Later(job.seq))
    BY <1>3 DEF markSeen, marks, publish
  <2>2. readUpTo' \in 0..MaxSeq
    <3>1. job # NoJob => job.seq \in 0..MaxSeq
      BY DEF SecretaryInv, Brief, JobTypes, Briefs
    <3>2. heard # None => heard.seq \in 0..MaxSeq
      BY AnswerParts DEF SecretaryInv, AnswerInv, EventTypes, Events
    <3>3. QED BY <1>1, <2>1, <3>1, <3>2 DEF Later
  <2>3. QED BY <1>1, <1>2, <2>1, <2>2, CountsKept DEF OnOK
<1>4. CASE forget
  <2>1. UNCHANGED <<saved, on, claude, jobs>> /\ job' = NoJob /\ readUpTo' = 0
    BY <1>4 DEF forget, drop, publish
  <2>2. readUpTo' \in 0..MaxSeq
    BY <2>1, AnswerAssumption
  <2>3. QED BY <1>1, <1>2, <2>1, <2>2, CountsKept DEF OnOK
<1>5. ASSUME NEW n \in Jobs, written(n) \/ spoken(n) \/ interpreted(n) \/ pressed(n)
      PROVE  Counts' /\ jobs' = jobs
  <2>1. UNCHANGED <<saved, on, claude, jobs, readUpTo>>
    BY <1>5 DEF written, spoken, interpreted, pressed, marks
  <2>2. ~on => job' = NoJob
    <3>1. ~on => ~isCurrent(n)
      <4>1. n # 0
        BY JobNumbers DEF SecretaryInv, Counts
      <4>2. QED BY <1>1, <4>1 DEF OnOK, isCurrent, SecretaryInv, Brief, JobTypes
    <3>2. ~isCurrent(n) => job' = job
      BY <1>5 DEF written, spoken, interpreted, pressed
    <3>3. QED BY <1>1, <3>1, <3>2 DEF OnOK
  <2>3. QED BY <1>1, <1>2, <2>1, <2>2, CountsKept DEF OnOK
<1>6. ASSUME NEW n \in Jobs, chosen(n) PROVE Counts' /\ jobs' = jobs
  <2>1. UNCHANGED <<saved, on, claude, jobs, readUpTo>> /\ job # NoJob
    BY <1>6, Chooses
  <2>2. on
    BY <1>1, <2>1 DEF OnOK
  <2>3. QED BY <1>1, <1>2, <2>1, <2>2, CountsKept DEF OnOK
<1>7. ASSUME NEW yes \in BOOLEAN, reply(yes) PROVE Counts' /\ jobs' = jobs
  <2>1. job # NoJob /\ UNCHANGED <<saved, claude, jobs, readUpTo>> /\ (on' = on \/ (~claude /\ on' = FALSE /\ job' = NoJob))
    BY <1>7, Replies DEF Refuses, Listens, GivesUp, Confirms
  <2>2. on
    BY <1>1, <2>1 DEF OnOK
  <2>3. QED BY <1>1, <1>2, <2>1, <2>2, CountsKept DEF OnOK
<1>8. QED BY <1>3, <1>4, <1>5, <1>6, <1>7 DEF Job

-----------------------------------------------------------------------------
(* The brief *)

Words == Settled \cup {"open"}
BriefTypes == JobTypes /\ RunTypes /\ JobOK

(* A brief is a record, whatever its words. *)
LEMMA BriefRecords ==
  \E W : /\ W = Seq(Words)
         /\ Briefs = [seq : 1..MaxSeq, kind : {"finished", "needs-you"}, text : 0..MaxSeq,
                      status : {"preparing", "failed", "pending", "unavailable", "ready"},
                      handled : BOOLEAN, seen : BOOLEAN, dialog : Dialogs, exchanges : W, confirming : BOOLEAN]
BY DEF Briefs, Words

(* What a change of one mark leaves of it. *)
LEMMA Edits ==
  ASSUME NEW j \in Briefs
  PROVE  /\ j # NoJob /\ j.exchanges \in Seq(Words) /\ j.seq \in 1..MaxSeq /\ j.text \in 0..MaxSeq
         /\ j.handled \in BOOLEAN /\ j.seen \in BOOLEAN /\ j.confirming \in BOOLEAN
         /\ LET k == [j EXCEPT !.handled = TRUE] IN
              /\ k \in Briefs /\ k.exchanges = j.exchanges /\ k.seq = j.seq /\ k.kind = j.kind /\ k.text = j.text
              /\ k.handled /\ k.seen = j.seen /\ k.confirming = j.confirming
         /\ LET k == [j EXCEPT !.seen = TRUE] IN
              /\ k \in Briefs /\ k.exchanges = j.exchanges /\ k.seq = j.seq /\ k.kind = j.kind /\ k.text = j.text
              /\ k.handled = j.handled /\ k.seen /\ k.confirming = j.confirming
<1>1. PICK W : /\ W = Seq(Words)
               /\ Briefs = [seq : 1..MaxSeq, kind : {"finished", "needs-you"}, text : 0..MaxSeq,
                            status : {"preparing", "failed", "pending", "unavailable", "ready"},
                            handled : BOOLEAN, seen : BOOLEAN, dialog : Dialogs, exchanges : W, confirming : BOOLEAN]
  BY BriefRecords
<1>2. j # NoJob
  BY SecretaryAssumption
<1>3. j.exchanges \in W /\ j.seq \in 1..MaxSeq /\ j.text \in 0..MaxSeq /\ j.handled \in BOOLEAN /\ j.seen \in BOOLEAN
      /\ j.confirming \in BOOLEAN
  BY <1>1
<1>4. LET k == [j EXCEPT !.handled = TRUE] IN
        /\ k \in Briefs /\ k.exchanges = j.exchanges /\ k.seq = j.seq /\ k.kind = j.kind /\ k.text = j.text
        /\ k.handled /\ k.seen = j.seen /\ k.confirming = j.confirming
  BY <1>1
<1>5. LET k == [j EXCEPT !.seen = TRUE] IN
        /\ k \in Briefs /\ k.exchanges = j.exchanges /\ k.seq = j.seq /\ k.kind = j.kind /\ k.text = j.text
        /\ k.handled = j.handled /\ k.seen /\ k.confirming = j.confirming
  BY <1>1
<1>6. QED BY <1>1, <1>2, <1>3, <1>4, <1>5

(* Of its words. *)
LEMMA EditWords ==
  ASSUME NEW j \in Briefs, NEW w \in Seq(Words), NEW k, k = [j EXCEPT !.exchanges = w]
  PROVE  /\ k \in Briefs /\ k.exchanges = w /\ k.seq = j.seq /\ k.kind = j.kind /\ k.text = j.text
         /\ k.handled = j.handled /\ k.seen = j.seen /\ k.confirming = j.confirming /\ k.dialog = j.dialog
<1>1. PICK W : /\ W = Seq(Words)
               /\ Briefs = [seq : 1..MaxSeq, kind : {"finished", "needs-you"}, text : 0..MaxSeq,
                            status : {"preparing", "failed", "pending", "unavailable", "ready"},
                            handled : BOOLEAN, seen : BOOLEAN, dialog : Dialogs, exchanges : W, confirming : BOOLEAN]
  BY BriefRecords
<1>2. QED BY <1>1

(* Whether a plain yes confirms. *)
LEMMA EditConfirming ==
  ASSUME NEW j \in Briefs, NEW b \in BOOLEAN, NEW k, k = [j EXCEPT !.confirming = b]
  PROVE  /\ k \in Briefs /\ k.exchanges = j.exchanges /\ k.seq = j.seq /\ k.kind = j.kind /\ k.text = j.text
         /\ k.handled = j.handled /\ k.seen = j.seen /\ k.confirming = b /\ k.dialog = j.dialog
<1>1. PICK W : /\ W = Seq(Words)
               /\ Briefs = [seq : 1..MaxSeq, kind : {"finished", "needs-you"}, text : 0..MaxSeq,
                            status : {"preparing", "failed", "pending", "unavailable", "ready"},
                            handled : BOOLEAN, seen : BOOLEAN, dialog : Dialogs, exchanges : W, confirming : BOOLEAN]
  BY BriefRecords
<1>2. QED BY <1>1

(* A brief nothing is done to. *)
LEMMA StillTypes ==
  ASSUME SecretaryInv, Next, UNCHANGED <<job, shown, signal, jobs, run, readUpTo>>, job # NoJob => instances' # 0
  PROVE  BriefTypes'
<1>1. secretarySeq \in Nat /\ secretarySeq' \in Nat /\ secretarySeq <= secretarySeq'
  BY Room, Modes, ContactKept
<1>2. JobTypes /\ RunTypes /\ JobOK
  BY DEF SecretaryInv, Brief
<1>3. JobTypes' /\ RunTypes'
  BY <1>2 DEF JobTypes, RunTypes, Card
<1>4. JobOK'
  <2>1. job # NoJob => job.seq \in Nat
    BY <1>2 DEF JobTypes, Briefs
  <2>2. QED BY <1>1, <1>2, <2>1 DEF JobOK
<1>5. QED BY <1>3, <1>4 DEF BriefTypes

(* One that is dropped. *)
LEMMA GoneTypes ==
  ASSUME SecretaryInv, job' = NoJob, shown' = Card(job'), signal' = 0, run' = run
  PROVE  BriefTypes'
<1>1. JobTypes' /\ RunTypes'
  BY DEF SecretaryInv, Brief, JobTypes, RunTypes, Card
<1>2. JobOK'
  BY DEF JobOK
<1>3. QED BY <1>1, <1>2 DEF BriefTypes

(* One that is made: what is run for it is about its event. *)
LEMMA FreshTypes ==
  ASSUME SecretaryInv, NEW e \in Events, Fresh(e), e.seq <= secretarySeq', instances' # 0, readUpTo' = readUpTo,
         jobs + 1 \in Jobs
  PROVE  BriefTypes'
<1>1. MarkTypes /\ RunTypes /\ jobs \in Nat
  BY Room DEF SecretaryInv, Counts, Brief
<1>2. /\ job' \in Briefs /\ job' # NoJob /\ job'.seq = e.seq /\ job'.kind = e.kind /\ job'.text = 0
      /\ job'.seen <=> e.kind = "finished" /\ readUpTo >= e.seq
  BY <1>1, FreshBrief
<1>3. signal' = jobs + 1 /\ jobs' = jobs + 1 /\ shown' = Card(job')
      /\ run' = [run EXCEPT ![jobs + 1] = [stage |-> "writing", seq |-> e.seq]]
  BY DEF Fresh
<1>4. JobTypes'
  <2>1. shown' = Card(job')
    BY <1>3
  <2>2. QED BY <1>1, <1>2, <1>3, <2>1 DEF JobTypes, Card
<1>5. RunTypes' /\ run'[signal'].seq = e.seq
  <2>1. [stage |-> "writing", seq |-> e.seq] \in RunRecords
    BY DEF Events, RunRecords
  <2>2. QED BY <1>1, <1>3, <2>1 DEF RunTypes
<1>6. JobOK'
  BY <1>2, <1>3, <1>5 DEF JobOK
<1>7. QED BY <1>4, <1>5, <1>6 DEF BriefTypes

(* One that is marked. *)
LEMMA EditTypes ==
  ASSUME SecretaryInv, Next, job # NoJob, job' \in Briefs, job'.seq = job.seq, job'.kind = job.kind,
         job'.text \in {0, job.seq}, shown' = Card(job'), UNCHANGED <<signal, jobs>>, RunTypes',
         run'[signal].stage # "none" => run[signal].stage # "none" /\ run'[signal].seq = run[signal].seq,
         instances' # 0, job.kind = "finished" /\ readUpTo' >= job.seq => job'.seen
  PROVE  BriefTypes'
<1>1. secretarySeq \in Nat /\ secretarySeq' \in Nat /\ secretarySeq <= secretarySeq'
  BY Room, Modes, ContactKept
<1>2. JobTypes /\ RunTypes /\ JobOK
  BY DEF SecretaryInv, Brief
<1>3. job' # NoJob /\ job.seq \in Nat
  <2>1. job \in Briefs /\ job' # NoJob
    BY <1>2, SecretaryAssumption DEF JobTypes
  <2>2. QED BY <2>1 DEF Briefs
<1>4. JobTypes'
  BY <1>2, <1>3 DEF JobTypes, Card
<1>5. JobOK'
  BY <1>1, <1>2, <1>3 DEF JobOK
<1>6. QED BY <1>4, <1>5 DEF BriefTypes

(* What the contact does to the brief. *)
LEMMA HeardTypes ==
  ASSUME SecretaryInv, AnswerNext, Heard
  PROVE  BriefTypes'
<1>1. /\ JobTypes /\ RunTypes /\ JobOK /\ AnswerInv /\ TypeOK /\ SeqOK /\ Next
      /\ (jobs' # jobs => jobs + 1 \in Jobs)
  BY HeardCounts DEF SecretaryInv, Brief, AnswerInv, Next
<1>2. job # NoJob => instances' # 0
  BY <1>1, StaysIn DEF JobOK
<1>3. CASE HeardSame
  BY <1>1, <1>2, <1>3, StillTypes DEF HeardSame, secretary, marks
<1>4. CASE HeardNew
  <2>1. CASE Fresh(heard')
    <3>1. secretarySeq' \in Nat
      BY <1>1, Modes, ContactKept
    <3>2. /\ heard' \in Events /\ heard'.seq = secretarySeq' /\ instances' # 0 /\ readUpTo' = readUpTo
          /\ jobs + 1 \in Jobs
      <4>1. jobs' = jobs + 1 /\ jobs \in Nat
        BY <2>1, Room DEF Fresh
      <4>2. QED BY <1>1, <1>4, <4>1 DEF HeardNew
    <3>3. heard'.seq <= secretarySeq'
      BY <3>1, <3>2
    <3>4. QED BY <2>1, <3>2, <3>3, FreshTypes
  <2>2. CASE Gone
    BY <2>2, GoneTypes DEF Gone
  <2>3. CASE Still /\ job' = NoJob
    BY <1>1, <1>2, <1>4, <2>3, StillTypes DEF Still, HeardNew
  <2>4. QED BY <1>4, <2>1, <2>2, <2>3 DEF HeardNew
<1>5. CASE HeardGone
  <2>1. UNCHANGED <<saved, on, claude, jobs, signal, run, readUpTo>>
    BY <1>5 DEF HeardGone
  <2>2. CASE UNCHANGED <<job, shown>>
    BY <1>1, <1>2, <2>1, <2>2, StillTypes
  <2>3. CASE Marked
    <3>1. job \in Briefs /\ job # NoJob /\ job' = [job EXCEPT !.handled = TRUE] /\ shown' = Card(job')
      BY <1>1, <2>3 DEF Marked, JobTypes
    <3>2. job' \in Briefs /\ job'.seq = job.seq /\ job'.kind = job.kind /\ job'.text = job.text /\ job'.seen = job.seen
      BY <3>1, Edits
    <3>3. RunTypes'
      BY <1>1, <2>1 DEF RunTypes
    <3>4. /\ job'.text \in {0, job.seq} /\ UNCHANGED <<signal, jobs>> /\ instances' # 0
          /\ (job.kind = "finished" /\ readUpTo' >= job.seq => job'.seen)
          /\ (run'[signal].stage # "none" => run[signal].stage # "none" /\ run'[signal].seq = run[signal].seq)
      BY <1>1, <1>2, <2>1, <3>1, <3>2 DEF JobOK
    <3>5. QED BY <1>1, <3>1, <3>2, <3>3, <3>4, EditTypes
  <2>4. QED BY <1>5, <2>2, <2>3 DEF HeardGone
<1>6. QED BY <1>3, <1>4, <1>5, HeardGoes

\* A switch of the mode leaves the brief, drops it, or has one made for the event that waits.
Switched == \/ Still /\ (on' <=> on)
            \/ Still /\ on' = TRUE /\ on = FALSE /\ heard = None /\ job = NoJob
            \/ Fresh(heard) /\ on' = TRUE /\ on = FALSE /\ heard # None
            \/ Gone /\ on' = FALSE /\ on = TRUE

(* The mode, and claude's presence. *)
LEMMA Switches ==
  ASSUME SecretaryInv, setMode \/ installed \/ checkClaude
  PROVE  Switched /\ ContactSame /\ UNCHANGED <<readUpTo, talk>>
<1>1. saved \in BOOLEAN /\ on \in BOOLEAN /\ claude \in BOOLEAN /\ OnOK
  BY Room DEF SecretaryInv, Counts
<1>2. ContactSame /\ UNCHANGED <<readUpTo, talk>>
  BY DEF setMode, installed, checkClaude, ContactSame, answerVars
<1>3. installed => Still /\ on' = on
  BY DEF installed, Still
<1>4. ASSUME NEW next \in BOOLEAN, apply(next, heard) PROVE Switched
  <2>1. /\ on' = next
        /\ \/ Still /\ (next <=> on)
           \/ Still /\ next /\ ~on /\ heard = None /\ job = NoJob
           \/ Fresh(heard) /\ next /\ ~on /\ heard # None
           \/ Gone /\ ~next /\ on
    BY <1>1, <1>4, Applies
  <2>2. CASE next = TRUE
    BY <1>1, <2>1, <2>2 DEF Switched
  <2>3. CASE next = FALSE
    BY <1>1, <2>1, <2>3 DEF Switched
  <2>4. QED BY <1>4, <2>2, <2>3
<1>5. (saved' /\ claude) \in BOOLEAN /\ (saved /\ claude) \in BOOLEAN
  OBVIOUS
<1>6. setMode \/ checkClaude => Switched
  BY <1>4, <1>5 DEF setMode, checkClaude
<1>7. QED BY <1>2, <1>3, <1>6 DEF Switched

(* What these do to the brief. *)
LEMMA ModeTypes ==
  ASSUME SecretaryInv, setMode \/ installed \/ checkClaude
  PROVE  BriefTypes'
<1>1. /\ Switched /\ ContactSame /\ readUpTo' = readUpTo /\ Next /\ JobOK
      /\ (jobs' # jobs => jobs + 1 \in Jobs)
  BY Switches, ModeCounts DEF Next, Mode, SecretaryInv, Brief
<1>2. instances' = instances /\ secretarySeq' = secretarySeq
  BY <1>1 DEF ContactSame, records, event
<1>3. CASE Still
  BY <1>1, <1>2, <1>3, StillTypes DEF Still, JobOK
<1>4. CASE Fresh(heard) /\ heard # None
  <2>1. jobs + 1 \in Jobs
    <3>1. jobs' = jobs + 1 /\ jobs \in Nat
      BY <1>4, Room DEF Fresh
    <3>2. QED BY <1>1, <3>1
  <2>2. heard \in Events /\ instances # 0 /\ heard.seq <= secretarySeq
    <3>1. EventTypes /\ RecordTypes /\ HeardOK /\ SeqOK
      BY AnswerParts DEF SecretaryInv, AnswerInv
    <3>2. instances # 0 /\ heard = secretaryEvent[instances] /\ instances \in Records
      BY <1>4, <3>1 DEF HeardOK, RecordTypes
    <3>3. QED BY <1>4, <3>1, <3>2 DEF EventTypes, SeqOK
  <2>3. QED BY <1>1, <1>2, <1>4, <2>1, <2>2, FreshTypes
<1>5. CASE Gone
  BY <1>5, GoneTypes DEF Gone
<1>6. QED BY <1>1, <1>3, <1>4, <1>5 DEF Switched

\* A brief with other words, but about the same event.
Alike(j) == /\ j \in Briefs /\ j.seq = job.seq /\ j.kind = job.kind /\ j.text = job.text /\ j.seen = job.seen
            /\ j.handled = job.handled

(* It is marked alike, and the contact goes on. *)
LEMMA AlikeTypes ==
  ASSUME SecretaryInv, Next, job # NoJob, Alike(job'), shown' = Card(job'), UNCHANGED <<signal, jobs, run, readUpTo>>,
         instances' = instances
  PROVE  BriefTypes'
<1>1. JobTypes /\ RunTypes /\ JobOK
  BY DEF SecretaryInv, Brief
<1>2. /\ job' \in Briefs /\ job'.seq = job.seq /\ job'.kind = job.kind /\ job'.text \in {0, job.seq} /\ instances' # 0
      /\ (job.kind = "finished" /\ readUpTo' >= job.seq => job'.seen)
      /\ (run'[signal].stage # "none" => run[signal].stage # "none" /\ run'[signal].seq = run[signal].seq)
  BY <1>1 DEF Alike, JobOK
<1>3. RunTypes'
  BY <1>1 DEF RunTypes
<1>4. QED BY <1>2, <1>3, EditTypes

(* An answer is begun for it. *)
LEMMA PressedTypes ==
  ASSUME SecretaryInv, Next, job # NoJob, NEW j, Alike(j), NEW x, NEW wide, PressedFor(j, x, wide),
         UNCHANGED <<signal, jobs, run, readUpTo>>
  PROVE  BriefTypes' /\ instances' = instances
<1>1. /\ instances' = instances /\ shown' = Card(job')
      /\ job' = j \/ job' = [j EXCEPT !.handled = TRUE]
  BY DEF PressedFor, Answers, records
<1>2. CASE job' = j
  BY <1>1, <1>2, AlikeTypes
<1>3. CASE job' = [j EXCEPT !.handled = TRUE]
  <2>1. JobTypes /\ RunTypes /\ JobOK
    BY DEF SecretaryInv, Brief
  <2>2. job' \in Briefs /\ job'.seq = job.seq /\ job'.kind = job.kind /\ job'.text = job.text /\ job'.seen = job.seen
    BY <1>3, Edits DEF Alike
  <2>3. /\ job'.text \in {0, job.seq} /\ instances' # 0
        /\ (job.kind = "finished" /\ readUpTo' >= job.seq => job'.seen)
        /\ (run'[signal].stage # "none" => run[signal].stage # "none" /\ run'[signal].seq = run[signal].seq)
    BY <1>1, <2>1, <2>2 DEF JobOK
  <2>4. RunTypes'
    BY <2>1 DEF RunTypes
  <2>5. QED BY <1>1, <2>2, <2>3, <2>4, EditTypes
<1>4. QED BY <1>1, <1>2, <1>3

(* What is said on a card, and how an exchange ends, are words. *)
LEMMA WordsSaid ==
  ASSUME NEW j \in Briefs
  PROVE  /\ Len(j.exchanges) \in Nat /\ DOMAIN j.exchanges = 1..Len(j.exchanges)
         /\ \A v \in Words : Append(j.exchanges, v) \in Seq(Words)
         /\ \A x \in DOMAIN j.exchanges, v \in Words : [j.exchanges EXCEPT ![x] = v] \in Seq(Words)
<1> DEFINE W == Words
<1>1. j.exchanges \in Seq(W)
  BY Edits
<1> HIDE DEF W
<1>2. Len(j.exchanges) \in Nat /\ DOMAIN j.exchanges = 1..Len(j.exchanges)
  BY <1>1, LenProperties
<1>3. \A v \in W : Append(j.exchanges, v) \in Seq(W)
  BY <1>1, AppendProperties
<1>4. \A x \in DOMAIN j.exchanges, v \in W : [j.exchanges EXCEPT ![x] = v] \in Seq(W)
  BY <1>1, <1>2, ExceptSeq
<1>5. QED BY <1>2, <1>3, <1>4 DEF W

(* So the brief stays alike. *)
LEMMA AlikeSaid ==
  ASSUME NEW j, Alike(j)
  PROVE  /\ \A b \in BOOLEAN : Alike([j EXCEPT !.confirming = b]) /\ [j EXCEPT !.confirming = b].exchanges = j.exchanges
         /\ \A w \in Seq(Words) : Alike([j EXCEPT !.exchanges = w]) /\ [j EXCEPT !.exchanges = w].exchanges = w
                                  /\ [j EXCEPT !.exchanges = w].confirming = j.confirming
         /\ \A x \in DOMAIN j.exchanges, v \in Words : Alike(settle(j, x, v))
              /\ settle(j, x, v).exchanges = [j.exchanges EXCEPT ![x] = v] /\ settle(j, x, v).confirming = j.confirming
         /\ \A v \in Words : Alike([j EXCEPT !.exchanges = Append(@, v)])
              /\ [j EXCEPT !.exchanges = Append(@, v)].exchanges = Append(j.exchanges, v)
              /\ [j EXCEPT !.exchanges = Append(@, v)].confirming = j.confirming
<1>1. j \in Briefs
  BY DEF Alike
<1>2. /\ \A v \in Words : Append(j.exchanges, v) \in Seq(Words)
      /\ \A x \in DOMAIN j.exchanges, v \in Words : [j.exchanges EXCEPT ![x] = v] \in Seq(Words)
  BY <1>1, WordsSaid
<1>3. ASSUME NEW w \in Seq(Words)
      PROVE  /\ Alike([j EXCEPT !.exchanges = w]) /\ [j EXCEPT !.exchanges = w].exchanges = w
             /\ [j EXCEPT !.exchanges = w].confirming = j.confirming
  <2> DEFINE k == [j EXCEPT !.exchanges = w]
  <2>1. /\ k \in Briefs /\ k.exchanges = w /\ k.seq = j.seq /\ k.kind = j.kind /\ k.text = j.text
        /\ k.handled = j.handled /\ k.seen = j.seen /\ k.confirming = j.confirming
    BY <1>1, EditWords
  <2> HIDE DEF k
  <2>2. Alike(k)
    BY <2>1 DEF Alike
  <2>3. QED BY <2>1, <2>2 DEF k
<1>4. ASSUME NEW b \in BOOLEAN
      PROVE  Alike([j EXCEPT !.confirming = b]) /\ [j EXCEPT !.confirming = b].exchanges = j.exchanges
  <2> DEFINE k == [j EXCEPT !.confirming = b]
  <2>1. /\ k \in Briefs /\ k.exchanges = j.exchanges /\ k.seq = j.seq /\ k.kind = j.kind /\ k.text = j.text
        /\ k.handled = j.handled /\ k.seen = j.seen
    BY <1>1, EditConfirming
  <2> HIDE DEF k
  <2>2. Alike(k)
    BY <2>1 DEF Alike
  <2>3. QED BY <2>1, <2>2 DEF k
<1>5. ASSUME NEW x \in DOMAIN j.exchanges, NEW v \in Words
      PROVE  /\ Alike(settle(j, x, v)) /\ settle(j, x, v).exchanges = [j.exchanges EXCEPT ![x] = v]
             /\ settle(j, x, v).confirming = j.confirming
  <2> DEFINE w == [j.exchanges EXCEPT ![x] = v]
  <2>1. w \in Seq(Words)
    BY <1>2, <1>5
  <2>2. settle(j, x, v) = [j EXCEPT !.exchanges = w]
    BY DEF settle
  <2> HIDE DEF w
  <2>3. QED BY <1>3, <2>1, <2>2 DEF w
<1>6. ASSUME NEW v \in Words
      PROVE  /\ Alike([j EXCEPT !.exchanges = Append(@, v)])
             /\ [j EXCEPT !.exchanges = Append(@, v)].exchanges = Append(j.exchanges, v)
             /\ [j EXCEPT !.exchanges = Append(@, v)].confirming = j.confirming
  <2> DEFINE w == Append(j.exchanges, v)
  <2>1. w \in Seq(Words)
    BY <1>2, <1>6
  <2>2. [j EXCEPT !.exchanges = Append(@, v)] = [j EXCEPT !.exchanges = w]
    OBVIOUS
  <2> HIDE DEF w
  <2>3. QED BY <1>3, <2>1, <2>2 DEF w
<1>7. QED BY <1>3, <1>4, <1>5, <1>6

(* What the builder reads, and a removal. *)
LEMMA SeenTypes ==
  ASSUME SecretaryInv, markSeen
  PROVE  BriefTypes' /\ instances' = instances
<1>1. /\ JobTypes /\ RunTypes /\ JobOK /\ MarkTypes /\ Next
  BY DEF SecretaryInv, Brief, Counts, Next, Mode
<1>2. UNCHANGED <<instances, jobs, run, signal>>
  BY DEF markSeen, marks, records
<1>3. CASE /\ job # NoJob /\ job.kind = "finished" /\ job' = [job EXCEPT !.seen = TRUE] /\ shown' = Card(job')
  <2>1. job \in Briefs
    BY <1>1, <1>3 DEF JobTypes
  <2>2. job' \in Briefs /\ job'.seq = job.seq /\ job'.kind = job.kind /\ job'.text = job.text /\ job'.seen
    BY <1>3, <2>1, Edits
  <2>3. job'.text \in {0, job.seq} /\ instances' # 0
    BY <1>1, <1>2, <1>3, <2>2 DEF JobOK
  <2>4. RunTypes' /\ (run'[signal].stage # "none" => run[signal].stage # "none" /\ run'[signal].seq = run[signal].seq)
    BY <1>1, <1>2 DEF RunTypes
  <2>5. QED BY <1>1, <1>2, <1>3, <2>2, <2>3, <2>4, EditTypes
<1>4. CASE job # NoJob /\ job.seen /\ UNCHANGED <<job, shown>>
  <2>1. job \in Briefs
    BY <1>1, <1>4 DEF JobTypes
  <2>2. /\ job' \in Briefs /\ job'.seq = job.seq /\ job'.kind = job.kind /\ job'.text \in {0, job.seq} /\ job'.seen
        /\ instances' # 0 /\ shown' = Card(job')
    BY <1>1, <1>2, <1>4, <2>1 DEF JobOK, JobTypes, Card
  <2>3. RunTypes' /\ (run'[signal].stage # "none" => run[signal].stage # "none" /\ run'[signal].seq = run[signal].seq)
    BY <1>1, <1>2 DEF RunTypes
  <2>4. QED BY <1>1, <1>2, <1>4, <2>2, <2>3, EditTypes
<1>5. CASE job = NoJob /\ UNCHANGED <<job, shown>>
  <2>1. JobTypes' /\ RunTypes'
    BY <1>1, <1>2, <1>5 DEF JobTypes, RunTypes, Card
  <2>2. JobOK'
    <3>1. job' = NoJob
      BY <1>5
    <3>2. QED BY <3>1 DEF JobOK
  <2>3. QED BY <1>2, <2>1, <2>2 DEF BriefTypes
<1>6. QED BY <1>2, <1>3, <1>4, <1>5 DEF markSeen, publish

(* The first reading or pressing of a job to come is none. *)
LEMMA JobThere ==
  ASSUME SecretaryInv, NEW n \in Jobs, isCurrent(n)
  PROVE  job # NoJob /\ job \in Briefs /\ signal = n /\ n # 0 /\ n = jobs
<1>1. n # 0
  BY JobNumbers DEF SecretaryInv, Counts
<1>2. QED BY <1>1 DEF isCurrent, SecretaryInv, Brief, JobTypes

\* What writing a brief, or speaking it, publishes.
Publishes(n) == /\ \E s \in {"failed", "unavailable", "pending", "ready"}, t \in {0, run[n].seq} :
                     job' = [job EXCEPT !.status = s, !.text = t]
                /\ shown' = Card(job')

(* They publish for the current job only. *)
LEMMA RunsOn ==
  ASSUME SecretaryInv, NEW n \in Jobs, written(n) \/ spoken(n)
  PROVE  /\ run[n].stage # "none" /\ UNCHANGED <<answerVars, marks, readUpTo, talk, signal>>
         /\ \E k \in RunRecords : /\ run' = [run EXCEPT ![n] = k] /\ (k.stage # "none" => k.seq = run[n].seq)
         /\ \/ ~isCurrent(n) /\ UNCHANGED <<job, shown>>
            \/ isCurrent(n) /\ Publishes(n)
<1>1. run[n] \in RunRecords /\ run[n].stage # "none" /\ UNCHANGED <<answerVars, marks, readUpTo, talk, signal>>
  BY DEF SecretaryInv, Brief, RunTypes, written, spoken
<1>2. NoRun \in RunRecords /\ NoRun.stage = "none"
  BY AnswerAssumption DEF NoRun, RunRecords
<1>3. [run[n] EXCEPT !.stage = "speaking"] \in RunRecords /\ [run[n] EXCEPT !.stage = "speaking"].seq = run[n].seq
  BY <1>1 DEF RunRecords
<1>4. run' = [run EXCEPT ![n] = NoRun] \/ run' = [run EXCEPT ![n] = [@ EXCEPT !.stage = "speaking"]]
  BY DEF written, spoken
<1>5. \E k \in RunRecords : /\ run' = [run EXCEPT ![n] = k] /\ (k.stage # "none" => k.seq = run[n].seq)
  <2>1. CASE run' = [run EXCEPT ![n] = NoRun]
    BY <1>2, <2>1
  <2>2. CASE run' = [run EXCEPT ![n] = [@ EXCEPT !.stage = "speaking"]]
    BY <1>3, <2>2
  <2>3. QED BY <1>4, <2>1, <2>2
<1>6. \/ ~isCurrent(n) /\ UNCHANGED <<job, shown>>
      \/ isCurrent(n) /\ Publishes(n)
  <2>1. CASE written(n)
    <3>1. CASE ~isCurrent(n)
      BY <2>1, <3>1 DEF written
    <3>2. CASE isCurrent(n)
      <4>1. PICK s \in {"failed", "unavailable", "pending"} :
              publish([job EXCEPT !.status = s, !.text = IF s = "failed" THEN 0 ELSE run[n].seq])
        BY <2>1, <3>2 DEF written
      <4>2. QED BY <3>2, <4>1 DEF publish, Publishes
    <3>3. QED BY <3>1, <3>2
  <2>2. CASE spoken(n)
    <3>1. CASE ~isCurrent(n)
      BY <2>2, <3>1 DEF spoken
    <3>2. CASE isCurrent(n)
      <4>1. PICK s \in {"unavailable", "ready"} : publish([job EXCEPT !.status = s, !.text = run[n].seq])
        BY <2>2, <3>2 DEF spoken
      <4>2. QED BY <3>2, <4>1 DEF publish, Publishes
    <3>3. QED BY <3>1, <3>2
  <2>3. QED BY <2>1, <2>2
<1>7. QED BY <1>1, <1>5, <1>6

(* What is written or spoken for a job is about its event. *)
LEMMA RunTypesKept ==
  ASSUME SecretaryInv, NEW n \in Jobs, written(n) \/ spoken(n)
  PROVE  BriefTypes'
<1>1. /\ run[n].stage # "none" /\ UNCHANGED <<answerVars, marks, readUpTo, talk, signal>>
      /\ JobTypes /\ RunTypes /\ JobOK /\ Next
  BY RunsOn DEF SecretaryInv, Brief, Next, Job
<1>2. PICK k \in RunRecords : run' = [run EXCEPT ![n] = k] /\ (k.stage # "none" => k.seq = run[n].seq)
  BY RunsOn
<1>3. RunTypes'
  BY <1>1, <1>2 DEF RunTypes
<1>4. UNCHANGED <<instances, jobs, secretarySeq>>
  BY <1>1 DEF answerVars, records, event, marks
<1>5. CASE ~isCurrent(n) /\ UNCHANGED <<job, shown>>
  <2>1. JobTypes'
    BY <1>1, <1>4, <1>5 DEF JobTypes, Card
  <2>2. run'[signal] = run[signal]
    BY <1>2, <1>5 DEF isCurrent
  <2>3. JobOK'
    BY <1>1, <1>4, <1>5, <2>2 DEF JobOK
  <2>4. QED BY <1>3, <2>1, <2>3 DEF BriefTypes
<1>6. CASE isCurrent(n) /\ Publishes(n)
  <2>1. job # NoJob /\ job \in Briefs /\ signal = n
    BY <1>6, JobThere
  <2>2. PICK s \in {"failed", "unavailable", "pending", "ready"}, t \in {0, run[n].seq} :
          job' = [job EXCEPT !.status = s, !.text = t]
    BY <1>6 DEF Publishes
  <2>3. t \in 0..MaxSeq /\ t \in {0, job.seq}
    <3>1. run[n].seq = job.seq /\ job.seq \in 1..MaxSeq
      BY <1>1, <2>1 DEF JobOK, Briefs
    <3>2. QED BY <2>2, <3>1, AnswerAssumption
  <2>4. /\ job' \in Briefs /\ job'.seq = job.seq /\ job'.kind = job.kind /\ job'.text = t /\ job'.seen = job.seen
    <3>1. PICK W : Briefs = [seq : 1..MaxSeq, kind : {"finished", "needs-you"}, text : 0..MaxSeq,
                             status : {"preparing", "failed", "pending", "unavailable", "ready"},
                             handled : BOOLEAN, seen : BOOLEAN, dialog : Dialogs, exchanges : W, confirming : BOOLEAN]
      BY BriefRecords
    <3>2. QED BY <2>1, <2>2, <2>3, <3>1
  <2>5. /\ job'.text \in {0, job.seq} /\ instances' # 0 /\ (job.kind = "finished" /\ readUpTo' >= job.seq => job'.seen)
    BY <1>1, <1>4, <2>1, <2>3, <2>4 DEF JobOK
  <2>6. run'[signal].stage # "none" => run[signal].stage # "none" /\ run'[signal].seq = run[signal].seq
    BY <1>1, <1>2, <2>1 DEF RunTypes
  <2>7. shown' = Card(job')
    BY <1>6 DEF Publishes
  <2>8. QED BY <1>1, <1>3, <1>4, <2>1, <2>4, <2>5, <2>6, <2>7, EditTypes
<1>7. QED BY <1>5, <1>6, RunsOn

\* A reading or a pressing ends, with what came of its exchange if its job is the current one.
Ended(n) ==
  /\ talk[n].stage # "none" /\ talk' = [talk EXCEPT ![n] = NoTalk]
  /\ \A c \in Calls : calls[c].by = n => calls[c].stage \notin Pressed
  /\ UNCHANGED <<answerVars, marks, readUpTo, run, signal>>
  /\ \/ ~isCurrent(n) /\ UNCHANGED <<job, shown>>
     \/ /\ isCurrent(n) /\ shown' = Card(job')
        /\ \/ \E v \in Settled : job' = settle(job, talk[n].x, v)
           \/ job' = [settle(job, talk[n].x, "confirm") EXCEPT !.confirming = TRUE]

(* Both end so. *)
LEMMA Ends ==
  ASSUME SecretaryInv, NEW n \in Jobs, interpreted(n) \/ pressed(n)
  PROVE  Ended(n)
<1>1. talk[n].stage # "none" /\ talk' = [talk EXCEPT ![n] = NoTalk]
      /\ UNCHANGED <<answerVars, marks, readUpTo, run, signal>>
  BY DEF interpreted, pressed
<1>2. ASSUME NEW c \in Calls, calls[c].by = n, calls[c].stage \in Pressed PROVE FALSE
  <2>1. talk[n].stage = "pressing" /\ talk[n].call = c
    BY <1>2 DEF SecretaryInv, Talk, CallsOK
  <2>2. calls[talk[n].call].stage = "done"
    BY <2>1 DEF interpreted, pressed
  <2>3. QED BY <1>2, <2>1, <2>2 DEF Pressed
<1>3. \/ ~isCurrent(n) /\ UNCHANGED <<job, shown>>
      \/ /\ isCurrent(n) /\ shown' = Card(job')
         /\ \/ \E v \in Settled : job' = settle(job, talk[n].x, v)
            \/ job' = [settle(job, talk[n].x, "confirm") EXCEPT !.confirming = TRUE]
  <2>1. CASE ~isCurrent(n)
    BY <2>1 DEF interpreted, pressed
  <2>2. CASE isCurrent(n) /\ interpreted(n)
    <3>1. CASE \E v \in {"failed", "refused", "asked", "answered"} : publish(settle(job, talk[n].x, v))
      <4>1. PICK v \in {"failed", "refused", "asked", "answered"} : publish(settle(job, talk[n].x, v))
        BY <3>1
      <4>2. v \in Settled
        BY DEF Settled
      <4>3. QED BY <2>2, <4>1, <4>2 DEF publish
    <3>2. CASE publish([settle(job, talk[n].x, "confirm") EXCEPT !.confirming = TRUE])
      BY <2>2, <3>2 DEF publish
    <3>3. QED BY <2>2, <3>1, <3>2 DEF interpreted
  <2>3. CASE isCurrent(n) /\ pressed(n)
    <3>1. PICK v \in {"pressed", "refused"} : publish(settle(job, talk[n].x, v))
      BY <2>3 DEF pressed
    <3>2. v \in Settled
      BY DEF Settled
    <3>3. QED BY <2>3, <3>1, <3>2 DEF publish
  <2>4. QED BY <2>1, <2>2, <2>3
<1>4. QED BY <1>1, <1>2, <1>3 DEF Ended

(* The brief of the current job has the exchange it is settled for. *)
LEMMA EndedAlike ==
  ASSUME SecretaryInv, NEW n \in Jobs, Ended(n), isCurrent(n)
  PROVE  /\ job # NoJob /\ job \in Briefs /\ signal = n /\ Alike(job') /\ job' # NoJob
         /\ talk[signal].x \in DOMAIN job.exchanges
         /\ \E v \in Settled : /\ job'.exchanges = [job.exchanges EXCEPT ![talk[signal].x] = v]
                               /\ job'.confirming = job.confirming \/ v = "confirm"
<1>1. job # NoJob /\ job \in Briefs /\ signal = n
  BY JobThere
<1>2. talk[signal].x \in DOMAIN job.exchanges
  BY <1>1 DEF SecretaryInv, Talk, TalkOK, Ended
<1>3. Alike(job)
  BY <1>1 DEF Alike
<1>4. ASSUME NEW v \in Settled
      PROVE  /\ Alike(settle(job, talk[signal].x, v))
             /\ settle(job, talk[signal].x, v).exchanges = [job.exchanges EXCEPT ![talk[signal].x] = v]
             /\ settle(job, talk[signal].x, v).confirming = job.confirming
  <2>1. v \in Words
    BY DEF Words
  <2>2. QED BY <1>2, <1>3, <2>1, AlikeSaid
<1>5. ASSUME NEW v \in Settled, job' = settle(job, talk[signal].x, v)
      PROVE  /\ Alike(job') /\ job'.exchanges = [job.exchanges EXCEPT ![talk[signal].x] = v]
             /\ job'.confirming = job.confirming
  BY <1>4, <1>5
<1>6. ASSUME job' = [settle(job, talk[signal].x, "confirm") EXCEPT !.confirming = TRUE]
      PROVE  Alike(job') /\ job'.exchanges = [job.exchanges EXCEPT ![talk[signal].x] = "confirm"]
  <2> DEFINE j == settle(job, talk[signal].x, "confirm")
  <2>1. "confirm" \in Settled
    BY DEF Settled
  <2>2. Alike(j) /\ j.exchanges = [job.exchanges EXCEPT ![talk[signal].x] = "confirm"]
    BY <1>4, <2>1
  <2> HIDE DEF j
  <2>3. Alike([j EXCEPT !.confirming = TRUE]) /\ [j EXCEPT !.confirming = TRUE].exchanges = j.exchanges
    BY <2>2, AlikeSaid
  <2>4. QED BY <1>6, <2>2, <2>3 DEF j
<1>7. "confirm" \in Settled
  BY DEF Settled
<1>8. Alike(job') /\ \E v \in Settled : /\ job'.exchanges = [job.exchanges EXCEPT ![talk[signal].x] = v]
                                        /\ job'.confirming = job.confirming \/ v = "confirm"
  BY <1>1, <1>5, <1>6, <1>7 DEF Ended
<1>9. job' # NoJob
  BY <1>8, SecretaryAssumption DEF Alike
<1>10. QED BY <1>1, <1>2, <1>8, <1>9

\* What comes of the brief: it is there as before, with the same event waiting or none.
AsBefore == \/ /\ heard' = heard /\ (on' => on)
               /\ \/ job' = job
                  \/ job # NoJob /\ Alike(job')
                  \/ job # NoJob /\ job' # NoJob /\ job'.seq = job.seq /\ job'.handled = job.handled
            \/ on' = FALSE
            \/ heard' = None /\ (job' # NoJob => job'.handled)

(* Then, while the secretary is on, the event that waits has its brief. *)
LEMMA StillFollows ==
  ASSUME SecretaryInv, AsBefore
  PROVE  BriefOK'
<1>1. BriefOK
  BY DEF SecretaryInv, Brief
<1>2. CASE on' = FALSE
  BY <1>2 DEF BriefOK
<1>3. CASE heard' = None /\ (job' # NoJob => job'.handled)
  BY <1>3 DEF BriefOK
<1>4. CASE heard' = heard /\ (on' => on) /\ job' = job
  BY <1>1, <1>4 DEF BriefOK
<1>5. CASE heard' = heard /\ (on' => on) /\ job # NoJob /\ Alike(job')
  <2>1. job' # NoJob
    BY <1>5, SecretaryAssumption DEF Alike
  <2>2. QED BY <1>1, <1>5, <2>1 DEF BriefOK, Alike
<1>6. CASE heard' = heard /\ (on' => on) /\ job # NoJob /\ job' # NoJob /\ job'.seq = job.seq /\ job'.handled = job.handled
  BY <1>1, <1>6 DEF BriefOK
<1>7. QED BY <1>2, <1>3, <1>4, <1>5, <1>6 DEF AsBefore

(* What the contact does, and what listeners make of it. *)
LEMMA HeardBrief ==
  ASSUME SecretaryInv, AnswerNext, Heard
  PROVE  BriefOK'
<1>1. CASE HeardSame
  BY <1>1, StillFollows DEF HeardSame, secretary, marks, AsBefore
<1>2. CASE HeardNew
  <2>1. heard' # None
    BY <1>2, NoEvent DEF HeardNew
  <2>2. CASE Fresh(heard')
    <3>1. MarkTypes /\ heard' \in Events
      BY <1>2 DEF SecretaryInv, Counts, HeardNew
    <3>2. job' # NoJob /\ job'.seq = heard'.seq /\ ~job'.handled
      BY <2>2, <3>1, FreshBrief
    <3>3. QED BY <2>1, <3>2 DEF BriefOK
  <2>3. CASE on' = FALSE
    BY <2>3, StillFollows DEF AsBefore
  <2>4. QED BY <1>2, <2>2, <2>3 DEF HeardNew
<1>3. CASE HeardGone
  <2>1. CASE UNCHANGED <<job, shown>> /\ (job # NoJob => job.handled)
    BY <1>3, <2>1, StillFollows DEF HeardGone, AsBefore
  <2>2. CASE Marked
    <3>1. job \in Briefs /\ job # NoJob
      BY <2>2 DEF SecretaryInv, Brief, JobTypes, Marked
    <3>2. job'.handled
      BY <2>2, <3>1, Edits DEF Marked
    <3>3. QED BY <1>3, <3>2, StillFollows DEF HeardGone, AsBefore
  <2>3. QED BY <1>3, <2>1, <2>2 DEF HeardGone
<1>4. QED BY <1>1, <1>2, <1>3, HeardGoes

(* A switch of the mode. *)
LEMMA SwitchedBrief ==
  ASSUME SecretaryInv, setMode \/ installed \/ checkClaude
  PROVE  BriefOK'
<1>1. Switched /\ ContactSame /\ OnOK
  BY Switches DEF SecretaryInv, Counts
<1>2. heard' = heard
  BY <1>1 DEF ContactSame, event
<1>3. CASE Still /\ (on' <=> on)
  BY <1>2, <1>3, StillFollows DEF Still, AsBefore
<1>4. CASE Still /\ on' = TRUE /\ heard = None /\ job = NoJob
  <2>1. job' = NoJob /\ heard' = None
    BY <1>2, <1>4 DEF Still
  <2>2. QED BY <2>1, StillFollows DEF AsBefore
<1>5. CASE Fresh(heard) /\ heard # None
  <2>1. MarkTypes /\ heard \in Events
    BY <1>5, AnswerParts DEF SecretaryInv, Counts, AnswerInv, EventTypes
  <2>2. job' # NoJob /\ job'.seq = heard.seq /\ ~job'.handled
    BY <1>5, <2>1, FreshBrief
  <2>3. QED BY <1>2, <1>5, <2>2 DEF BriefOK
<1>6. CASE Gone /\ on' = FALSE
  BY <1>6, StillFollows DEF AsBefore
<1>7. QED BY <1>1, <1>3, <1>4, <1>5, <1>6 DEF Switched

(* What is read: it is marked, and nothing else. *)
LEMMA SeenBrief ==
  ASSUME SecretaryInv, markSeen
  PROVE  BriefOK'
<1>1. UNCHANGED <<heard, on>>
  BY DEF markSeen, event, marks
<1>2. \/ job' = job
      \/ job # NoJob /\ job' = [job EXCEPT !.seen = TRUE]
  BY DEF markSeen, publish
<1>3. CASE job # NoJob /\ job' = [job EXCEPT !.seen = TRUE]
  <2>1. job \in Briefs
    BY <1>3 DEF SecretaryInv, Brief, JobTypes
  <2>2. job' \in Briefs /\ job'.seq = job.seq /\ job'.handled = job.handled
    BY <1>3, <2>1, Edits
  <2>3. job' # NoJob
    BY <2>2, SecretaryAssumption
  <2>4. QED BY <1>1, <1>3, <2>2, <2>3, StillFollows DEF AsBefore
<1>4. QED BY <1>1, <1>2, <1>3, StillFollows DEF AsBefore

(* An answer begun leaves the brief, or marks it handled as its event goes. *)
LEMMA PressedBrief ==
  ASSUME SecretaryInv, job # NoJob, NEW j, Alike(j), NEW x, NEW wide, PressedFor(j, x, wide), on' = on
  PROVE  BriefOK'
<1>1. CASE heard' = heard /\ job' = j
  BY <1>1, StillFollows DEF AsBefore
<1>2. CASE heard' = None /\ job' = [j EXCEPT !.handled = TRUE]
  <2>1. job'.handled
    BY <1>2, Edits DEF Alike
  <2>2. QED BY <1>2, <2>1, StillFollows DEF AsBefore
<1>3. QED BY <1>1, <1>2 DEF PressedFor

(* What is said on the card is alike. *)
LEMMA SaidAlike ==
  ASSUME job \in Briefs
  PROVE  /\ Alike(Said("open")) /\ Said("open").exchanges = Append(job.exchanges, "open")
         /\ Said("open").confirming = job.confirming
         /\ Alike(Unconfirmed(Said("open"))) /\ Unconfirmed(Said("open")).exchanges = Append(job.exchanges, "open")
         /\ Unconfirmed(Said("open")).confirming = FALSE
         /\ Alike(settle(Said("open"), Len(job.exchanges) + 1, "refused"))
         /\ settle(Said("open"), Len(job.exchanges) + 1, "refused").exchanges = Append(job.exchanges, "refused")
         /\ settle(Said("open"), Len(job.exchanges) + 1, "refused").confirming = job.confirming
<1>1. Alike(job) /\ "open" \in Words /\ "refused" \in Words /\ job.exchanges \in Seq(Words)
  BY Edits DEF Alike, Words, Settled
<1>2. /\ Alike(Said("open")) /\ Said("open").exchanges = Append(job.exchanges, "open")
      /\ Said("open").confirming = job.confirming
  BY <1>1, AlikeSaid DEF Said
<1> DEFINE j == Said("open")
<1>3. /\ Alike(Unconfirmed(j)) /\ Unconfirmed(j).exchanges = Append(job.exchanges, "open") /\ Unconfirmed(j).confirming = FALSE
  <2> HIDE DEF j
  <2>1. Alike(j) /\ j.exchanges = Append(job.exchanges, "open")
    BY <1>2 DEF j
  <2>2. Alike(Unconfirmed(j)) /\ Unconfirmed(j).exchanges = j.exchanges
    BY <2>1, AlikeSaid DEF Unconfirmed
  <2>3. Unconfirmed(j).confirming = FALSE
    <3>1. j \in Briefs
      BY <2>1 DEF Alike
    <3>2. QED BY <3>1, EditConfirming DEF Unconfirmed
  <2>4. QED BY <2>1, <2>2, <2>3
<1>4. /\ Alike(settle(j, Len(job.exchanges) + 1, "refused"))
      /\ settle(j, Len(job.exchanges) + 1, "refused").exchanges = Append(job.exchanges, "refused")
      /\ settle(j, Len(job.exchanges) + 1, "refused").confirming = job.confirming
  <2> DEFINE x == Len(job.exchanges) + 1
             W == Words
             w == job.exchanges
  <2>1. w \in Seq(W) /\ "open" \in W /\ "refused" \in W
    BY <1>1
  <2> HIDE DEF j, W, w
  <2>2. Len(w) \in Nat /\ Len(Append(w, "open")) = Len(w) + 1 /\ Append(w, "open") \in Seq(W)
        /\ DOMAIN Append(w, "open") = 1..Len(w) + 1
    BY <2>1, AppendProperties, LenProperties
  <2>3. [Append(w, "open") EXCEPT ![Len(w) + 1] = "refused"] = Append(w, "refused")
    <3> DEFINE a == Append(w, "open")
               b == Append(w, "refused")
               e == [a EXCEPT ![Len(w) + 1] = "refused"]
    <3>1. /\ a \in Seq(W) /\ Len(a) = Len(w) + 1 /\ \A i \in 1..Len(w) : a[i] = w[i]
      BY <2>1, AppendProperties
    <3>2. /\ b \in Seq(W) /\ Len(b) = Len(w) + 1 /\ (\A i \in 1..Len(w) : b[i] = w[i]) /\ b[Len(w) + 1] = "refused"
      BY <2>1, AppendProperties
    <3> HIDE DEF a, b
    <3>3. e \in Seq(W) /\ Len(e) = Len(a) /\ \A i \in 1..Len(a) : e[i] = IF i = Len(w) + 1 THEN "refused" ELSE a[i]
      BY <2>1, <2>2, <3>1, ExceptSeq
    <3> HIDE DEF e
    <3>4. \A i \in 1..Len(e) : e[i] = b[i]
      BY <2>2, <3>1, <3>2, <3>3
    <3>5. e = b
      BY <3>1, <3>2, <3>3, <3>4, SeqEqual
    <3>6. QED BY <3>5 DEF e, a, b
  <2>4. j.exchanges = Append(w, "open") /\ Alike(j) /\ j.confirming = job.confirming
    BY <1>2 DEF j, w
  <2>5. Len(w) + 1 \in DOMAIN j.exchanges
    BY <2>2, <2>4
  <2>6. /\ Alike(settle(j, Len(w) + 1, "refused"))
        /\ settle(j, Len(w) + 1, "refused").exchanges = [j.exchanges EXCEPT ![Len(w) + 1] = "refused"]
        /\ settle(j, Len(w) + 1, "refused").confirming = j.confirming
    <3>1. ASSUME NEW y \in DOMAIN j.exchanges
          PROVE  /\ Alike(settle(j, y, "refused")) /\ settle(j, y, "refused").exchanges = [j.exchanges EXCEPT ![y] = "refused"]
                 /\ settle(j, y, "refused").confirming = j.confirming
      BY ZenonT(40), <1>1, <2>4, AlikeSaid
    <3>2. QED BY <2>5, <3>1
  <2>7. QED BY <2>3, <2>4, <2>6 DEF w
<1> HIDE DEF j
<1>5. QED BY <1>2, <1>3, <1>4 DEF j

(* A reply of the builder. *)
LEMMA ReplyBrief ==
  ASSUME SecretaryInv, NEW yes \in BOOLEAN, reply(yes)
  PROVE  BriefTypes' /\ BriefOK'
<1>1. /\ job # NoJob /\ job \in Briefs /\ RunTypes /\ Next /\ UNCHANGED <<saved, claude, jobs, readUpTo, run>>
      /\ \/ ContactSame /\ (Refuses \/ Listens \/ GivesUp)
         \/ Confirms
  BY Replies DEF SecretaryInv, Brief, JobTypes, Next
<1>2. /\ Alike(Unconfirmed(Said("open"))) /\ Alike(settle(Said("open"), Len(job.exchanges) + 1, "refused"))
  BY <1>1, SaidAlike
<1>3. CASE ContactSame /\ (Refuses \/ Listens)
  <2>1. Alike(job') /\ shown' = Card(job') /\ UNCHANGED <<on, signal>>
    BY <1>2, <1>3 DEF Refuses, Listens
  <2>2. UNCHANGED <<instances, heard>>
    BY <1>3 DEF ContactSame, records, event
  <2>3. BriefTypes'
    BY <1>1, <2>1, <2>2, AlikeTypes
  <2>4. BriefOK'
    BY <1>1, <2>1, <2>2, StillFollows DEF AsBefore
  <2>5. QED BY <2>3, <2>4
<1>4. CASE GivesUp
  <2>1. BriefTypes'
    BY <1>1, <1>4, GoneTypes DEF GivesUp
  <2>2. BriefOK'
    BY <1>4, StillFollows DEF GivesUp, AsBefore
  <2>3. QED BY <2>1, <2>2
<1>5. CASE Confirms
  <2>1. PressedFor(Unconfirmed(Said("open")), Len(job.exchanges) + 1, TRUE) /\ UNCHANGED <<on, signal>>
    BY <1>5 DEF Confirms
  <2>2. BriefTypes'
    BY <1>1, <1>2, <2>1, PressedTypes
  <2>3. BriefOK'
    BY <1>1, <1>2, <2>1, PressedBrief
  <2>4. QED BY <2>2, <2>3
<1>6. QED BY <1>1, <1>3, <1>4, <1>5

(* What runs for a job. *)
LEMMA JobBrief ==
  ASSUME SecretaryInv, Job
  PROVE  BriefTypes' /\ BriefOK'
<1>1. Next
  BY DEF Next
<1>2. ASSUME NEW n \in Jobs, written(n) \/ spoken(n) PROVE BriefTypes' /\ BriefOK'
  <2>1. BriefTypes'
    BY <1>2, RunTypesKept
  <2>2. heard' = heard /\ (on' => on)
    <3>1. UNCHANGED <<answerVars, marks>>
      BY <1>2, RunsOn
    <3>2. heard' = heard /\ on' = on
      BY <3>1 DEF answerVars, event, marks
    <3>3. QED BY <3>2
  <2>3. CASE UNCHANGED <<job, shown>>
    <3>1. AsBefore
      BY <2>2, <2>3 DEF AsBefore
    <3>2. QED BY <2>1, <3>1, StillFollows
  <2>4. CASE isCurrent(n) /\ Publishes(n)
    <3>1. job # NoJob /\ job \in Briefs /\ signal = n /\ run[n].stage # "none" /\ JobOK
      BY <1>2, <2>4, JobThere, RunsOn DEF SecretaryInv, Brief
    <3>2. PICK s \in {"failed", "unavailable", "pending", "ready"}, t \in {0, run[n].seq} :
            job' = [job EXCEPT !.status = s, !.text = t]
      BY <2>4 DEF Publishes
    <3>3. t \in 0..MaxSeq
      <4>1. run[n].seq = job.seq /\ job.seq \in 1..MaxSeq
        BY <3>1 DEF JobOK, Briefs
      <4>2. QED BY <3>2, <4>1, AnswerAssumption
    <3>4. job' \in Briefs /\ job'.seq = job.seq /\ job'.handled = job.handled
      <4>1. PICK W : Briefs = [seq : 1..MaxSeq, kind : {"finished", "needs-you"}, text : 0..MaxSeq,
                               status : {"preparing", "failed", "pending", "unavailable", "ready"},
                               handled : BOOLEAN, seen : BOOLEAN, dialog : Dialogs, exchanges : W, confirming : BOOLEAN]
        BY BriefRecords
      <4>2. QED BY <3>1, <3>2, <3>3, <4>1
    <3>5. job' # NoJob
      BY <3>4, SecretaryAssumption
    <3>6. AsBefore
      BY <2>2, <3>1, <3>4, <3>5 DEF AsBefore
    <3>7. QED BY <2>1, <3>6, StillFollows
  <2>5. QED BY <1>2, <2>1, <2>3, <2>4, RunsOn
<1>3. ASSUME NEW n \in Jobs, interpreted(n) \/ pressed(n) PROVE BriefTypes' /\ BriefOK'
  <2>1. Ended(n) /\ UNCHANGED <<heard, on, instances, jobs, readUpTo, run, signal>>
    <3>1. Ended(n)
      BY <1>3, Ends
    <3>2. UNCHANGED <<answerVars, marks, readUpTo, run, signal>>
      BY <3>1 DEF Ended
    <3>3. QED BY <3>1, <3>2 DEF answerVars, records, event, marks
  <2>2. CASE isCurrent(n)
    <3>1. job # NoJob /\ Alike(job') /\ shown' = Card(job')
      BY <2>1, <2>2, EndedAlike DEF Ended
    <3>2. BriefTypes'
      BY <1>1, <2>1, <3>1, AlikeTypes
    <3>3. BriefOK'
      BY <2>1, <3>1, StillFollows DEF AsBefore
    <3>4. QED BY <3>2, <3>3
  <2>3. CASE ~isCurrent(n)
    <3>1. UNCHANGED <<job, shown>>
      BY <2>1, <2>3 DEF Ended
    <3>2. BriefTypes'
      <4>1. job # NoJob => instances' # 0
        BY <2>1 DEF SecretaryInv, Brief, JobOK
      <4>2. QED BY <1>1, <2>1, <3>1, <4>1, StillTypes
    <3>3. BriefOK'
      BY <2>1, <3>1, StillFollows DEF AsBefore
    <3>4. QED BY <3>2, <3>3
  <2>4. QED BY <2>2, <2>3
<1>4. ASSUME NEW n \in Jobs, chosen(n) PROVE BriefTypes' /\ BriefOK'
  <2>1. /\ job # NoJob /\ job \in Briefs /\ PressedFor(job, talk[n].x, FALSE)
        /\ UNCHANGED <<on, jobs, readUpTo, run, signal>>
    BY <1>4, Chooses DEF SecretaryInv, Brief, JobTypes
  <2>2. Alike(job)
    BY <2>1 DEF Alike
  <2>3. BriefTypes'
    BY <1>1, <2>1, <2>2, PressedTypes
  <2>4. BriefOK'
    BY <2>1, <2>2, PressedBrief
  <2>5. QED BY <2>3, <2>4
<1>5. QED BY <1>2, <1>3, <1>4 DEF Job

(* The brief is true of the event that waits, whatever happens. *)
LEMMA BriefKept ==
  ASSUME SecretaryInv, Next
  PROVE  Brief'
<1>1. CASE AnswerNext /\ Heard
  BY <1>1, HeardTypes, HeardBrief DEF Brief, BriefTypes
<1>2. CASE setMode \/ installed \/ checkClaude
  BY <1>2, ModeTypes, SwitchedBrief DEF Brief, BriefTypes
<1>3. CASE markSeen
  BY <1>3, SeenTypes, SeenBrief DEF Brief, BriefTypes
<1>4. CASE forget
  <2>1. job' = NoJob /\ shown' = Card(job') /\ signal' = 0 /\ run' = run
    BY <1>4 DEF forget, drop, publish
  <2>2. heard' = None
    <3>1. instances' = 0 /\ AnswerInv'
      BY <1>4, ContactKept DEF forget, removeInstance, Next, Mode
    <3>2. QED BY <3>1 DEF AnswerInv, HeardOK
  <2>3. BriefOK'
    BY <2>1, <2>2, StillFollows DEF AsBefore
  <2>4. QED BY <2>1, <2>3, GoneTypes DEF Brief, BriefTypes
<1>5. CASE Job
  BY <1>5, JobBrief DEF Brief, BriefTypes
<1>6. CASE \E yes \in BOOLEAN : reply(yes)
  BY <1>6, ReplyBrief DEF Brief, BriefTypes
<1>7. QED BY <1>1, <1>2, <1>3, <1>4, <1>5, <1>6 DEF Next, Mode

-----------------------------------------------------------------------------
(* The talk *)

(* What is to come stays untouched. *)
LEMMA NewKept ==
  ASSUME SecretaryInv, jobs' \in {jobs, jobs + 1},
         \A n \in Jobs : n > jobs' => run'[n] = run[n] /\ talk'[n] = talk[n]
  PROVE  NewOK'
<1>1. jobs \in Nat /\ NewOK /\ \A n \in Jobs : n \in Nat
  BY Room, JobNumbers DEF SecretaryInv, Counts, Talk
<1>2. QED BY <1>1 DEF NewOK

(* No answer begins for a job but by a step of the secretary. *)
LEMMA TalkSame ==
  ASSUME SecretaryInv, talk' = talk, calls' = calls \/ AnswerNext \/ removeInstance
  PROVE  TalkTypes' /\ CallsOK'
<1>1. AnswerInv /\ TalkTypes /\ CallsOK /\ \A n \in Jobs : n # 0
  BY JobNumbers DEF SecretaryInv, Counts, Talk
<1>2. TalkTypes'
  BY <1>1 DEF TalkTypes, TalkRecords
<1>3. ASSUME NEW n \in Jobs, NEW c \in Calls, calls'[c].by = n, calls'[c].stage \in Pressed
      PROVE  talk'[n].stage = "pressing" /\ talk'[n].call = c
  <2>1. calls[c].by = n /\ calls[c].stage \in Pressed
    BY <1>1, <1>3, ByKept
  <2>2. QED BY <1>1, <2>1 DEF CallsOK
<1>4. CallsOK'
  BY <1>3 DEF CallsOK
<1>5. QED BY <1>2, <1>4

\* The words on the card stay, or the card goes.
SameWords == \/ job' = NoJob
             \/ /\ job # NoJob /\ job' # NoJob /\ signal' = signal
                /\ job'.exchanges = job.exchanges /\ job'.confirming = job.confirming

(* So do what they say of the talk. *)
LEMMA WordsSame ==
  ASSUME SecretaryInv, SameWords, talk'[signal] = talk[signal]
  PROVE  TalkOK' /\ ConfirmOK'
<1>1. TalkOK /\ ConfirmOK
  BY DEF SecretaryInv, Talk
<1>2. CASE job' = NoJob
  BY <1>2 DEF TalkOK, ConfirmOK
<1>3. CASE job # NoJob /\ job' # NoJob /\ signal' = signal /\ job'.exchanges = job.exchanges /\ job'.confirming = job.confirming
  <2>1. talk'[signal'] = talk[signal]
    BY <1>3
  <2>2. TalkOK'
    BY <1>1, <1>3, <2>1 DEF TalkOK
  <2>3. ConfirmOK'
    BY <1>1, <1>3, <2>1 DEF ConfirmOK, Asks
  <2>4. QED BY <2>2, <2>3
<1>4. QED BY <1>2, <1>3 DEF SameWords

(* A brief that is made has no words, and its job has said nothing. *)
LEMMA FreshTalk ==
  ASSUME SecretaryInv, NEW e \in Events, Fresh(e), jobs + 1 \in Jobs, talk' = talk
  PROVE  TalkOK' /\ ConfirmOK' /\ NewOK'
<1>1. MarkTypes /\ NewOK /\ RunTypes /\ jobs \in Nat
  BY Room DEF SecretaryInv, Counts, Talk, Brief
<1>2. job' # NoJob /\ ~job'.confirming /\ job'.exchanges = <<>>
  BY <1>1, FreshBrief
<1>3. signal' = jobs + 1 /\ jobs' = jobs + 1 /\ run' = [run EXCEPT ![jobs + 1] = [stage |-> "writing", seq |-> e.seq]]
  BY DEF Fresh
<1>4. talk'[signal'].stage = "none"
  <2>1. talk[jobs + 1] = NoTalk
    BY <1>1 DEF NewOK
  <2>2. QED BY <1>3, <2>1 DEF NoTalk
<1>5. TalkOK' /\ ConfirmOK'
  BY <1>2, <1>4 DEF TalkOK, ConfirmOK
<1>6. NewOK'
  <2>1. \A n \in Jobs : n > jobs' => run'[n] = run[n]
    BY <1>1, <1>3, JobNumbers DEF RunTypes
  <2>2. QED BY <1>3, <2>1, NewKept
<1>7. QED BY <1>5, <1>6

(* What the contact does. *)
LEMMA HeardTalk ==
  ASSUME SecretaryInv, AnswerNext, Heard
  PROVE  Talk'
<1>1. (jobs' # jobs => jobs + 1 \in Jobs) /\ jobs \in Nat
  BY HeardCounts, Room
<1>2. talk' = talk
  BY HeardGoes DEF HeardSame, HeardNew, HeardGone, secretary
<1>3. TalkTypes' /\ CallsOK'
  BY <1>2, TalkSame
<1>4. ASSUME UNCHANGED <<jobs, run>> PROVE NewOK'
  BY <1>2, <1>4, NewKept
<1>5. CASE HeardSame
  <2>1. UNCHANGED <<job, signal, jobs, run>>
    BY <1>5 DEF HeardSame, secretary, marks
  <2>2. SameWords
    BY <2>1 DEF SameWords
  <2>3. QED BY <1>2, <1>3, <1>4, <2>1, <2>2, WordsSame DEF Talk
<1>6. CASE HeardNew
  <2>1. CASE Fresh(heard')
    <3>1. jobs + 1 \in Jobs /\ heard' \in Events
      BY <1>1, <1>6, <2>1 DEF Fresh, HeardNew
    <3>2. QED BY <1>2, <1>3, <2>1, <3>1, FreshTalk DEF Talk
  <2>2. CASE job' = NoJob /\ UNCHANGED <<jobs, run>>
    BY <1>2, <1>3, <1>4, <2>2, WordsSame DEF Talk, SameWords
  <2>3. QED BY <1>6, <2>1, <2>2 DEF HeardNew, Gone, Still
<1>7. CASE HeardGone
  <2>1. UNCHANGED <<signal, jobs, run>>
    BY <1>7 DEF HeardGone
  <2>2. SameWords
    <3>1. CASE UNCHANGED <<job, shown>>
      BY <2>1, <3>1 DEF SameWords
    <3>2. CASE Marked
      <4>1. job \in Briefs /\ job # NoJob
        BY <3>2 DEF SecretaryInv, Brief, JobTypes, Marked
      <4>2. job' \in Briefs /\ job'.exchanges = job.exchanges /\ job'.confirming = job.confirming
        BY <3>2, <4>1, Edits DEF Marked
      <4>3. QED BY <2>1, <4>1, <4>2, SecretaryAssumption DEF SameWords
    <3>3. QED BY <1>7, <3>1, <3>2 DEF HeardGone
  <2>3. QED BY <1>2, <1>3, <1>4, <2>1, <2>2, WordsSame DEF Talk
<1>8. QED BY <1>5, <1>6, <1>7, HeardGoes

(* The mode, reading and removal say nothing. *)
LEMMA ModeTalk ==
  ASSUME SecretaryInv, Mode
  PROVE  Talk'
<1>1. jobs \in Nat
  BY Room
<1>2. CASE setMode \/ installed \/ checkClaude
  <2>1. Switched /\ ContactSame /\ talk' = talk /\ (jobs' # jobs => jobs + 1 \in Jobs)
    BY <1>2, Switches, ModeCounts
  <2>2. TalkTypes' /\ CallsOK'
    BY <2>1, TalkSame DEF ContactSame
  <2>3. CASE Fresh(heard) /\ heard # None
    <3>1. jobs + 1 \in Jobs
      BY <1>1, <2>1, <2>3 DEF Fresh
    <3>2. heard \in Events
      BY <2>3, AnswerParts DEF SecretaryInv, AnswerInv, EventTypes
    <3>3. QED BY <2>1, <2>2, <2>3, <3>1, <3>2, FreshTalk DEF Talk
  <2>4. CASE Still \/ Gone
    <3>1. SameWords /\ UNCHANGED <<jobs, run>>
      BY <2>4 DEF Still, Gone, SameWords
    <3>2. NewOK'
      BY <2>1, <3>1, NewKept
    <3>3. QED BY <2>1, <2>2, <3>1, <3>2, WordsSame DEF Talk
  <2>5. QED BY <2>1, <2>3, <2>4 DEF Switched
<1>3. CASE markSeen
  <2>1. UNCHANGED <<calls, talk, jobs, run, signal>>
    BY <1>3 DEF markSeen, marks
  <2>2. SameWords
    <3>1. job' = job \/ (job # NoJob /\ job' = [job EXCEPT !.seen = TRUE])
      BY <1>3 DEF markSeen, publish
    <3>2. CASE job # NoJob /\ job' = [job EXCEPT !.seen = TRUE]
      <4>1. job \in Briefs
        BY <3>2 DEF SecretaryInv, Brief, JobTypes
      <4>2. job' \in Briefs /\ job'.exchanges = job.exchanges /\ job'.confirming = job.confirming
        BY <3>2, <4>1, Edits
      <4>3. QED BY <2>1, <3>2, <4>2, SecretaryAssumption DEF SameWords
    <3>3. QED BY <2>1, <3>1, <3>2 DEF SameWords
  <2>3. QED BY <2>1, <2>2, TalkSame, NewKept, WordsSame DEF Talk
<1>4. CASE forget
  <2>1. removeInstance /\ UNCHANGED <<talk, jobs, run>> /\ SameWords
    BY <1>4 DEF forget, drop, publish, SameWords
  <2>2. QED BY <2>1, TalkSame, NewKept, WordsSame DEF Talk
<1>5. QED BY <1>2, <1>3, <1>4 DEF Mode

(* Writing and speaking say nothing to the builder's replies. *)
LEMMA RunTalk ==
  ASSUME SecretaryInv, NEW n \in Jobs, written(n) \/ spoken(n)
  PROVE  Talk'
<1>1. /\ run[n].stage # "none" /\ UNCHANGED <<answerVars, marks, readUpTo, talk, signal>>
      /\ JobOK /\ NewOK /\ RunTypes /\ jobs \in Nat
  BY RunsOn, Room DEF SecretaryInv, Brief, Talk
<1>2. UNCHANGED <<calls, talk, jobs, signal>>
  BY <1>1 DEF answerVars, marks
<1>3. PICK k \in RunRecords : run' = [run EXCEPT ![n] = k]
  BY RunsOn
<1>4. ~(n > jobs)
  BY <1>1 DEF NewOK, NoRun
<1>5. NewOK'
  <2>1. \A m \in Jobs : m > jobs' => run'[m] = run[m] /\ talk'[m] = talk[m]
    BY <1>1, <1>2, <1>3, <1>4 DEF RunTypes
  <2>2. QED BY <1>2, <2>1, NewKept
<1>6. SameWords
  <2>1. CASE UNCHANGED <<job, shown>>
    BY <1>2, <2>1 DEF SameWords
  <2>2. CASE isCurrent(n) /\ Publishes(n)
    <3>1. job # NoJob /\ job \in Briefs /\ signal = n
      BY <2>2, JobThere
    <3>2. PICK s \in {"failed", "unavailable", "pending", "ready"}, t \in {0, run[n].seq} :
            job' = [job EXCEPT !.status = s, !.text = t]
      BY <2>2 DEF Publishes
    <3>3. t \in 0..MaxSeq
      <4>1. run[n].seq = job.seq /\ job.seq \in 1..MaxSeq
        BY <1>1, <3>1 DEF JobOK, Briefs
      <4>2. QED BY <3>2, <4>1, AnswerAssumption
    <3>4. job' \in Briefs /\ job'.exchanges = job.exchanges /\ job'.confirming = job.confirming
      <4>1. PICK W : Briefs = [seq : 1..MaxSeq, kind : {"finished", "needs-you"}, text : 0..MaxSeq,
                               status : {"preparing", "failed", "pending", "unavailable", "ready"},
                               handled : BOOLEAN, seen : BOOLEAN, dialog : Dialogs, exchanges : W, confirming : BOOLEAN]
        BY BriefRecords
      <4>2. QED BY <3>1, <3>2, <3>3, <4>1
    <3>5. QED BY <1>2, <3>1, <3>4, SecretaryAssumption DEF SameWords
  <2>3. QED BY <2>1, <2>2, RunsOn
<1>7. QED BY <1>2, <1>5, <1>6, TalkSame, WordsSame DEF Talk

(* While a reply is worked on, no question waits for its yes. *)
LEMMA OpenUnconfirmed ==
  ASSUME SecretaryInv, job # NoJob, talk[signal].stage # "none"
  PROVE  job.confirming = FALSE
<1>1. /\ TalkOK /\ ConfirmOK /\ job \in Briefs
  BY DEF SecretaryInv, Talk, Brief, JobTypes
<1> DEFINE x == talk[signal].x
           e == job.exchanges
<1>2. x \in DOMAIN e /\ e[x] = "open" /\ DOMAIN e = 1..Len(e) /\ Len(e) \in Nat
  BY <1>1, WordsSaid DEF TalkOK
<1>3. \A k \in DOMAIN e : k > x => e[k] = "refused"
  BY <1>1, <1>2 DEF TalkOK
<1> HIDE DEF x, e
<1>4. ASSUME job.confirming PROVE FALSE
  <2>1. PICK i \in 1..Len(e) : e[i] = "confirm" /\ \A k \in i + 1..Len(e) + 1 - 1 : e[k] = "refused"
    BY <1>1, <1>4 DEF ConfirmOK, Asks, e
  <2>2. i # x /\ ~(i > x)
    BY <1>2, <1>3, <2>1
  <2>3. x \in i + 1..Len(e) + 1 - 1
    BY <1>2, <2>1, <2>2
  <2>4. QED BY <1>2, <2>1, <2>3
<1>5. job.confirming \in BOOLEAN
  BY <1>1, Edits
<1>6. QED BY <1>4, <1>5

(* What comes of a reply is said in its exchange; it may be a question a plain yes confirms. *)
LEMMA EndedTalk ==
  ASSUME SecretaryInv, NEW n \in Jobs, Ended(n)
  PROVE  Talk'
<1>1. /\ TalkTypes /\ CallsOK /\ NewOK /\ TalkOK /\ ConfirmOK /\ jobs \in Nat
      /\ (job # NoJob => signal = jobs /\ job \in Briefs)
  BY Room DEF SecretaryInv, Talk, Brief, JobTypes
<1>2. /\ talk[n].stage # "none" /\ talk' = [talk EXCEPT ![n] = NoTalk]
      /\ \A c \in Calls : calls[c].by = n => calls[c].stage \notin Pressed
      /\ UNCHANGED <<calls, jobs, run, signal>>
  BY DEF Ended, answerVars, marks
<1>3. TalkTypes'
  <2>1. NoTalk \in TalkRecords
    BY DEF NoTalk, TalkRecords
  <2>2. QED BY <1>1, <1>2, <2>1 DEF TalkTypes
<1>4. NewOK'
  <2>1. ~(n > jobs)
    BY <1>1, <1>2 DEF NewOK, NoTalk
  <2>2. \A m \in Jobs : m > jobs' => run'[m] = run[m] /\ talk'[m] = talk[m]
    BY <1>1, <1>2, <2>1 DEF TalkTypes
  <2>3. QED BY <1>2, <2>2, NewKept
<1>5. CallsOK'
  BY <1>1, <1>2 DEF CallsOK, TalkTypes
<1>6. CASE ~isCurrent(n) /\ UNCHANGED <<job, shown>>
  <2>1. talk'[signal] = talk[signal] /\ SameWords
    BY <1>1, <1>2, <1>6 DEF isCurrent, SameWords
  <2>2. QED BY <1>3, <1>4, <1>5, <2>1, WordsSame DEF Talk
<1>7. CASE isCurrent(n)
  <2>1. /\ job # NoJob /\ job \in Briefs /\ signal = n /\ job' # NoJob /\ talk[signal].x \in DOMAIN job.exchanges
    BY <1>7, EndedAlike
  <2>2. PICK v \in Settled : /\ job'.exchanges = [job.exchanges EXCEPT ![talk[signal].x] = v]
                             /\ (job'.confirming = job.confirming \/ v = "confirm")
    BY <1>7, EndedAlike
  <2>3. PICK x : x = talk[signal].x
    OBVIOUS
  <2>4. PICK e : e = job.exchanges
    OBVIOUS
  <2>5. PICK f : f = job'.exchanges
    OBVIOUS
  <2>6. /\ e \in Seq(Words) /\ Len(e) \in Nat /\ DOMAIN e = 1..Len(e) /\ x \in 1..Len(e)
    BY <2>1, <2>3, <2>4, Edits, WordsSaid
  <2>7. f = [e EXCEPT ![x] = v]
    BY <2>2, <2>3, <2>4, <2>5
  <2>8. v \in Words /\ v # "open"
    BY DEF Words, Settled
  <2>9. /\ f \in Seq(Words) /\ Len(f) = Len(e) /\ \A k \in 1..Len(e) : f[k] = IF k = x THEN v ELSE e[k]
    BY <2>6, <2>7, <2>8, ExceptSeq
  <2>10. DOMAIN f = 1..Len(e)
    BY <2>6, <2>7
  <2>11. e[x] = "open" /\ \A k \in 1..Len(e) : /\ (e[k] = "open" => k = x)
                                                /\ (k > x => e[k] = "refused")
    BY <1>1, <2>1, <2>3, <2>4, <2>6, <1>2 DEF TalkOK
  <2>12. talk'[signal'].stage = "none"
    BY <1>1, <1>2, <2>1 DEF TalkTypes, NoTalk
  <2>13. TalkOK'
    <3>1. \A k \in DOMAIN f : f[k] # "open"
      BY <2>8, <2>9, <2>10, <2>11
    <3>2. QED BY <2>5, <2>12, <3>1 DEF TalkOK
  <2>14. ConfirmOK'
    <3>1. job.confirming = FALSE
      BY <1>2, <2>1, OpenUnconfirmed
    <3>2. ASSUME job'.confirming PROVE \E i \in 1..Len(f) : f[i] = "confirm" /\ \A k \in i + 1..Len(f) + 1 - 1 : f[k] = "refused"
      <4>1. v = "confirm"
        BY <2>2, <3>1, <3>2
      <4>2. f[x] = "confirm" /\ x \in 1..Len(f)
        BY <2>6, <2>9, <4>1
      <4>3. \A k \in x + 1..Len(f) + 1 - 1 : f[k] = "refused"
        BY <2>6, <2>9, <2>11
      <4>4. QED BY <4>2, <4>3
    <3>3. QED BY <2>5, <2>12, <3>2 DEF ConfirmOK, Asks
  <2>15. QED BY <1>3, <1>4, <1>5, <2>13, <2>14 DEF Talk
<1>8. QED BY <1>6, <1>7 DEF Ended

(* A reply refused at once leaves the one being worked on, and the question before it. *)
LEMMA RefusedTalk ==
  ASSUME SecretaryInv, job # NoJob, job' # NoJob, job'.exchanges = Append(job.exchanges, "refused"),
         job'.confirming = job.confirming, signal' = signal, talk' = talk
  PROVE  TalkOK' /\ ConfirmOK'
<1>1. TalkOK /\ ConfirmOK /\ job \in Briefs
  BY DEF SecretaryInv, Talk, Brief, JobTypes
<1>2. PICK e : e = job.exchanges
  OBVIOUS
<1>3. PICK f : f = job'.exchanges
  OBVIOUS
<1>4. PICK t : t = talk[signal]
  OBVIOUS
<1>5. t = talk'[signal'] /\ f = Append(e, "refused")
  BY <1>2, <1>3, <1>4
<1>6. e \in Seq(Words) /\ Len(e) \in Nat /\ DOMAIN e = 1..Len(e) /\ "refused" \in Words
  BY <1>1, <1>2, Edits, WordsSaid DEF Words, Settled
<1>7. f \in Seq(Words) /\ Len(f) = Len(e) + 1 /\ (\A k \in 1..Len(e) : f[k] = e[k]) /\ f[Len(e) + 1] = "refused"
  BY <1>5, <1>6, AppendProperties
<1>8. DOMAIN f = 1..Len(e) + 1
  BY <1>7, LenProperties
<1>9. /\ t.stage # "none" => t.x \in DOMAIN e /\ e[t.x] = "open"
      /\ \A x \in DOMAIN e : e[x] = "open" =>
           /\ t.stage # "none" /\ t.x = x
           /\ \A k \in DOMAIN e : k > x => e[k] = "refused"
  BY <1>1, <1>2, <1>4 DEF TalkOK
<1>10. /\ t.stage # "none" => t.x \in DOMAIN f /\ f[t.x] = "open"
       /\ \A x \in DOMAIN f : f[x] = "open" =>
            /\ t.stage # "none" /\ t.x = x
            /\ \A k \in DOMAIN f : k > x => f[k] = "refused"
  <2>1. t.stage # "none" => t.x \in DOMAIN f /\ f[t.x] = "open"
    BY <1>6, <1>7, <1>8, <1>9
  <2>2. ASSUME NEW x \in DOMAIN f, f[x] = "open"
        PROVE  /\ t.stage # "none" /\ t.x = x
               /\ \A k \in DOMAIN f : k > x => f[k] = "refused"
    <3>1. x \in 1..Len(e) /\ e[x] = "open"
      BY <1>6, <1>7, <1>8, <2>2
    <3>2. QED BY <1>6, <1>7, <1>8, <1>9, <3>1
  <2>3. QED BY <2>1, <2>2
<1>11. TalkOK'
  BY <1>3, <1>5, <1>10 DEF TalkOK
<1>12. ConfirmOK'
  <2>1. ASSUME NEW i \in 1..Len(e), Asks(i, Len(e) + 1) PROVE Asks(i, Len(f) + 1)'
    <3>1. e[i] = "confirm" /\ \A k \in i + 1..Len(e) + 1 - 1 : e[k] = "refused"
      BY <1>2, <2>1 DEF Asks
    <3>2. f[i] = "confirm" /\ \A k \in i + 1..Len(f) + 1 - 1 : f[k] = "refused"
      <4>1. f[i] = "confirm"
        BY <1>7, <3>1
      <4>2. ASSUME NEW k \in i + 1..Len(f) + 1 - 1 PROVE f[k] = "refused"
        <5>0. Len(e) \in Nat /\ Len(f) = Len(e) + 1
          BY <1>6, <1>7
        <5>1. k \in i + 1..Len(e) + 1 - 1 \/ k = Len(e) + 1
          BY <5>0
        <5>2. k \in i + 1..Len(e) + 1 - 1 => k \in 1..Len(e)
          BY <5>0
        <5>3. QED BY <1>7, <3>1, <5>1, <5>2
      <4>3. QED BY <4>1, <4>2
    <3>3. ASSUME NEW m, m = Len(f) + 1 PROVE Asks(i, m)'
      <4>1. f[i] = "confirm" /\ \A k \in i + 1..m - 1 : f[k] = "refused"
        BY <3>2, <3>3
      <4>2. QED BY <1>3, <4>1 DEF Asks
    <3>4. QED BY <3>3
  <2>2. job'.confirming => \E i \in 1..Len(f) : Asks(i, Len(f) + 1)'
    <3>1. job.confirming => \E i \in 1..Len(e) : Asks(i, Len(e) + 1)
      BY <1>1, <1>2 DEF ConfirmOK
    <3>2. 1..Len(e) \subseteq 1..Len(f)
      BY <1>6, <1>7
    <3>3. QED BY <2>1, <3>1, <3>2
  <2>3. (t.stage = "pressing" /\ t.wide) => \E i \in 1..t.x - 1 : Asks(i, t.x)'
    <3>1. ASSUME t.stage = "pressing", t.wide PROVE \E i \in 1..t.x - 1 : Asks(i, t.x)'
      <4>1. t.x \in 1..Len(e)
        BY <1>6, <1>9, <3>1
      <4>2. PICK i \in 1..t.x - 1 : e[i] = "confirm" /\ \A k \in i + 1..t.x - 1 : e[k] = "refused"
        BY <1>1, <1>2, <1>4, <3>1 DEF ConfirmOK, Asks
      <4>3. f[i] = "confirm" /\ \A k \in i + 1..t.x - 1 : f[k] = "refused"
        BY <1>6, <1>7, <4>1, <4>2
      <4>4. Asks(i, t.x)'
        BY <1>3, <4>3 DEF Asks
      <4>5. QED BY <4>4
    <3>2. QED BY <3>1
  <2>4. QED BY <1>3, <1>5, <2>2, <2>3 DEF ConfirmOK
<1>13. QED BY <1>11, <1>12

(* One that is worked on is the only one; a wider choice is pressed at once on a plain yes alone. *)
LEMMA SaidTalk ==
  ASSUME SecretaryInv, job # NoJob, job' # NoJob, ~busy, job'.exchanges = Append(job.exchanges, "open"),
         job'.confirming = FALSE, signal' = signal, NEW t, talk'[signal] = t,
         t.stage \in {"reading", "pressing"}, t.x = Len(job.exchanges) + 1, t.wide => job.confirming
  PROVE  TalkOK' /\ ConfirmOK'
<1>1. ConfirmOK /\ job \in Briefs
  BY DEF SecretaryInv, Talk, Brief, JobTypes
<1>2. PICK e : e = job.exchanges
  OBVIOUS
<1>3. PICK f : f = job'.exchanges
  OBVIOUS
<1>4. e \in Seq(Words) /\ Len(e) \in Nat /\ DOMAIN e = 1..Len(e) /\ "open" \in Words
  BY <1>1, <1>2, Edits, WordsSaid DEF Words
<1>5. /\ f \in Seq(Words) /\ Len(f) = Len(e) + 1 /\ (\A k \in 1..Len(e) : f[k] = e[k]) /\ f[Len(e) + 1] = "open"
  <2>1. f = Append(e, "open")
    BY <1>2, <1>3
  <2>2. QED BY <1>4, <2>1, AppendProperties
<1>6. DOMAIN f = 1..Len(e) + 1
  BY <1>5, LenProperties
<1>7. \A k \in 1..Len(e) : e[k] # "open"
  BY <1>2, <1>4 DEF busy
<1>8. TalkOK'
  <2>1. t.x \in DOMAIN f /\ f[t.x] = "open" /\ t.stage # "none"
    BY <1>2, <1>4, <1>5, <1>6
  <2>2. \A x \in DOMAIN f : f[x] = "open" => x = t.x /\ \A k \in DOMAIN f : ~(k > x)
    BY <1>2, <1>4, <1>5, <1>6, <1>7
  <2>3. QED BY <1>3, <2>1, <2>2 DEF TalkOK
<1>9. t.wide => \E i \in 1..t.x - 1 : Asks(i, t.x)'
  <2>1. ASSUME t.wide PROVE \E i \in 1..t.x - 1 : Asks(i, t.x)'
    <3>1. PICK i \in 1..Len(e) : e[i] = "confirm" /\ \A k \in i + 1..Len(e) + 1 - 1 : e[k] = "refused"
      BY <1>1, <1>2, <2>1 DEF ConfirmOK, Asks
    <3>2. f[i] = "confirm" /\ i \in 1..t.x - 1 /\ \A k \in i + 1..t.x - 1 : f[k] = "refused"
      <4>1. Len(e) \in Nat /\ t.x = Len(e) + 1
        BY <1>2, <1>4
      <4>2. f[i] = "confirm" /\ i \in 1..t.x - 1
        BY <1>5, <3>1, <4>1
      <4>3. ASSUME NEW k \in i + 1..t.x - 1 PROVE f[k] = "refused"
        <5>1. k \in i + 1..Len(e) + 1 - 1 /\ k \in 1..Len(e)
          BY <4>1, <4>3
        <5>2. QED BY <1>5, <3>1, <5>1
      <4>4. QED BY <4>2, <4>3
    <3>3. Asks(i, t.x)'
      BY <1>3, <3>2 DEF Asks
    <3>4. QED BY <3>2, <3>3
  <2>2. QED BY <2>1
<1>10. ConfirmOK'
  BY <1>9 DEF ConfirmOK
<1>11. QED BY <1>8, <1>10

(* Only the current job's talk changes; the answer it presses is the only one under way for it. *)
LEMMA PressedCalls ==
  ASSUME SecretaryInv, job # NoJob, NEW j, NEW x \in Nat, NEW wide \in BOOLEAN, PressedFor(j, x, wide),
         talk[signal].stage # "pressing", UNCHANGED <<jobs, run>>
  PROVE  /\ TalkTypes' /\ CallsOK' /\ NewOK'
         /\ \E t \in TalkRecords : talk'[signal] = t /\ t.stage = "pressing" /\ t.x = x /\ t.wide = wide
<1>1. /\ TalkTypes /\ CallsOK /\ signal = jobs /\ jobs \in Nat /\ signal \in Jobs
  BY Room DEF SecretaryInv, Talk, Brief, JobTypes, Counts, MarkTypes
<1>2. PICK c \in Calls :
        /\ talk' = [talk EXCEPT ![signal] = [stage |-> "pressing", x |-> x, wide |-> wide, call |-> c]]
        /\ calls'[c].by = signal /\ \A d \in Calls : d # c => calls'[d] = calls[d]
  BY DEF PressedFor
<1>3. PICK t : t = [stage |-> "pressing", x |-> x, wide |-> wide, call |-> c]
  OBVIOUS
<1>4. t \in TalkRecords /\ t.stage = "pressing" /\ t.x = x /\ t.wide = wide /\ t.call = c
  BY <1>3 DEF TalkRecords
<1>5. talk' = [talk EXCEPT ![signal] = t]
  BY <1>2, <1>3
<1>6. TalkTypes' /\ talk'[signal] = t
  BY <1>1, <1>4, <1>5 DEF TalkTypes
<1>7. ASSUME NEW n \in Jobs, NEW d \in Calls, calls'[d].by = n, calls'[d].stage \in Pressed
      PROVE  talk'[n].stage = "pressing" /\ talk'[n].call = d
  <2>1. CASE d = c
    BY <1>2, <1>4, <1>6, <1>7, <2>1
  <2>2. CASE d # c
    <3>1. talk[n].stage = "pressing" /\ talk[n].call = d
      BY <1>1, <1>2, <1>7, <2>2 DEF CallsOK
    <3>2. n # signal
      BY <3>1
    <3>3. QED BY <1>1, <1>5, <3>1, <3>2 DEF TalkTypes
  <2>3. QED BY <2>1, <2>2
<1>8. CallsOK'
  BY <1>7 DEF CallsOK
<1>9. NewOK'
  <2>1. \A n \in Jobs : n > jobs' => run'[n] = run[n] /\ talk'[n] = talk[n]
    BY <1>1, <1>5, JobNumbers DEF TalkTypes, SecretaryInv, Counts
  <2>2. QED BY <2>1, NewKept
<1>10. QED BY <1>4, <1>6, <1>8, <1>9

(* The words of a brief that is marked handled stay. *)
LEMMA HandledWords ==
  ASSUME NEW j, Alike(j), NEW x, NEW wide, PressedFor(j, x, wide)
  PROVE  job' # NoJob /\ job'.exchanges = j.exchanges /\ job'.confirming = j.confirming
<1>1. j \in Briefs
  BY DEF Alike
<1>2. CASE job' = j
  BY <1>1, <1>2, SecretaryAssumption
<1>3. CASE job' = [j EXCEPT !.handled = TRUE]
  BY <1>1, <1>3, Edits, SecretaryAssumption
<1>4. QED BY <1>2, <1>3 DEF PressedFor

(* The choice the model made of a reply is pressed; it is none that widens. *)
LEMMA ChosenTalk ==
  ASSUME SecretaryInv, NEW n \in Jobs, chosen(n)
  PROVE  Talk'
<1>1. /\ job # NoJob /\ n = signal /\ talk[n].stage = "reading" /\ PressedFor(job, talk[n].x, FALSE)
      /\ UNCHANGED <<jobs, run, signal>>
  BY Chooses
<1>2. /\ TalkTypes /\ TalkOK /\ ConfirmOK /\ job \in Briefs
  BY <1>1 DEF SecretaryInv, Talk, Brief, JobTypes
<1>3. talk[n].x \in Nat /\ FALSE \in BOOLEAN
  BY <1>2 DEF TalkTypes, TalkRecords
<1>4. PICK x \in Nat : x = talk[n].x
  BY <1>3
<1>5. PressedFor(job, x, FALSE) /\ talk[signal].stage # "pressing"
  BY <1>1, <1>4
<1>6. /\ TalkTypes' /\ CallsOK' /\ NewOK'
      /\ \E t \in TalkRecords : talk'[signal] = t /\ t.stage = "pressing" /\ t.x = x /\ t.wide = FALSE
  BY ZenonT(40), <1>1, <1>3, <1>5, PressedCalls
<1>7. job' # NoJob /\ job'.exchanges = job.exchanges /\ job'.confirming = job.confirming
  BY <1>2, <1>5, HandledWords DEF Alike
<1>8. PICK t \in TalkRecords : talk'[signal] = t /\ t.stage = "pressing" /\ t.x = x /\ t.wide = FALSE
  BY <1>6
<1>9. talk[signal].stage # "none" /\ talk[signal].x = x
  BY <1>1, <1>4
<1>10. TalkOK'
  BY <1>1, <1>2, <1>7, <1>8, <1>9 DEF TalkOK
<1>11. ConfirmOK'
  BY <1>1, <1>2, <1>7, <1>8 DEF ConfirmOK, Asks
<1>12. QED BY <1>6, <1>10, <1>11 DEF Talk

(* A reply of the builder. *)
LEMMA ReplyTalk ==
  ASSUME SecretaryInv, NEW yes \in BOOLEAN, reply(yes)
  PROVE  Talk'
<1>1. /\ job # NoJob /\ UNCHANGED <<saved, claude, jobs, readUpTo, run>>
      /\ \/ ContactSame /\ (Refuses \/ Listens \/ GivesUp)
         \/ Confirms
  BY Replies
<1>2. /\ TalkTypes /\ TalkOK /\ CallsOK /\ job \in Briefs /\ signal = jobs /\ jobs \in Nat /\ signal \in Jobs
  BY <1>1, Room DEF SecretaryInv, Talk, Brief, JobTypes, Counts, MarkTypes
<1>3. /\ Alike(Unconfirmed(Said("open"))) /\ Unconfirmed(Said("open")).exchanges = Append(job.exchanges, "open")
      /\ Unconfirmed(Said("open")).confirming = FALSE
      /\ Alike(settle(Said("open"), Len(job.exchanges) + 1, "refused"))
      /\ settle(Said("open"), Len(job.exchanges) + 1, "refused").exchanges = Append(job.exchanges, "refused")
      /\ settle(Said("open"), Len(job.exchanges) + 1, "refused").confirming = job.confirming
  BY <1>2, SaidAlike
<1>4. /\ Len(job.exchanges) + 1 \in Nat
      /\ ~busy => talk[signal].stage = "none"
  <2>1. Len(job.exchanges) \in Nat
    BY <1>2, WordsSaid
  <2>2. ~busy => talk[signal].stage = "none"
    BY <1>1, <1>2 DEF TalkOK, busy
  <2>3. QED BY <2>1, <2>2
<1>5. CASE ContactSame /\ Refuses
  <2>1. /\ job' = settle(Said("open"), Len(job.exchanges) + 1, "refused") /\ UNCHANGED <<calls, talk, signal>>
    BY <1>5 DEF Refuses, ContactSame
  <2>2. job' # NoJob
    BY <1>3, <2>1, SecretaryAssumption DEF Alike
  <2>3. TalkOK' /\ ConfirmOK'
    BY <1>1, <1>3, <2>1, <2>2, RefusedTalk
  <2>4. QED BY <1>1, <2>1, <2>3, TalkSame, NewKept DEF Talk
<1>6. CASE ContactSame /\ Listens
  <2>1. PICK t : t = [stage |-> "reading", x |-> Len(job.exchanges) + 1, wide |-> FALSE, call |-> 0]
    OBVIOUS
  <2>2. t \in TalkRecords /\ t.stage = "reading" /\ t.x = Len(job.exchanges) + 1 /\ t.wide = FALSE
    BY <1>4, <2>1 DEF TalkRecords
  <2>3. /\ ~busy /\ job' = Unconfirmed(Said("open")) /\ UNCHANGED <<calls, signal>>
        /\ talk' = [talk EXCEPT ![signal] = t]
    BY <1>6, <2>1 DEF Listens, ContactSame
  <2>4. TalkTypes' /\ talk'[signal] = t
    BY <1>2, <2>2, <2>3 DEF TalkTypes
  <2>5. job' # NoJob
    BY <1>3, <2>3, SecretaryAssumption DEF Alike
  <2>6. TalkOK' /\ ConfirmOK'
    BY <1>1, <1>3, <2>2, <2>3, <2>4, <2>5, SaidTalk
  <2>7. CallsOK'
    <3>1. talk[signal].stage = "none"
      BY <1>4, <2>3
    <3>2. ASSUME NEW n \in Jobs, NEW c \in Calls, calls'[c].by = n, calls'[c].stage \in Pressed
          PROVE  talk'[n].stage = "pressing" /\ talk'[n].call = c
      <4>1. talk[n].stage = "pressing" /\ talk[n].call = c
        BY <1>2, <2>3, <3>2 DEF CallsOK
      <4>2. n # signal
        BY <3>1, <4>1
      <4>3. QED BY <1>2, <2>3, <4>1, <4>2 DEF TalkTypes
    <3>3. QED BY <3>2 DEF CallsOK
  <2>8. NewOK'
    <3>1. \A n \in Jobs : n > jobs' => run'[n] = run[n] /\ talk'[n] = talk[n]
      BY <1>1, <1>2, <2>3, JobNumbers DEF TalkTypes, SecretaryInv, Counts
    <3>2. QED BY <1>1, <3>1, NewKept
  <2>9. QED BY <2>4, <2>6, <2>7, <2>8 DEF Talk
<1>7. CASE ContactSame /\ GivesUp
  <2>1. job' = NoJob /\ UNCHANGED <<calls, talk>>
    BY <1>7 DEF GivesUp, ContactSame
  <2>2. QED BY <1>1, <2>1, TalkSame, NewKept, WordsSame DEF Talk, SameWords
<1>8. CASE Confirms
  <2>1. PICK x \in Nat : x = Len(job.exchanges) + 1
    BY <1>4
  <2>2. PICK j : j = Unconfirmed(Said("open"))
    OBVIOUS
  <2>3. ~busy /\ job.confirming /\ PressedFor(j, x, TRUE) /\ signal' = signal
    BY <1>8, <2>1, <2>2 DEF Confirms
  <2>4. Alike(j) /\ j.exchanges = Append(job.exchanges, "open") /\ j.confirming = FALSE
    BY <1>3, <2>2
  <2>5. job' # NoJob /\ job'.exchanges = Append(job.exchanges, "open") /\ job'.confirming = FALSE
    BY <2>3, <2>4, HandledWords
  <2>6. talk[signal].stage # "pressing" /\ TRUE \in BOOLEAN
    BY <1>4, <2>3
  <2>7. /\ TalkTypes' /\ CallsOK' /\ NewOK'
        /\ \E t \in TalkRecords : talk'[signal] = t /\ t.stage = "pressing" /\ t.x = x /\ t.wide = TRUE
    BY <1>1, <2>3, <2>6, PressedCalls
  <2>8. PICK t \in TalkRecords : talk'[signal] = t /\ t.stage = "pressing" /\ t.x = x /\ t.wide = TRUE
    BY <2>7
  <2>9. TalkOK' /\ ConfirmOK'
    BY <1>1, <2>1, <2>3, <2>5, <2>8, SaidTalk
  <2>10. QED BY <2>7, <2>9 DEF Talk
<1>9. QED BY <1>1, <1>5, <1>6, <1>7, <1>8

(* The talk is as the card says, whatever happens. *)
LEMMA TalkKept ==
  ASSUME SecretaryInv, Next
  PROVE  Talk'
<1>1. CASE AnswerNext /\ Heard
  BY <1>1, HeardTalk
<1>2. CASE Mode
  BY <1>2, ModeTalk
<1>3. CASE Job
  <2>1. PICK n \in Jobs : written(n) \/ spoken(n) \/ interpreted(n) \/ chosen(n) \/ pressed(n)
    BY <1>3 DEF Job
  <2>2. QED BY <2>1, RunTalk, Ends, EndedTalk, ChosenTalk
<1>4. CASE \E yes \in BOOLEAN : reply(yes)
  BY <1>4, ReplyTalk
<1>5. QED BY <1>1, <1>2, <1>3, <1>4 DEF Next

-----------------------------------------------------------------------------
(* The theorems *)

(* It holds when the contact was started. *)
LEMMA SecretaryStarts == Init => SecretaryInv
<1> SUFFICES ASSUME Init PROVE SecretaryInv
  OBVIOUS
<1>1. AnswerInv /\ MaxSeq \in Nat /\ MaxModes \in Nat /\ budget \in Budgets /\ secretarySeq = 0 /\ heard = None
  BY AnswerInitHolds, AnswerAssumption, SecretaryAssumption DEF Init, AnswerInit
<1>2. /\ claude = TRUE /\ on = saved /\ saved \in BOOLEAN /\ jobs = 0 /\ signal = 0 /\ job = NoJob /\ shown = NoJob
      /\ readUpTo = 0 /\ run = [n \in Jobs |-> NoRun] /\ talk = [n \in Jobs |-> NoTalk]
  BY DEF Init
<1>3. Counts
  <2>1. budget["modes"] \in Nat /\ budget["modes"] <= MaxModes
    BY <1>1, AnswerAssumption, SecretaryAssumption DEF BudgetItems
  <2>2. JobsOK
    BY <1>1, <1>2, <2>1 DEF JobsOK
  <2>3. QED BY <1>1, <1>2, <2>2 DEF Counts, OnOK, MarkTypes
<1>4. Brief
  <2>1. NoRun \in RunRecords
    BY <1>1 DEF NoRun, RunRecords
  <2>2. JobTypes /\ RunTypes
    BY <1>2, <2>1 DEF JobTypes, RunTypes, Card
  <2>3. JobOK /\ BriefOK
    BY <1>1, <1>2 DEF JobOK, BriefOK
  <2>4. QED BY <2>2, <2>3 DEF Brief
<1>5. Talk
  <2>1. NoTalk \in TalkRecords
    BY DEF NoTalk, TalkRecords
  <2>2. TalkTypes /\ NewOK /\ TalkOK /\ ConfirmOK
    BY <1>2, <2>1 DEF TalkTypes, NewOK, TalkOK, ConfirmOK
  <2>3. CallsOK
    BY DEF Init, AnswerInit, CallsOK, NoCall, Pressed
  <2>4. QED BY <2>2, <2>3 DEF Talk
<1>6. QED BY <1>1, <1>3, <1>4, <1>5 DEF SecretaryInv

(* Each step keeps it. *)
LEMMA SecretaryKept ==
  ASSUME SecretaryInv, Next
  PROVE  SecretaryInv'
<1>1. Counts'
  BY HeardCounts, ModeCounts, OtherCounts DEF Next, Mode
<1>2. QED BY <1>1, ContactKept, BriefKept, TalkKept DEF SecretaryInv

(* Nor does a stutter disturb it. *)
LEMMA SecretaryStutters ==
  ASSUME SecretaryInv, UNCHANGED vars
  PROVE  SecretaryInv'
<1>1. /\ UNCHANGED <<backend, records, event, writes, attention, answering, runState, calls, stops, stopping>>
      /\ UNCHANGED <<budget, secretarySeq, heard, instances, calls>>
      /\ UNCHANGED <<saved, on, claude, jobs, job, shown, readUpTo, run, talk, signal>>
  BY DEF vars, answerVars, secretary, marks, event, records
<1>2. AnswerInv'
  BY <1>1, AnswerBeside DEF SecretaryInv, Pays
<1>3. Counts'
  BY <1>1 DEF SecretaryInv, Counts, JobsOK, OnOK, MarkTypes
<1>4. JobTypes' /\ RunTypes' /\ JobOK'
  BY <1>1 DEF SecretaryInv, Brief, JobTypes, RunTypes, JobOK, Card
<1>5. AsBefore
  BY <1>1 DEF AsBefore
<1>6. BriefOK'
  BY <1>5, StillFollows
<1>7. Talk'
  BY <1>1, TalkSame, NewKept, WordsSame DEF Talk, SameWords
<1>8. QED BY <1>2, <1>3, <1>4, <1>6, <1>7 DEF SecretaryInv, Brief

(* The invariant, of every behaviour of the contact and its secretary. *)
THEOREM SecretaryInvariant == Spec => []SecretaryInv
<1>1. Init => SecretaryInv
  BY SecretaryStarts
<1>2. SecretaryInv /\ [Next]_vars => SecretaryInv'
  BY SecretaryKept, SecretaryStutters
<1>3. QED BY <1>1, <1>2, PTL DEF Spec

(* A set in which any two are one has one member at most. *)
LEMMA AtMostOne ==
  ASSUME NEW S, \A a, b \in S : a = b
  PROVE  Cardinality(S) <= 1
<1>1. CASE S = {}
  BY <1>1, FS_EmptySet
<1>2. CASE S # {}
  <2>1. PICK a \in S : TRUE
    BY <1>2
  <2>2. S = {a}
    BY <2>1
  <2>3. Cardinality({a}) = 1
    BY FS_Singleton
  <2>4. QED BY <2>2, <2>3
<1>3. QED BY <1>1, <1>2

(* The card is that of the current job, with its marks, and its text is about its own event: what
   a dropped job's writer or speaker ends with, however late, is not shown (publish, isCurrent). *)
THEOREM CardAlwaysTrue == Spec => []CardIsTrue
<1>1. SecretaryInv => CardIsTrue
  BY DEF SecretaryInv, Brief, JobTypes, JobOK, CardIsTrue
<1>2. QED BY <1>1, SecretaryInvariant, PTL

(* While the secretary is on, the event that waits has its brief and no other is open, through
   restarts and switches of the mode; and what quitting asks about agrees with it (onEvent, apply). *)
THEOREM BriefsAlwaysFollow == Spec => []BriefsFollowEvents
<1>1. ASSUME SecretaryInv PROVE BriefsFollowEvents
  <2>1. RunStateAgrees /\ BriefOK /\ heard = IF instances = 0 THEN None ELSE secretaryEvent[instances]
    BY <1>1 DEF SecretaryInv, AnswerInv, Brief, HeardOK
  <2>2. QED BY <2>1 DEF BriefOK, BriefsFollowEvents
<1>2. QED BY <1>1, SecretaryInvariant, PTL

(* One reply of a card is worked on at a time, one answer is under way for it and one is typed into
   a dialog, and a choice that widens is pressed only right after its question (reply, answerDialog). *)
THEOREM RepliesAlwaysMeant == Spec => []RepliesAreMeant
<1>1. ASSUME SecretaryInv PROVE RepliesAreMeant
  <2>1. /\ TypeOK /\ MarkTypes /\ JobTypes /\ RunTypes /\ TalkTypes /\ TalkOK /\ ConfirmOK /\ CallsOK /\ AnswerInv
        /\ \A n \in Jobs : n # 0
    BY <1>1, JobNumbers DEF SecretaryInv, AnswerInv, Counts, Brief, Talk
  <2>2. SecretaryTypeOK /\ OneAnswerPerDialog
    BY <2>1, SecretaryTypes, OneAnswers
  <2>3. job # NoJob => Cardinality({x \in DOMAIN job.exchanges : job.exchanges[x] = "open"}) <= 1
    <3>1. ASSUME job # NoJob
          PROVE  \A x, y \in {k \in DOMAIN job.exchanges : job.exchanges[k] = "open"} : x = y
      BY <2>1, <3>1 DEF TalkOK
    <3>2. QED BY <3>1, AtMostOne
  <2>4. ASSUME NEW n \in Jobs
        PROVE  /\ Cardinality({c \in Calls : calls[c].by = n /\ calls[c].stage \in Pressed}) <= 1
               /\ talk[n].stage = "pressing" /\ talk[n].wide /\ isCurrent(n) =>
                    \E i \in 1..talk[n].x - 1 :
                      /\ job.exchanges[i] = "confirm"
                      /\ \A k \in i + 1..talk[n].x - 1 : job.exchanges[k] = "refused"
    <3>1. \A c, d \in {m \in Calls : calls[m].by = n /\ calls[m].stage \in Pressed} : c = d
      BY <2>1 DEF CallsOK
    <3>2. ASSUME talk[n].stage = "pressing", talk[n].wide, isCurrent(n)
          PROVE  \E i \in 1..talk[n].x - 1 : Asks(i, talk[n].x)
      <4>1. job # NoJob /\ signal = n
        BY <1>1, <3>2, JobThere
      <4>2. QED BY <2>1, <3>2, <4>1 DEF ConfirmOK
    <3>3. QED BY <3>1, <3>2, AtMostOne DEF Asks
  <2>5. QED BY <2>2, <2>3, <2>4 DEF RepliesAreMeant
<1>2. QED BY <1>1, SecretaryInvariant, PTL

(* The first key of an answer goes to its own dialog while that is live, each later one to the same
   process with nothing reported or typed in between, none once it is called off (stillOurs). *)
THEOREM KeysAlwaysTogether == Spec => KeysStayTogether
<1>1. ASSUME SecretaryInv, Next PROVE KeysTogether \/ UNCHANGED answerVars \/ calls' = calls
  BY <1>1, ContactKept, KeysStep DEF SecretaryInv, ContactSame
<1>2. ASSUME SecretaryInv, [Next]_vars PROVE [KeysTogether]_answerVars
  <2>1. ASSUME calls' = calls PROVE KeysTogether
    <3>1. \A c \in Calls : calls[c].at \in 0..2
      BY <1>2, AnswerParts DEF SecretaryInv, AnswerInv, CallTypes, CallRecords
    <3>2. QED BY <2>1, <3>1 DEF KeysTogether
  <2>2. UNCHANGED vars => UNCHANGED answerVars
    BY DEF vars
  <2>3. QED BY <1>1, <1>2, <2>1, <2>2
<1>3. SecretaryInv /\ [Next]_vars => [KeysTogether]_answerVars
  BY <1>2
<1>4. QED BY <1>3, SecretaryInvariant, PTL DEF Spec, KeysStayTogether, KeysTogether

(* Each Esc of a Stop hits the turn and the view it was asked for, with no dialog known to be up
   and no answer between its keys (interrupt, interruptInstance). *)
THEOREM StopsAlwaysHit == Spec => StopHitsItsTurn
<1>1. ASSUME SecretaryInv, Next PROVE StopHits \/ inputWrites' = inputWrites
  BY <1>1, ContactKept, StopStep DEF SecretaryInv, ContactSame, writes
<1>2. ASSUME SecretaryInv, [Next]_vars PROVE [StopHits]_answerVars
  <2>1. ASSUME inputWrites' = inputWrites PROVE StopHits
    <3>1. \A r \in Records : inputWrites[r] \in Nat
      BY <1>2, AnswerParts DEF SecretaryInv, AnswerInv, WriteTypes
    <3>2. QED BY <2>1, <3>1 DEF StopHits
  <2>2. UNCHANGED vars => UNCHANGED answerVars
    BY DEF vars
  <2>3. QED BY <1>1, <1>2, <2>1, <2>2
<1>3. SecretaryInv /\ [Next]_vars => [StopHits]_answerVars
  BY <1>2
<1>4. QED BY <1>3, SecretaryInvariant, PTL DEF Spec, StopHitsItsTurn, StopHits
=============================================================================
