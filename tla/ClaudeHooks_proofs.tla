------------------------- MODULE ClaudeHooks_proofs -------------------------
(***************************************************************************)
(* Proofs about ClaudeHooks, for any subagents, numbers of turns, polls and *)
(* deliveries on their way.                                                 *)
(***************************************************************************)
EXTENDS ClaudeHooks, TLAPS

Events == {"UserPromptSubmit", "Stop", "SubagentStop", "StopFailure", "PostCompact",
           "AutoCompact", "PermissionRequest", "Elicitation", "ElicitationResult"}

(* The types, by what changes together. *)
CliOK ==
  /\ hooksRun \in BOOLEAN
  /\ turn \in {"idle", "working", "stopping", "failing"}
  /\ turnNo \in 0..MaxTurns /\ ended \in 0..MaxTurns
  /\ agents \subseteq Agents
  /\ asking \subseteq Agents \cup {Main, Mcp}
  /\ panel \in BOOLEAN /\ wake \in BOOLEAN

FinishingOK ==
  /\ pending \in {"none", "confirm", "hold", "grace"}
  /\ held \subseteq Agents
  /\ pendingTurn \in 0..MaxTurns
  /\ timer \in BOOLEAN
  /\ checks \in 0..GiveUpChecks

FlagsOK ==
  /\ gaveUp \in BOOLEAN /\ misread \in BOOLEAN
  /\ promptOutstanding \in BOOLEAN /\ stopped \in BOOLEAN

HealthOK ==
  /\ heardFromHooks \in BOOLEAN /\ reportedMissing \in BOOLEAN
  /\ seenPolls \in 0..MissingPolls + 1

ReportsOK ==
  /\ knownRunning \subseteq Agents
  /\ reports \in Seq(0..MaxTurns)

PostsOK == posts \in Seq(Deliveries)

LEMMA Parts == TypeOK <=> CliOK /\ PostsOK /\ FinishingOK /\ FlagsOK /\ HealthOK /\ ReportsOK
BY DEF TypeOK, FlagsOK, CliOK, PostsOK, FinishingOK, HealthOK, ReportsOK

LEMMA PartsNext == TypeOK' <=> CliOK' /\ PostsOK' /\ FinishingOK' /\ FlagsOK' /\ HealthOK' /\ ReportsOK'
BY DEF TypeOK, FlagsOK, CliOK, PostsOK, FinishingOK, HealthOK, ReportsOK

LEMMA Unchanged ==
  /\ CliOK /\ UNCHANGED cli => CliOK'
  /\ FinishingOK /\ UNCHANGED finishing => FinishingOK'
  /\ FlagsOK /\ UNCHANGED <<gaveUp, misread, promptOutstanding, stopped>> => FlagsOK'
  /\ HealthOK /\ UNCHANGED health => HealthOK'
  /\ ReportsOK /\ UNCHANGED <<knownRunning, reports>> => ReportsOK'
  /\ PostsOK /\ UNCHANGED posts => PostsOK'
<1>1. CliOK /\ UNCHANGED cli => CliOK'
  BY Zenon DEF CliOK, cli
<1>2. FinishingOK /\ UNCHANGED finishing => FinishingOK'
  BY Zenon DEF FinishingOK, finishing
<1>3. FlagsOK /\ UNCHANGED <<gaveUp, misread, promptOutstanding, stopped>> => FlagsOK'
  BY Zenon DEF FlagsOK
<1>4. HealthOK /\ UNCHANGED health => HealthOK'
  BY Zenon DEF HealthOK, health
<1>5. ReportsOK /\ UNCHANGED <<knownRunning, reports>> => ReportsOK'
  BY Zenon DEF ReportsOK
<1>6. PostsOK /\ UNCHANGED posts => PostsOK'
  BY DEF PostsOK
<1>7. QED BY <1>1, <1>2, <1>3, <1>4, <1>5, <1>6

(* What is posted joins the end of what is on its way. *)
LEMMA Posting ==
  ASSUME CliOK, PostsOK, NEW event \in Events, NEW agent \in Agents \cup {Main},
         NEW running \in SUBSET Agents, turnNo' \in 0..MaxTurns, Post(event, agent, running)
  PROVE  PostsOK'
<1> DEFINE p == [event |-> event, agent |-> agent, running |-> running, turn |-> turnNo']
<1>1. p \in Deliveries
  BY DEF Deliveries, Events
<1>2. posts' = Append(posts, p) \/ posts' = posts
  BY DEF Post
<1> HIDE DEF p
<1>3. QED BY <1>1, <1>2 DEF PostsOK

(* What has arrived is the first of what was on its way. *)
LEMMA Receiving ==
  ASSUME PostsOK, posts # <<>>, posts' = Tail(posts)
  PROVE  Head(posts) \in Deliveries /\ PostsOK'
BY DEF PostsOK

(* Every step of the CLI keeps the types. *)
LEMMA CliTypes == ASSUME TypeOK, CliStep PROVE TypeOK'
<1> USE HooksAssumption
<1>1. CliOK /\ PostsOK /\ FinishingOK /\ FlagsOK /\ HealthOK /\ ReportsOK
  BY Parts
<1>2. UNCHANGED ours
  BY DEF CliStep, Prompt, StopTurn, Settle, Block, FailTurn, Interrupt, Compact, AutoCompact,
         Panel, StartAgent, EndAgent, Ask, Answer
<1>3. FinishingOK' /\ FlagsOK' /\ HealthOK' /\ ReportsOK'
  BY <1>1, <1>2, Unchanged DEF ours, finishing
<1>4. turnNo' \in 0..MaxTurns
  <2>1. turnNo' = turnNo \/ (turnNo < MaxTurns /\ turnNo' = turnNo + 1)
    BY DEF CliStep, Prompt, StopTurn, Settle, Block, FailTurn, Interrupt, Compact, AutoCompact,
           Panel, StartAgent, EndAgent, Ask, Answer
  <2>2. QED BY <1>1, <2>1 DEF CliOK
<1>5. PostsOK'
  <2>1. CASE UNCHANGED posts
    BY <2>1, <1>1, Unchanged
  <2>2. ASSUME NEW event \in Events, NEW agent \in Agents \cup {Main},
               NEW running \in SUBSET Agents, Post(event, agent, running)
        PROVE  PostsOK'
    BY <2>2, <1>1, <1>4, Posting
  <2>3. UNCHANGED posts \/ \E event \in Events, agent \in Agents \cup {Main},
                              running \in SUBSET Agents : Post(event, agent, running)
    BY <1>1 DEF Events, CliOK, CliStep, Prompt, StopTurn, Settle, Block, FailTurn, Interrupt, Compact,
                AutoCompact, Panel, StartAgent, EndAgent, Ask, Answer
  <2>4. QED BY <2>1, <2>2, <2>3
<1>6. CliOK'
  <2>1. /\ hooksRun' = hooksRun
        /\ turn' \in {"idle", "working", "stopping", "failing"}
    BY <1>1 DEF CliOK, CliStep, Prompt, StopTurn, Settle, Block, FailTurn, Interrupt, Compact,
                AutoCompact, Panel, StartAgent, EndAgent, Ask, Answer, Post
  <2>2. agents' \subseteq Agents /\ asking' \subseteq Agents \cup {Main, Mcp}
    BY <1>1 DEF CliOK, CliStep, Prompt, StopTurn, Settle, Block, FailTurn, Interrupt, Compact,
                AutoCompact, Panel, StartAgent, EndAgent, Ask, Answer
  <2>3. panel' \in BOOLEAN /\ wake' \in BOOLEAN
    BY <1>1 DEF CliOK, CliStep, Prompt, StopTurn, Settle, Block, FailTurn, Interrupt, Compact,
                AutoCompact, Panel, StartAgent, EndAgent, Ask, Answer
  <2>4. ended' \in 0..MaxTurns
    <3>1. ended' \in {0, ended, turnNo, turnNo'}
      BY DEF CliStep, Prompt, StopTurn, Settle, Block, FailTurn, Interrupt, Compact, AutoCompact,
             Panel, StartAgent, EndAgent, Ask, Answer
    <3>2. QED BY <1>1, <1>4, <3>1 DEF CliOK
  <2>5. QED BY <1>1, <1>4, <2>1, <2>2, <2>3, <2>4, Zenon DEF CliOK
<1>7. QED BY <1>3, <1>5, <1>6, PartsNext

(* However a finish is settled, its fields are well typed. *)
LEMMA FinishingKinds ==
  /\ cancelPending => FinishingOK'
  /\ \A t \in 0..MaxTurns : finish(t) => FinishingOK'
  /\ \A t \in 0..MaxTurns : confirm(t) => FinishingOK'
  /\ \A t \in 0..MaxTurns, who \in SUBSET Agents : hold(who, t) => FinishingOK'
<1>1. 0 \in 0..GiveUpChecks /\ 0 \in 0..MaxTurns
  BY HooksAssumption
<1>2. ASSUME NEW p \in {"none", "confirm", "hold", "grace"}, NEW who \in SUBSET Agents,
             NEW t \in 0..MaxTurns, NEW tm \in BOOLEAN,
             pending' = p, held' = who, pendingTurn' = t, timer' = tm, checks' = 0
      PROVE  FinishingOK'
  <2>1. pending' \in {"none", "confirm", "hold", "grace"}
    BY <1>2
  <2>2. held' \subseteq Agents /\ pendingTurn' \in 0..MaxTurns
    BY <1>2
  <2>3. timer' \in BOOLEAN
    BY <1>2, Zenon
  <2>4. checks' \in 0..GiveUpChecks
    BY <1>1, <1>2
  <2>5. QED BY <2>1, <2>2, <2>3, <2>4 DEF FinishingOK
<1>3. {} \in SUBSET Agents
  OBVIOUS
<1>4. cancelPending => FinishingOK'
  BY <1>1, <1>2, <1>3 DEF cancelPending
<1>5. \A t \in 0..MaxTurns : finish(t) => FinishingOK'
  BY <1>1, <1>2, <1>3 DEF finish
<1>6. \A t \in 0..MaxTurns : confirm(t) => FinishingOK'
  BY <1>2, <1>3 DEF confirm
<1>7. \A t \in 0..MaxTurns, who \in SUBSET Agents : hold(who, t) => FinishingOK'
  BY <1>2 DEF hold
<1>8. QED BY <1>4, <1>5, <1>6, <1>7

(* A finish reported joins the end of the reports. *)
LEMMA Reporting ==
  ASSUME ReportsOK, NEW t \in 0..MaxTurns, finish(t)
  PROVE  reports' \in Seq(0..MaxTurns)
BY DEF ReportsOK, finish

(* Every delivery, check, stop and health poll keeps the types. *)
LEMMA OurTypes == ASSUME TypeOK, Deliver \/ check \/ stop \/ healthCheck PROVE TypeOK'
<1> USE HooksAssumption
<1>1. CliOK /\ PostsOK /\ FinishingOK /\ FlagsOK /\ HealthOK /\ ReportsOK
  BY Parts
<1>2. UNCHANGED cli
  BY DEF Deliver, check, stop, healthCheck, Receive, UserPromptSubmit, Stop, SubagentStop, StopFailure,
     PostCompact, PostAutoCompact, raisePrompt, ElicitationResult, IgnoreStopped
<1>3. Deliver => PostsOK' /\ Head(posts) \in Deliveries
  BY <1>1, Receiving DEF Deliver, Receive, UserPromptSubmit, Stop, SubagentStop, StopFailure,
     PostCompact, PostAutoCompact, raisePrompt, ElicitationResult, IgnoreStopped
<1>4. PostsOK'
  BY <1>1, <1>3, Unchanged DEF check, stop, healthCheck
<1>5. HealthOK'
  <2>1. ASSUME noteHeard PROVE HealthOK'
    BY <1>1, <2>1 DEF noteHeard, HealthOK
  <2>2. ASSUME healthCheck PROVE HealthOK'
    BY <1>1, <2>2 DEF healthCheck, HealthOK
  <2>3. noteHeard \/ healthCheck \/ UNCHANGED health
    BY DEF Deliver, check, stop, Receive, UserPromptSubmit, Stop, SubagentStop, StopFailure,
       PostCompact, PostAutoCompact, raisePrompt, ElicitationResult, IgnoreStopped, ours
  <2>4. QED BY <1>1, <2>1, <2>2, <2>3, Unchanged
<1>6. FlagsOK'
  <2>1. /\ promptOutstanding' \in {TRUE, FALSE, promptOutstanding}
        /\ stopped' \in {TRUE, stopped}
        /\ gaveUp' \in {TRUE, FALSE, gaveUp}
    BY DEF Deliver, check, stop, healthCheck, Receive, UserPromptSubmit, Stop, SubagentStop, StopFailure,
       PostCompact, PostAutoCompact, raisePrompt, ElicitationResult, IgnoreStopped, clearPrompt,
       checkWith, confirmed, giveUp, recheck, ours, finishing
  <2>2. misread' \in BOOLEAN
    <3>1. ASSUME check PROVE misread' \in BOOLEAN
      BY <3>1 DEF check
    <3>2. check \/ misread' = misread
      BY DEF Deliver, stop, healthCheck, UserPromptSubmit, Stop, SubagentStop, StopFailure,
         PostCompact, PostAutoCompact, raisePrompt, ElicitationResult, IgnoreStopped, ours, finishing
    <3>3. QED BY <1>1, <3>1, <3>2 DEF FlagsOK
  <2>3. QED BY <1>1, <2>1, <2>2 DEF FlagsOK
<1>7. FinishingOK' /\ ReportsOK'
  <2>1. Deliver => Head(posts).turn \in 0..MaxTurns /\ Head(posts).running \subseteq Agents
    BY <1>3 DEF Deliveries
  <2>2. ASSUME UserPromptSubmit \/ stop PROVE FinishingOK' /\ ReportsOK'
    <3>1. cancelPending /\ UNCHANGED <<knownRunning, reports>>
      BY <2>2 DEF UserPromptSubmit, stop
    <3>2. QED BY <1>1, <3>1, FinishingKinds, Unchanged
  <2>3. ASSUME Stop PROVE FinishingOK' /\ ReportsOK'
    <3>1. /\ hold(Head(posts).running, Head(posts).turn) \/ confirm(Head(posts).turn)
          /\ knownRunning' = Head(posts).running /\ UNCHANGED reports
      BY <2>3 DEF Stop
    <3>2. Head(posts).turn \in 0..MaxTurns /\ Head(posts).running \subseteq Agents
      BY <2>1, <2>3 DEF Deliver
    <3>3. FinishingOK'
      BY <3>1, <3>2, FinishingKinds
    <3>4. QED BY <1>1, <3>1, <3>2, <3>3 DEF ReportsOK
  <2>4. ASSUME SubagentStop PROVE FinishingOK' /\ ReportsOK'
    <3>1. held' \subseteq Agents /\ pending' \in {"none", "confirm", "hold", "grace"}
      BY <1>1, <2>4 DEF SubagentStop, FinishingOK
    <3>2. timer' \in {TRUE, timer}
      BY <2>4 DEF SubagentStop
    <3>3. QED BY <1>1, <2>4, <3>1, <3>2 DEF SubagentStop, FinishingOK, ReportsOK
  <2>5. ASSUME StopFailure PROVE FinishingOK' /\ ReportsOK'
    <3>1. Head(posts).turn \in 0..MaxTurns /\ knownRunning \in SUBSET Agents
      BY <1>1, <2>1, <2>5 DEF Deliver, ReportsOK
    <3>2. /\ \/ hold(knownRunning, Head(posts).turn) /\ UNCHANGED reports
             \/ finish(Head(posts).turn)
          /\ knownRunning' = knownRunning
      BY <2>5 DEF StopFailure
    <3>3. FinishingOK'
      BY <3>1, <3>2, FinishingKinds
    <3>4. reports' \in Seq(0..MaxTurns)
      BY <1>1, <3>1, <3>2, Reporting DEF ReportsOK
    <3>5. QED BY <1>1, <3>2, <3>3, <3>4 DEF ReportsOK
  <2>6. ASSUME PostCompact PROVE FinishingOK' /\ ReportsOK'
    <3>1. Head(posts).turn \in 0..MaxTurns
      BY <2>1, <2>6 DEF Deliver
    <3>2. finish(Head(posts).turn) /\ knownRunning' = knownRunning
      BY <2>6 DEF PostCompact
    <3>3. FinishingOK' /\ reports' \in Seq(0..MaxTurns)
      BY <1>1, <3>1, <3>2, FinishingKinds, Reporting
    <3>4. QED BY <1>1, <3>2, <3>3 DEF ReportsOK
  <2>7. ASSUME PostAutoCompact \/ raisePrompt \/ ElicitationResult \/ IgnoreStopped \/ healthCheck
        PROVE  FinishingOK' /\ ReportsOK'
    BY <1>1, <2>7, Unchanged
       DEF PostAutoCompact, raisePrompt, ElicitationResult, IgnoreStopped, healthCheck, ours
  <2>8. ASSUME check PROVE FinishingOK' /\ ReportsOK'
    <3>1. PICK status \in RegistryStatus : checkWith(status)
      BY <2>8 DEF check
    <3>2. pendingTurn \in 0..MaxTurns /\ knownRunning' = knownRunning
      BY <1>1, <2>8 DEF check, FinishingOK
    <3>3. CASE isSettled(status)
      <4>1. finish(pendingTurn)
        BY <3>1, <3>3 DEF checkWith, confirmed
      <4>2. FinishingOK' /\ reports' \in Seq(0..MaxTurns)
        BY <1>1, <3>2, <4>1, FinishingKinds, Reporting
      <4>3. QED BY <1>1, <3>2, <4>2 DEF ReportsOK
    <3>4. CASE ~isSettled(status) /\ cancelPending /\ UNCHANGED reports
      BY <1>1, <3>2, <3>4, FinishingKinds, Unchanged
    <3>5. ASSUME NEW n \in 0..GiveUpChecks, n < GiveUpChecks, recheck(n)
          PROVE  FinishingOK' /\ ReportsOK'
      <4>1. checks' \in 0..GiveUpChecks
        BY <3>5, HooksAssumption DEF recheck
      <4>2. pending' \in {"none", "confirm", "hold", "grace"} /\ held' \subseteq Agents
        BY <3>5 DEF recheck
      <4>3. timer' \in BOOLEAN /\ pendingTurn' = pendingTurn /\ reports' = reports
        BY <3>5, Zenon DEF recheck
      <4>4. FinishingOK'
        BY <3>2, <4>1, <4>2, <4>3 DEF FinishingOK
      <4>5. QED BY <1>1, <3>2, <4>3, <4>4, Unchanged
    <3>6. ~isSettled(status) => \/ cancelPending /\ UNCHANGED reports
                               \/ \E n \in 0..GiveUpChecks : n < GiveUpChecks /\ recheck(n)
      <4>1. checks \in 0..GiveUpChecks /\ 0 \in 0..GiveUpChecks
        BY <1>1, HooksAssumption DEF FinishingOK
      <4> DEFINE n == IF pending = "grace" THEN 0 ELSE checks
      <4>2. n \in 0..GiveUpChecks
        BY <4>1
      <4>3. ~isSettled(status) => IF n >= GiveUpChecks THEN giveUp ELSE recheck(n)
        BY <3>1 DEF checkWith
      <4> HIDE DEF n
      <4>4. QED BY <4>2, <4>3, HooksAssumption DEF giveUp
    <3>7. QED BY <3>3, <3>4, <3>5, <3>6
  <2>9. QED BY <2>2, <2>3, <2>4, <2>5, <2>6, <2>7, <2>8 DEF Deliver
<1>8. QED BY <1>1, <1>2, <1>4, <1>5, <1>6, <1>7, Unchanged, PartsNext

(* So are the states the system starts in. *)
LEMMA InitTypes == Init => TypeOK
<1>1. 0 \in 0..MaxTurns /\ 0 \in 0..GiveUpChecks /\ 0 \in 0..MissingPolls + 1
  BY HooksAssumption
<1>2. Init => CliOK
  BY <1>1 DEF Init, CliOK
<1>3. Init => PostsOK /\ ReportsOK
  BY DEF Init, PostsOK, ReportsOK
<1>4. Init => FinishingOK
  BY <1>1 DEF Init, FinishingOK
<1>5. Init => FlagsOK /\ HealthOK
  BY <1>1 DEF Init, FlagsOK, HealthOK
<1>6. QED BY <1>2, <1>3, <1>4, <1>5, Parts

(* And a stutter changes nothing. *)
LEMMA StutterTypes == TypeOK /\ UNCHANGED vars => TypeOK'
BY Parts, PartsNext, Unchanged DEF vars, finishing

(* Every reachable state is well typed. *)
THEOREM HooksTypes == Spec => []TypeOK
<1>1. TypeOK /\ Next => TypeOK'
  BY CliTypes, OurTypes DEF Next
<1>2. QED BY <1>1, InitTypes, StutterTypes, PTL DEF Spec

-----------------------------------------------------------------------------
(* A finish waits for exactly the subagents known to run. *)

\* The SubagentStop of a is on its way, behind the n-th delivery.
Coming(a, n) == \E j \in DOMAIN posts : /\ j > n
                                        /\ posts[j].event = "SubagentStop" /\ posts[j].agent = a

HoldOK == pending = "hold" => held = knownRunning /\ held # {} /\ ~timer

CheckOK == /\ pending \in {"confirm", "grace"} => knownRunning = {} /\ timer
           /\ timer => pending \in {"confirm", "grace"}

QuietOK == ~hooksRun => posts = <<>> /\ knownRunning = {}

KnownOK == ~stopped => \A a \in knownRunning \ agents : Coming(a, 0)

ListsOK == ~stopped => \A i \in DOMAIN posts : posts[i].event = "Stop" =>
                         \A a \in posts[i].running \ agents : Coming(a, i)

HoldInv == TypeOK /\ HoldOK /\ CheckOK /\ QuietOK /\ KnownOK /\ ListsOK

(* A delivery posted comes after all the others, which keep their places. *)
LEMMA Posted ==
  ASSUME PostsOK, NEW p, posts' = Append(posts, p)
  PROVE  /\ \A i \in DOMAIN posts : i \in DOMAIN posts' /\ posts'[i] = posts[i]
         /\ Len(posts) + 1 \in DOMAIN posts' /\ posts'[Len(posts) + 1] = p
         /\ \A i \in DOMAIN posts' : i \in DOMAIN posts \/ i = Len(posts) + 1
         /\ \A i \in DOMAIN posts : i \in Nat /\ 0 < i /\ i < Len(posts) + 1
BY DEF PostsOK

(* Once the first delivery has arrived, the others have moved up by one. *)
LEMMA Arrived ==
  ASSUME PostsOK, posts # <<>>, posts' = Tail(posts)
  PROVE  /\ 1 \in DOMAIN posts /\ Head(posts) = posts[1]
         /\ \A i \in DOMAIN posts : i \in Nat /\ i # 0
         /\ \A i \in DOMAIN posts : i # 1 => i - 1 \in DOMAIN posts' /\ posts'[i - 1] = posts[i]
         /\ \A i \in DOMAIN posts' : i \in Nat /\ i + 1 \in DOMAIN posts /\ posts'[i] = posts[i + 1]
BY DEF PostsOK

(* What is on its way stays on its way when more is posted. *)
LEMMA StaysComing ==
  ASSUME PostsOK, NEW p, posts' = Append(posts, p), NEW a, NEW n, Coming(a, n)
  PROVE  Coming(a, n)'
BY Posted DEF Coming

(* And moves up by one when the delivery that arrives is not it. *)
LEMMA ComesCloser ==
  ASSUME PostsOK, posts # <<>>, posts' = Tail(posts), NEW a, NEW n \in Nat, Coming(a, n),
         n = 0 => Head(posts).event # "SubagentStop" \/ Head(posts).agent # a
  PROVE  Coming(a, IF n = 0 THEN 0 ELSE n - 1)'
<1>1. PICK j \in DOMAIN posts : j > n /\ posts[j].event = "SubagentStop" /\ posts[j].agent = a
  BY DEF Coming
<1>2. j \in Nat /\ j # 0 /\ j # 1
  BY <1>1, Arrived
<1>3. j - 1 \in DOMAIN posts' /\ posts'[j - 1] = posts[j]
  BY <1>2, Arrived
<1>4. j - 1 > (IF n = 0 THEN 0 ELSE n - 1)
  BY <1>1, <1>2
<1>5. QED BY <1>1, <1>3, <1>4 DEF Coming

(* The CLI posts its subagents' ends, and lists those that run when its turn stops. *)
LEMMA CliPosts ==
  ASSUME TypeOK, CliStep
  PROVE  \/ posts' = posts /\ (agents \subseteq agents' \/ ~hooksRun)
         \/ \E p : /\ posts' = Append(posts, p)
                   /\ p.event = "Stop" => p.running = agents'
                   /\ \A a \in agents : a \in agents' \/ (p.event = "SubagentStop" /\ p.agent = a)
<1>1. ASSUME NEW a \in Agents, EndAgent(a)
      PROVE  \/ posts' = posts /\ ~hooksRun
             \/ \E p : /\ posts' = Append(posts, p)
                       /\ p.event = "SubagentStop" /\ p.agent = a
                       /\ agents' = agents \ {a}
  BY <1>1 DEF EndAgent, Post
<1>2. ASSUME StopTurn
      PROVE  posts' = posts \/ \E p : posts' = Append(posts, p) /\ p.running = agents
  BY <1>2 DEF StopTurn, Post
<1>3. ASSUME Prompt \/ FailTurn \/ Compact \/ AutoCompact
             \/ \E who \in Agents \cup {Main, Mcp} : Ask(who) \/ Answer(who)
      PROVE  posts' = posts \/ \E p : posts' = Append(posts, p) /\ p.event # "Stop"
  <2>1. ASSUME NEW event \in Events \ {"Stop"}, NEW agent, NEW running, Post(event, agent, running)
        PROVE  posts' = posts \/ \E p : posts' = Append(posts, p) /\ p.event # "Stop"
    BY <2>1 DEF Post
  <2>2. \/ posts' = posts
        \/ \E event \in Events \ {"Stop"}, agent \in Agents \cup {Main, Mcp} : Post(event, agent, {})
    BY <1>3 DEF Events, Prompt, FailTurn, Compact, AutoCompact, Ask, Answer
  <2>3. QED BY <2>1, <2>2
<1>4. ASSUME Settle \/ Block \/ Interrupt \/ Panel \/ \E a \in Agents : StartAgent(a)
      PROVE  posts' = posts
  BY <1>4 DEF Settle, Block, Interrupt, Panel, StartAgent
<1>5. agents \subseteq agents' \/ \E a \in Agents : EndAgent(a)
  BY DEF CliStep, Prompt, StopTurn, Settle, Block, FailTurn, Interrupt, Compact, AutoCompact,
         Panel, StartAgent, Ask, Answer
<1>6. StopTurn => agents' = agents
  BY DEF StopTurn
<1>7. CASE \E a \in Agents : EndAgent(a)
  <2>1. PICK a \in Agents : EndAgent(a)
    BY <1>7
  <2>2. CASE posts' = posts /\ ~hooksRun
    BY <2>2
  <2>3. CASE \E p : /\ posts' = Append(posts, p)
                    /\ p.event = "SubagentStop" /\ p.agent = a /\ agents' = agents \ {a}
    BY <2>3
  <2>4. QED BY <1>1, <2>1, <2>2, <2>3
<1>8. CASE agents \subseteq agents' /\ ~\E a \in Agents : EndAgent(a)
  BY <1>2, <1>3, <1>4, <1>6, <1>8 DEF CliStep
<1>9. QED BY <1>5, <1>7, <1>8

(* No step of the CLI disturbs the wait. *)
LEMMA CliHolds == ASSUME HoldInv, CliStep PROVE HoldInv'
<1>1. TypeOK' /\ PostsOK
  BY CliTypes, Parts DEF HoldInv
<1>2. UNCHANGED ours /\ hooksRun' = hooksRun /\ (~hooksRun => posts' = posts)
  BY DEF CliStep, Prompt, StopTurn, Settle, Block, FailTurn, Interrupt, Compact, AutoCompact,
         Panel, StartAgent, EndAgent, Ask, Answer, Post
<1>3. UNCHANGED <<pending, held, timer, knownRunning, stopped>>
  BY <1>2 DEF ours, finishing
<1>4. HoldOK' /\ CheckOK' /\ QuietOK'
  BY <1>2, <1>3 DEF HoldInv, HoldOK, CheckOK, QuietOK
<1>5. KnownOK' /\ ListsOK'
  <2>1. CASE ~hooksRun
    <3>1. knownRunning = {} /\ posts = <<>> /\ posts' = <<>> /\ knownRunning' = {}
      BY <1>2, <1>3, <2>1 DEF HoldInv, QuietOK
    <3>2. KnownOK'
      BY <3>1 DEF KnownOK
    <3>3. DOMAIN posts' = {}
      BY <3>1
    <3>4. QED BY <3>2, <3>3 DEF ListsOK
  <2>2. CASE posts' = posts /\ agents \subseteq agents'
    BY <1>3, <2>2 DEF HoldInv, KnownOK, ListsOK, Coming
  <2>3. ASSUME NEW p, posts' = Append(posts, p), p.event = "Stop" => p.running = agents',
               \A a \in agents : a \in agents' \/ (p.event = "SubagentStop" /\ p.agent = a)
        PROVE  KnownOK' /\ ListsOK'
    <3>1. ASSUME NEW a, a \in agents, a \notin agents', NEW n \in Nat, n < Len(posts) + 1
          PROVE  Coming(a, n)'
      <4>1. p.event = "SubagentStop" /\ p.agent = a
        BY <2>3, <3>1
      <4>2. QED BY <1>1, <2>3, <3>1, <4>1, Posted DEF Coming
    <3>2. KnownOK'
      <4>1. SUFFICES ASSUME ~stopped, NEW a \in knownRunning, a \notin agents'
                     PROVE  Coming(a, 0)'
        BY <1>3 DEF KnownOK
      <4>2. CASE a \in agents
        BY <1>1, <3>1, <4>1, <4>2 DEF PostsOK
      <4>3. CASE a \notin agents
        BY <1>1, <2>3, <4>1, <4>3, StaysComing DEF HoldInv, KnownOK
      <4>4. QED BY <4>2, <4>3
    <3>3. ListsOK'
      <4>1. SUFFICES ASSUME ~stopped, NEW i \in DOMAIN posts', posts'[i].event = "Stop",
                            NEW a \in posts'[i].running, a \notin agents'
                     PROVE  Coming(a, i)'
        BY <1>3 DEF ListsOK
      <4>2. i \in DOMAIN posts /\ i \in Nat /\ i < Len(posts) + 1 /\ posts'[i] = posts[i]
        BY <1>1, <2>3, <4>1, Posted
      <4>3. CASE a \in agents
        BY <3>1, <4>1, <4>2, <4>3
      <4>4. CASE a \notin agents
        BY <1>1, <2>3, <4>1, <4>2, <4>4, StaysComing DEF HoldInv, ListsOK
      <4>5. QED BY <4>3, <4>4
    <3>4. QED BY <3>2, <3>3
  <2>4. QED BY <2>1, <2>2, <2>3, CliPosts DEF HoldInv
<1>6. QED BY <1>1, <1>4, <1>5 DEF HoldInv

(* A delivery that arrives leaves what is behind it on its way: every subagent the
   others are owed stays owed. *)
LEMMA ListsArrive ==
  ASSUME HoldInv, posts # <<>>, posts' = Tail(posts), UNCHANGED <<agents, stopped>>
  PROVE  ListsOK'
<1>1. PostsOK
  BY Parts DEF HoldInv
<1>2. SUFFICES ASSUME ~stopped, NEW i \in DOMAIN posts', posts'[i].event = "Stop",
                      NEW a \in posts'[i].running, a \notin agents
               PROVE  Coming(a, i)'
  BY DEF ListsOK
<1>3. i \in Nat /\ i + 1 \in DOMAIN posts /\ posts'[i] = posts[i + 1]
  BY <1>1, <1>2, Arrived
<1>4. Coming(a, i + 1)
  BY <1>2, <1>3 DEF HoldInv, ListsOK
<1>5. i + 1 \in Nat /\ i + 1 # 0 /\ (i + 1) - 1 = i
  BY <1>3
<1> DEFINE n == i + 1
<1>6. n \in Nat /\ n # 0 /\ n - 1 = i /\ Coming(a, n)
  BY <1>4, <1>5
<1> HIDE DEF n
<1>7. Coming(a, IF n = 0 THEN 0 ELSE n - 1)'
  BY <1>1, <1>6, ComesCloser
<1>8. QED BY <1>6, <1>7

(* Nor does an arrival lose a subagent this instance waits for, except the one whose
   SubagentStop it is. *)
LEMMA KnownArrive ==
  ASSUME HoldInv, posts # <<>>, posts' = Tail(posts), UNCHANGED <<agents, stopped>>,
         knownRunning' \subseteq knownRunning,
         Head(posts).event = "SubagentStop" => Head(posts).agent \notin knownRunning'
  PROVE  KnownOK'
<1>1. PostsOK
  BY Parts DEF HoldInv
<1>2. SUFFICES ASSUME ~stopped, NEW a \in knownRunning', a \notin agents
               PROVE  Coming(a, 0)'
  BY DEF KnownOK
<1>3. Coming(a, 0)
  BY <1>2 DEF HoldInv, KnownOK
<1>4. Head(posts).event # "SubagentStop" \/ Head(posts).agent # a
  BY <1>2
<1> DEFINE n == 0
<1>5. n \in Nat /\ n = 0 /\ Coming(a, n)
  BY <1>3
<1> HIDE DEF n
<1>6. Coming(a, IF n = 0 THEN 0 ELSE n - 1)'
  BY <1>1, <1>4, <1>5, ComesCloser
<1>7. QED BY <1>5, <1>6

(* Every delivery keeps the wait true. *)
LEMMA DeliverHolds == ASSUME HoldInv, Deliver PROVE HoldInv'
<1>1. TypeOK' /\ PostsOK
  BY OurTypes, Parts DEF HoldInv
<1>2. posts # <<>> /\ posts' = Tail(posts) /\ UNCHANGED cli /\ UNCHANGED stopped
  BY DEF Deliver, Receive, UserPromptSubmit, Stop, SubagentStop, StopFailure, PostCompact,
         PostAutoCompact, raisePrompt, ElicitationResult, IgnoreStopped, ours
<1>3. UNCHANGED <<agents, hooksRun>> /\ hooksRun
  BY <1>2 DEF cli, HoldInv, QuietOK
<1>4. ListsOK' /\ QuietOK'
  BY <1>2, <1>3, ListsArrive DEF QuietOK
<1>5. ASSUME Stop PROVE HoldOK' /\ CheckOK' /\ KnownOK'
  <2>1. knownRunning' = Head(posts).running /\ Head(posts).event = "Stop" /\ ~stopped
    BY <1>5 DEF Stop, Receive
  <2>2. HoldOK'
    BY <1>5 DEF Stop, hold, confirm, HoldOK
  <2>3. CheckOK'
    BY <1>5 DEF Stop, hold, confirm, CheckOK
  <2>4. KnownOK'
    <3>1. SUFFICES ASSUME NEW a \in Head(posts).running, a \notin agents
                   PROVE  Coming(a, 0)'
      BY <1>3, <2>1 DEF KnownOK
    <3>2. 1 \in DOMAIN posts /\ Head(posts) = posts[1]
      BY <1>1, <1>2, Arrived
    <3>3. Coming(a, 1)
      BY <2>1, <3>1, <3>2 DEF HoldInv, ListsOK
    <3> DEFINE n == 1
    <3>4. n \in Nat /\ n # 0 /\ n - 1 = 0 /\ Coming(a, n)
      BY <3>3
    <3> HIDE DEF n
    <3>5. Coming(a, IF n = 0 THEN 0 ELSE n - 1)'
      BY <1>1, <1>2, <3>4, ComesCloser
    <3>6. QED BY <3>4, <3>5
  <2>5. QED BY <2>2, <2>3, <2>4
<1>6. ASSUME SubagentStop PROVE HoldOK' /\ CheckOK' /\ KnownOK'
  <2>1. knownRunning' = knownRunning \ {Head(posts).agent}
    BY <1>6 DEF SubagentStop
  <2>2. CASE pending = "hold"
    <3>1. held = knownRunning /\ held' = held \ {Head(posts).agent} /\ ~timer
      BY <1>6, <2>2 DEF SubagentStop, HoldInv, HoldOK
    <3>2. IF held' = {} THEN pending' = "grace" /\ timer' = TRUE
                        ELSE pending' = pending /\ timer' = timer
      BY <1>6, <2>2 DEF SubagentStop
    <3>3. QED BY <1>2, <1>3, <2>1, <2>2, <3>1, <3>2, KnownArrive DEF HoldOK, CheckOK
  <2>3. CASE pending # "hold"
    <3>1. UNCHANGED <<held, pending, timer>>
      BY <1>6, <2>3 DEF SubagentStop
    <3>2. HoldOK' /\ CheckOK'
      BY <2>1, <2>3, <3>1 DEF HoldInv, HoldOK, CheckOK
    <3>3. QED BY <1>2, <1>3, <2>1, <3>2, KnownArrive
  <2>4. QED BY <2>2, <2>3
<1>7. ASSUME ~Stop, ~SubagentStop PROVE HoldOK' /\ CheckOK' /\ KnownOK'
  <2>1. Head(posts).event = "SubagentStop" => stopped
    BY <1>7 DEF Deliver, Receive, UserPromptSubmit, StopFailure, PostCompact,
         PostAutoCompact, raisePrompt, ElicitationResult, IgnoreStopped
  <2>2. knownRunning' = knownRunning
    BY <1>7 DEF Deliver, UserPromptSubmit, StopFailure, PostCompact,
         PostAutoCompact, raisePrompt, ElicitationResult, IgnoreStopped, ours
  <2>3. KnownOK'
    <3>1. CASE stopped
      BY <1>2, <3>1 DEF KnownOK
    <3>2. CASE ~stopped
      BY <1>2, <1>3, <2>1, <2>2, <3>2, KnownArrive
    <3>3. QED BY <3>1, <3>2
  <2>4. HoldOK' /\ CheckOK'
    <3>1. ASSUME UserPromptSubmit \/ PostCompact PROVE pending' = "none" /\ ~timer'
      BY <3>1 DEF UserPromptSubmit, PostCompact, cancelPending, finish
    <3>2. ASSUME StopFailure
          PROVE  \/ pending' = "none" /\ ~timer'
                 \/ pending' = "hold" /\ held' = knownRunning /\ knownRunning # {} /\ ~timer'
      BY <3>2 DEF StopFailure, hold, finish
    <3>3. ASSUME PostAutoCompact \/ raisePrompt \/ ElicitationResult \/ IgnoreStopped
          PROVE  UNCHANGED <<pending, held, timer>>
      BY <3>3 DEF PostAutoCompact, raisePrompt, ElicitationResult, IgnoreStopped, ours, finishing
    <3>4. \/ pending' = "none" /\ ~timer'
          \/ pending' = "hold" /\ held' = knownRunning /\ knownRunning # {} /\ ~timer'
          \/ UNCHANGED <<pending, held, timer>>
      BY <1>7, <3>1, <3>2, <3>3 DEF Deliver
    <3>5. QED BY <2>2, <3>4 DEF HoldInv, HoldOK, CheckOK
  <2>5. QED BY <2>3, <2>4
<1>8. QED BY <1>1, <1>4, <1>5, <1>6, <1>7 DEF HoldInv

(* A scheduled check, the end of the instance and a health poll do, too. *)
LEMMA TimersHold == ASSUME HoldInv, check \/ stop \/ healthCheck PROVE HoldInv'
<1>1. TypeOK'
  BY OurTypes DEF HoldInv
<1>2. UNCHANGED <<posts, knownRunning, agents, hooksRun>> /\ (stopped => stopped')
  BY DEF check, stop, healthCheck, cli
<1>3. QuietOK' /\ KnownOK' /\ ListsOK'
  BY <1>2 DEF HoldInv, QuietOK, KnownOK, ListsOK, Coming
<1>4. ASSUME check PROVE HoldOK' /\ CheckOK'
  <2>1. timer /\ knownRunning = {}
    BY <1>4 DEF check, HoldInv, CheckOK
  <2>2. \/ pending' = "none" /\ ~timer'
        \/ pending' = "confirm" /\ timer'
    <3>1. PICK status \in RegistryStatus : checkWith(status)
      BY <1>4 DEF check
    <3>2. QED BY <3>1 DEF checkWith, confirmed, finish, giveUp, cancelPending, recheck
  <2>3. QED BY <1>2, <2>1, <2>2 DEF HoldOK, CheckOK
<1>5. ASSUME stop PROVE HoldOK' /\ CheckOK'
  BY <1>5 DEF stop, cancelPending, HoldOK, CheckOK
<1>6. ASSUME healthCheck PROVE HoldOK' /\ CheckOK'
  BY <1>6 DEF healthCheck, finishing, HoldInv, HoldOK, CheckOK
<1>7. QED BY <1>1, <1>3, <1>4, <1>5, <1>6 DEF HoldInv

(* At first nothing waits. *)
LEMMA InitHolds == Init => HoldInv
<1>1. Init => TypeOK
  BY InitTypes
<1>2. Init => HoldOK /\ CheckOK /\ QuietOK /\ KnownOK
  BY DEF Init, HoldOK, CheckOK, QuietOK, KnownOK
<1>3. Init => DOMAIN posts = {}
  BY DEF Init
<1>4. QED BY <1>1, <1>2, <1>3 DEF HoldInv, ListsOK

(* Nothing happens to the wait while nothing happens. *)
LEMMA StutterHolds == ASSUME HoldInv, UNCHANGED vars PROVE HoldInv'
<1>1. TypeOK'
  BY StutterTypes DEF HoldInv
<1>2. UNCHANGED <<posts, pending, held, timer, knownRunning, stopped, agents, hooksRun>>
  BY DEF vars, cli, finishing
<1>3. QED BY <1>1, <1>2 DEF HoldInv, HoldOK, CheckOK, QuietOK, KnownOK, ListsOK, Coming

(* The wait of a finish: an invariant of every behaviour. *)
LEMMA HoldInvariant == Spec => []HoldInv
<1>1. HoldInv /\ [Next]_vars => HoldInv'
  BY CliHolds, DeliverHolds, TimersHold, StutterHolds DEF Next
<1>2. QED BY <1>1, InitHolds, PTL DEF Spec

(* While a subagent the agent's last word listed is running, its finish is held, for
   exactly the ones that are, with no check scheduled; and every one it waits for is at
   work or has its SubagentStop (or a newer list) on its way. *)
THEOREM FinishWaits == Spec => []HoldMatchesKnown
<1>1. HoldInv => HoldMatchesKnown
  <2>1. SUFFICES ASSUME HoldInv PROVE HoldMatchesKnown
    OBVIOUS
  <2>2. ~stopped => \A a \in knownRunning \ agents :
          \E i \in DOMAIN posts : posts[i].event = "SubagentStop" /\ posts[i].agent = a
    BY <2>1 DEF HoldInv, KnownOK, Coming
  <2>3. QED BY <2>1, <2>2 DEF HoldInv, HoldOK, CheckOK, HoldMatchesKnown
<1>2. QED BY <1>1, HoldInvariant, PTL

-----------------------------------------------------------------------------
(* What is reported finished, and when. *)

Ends == {"Stop", "StopFailure"}

\* The end of a turn lands before the turn leaves its last state (EndLanded).
EndsOK ==
  \A i \in DOMAIN posts : posts[i].event \in Ends =>
    /\ posts[i].turn = turnNo
    /\ turn = IF posts[i].event = "Stop" THEN "stopping" ELSE "failing"
    /\ \A j \in DOMAIN posts : posts[j].event \in Ends => j = i

TurnsOK == \A i \in DOMAIN posts : posts[i].turn <= turnNo

\* A compaction is a turn of its own, younger than whatever was posted before it.
CompactsOK ==
  \A j \in DOMAIN posts : posts[j].event = "PostCompact" =>
    /\ posts[j].turn = turnNo => turn = "idle"
    /\ \A i \in DOMAIN posts : i < j => posts[i].turn < posts[j].turn

\* While a turn runs, its UserPromptSubmit is behind all that is left of earlier ones.
PromptsOK ==
  turn # "idle" => \A i \in DOMAIN posts : posts[i].turn < turnNo =>
                     \E j \in DOMAIN posts : j > i /\ posts[j].event = "UserPromptSubmit"

PendingOK ==
  pending # "none" =>
    /\ pendingTurn <= turnNo
    /\ \A i \in DOMAIN posts : posts[i].event = "PostCompact" => pendingTurn < posts[i].turn

\* What was reported is older than whatever may still be.
SaidOK ==
  ~misread =>
    /\ \A k \in DOMAIN reports :
         /\ reports[k] <= turnNo
         /\ turn \in {"working", "stopping"} => reports[k] < turnNo
         /\ pending # "none" => reports[k] < pendingTurn
         /\ \A i \in DOMAIN posts :
              posts[i].event \in Ends \cup {"PostCompact"} => reports[k] < posts[i].turn
    /\ \A i, j \in DOMAIN reports : i < j => reports[i] < reports[j]

FinishInv == HoldInv /\ EndsOK /\ TurnsOK /\ CompactsOK /\ PromptsOK /\ PendingOK /\ SaidOK

\* What a delivery posted says of the turn.
Moves(event) ==
  \/ event = "UserPromptSubmit" /\ turn = "idle" /\ turn' = "working" /\ turnNo' = turnNo + 1
  \/ event = "Stop" /\ turn = "working" /\ turn' = "stopping" /\ turnNo' = turnNo
  \/ event = "StopFailure" /\ turn = "working" /\ turn' = "failing" /\ turnNo' = turnNo
  \/ event = "PostCompact" /\ turn = "idle" /\ turn' = "idle" /\ turnNo' = turnNo + 1
  \/ event \notin Ends \cup {"PostCompact", "UserPromptSubmit"} /\ turn' = turn /\ turnNo' = turnNo

Settles ==
  /\ turnNo' = turnNo /\ posts' = posts
  /\ \/ turn' = turn
     \/ turn' = "idle" /\ (turn = "working" \/ EndLanded)
     \/ turn' = "working" /\ turn = "stopping" /\ EndLanded

(* The CLI posts what becomes of its turn, or settles it silently. *)
LEMMA CliTurns ==
  ASSUME CliStep
  PROVE  \/ Settles
         \/ \E p : /\ Moves(p.event) /\ p.turn = turnNo'
                   /\ posts' = IF hooksRun THEN Append(posts, p) ELSE posts
<1>1. ASSUME NEW event, NEW agent, NEW running, Post(event, agent, running), Moves(event)
      PROVE  \E p : /\ Moves(p.event) /\ p.turn = turnNo'
                    /\ posts' = IF hooksRun THEN Append(posts, p) ELSE posts
  <2> DEFINE p == [event |-> event, agent |-> agent, running |-> running, turn |-> turnNo']
  <2>1. p.event = event /\ p.turn = turnNo'
    OBVIOUS
  <2>2. posts' = IF hooksRun THEN Append(posts, p) ELSE posts
    BY <1>1 DEF Post
  <2> HIDE DEF p
  <2>3. Moves(p.event)
    BY <1>1, <2>1
  <2>4. QED BY <2>1, <2>2, <2>3
<1>2. ASSUME Prompt \/ StopTurn \/ FailTurn \/ Compact \/ AutoCompact
      PROVE  \E event, agent, running : Post(event, agent, running) /\ Moves(event)
  <2>1. CASE Prompt
    <3>1. Post("UserPromptSubmit", Main, {}) /\ Moves("UserPromptSubmit")
      BY <2>1 DEF Prompt, Moves
    <3>2. QED BY <3>1
  <2>2. CASE StopTurn
    <3>1. Post("Stop", Main, agents) /\ Moves("Stop")
      BY <2>2 DEF StopTurn, Moves
    <3>2. QED BY <3>1
  <2>3. CASE FailTurn
    <3>1. Post("StopFailure", Main, {}) /\ Moves("StopFailure")
      BY <2>3 DEF FailTurn, Moves
    <3>2. QED BY <3>1
  <2>4. CASE Compact
    <3>1. Post("PostCompact", Main, {}) /\ Moves("PostCompact")
      BY <2>4 DEF Compact, Moves
    <3>2. QED BY <3>1
  <2>5. CASE AutoCompact
    <3>1. Post("AutoCompact", Main, {}) /\ Moves("AutoCompact")
      BY <2>5 DEF AutoCompact, Moves, Ends
    <3>2. QED BY <3>1
  <2>6. QED BY <1>2, <2>1, <2>2, <2>3, <2>4, <2>5
<1>3. ASSUME Settle \/ Block \/ Interrupt \/ Panel \/ \E a \in Agents : StartAgent(a)
      PROVE  Settles
  BY <1>3 DEF Settles, Settle, Block, Interrupt, Panel, StartAgent
<1>4. ASSUME NEW a \in Agents, EndAgent(a)
      PROVE  \E event, agent, running : Post(event, agent, running) /\ Moves(event)
  <2>1. Post("SubagentStop", a, {}) /\ Moves("SubagentStop")
    BY <1>4 DEF EndAgent, Moves, Ends
  <2>2. QED BY <2>1
<1>5. ASSUME NEW who, Ask(who)
      PROVE  \E event, agent, running : Post(event, agent, running) /\ Moves(event)
  <2>1. Moves("Elicitation") /\ Moves("PermissionRequest")
    BY <1>5 DEF Ask, Moves, Ends
  <2>2. Post("Elicitation", Main, {}) \/ Post("PermissionRequest", who, {})
    BY <1>5 DEF Ask
  <2>3. QED BY <2>1, <2>2
<1>6. ASSUME NEW who, Answer(who)
      PROVE  Settles \/ \E event, agent, running : Post(event, agent, running) /\ Moves(event)
  <2>1. CASE who = Mcp
    <3>1. Moves("ElicitationResult") /\ Post("ElicitationResult", Main, {})
      BY <1>6, <2>1 DEF Answer, Moves, Ends
    <3>2. QED BY <3>1
  <2>2. CASE who # Mcp
    BY <1>6, <2>2 DEF Answer, Settles
  <2>3. QED BY <2>1, <2>2
<1>7. Settles \/ \E event, agent, running : Post(event, agent, running) /\ Moves(event)
  BY <1>2, <1>3, <1>4, <1>5, <1>6 DEF CliStep
<1>8. QED BY <1>1, <1>7

(* Nothing said of turns is disturbed by a turn that settles. *)
LEMMA SettlesFinish ==
  ASSUME FinishInv, Settles, UNCHANGED ours
  PROVE  EndsOK' /\ TurnsOK' /\ CompactsOK' /\ PromptsOK' /\ PendingOK' /\ SaidOK'
<1>1. /\ turnNo' = turnNo /\ posts' = posts
      /\ UNCHANGED <<pending, pendingTurn, misread, reports>>
      /\ TurnsOK /\ EndsOK /\ CompactsOK /\ PromptsOK /\ PendingOK /\ SaidOK
  BY DEF Settles, ours, finishing, FinishInv
<1>2. \A i \in DOMAIN posts : posts[i].event \in Ends => turn' = turn
  BY <1>1 DEF Settles, EndLanded, Ends, EndsOK
<1>3. /\ turn' = "working" => turn \in {"working", "stopping"}
      /\ turn' = "stopping" => turn = "stopping"
      /\ turn = "idle" => turn' = "idle"
  BY <1>1 DEF Settles
<1>4. EndsOK' /\ TurnsOK' /\ PendingOK'
  BY <1>1, <1>2 DEF EndsOK, TurnsOK, PendingOK
<1>5. CompactsOK' /\ PromptsOK'
  BY <1>1, <1>3 DEF CompactsOK, PromptsOK
<1>6. SaidOK'
  BY <1>1, <1>3 DEF SaidOK
<1>7. QED BY <1>4, <1>5, <1>6

(* What was reported is a turn. *)
LEMMA ReportTypes == ASSUME TypeOK PROVE \A k \in DOMAIN reports : reports[k] \in Nat
<1> DEFINE T == 0..MaxTurns
<1>1. T \subseteq Nat
  OBVIOUS
<1> HIDE DEF T
<1>2. reports \in Seq(T)
  BY Parts DEF ReportsOK, T
<1>3. \A k \in DOMAIN reports : reports[k] \in T
  BY <1>2
<1>4. QED BY <1>1, <1>3

(* Nor by a delivery that says what becomes of the turn. *)
LEMMA MovesFinish ==
  ASSUME FinishInv, UNCHANGED ours, NEW p, Moves(p.event), p.turn = turnNo',
         posts' = IF hooksRun THEN Append(posts, p) ELSE posts
  PROVE  EndsOK' /\ TurnsOK' /\ CompactsOK' /\ PromptsOK' /\ PendingOK' /\ SaidOK'
<1>1. /\ UNCHANGED <<pending, pendingTurn, misread, reports>>
      /\ TurnsOK /\ EndsOK /\ CompactsOK /\ PromptsOK /\ PendingOK /\ SaidOK /\ TypeOK /\ QuietOK
  BY DEF ours, finishing, FinishInv, HoldInv
<1>2. /\ PostsOK /\ turnNo \in Nat /\ turnNo' \in Nat /\ turnNo <= turnNo'
      /\ \A i \in DOMAIN posts : posts[i].turn \in Nat
      /\ pendingTurn \in Nat /\ \A k \in DOMAIN reports : reports[k] \in Nat
  <2>1. PostsOK /\ turnNo \in Nat /\ pendingTurn \in Nat /\ reports \in Seq(0..MaxTurns)
    BY <1>1, Parts DEF CliOK, FinishingOK, ReportsOK
  <2>2. \A i \in DOMAIN posts : posts[i] \in Deliveries
    BY <2>1 DEF PostsOK
  <2>3. \A i \in DOMAIN posts : posts[i].turn \in Nat
    BY <2>2 DEF Deliveries
  <2>4. turnNo' = turnNo \/ turnNo' = turnNo + 1
    BY DEF Moves
  <2>5. \A k \in DOMAIN reports : reports[k] \in Nat
    BY <1>1, ReportTypes
  <2>6. turnNo' \in Nat /\ turnNo <= turnNo'
    BY <2>1, <2>4
  <2>7. QED BY <2>1, <2>3, <2>5, <2>6
<1>3. \A i \in DOMAIN posts' :
        \/ i \in DOMAIN posts /\ posts'[i] = posts[i]
        \/ i = Len(posts) + 1 /\ posts'[i] = p /\ hooksRun
  BY <1>2, Posted
<1>4. \A i \in DOMAIN posts : /\ i \in Nat /\ i < Len(posts) + 1 /\ hooksRun /\ i \in DOMAIN posts'
                              /\ posts'[i] = posts[i] /\ posts'[Len(posts) + 1] = p
                              /\ Len(posts) + 1 \in DOMAIN posts'
  <2>1. CASE hooksRun
    BY <1>2, <2>1, Posted
  <2>2. CASE ~hooksRun
    BY <1>1, <2>2 DEF QuietOK
  <2>3. QED BY <2>1, <2>2
<1>5. \A i \in DOMAIN posts : posts[i].event \in Ends => turn' = turn /\ turnNo' = turnNo /\ p.event \notin Ends
  BY <1>1 DEF Moves, EndsOK, Ends
<1>6. EndsOK'
  BY <1>1, <1>3, <1>4, <1>5 DEF EndsOK, Ends, Moves
<1>7. TurnsOK'
  BY <1>1, <1>2, <1>3 DEF TurnsOK
<1>8. CompactsOK'
  <2>1. SUFFICES ASSUME NEW j \in DOMAIN posts', posts'[j].event = "PostCompact"
                 PROVE  /\ posts'[j].turn = turnNo' => turn' = "idle"
                        /\ \A i \in DOMAIN posts' : i < j => posts'[i].turn < posts'[j].turn
    BY DEF CompactsOK
  <2>2. CASE j \in DOMAIN posts /\ posts'[j] = posts[j]
    <3>1. posts[j].turn <= turnNo /\ (posts[j].turn = turnNo => turn = "idle")
      BY <1>1, <2>1, <2>2 DEF TurnsOK, CompactsOK
    <3>2. posts[j].turn = turnNo' => turn' = "idle"
      BY <1>2, <3>1 DEF Moves
    <3>3. \A i \in DOMAIN posts' : i < j => i \in DOMAIN posts /\ posts'[i] = posts[i]
      BY <1>3, <1>4, <2>2
    <3>4. QED BY <1>1, <2>1, <2>2, <3>2, <3>3 DEF CompactsOK
  <2>3. CASE j = Len(posts) + 1 /\ posts'[j] = p
    <3>1. turn' = "idle" /\ turnNo' = turnNo + 1
      BY <2>1, <2>3 DEF Moves, Ends
    <3>2. \A i \in DOMAIN posts' : i < j => i \in DOMAIN posts /\ posts'[i] = posts[i]
      BY <1>3, <2>3
    <3>3. QED BY <1>1, <1>2, <2>3, <3>1, <3>2 DEF TurnsOK
  <2>4. QED BY <1>3, <2>1, <2>2, <2>3
<1>9. PromptsOK'
  <2>1. SUFFICES ASSUME turn' # "idle", NEW i \in DOMAIN posts', posts'[i].turn < turnNo'
                 PROVE  \E j \in DOMAIN posts' : j > i /\ posts'[j].event = "UserPromptSubmit"
    BY DEF PromptsOK
  <2>2. i \in DOMAIN posts /\ posts'[i] = posts[i]
    BY <1>2, <1>3, <2>1
  <2>3. CASE p.event = "UserPromptSubmit"
    BY <1>4, <2>2, <2>3
  <2>4. CASE p.event # "UserPromptSubmit"
    <3>1. turn # "idle" /\ turnNo' = turnNo
      BY <2>1, <2>4 DEF Moves
    <3>2. \E j \in DOMAIN posts : j > i /\ posts[j].event = "UserPromptSubmit"
      BY <1>1, <2>1, <2>2, <3>1 DEF PromptsOK
    <3>3. QED BY <1>4, <3>2
  <2>5. QED BY <2>3, <2>4
<1>10. PendingOK'
  <2>1. p.event = "PostCompact" => turnNo' = turnNo + 1
    BY DEF Moves, Ends
  <2>2. QED BY <1>1, <1>2, <1>3, <2>1 DEF PendingOK
<1>11. SaidOK'
  <2>1. SUFFICES ASSUME ~misread, NEW k \in DOMAIN reports
                 PROVE  /\ reports[k] <= turnNo'
                        /\ turn' \in {"working", "stopping"} => reports[k] < turnNo'
                        /\ \A i \in DOMAIN posts' :
                             posts'[i].event \in Ends \cup {"PostCompact"} => reports[k] < posts'[i].turn
    BY <1>1 DEF SaidOK
  <2>2. /\ reports[k] <= turnNo /\ (turn \in {"working", "stopping"} => reports[k] < turnNo)
        /\ \A i \in DOMAIN posts :
             posts[i].event \in Ends \cup {"PostCompact"} => reports[k] < posts[i].turn
    BY <1>1, <2>1 DEF SaidOK
  <2>3. /\ turn' \in {"working", "stopping"} => reports[k] < turnNo'
        /\ p.event \in Ends \cup {"PostCompact"} => reports[k] < turnNo'
    BY <1>2, <2>2 DEF Moves, Ends
  <2>4. QED BY <1>2, <1>3, <2>2, <2>3
<1>12. QED BY <1>6, <1>7, <1>8, <1>9, <1>10, <1>11

(* A finish that is not reported leaves all that was; one that is comes last. *)
LEMMA Reports ==
  ASSUME TypeOK, NEW t \in 0..MaxTurns, finish(t)
  PROVE  /\ pending' = "none" /\ pendingTurn' = 0
         /\ \A k \in DOMAIN reports : reports'[k] = reports[k] /\ reports[k] \in Nat /\ k \in DOMAIN reports'
         /\ \A k \in DOMAIN reports' : \/ k \in DOMAIN reports /\ reports'[k] = reports[k]
                                       \/ k = Len(reports) + 1 /\ reports'[k] = t
         /\ \A k \in DOMAIN reports : k < Len(reports) + 1
<1>1. reports \in Seq(0..MaxTurns) /\ reports' = Append(reports, t)
  BY Parts DEF ReportsOK, finish
<1>2. pending' = "none" /\ pendingTurn' = 0
  BY DEF finish
<1>3. \A k \in DOMAIN reports : reports'[k] = reports[k] /\ reports[k] \in Nat /\ k \in DOMAIN reports'
  <2>1. \A k \in DOMAIN reports : reports'[k] = reports[k] /\ k \in DOMAIN reports'
    BY <1>1
  <2>2. QED BY <2>1, ReportTypes
<1>4. \A k \in DOMAIN reports' : \/ k \in DOMAIN reports /\ reports'[k] = reports[k]
                                 \/ k = Len(reports) + 1 /\ reports'[k] = t
  BY <1>1
<1>5. \A k \in DOMAIN reports : k < Len(reports) + 1
  BY <1>1
<1>6. QED BY <1>2, <1>3, <1>4, <1>5

(* A turn younger than every one reported, and older than every one to come, may be reported. *)
LEMMA Says ==
  ASSUME TypeOK, TypeOK', SaidOK, NEW t \in 0..MaxTurns, finish(t), misread' = FALSE => misread = FALSE,
         UNCHANGED <<turn, turnNo>>, t <= turnNo,
         ~misread' /\ turn \in {"working", "stopping"} => t < turnNo,
         ~misread' => \A k \in DOMAIN reports : reports[k] < t,
         \A i \in DOMAIN posts' : \E j \in DOMAIN posts : posts[j] = posts'[i],
         \A i \in DOMAIN posts' : posts'[i].event \in Ends \cup {"PostCompact"} /\ ~misread' => t < posts'[i].turn
  PROVE  SaidOK' /\ PendingOK'
<1>1. PendingOK'
  BY Reports DEF PendingOK
<1>2. SUFFICES ASSUME ~misread' PROVE SaidOK'
  BY <1>1 DEF SaidOK
<1>3. misread = FALSE
  BY <1>2, Parts, PartsNext DEF FlagsOK
<1>4. ASSUME NEW k \in DOMAIN reports'
      PROVE  /\ reports'[k] <= turnNo'
             /\ turn' \in {"working", "stopping"} => reports'[k] < turnNo'
             /\ \A i \in DOMAIN posts' :
                  posts'[i].event \in Ends \cup {"PostCompact"} => reports'[k] < posts'[i].turn
  <2>1. CASE k \in DOMAIN reports /\ reports'[k] = reports[k]
    <3>1. \A i \in DOMAIN posts' :
             posts'[i].event \in Ends \cup {"PostCompact"} => reports[k] < posts'[i].turn
      BY <1>3, <2>1 DEF SaidOK
    <3>2. QED BY <1>3, <2>1, <3>1 DEF SaidOK
  <2>2. CASE reports'[k] = t
    BY <1>2, <2>2
  <2>3. QED BY <1>4, <2>1, <2>2, Reports
<1>5. ASSUME NEW i \in DOMAIN reports', NEW j \in DOMAIN reports', i < j
      PROVE  reports'[i] < reports'[j]
  <2>1. i \in DOMAIN reports /\ reports'[i] = reports[i]
    <3>1. \A k \in DOMAIN reports : k \in Nat
      BY Parts DEF ReportsOK
    <3>2. Len(reports) \in Nat
      BY Parts DEF ReportsOK
    <3>3. QED BY <1>5, <3>1, <3>2, Reports
  <2>2. CASE j \in DOMAIN reports /\ reports'[j] = reports[j]
    BY <1>3, <1>5, <2>1, <2>2 DEF SaidOK
  <2>3. CASE reports'[j] = t
    BY <1>2, <2>1, <2>3
  <2>4. QED BY <1>5, <2>2, <2>3, Reports
<1>6. pending' = "none"
  BY Reports
<1>7. QED BY <1>4, <1>5, <1>6 DEF SaidOK

(* What is not reported may still be pending. *)
LEMMA Waits ==
  ASSUME TypeOK, SaidOK, reports' = reports, misread' = misread,
         UNCHANGED <<turn, turnNo>>,
         \A i \in DOMAIN posts' : \E j \in DOMAIN posts : posts[j] = posts'[i],
         pending' # "none" => /\ pendingTurn' <= turnNo
                              /\ \A i \in DOMAIN posts' :
                                   posts'[i].event = "PostCompact" => pendingTurn' < posts'[i].turn
                              /\ ~misread => \A k \in DOMAIN reports : reports[k] < pendingTurn'
  PROVE  SaidOK' /\ PendingOK'
<1>1. PendingOK'
  BY DEF PendingOK
<1>2. SUFFICES ASSUME ~misread PROVE SaidOK'
  BY <1>1 DEF SaidOK
<1>3. \A k \in DOMAIN reports : \A i \in DOMAIN posts' :
        posts'[i].event \in Ends \cup {"PostCompact"} => reports[k] < posts'[i].turn
  BY <1>2 DEF SaidOK
<1>4. QED BY <1>2, <1>3 DEF SaidOK

(* What arrives leaves the others in order. *)
LEMMA ArrivesFinish ==
  ASSUME FinishInv, posts # <<>>, posts' = Tail(posts), UNCHANGED <<turn, turnNo>>
  PROVE  /\ EndsOK' /\ TurnsOK' /\ CompactsOK' /\ PromptsOK'
         /\ \A i \in DOMAIN posts' : \E j \in DOMAIN posts : posts[j] = posts'[i]
<1>1. PostsOK /\ EndsOK /\ TurnsOK /\ CompactsOK /\ PromptsOK
  BY Parts DEF FinishInv, HoldInv
<1>2. \A i \in DOMAIN posts' : i \in Nat /\ i + 1 \in DOMAIN posts /\ posts'[i] = posts[i + 1]
  BY <1>1, Arrived
<1>3. EndsOK'
  <2>1. SUFFICES ASSUME NEW i \in DOMAIN posts', posts'[i].event \in Ends
                 PROVE  /\ posts'[i].turn = turnNo
                        /\ turn = IF posts'[i].event = "Stop" THEN "stopping" ELSE "failing"
                        /\ \A j \in DOMAIN posts' : posts'[j].event \in Ends => j = i
    BY DEF EndsOK
  <2>2. \A j \in DOMAIN posts : posts[j].event \in Ends => j = i + 1
    BY <1>1, <1>2, <2>1 DEF EndsOK
  <2>3. \A j \in DOMAIN posts' : posts'[j].event \in Ends => j + 1 = i + 1
    BY <1>2, <2>2
  <2>4. \A j \in DOMAIN posts' : posts'[j].event \in Ends => j = i
    BY <1>2, <2>3
  <2>5. QED BY <1>1, <1>2, <2>1, <2>4 DEF EndsOK
<1>4. TurnsOK'
  BY <1>1, <1>2 DEF TurnsOK
<1>5. CompactsOK'
  <2>1. \A i, j \in DOMAIN posts' : i < j => i + 1 < j + 1
    BY <1>2
  <2>2. QED BY <1>1, <1>2, <2>1 DEF CompactsOK
<1>6. PromptsOK'
  <2>1. SUFFICES ASSUME turn # "idle", NEW i \in DOMAIN posts', posts'[i].turn < turnNo
                 PROVE  \E j \in DOMAIN posts' : j > i /\ posts'[j].event = "UserPromptSubmit"
    BY DEF PromptsOK
  <2>2. PICK j \in DOMAIN posts : j > i + 1 /\ posts[j].event = "UserPromptSubmit"
    BY <1>1, <1>2, <2>1 DEF PromptsOK
  <2>3. i \in Nat /\ j \in Nat /\ j # 1 /\ j - 1 > i /\ j - 1 \in DOMAIN posts' /\ posts'[j - 1] = posts[j]
    <3>1. i \in Nat /\ j \in Nat
      BY <1>1, <1>2, Arrived
    <3>2. j # 1 /\ j - 1 > i
      BY <2>2, <3>1
    <3>3. QED BY <1>1, <3>1, <3>2, Arrived
  <2>4. QED BY <2>2, <2>3
<1>7. QED BY <1>2, <1>3, <1>4, <1>5, <1>6

(* Every delivery keeps the reports in the order of the turns. *)
LEMMA DeliverFinish == ASSUME FinishInv, Deliver PROVE FinishInv'
<1>1. /\ TypeOK /\ TypeOK' /\ PostsOK /\ CliOK /\ FinishingOK
      /\ EndsOK /\ TurnsOK /\ CompactsOK /\ PromptsOK /\ PendingOK /\ SaidOK
  BY OurTypes, Parts DEF FinishInv, HoldInv
<1>2. posts # <<>> /\ posts' = Tail(posts) /\ UNCHANGED cli /\ misread' = misread
  BY DEF Deliver, Receive, UserPromptSubmit, Stop, SubagentStop, StopFailure, PostCompact,
         PostAutoCompact, raisePrompt, ElicitationResult, IgnoreStopped, ours, finishing
<1>3. UNCHANGED <<turn, turnNo>>
  BY <1>2 DEF cli
<1>4. /\ EndsOK' /\ TurnsOK' /\ CompactsOK' /\ PromptsOK'
      /\ \A i \in DOMAIN posts' : \E j \in DOMAIN posts : posts[j] = posts'[i]
  BY <1>2, <1>3, ArrivesFinish
<1>5. /\ 1 \in DOMAIN posts /\ Head(posts) = posts[1] /\ Head(posts) \in Deliveries
      /\ \A i \in DOMAIN posts' : i \in Nat /\ i + 1 \in DOMAIN posts /\ posts'[i] = posts[i + 1]
      /\ \A i \in DOMAIN posts' : 1 < i + 1 /\ i + 1 # 1
      /\ Head(posts).turn \in 0..MaxTurns
  <2>1. Head(posts) \in Deliveries
    BY <1>1, <1>2, Receiving
  <2>2. \A i \in DOMAIN posts' : i \in Nat /\ i + 1 \in DOMAIN posts /\ posts'[i] = posts[i + 1] /\ i # 0
    BY <1>1, <1>2, Arrived
  <2>3. 1 \in DOMAIN posts /\ Head(posts) = posts[1]
    BY <1>1, <1>2, Arrived
  <2>4. Head(posts).turn \in 0..MaxTurns
    BY <2>1 DEF Deliveries
  <2>5. QED BY <2>1, <2>2, <2>3, <2>4
<1> DEFINE t == Head(posts).turn
<1>6. /\ t \in 0..MaxTurns /\ t <= turnNo
      /\ Head(posts).event \in Ends => /\ t = turnNo
                                       /\ Head(posts).event = "StopFailure" => turn = "failing"
                                       /\ \A i \in DOMAIN posts' : posts'[i].event \notin Ends
      /\ Head(posts).event = "PostCompact" => /\ t = turnNo => turn = "idle"
                                              /\ \A i \in DOMAIN posts' : posts'[i].event \in Ends => posts'[i].turn = turnNo /\ turn # "idle"
      /\ \A i \in DOMAIN posts' : posts'[i].event = "PostCompact" => t < posts'[i].turn
      /\ Head(posts).event \in Ends \cup {"PostCompact"} /\ ~misread => \A k \in DOMAIN reports : reports[k] < t
  <2>1. t \in 0..MaxTurns /\ t <= turnNo
    BY <1>1, <1>5 DEF TurnsOK
  <2>2. Head(posts).event \in Ends => /\ t = turnNo
                                      /\ Head(posts).event = "StopFailure" => turn = "failing"
                                      /\ \A i \in DOMAIN posts' : posts'[i].event \notin Ends
    BY <1>1, <1>5 DEF EndsOK
  <2>3. Head(posts).event = "PostCompact" => /\ t = turnNo => turn = "idle"
                                             /\ \A i \in DOMAIN posts' : posts'[i].event \in Ends => posts'[i].turn = turnNo /\ turn # "idle"
    BY <1>1, <1>5 DEF EndsOK, CompactsOK
  <2>4. \A i \in DOMAIN posts' : posts'[i].event = "PostCompact" => t < posts'[i].turn
    BY <1>1, <1>5 DEF CompactsOK
  <2>5. Head(posts).event \in Ends \cup {"PostCompact"} /\ ~misread => \A k \in DOMAIN reports : reports[k] < t
    BY <1>1, <1>5 DEF SaidOK
  <2>6. QED BY <2>1, <2>2, <2>3, <2>4, <2>5
<1>7. turnNo \in Nat /\ pendingTurn \in Nat
  BY <1>1 DEF CliOK, FinishingOK
<1> HIDE DEF t
<1>8. ASSUME Stop PROVE SaidOK' /\ PendingOK'
  <2>1. /\ Head(posts).event \in Ends /\ pendingTurn' = t /\ reports' = reports
    BY <1>8 DEF Stop, Receive, Ends, hold, confirm, t
  <2>2. QED BY <1>1, <1>2, <1>3, <1>4, <1>6, <2>1, Waits
<1>9. ASSUME StopFailure PROVE SaidOK' /\ PendingOK'
  <2>1. Head(posts).event = "StopFailure" /\ Head(posts).event \in Ends /\ turn = "failing"
    BY <1>6, <1>9 DEF StopFailure, Receive, Ends
  <2>2. CASE knownRunning # {}
    <3>1. pendingTurn' = t /\ reports' = reports
      BY <1>9, <2>2 DEF StopFailure, hold, t
    <3>2. QED BY <1>1, <1>2, <1>3, <1>4, <1>6, <2>1, <3>1, Waits
  <2>3. CASE knownRunning = {}
    <3>1. finish(t)
      BY <1>9, <2>3 DEF StopFailure, t
    <3>2. \A i \in DOMAIN posts' : posts'[i].event \in Ends \cup {"PostCompact"} => t < posts'[i].turn
      BY <1>6, <2>1
    <3>3. QED BY <1>1, <1>2, <1>3, <1>4, <1>6, <2>1, <3>1, <3>2, Says
  <2>4. QED BY <2>2, <2>3
<1>10. ASSUME PostCompact PROVE SaidOK' /\ PendingOK'
  <2>1. Head(posts).event = "PostCompact" /\ finish(t)
    BY <1>10 DEF PostCompact, Receive, t
  <2>2. turn # "idle" => t < turnNo
    BY <1>6, <1>7, <2>1
  <2>3. \A i \in DOMAIN posts' : posts'[i].event \in Ends \cup {"PostCompact"} => t < posts'[i].turn
    BY <1>6, <2>1, <2>2
  <2>4. QED BY <1>1, <1>2, <1>3, <1>4, <1>6, <2>1, <2>2, <2>3, Says
<1>11. ASSUME ~Stop, ~StopFailure, ~PostCompact PROVE SaidOK' /\ PendingOK'
  <2>1. reports' = reports /\ (pending' # "none" => pending # "none" /\ pendingTurn' = pendingTurn)
    <3>1. CASE UserPromptSubmit
      BY <3>1 DEF UserPromptSubmit, cancelPending
    <3>2. CASE SubagentStop
      BY <3>2 DEF SubagentStop
    <3>3. CASE PostAutoCompact \/ raisePrompt \/ ElicitationResult \/ IgnoreStopped
      BY <3>3 DEF PostAutoCompact, raisePrompt, ElicitationResult, IgnoreStopped, ours, finishing
    <3>4. QED BY <1>11, <3>1, <3>2, <3>3 DEF Deliver
  <2>2. pending' # "none" => /\ pendingTurn' <= turnNo
                             /\ \A i \in DOMAIN posts' :
                                  posts'[i].event = "PostCompact" => pendingTurn' < posts'[i].turn
                             /\ ~misread => \A k \in DOMAIN reports : reports[k] < pendingTurn'
    BY <1>1, <1>4, <2>1 DEF PendingOK, SaidOK
  <2>3. QED BY <1>1, <1>2, <1>3, <1>4, <2>1, <2>2, Waits
<1>12. HoldInv'
  BY DeliverHolds DEF FinishInv
<1>13. QED BY <1>4, <1>8, <1>9, <1>10, <1>11, <1>12 DEF FinishInv

(* A check that reports found the turn over. *)
LEMMA CheckFinish == ASSUME FinishInv, check PROVE FinishInv' /\ (reports' # reports => turn # "working" \/ misread')
<1>1. /\ TypeOK /\ TypeOK' /\ CliOK /\ FinishingOK /\ CheckOK
      /\ EndsOK /\ TurnsOK /\ CompactsOK /\ PromptsOK /\ PendingOK /\ SaidOK
  BY OurTypes, Parts DEF FinishInv, HoldInv
<1>2. posts' = posts /\ UNCHANGED <<turn, turnNo>>
  BY DEF check, cli
<1>3. HoldInv' /\ EndsOK' /\ TurnsOK' /\ CompactsOK' /\ PromptsOK'
  BY <1>1, <1>2, TimersHold DEF FinishInv, EndsOK, TurnsOK, CompactsOK, PromptsOK
<1>4. pending # "none"
  BY <1>1 DEF check, CheckOK
<1>5. PICK status \in RegistryStatus : checkWith(status) /\ misread' = (misread \/ status = "unreadable")
  BY DEF check
<1>6. (misread' = FALSE => misread = FALSE) /\ (~misread' => ~misread)
  BY <1>1, <1>5, Parts DEF FlagsOK
<1>7. CASE isSettled(status)
  <2>1. finish(pendingTurn)
    BY <1>5, <1>7 DEF checkWith, confirmed
  <2>2. ~misread' => turn = "idle"
    BY <1>5, <1>7 DEF isSettled, RegistryStatus
  <2>3. \A i \in DOMAIN posts : posts[i].event \in Ends => turn # "idle"
    BY <1>1 DEF EndsOK
  <2>4. pendingTurn \in 0..MaxTurns /\ pendingTurn <= turnNo
    BY <1>1, <1>4 DEF FinishingOK, PendingOK
  <2>5. ~misread' => \A k \in DOMAIN reports : reports[k] < pendingTurn
    BY <1>1, <1>4, <1>6 DEF SaidOK
  <2>6. \A i \in DOMAIN posts' : posts'[i].event \in Ends \cup {"PostCompact"} /\ ~misread' => pendingTurn < posts'[i].turn
    BY <1>1, <1>2, <1>4, <2>2, <2>3 DEF PendingOK
  <2>7. SaidOK' /\ PendingOK'
    BY <1>1, <1>2, <1>6, <2>1, <2>2, <2>4, <2>5, <2>6, Says
  <2>8. QED BY <1>3, <2>2, <2>7 DEF FinishInv
<1>8. CASE ~isSettled(status)
  <2>1. reports' = reports /\ (pending' # "none" => pendingTurn' = pendingTurn)
    BY <1>5, <1>8 DEF checkWith, giveUp, cancelPending, recheck
  <2>2. misread' = misread
    BY <1>1, <1>5, <1>8, Parts DEF isSettled, FlagsOK
  <2>3. SaidOK' /\ PendingOK'
    BY <1>1, <1>2, <1>4, <2>1, <2>2 DEF SaidOK, PendingOK
  <2>4. QED BY <1>3, <2>1, <2>3 DEF FinishInv
<1>9. QED BY <1>7, <1>8

(* Every step keeps the reports in the order of the turns. *)
LEMMA FinishKept == ASSUME FinishInv, [Next]_vars PROVE FinishInv'
<1>1. ASSUME CliStep PROVE FinishInv'
  <2>1. UNCHANGED ours
    BY <1>1 DEF CliStep, Prompt, StopTurn, Settle, Block, FailTurn, Interrupt, Compact, AutoCompact,
           Panel, StartAgent, EndAgent, Ask, Answer
  <2>2. HoldInv'
    BY <1>1, CliHolds DEF FinishInv
  <2>3. EndsOK' /\ TurnsOK' /\ CompactsOK' /\ PromptsOK' /\ PendingOK' /\ SaidOK'
    BY <1>1, <2>1, CliTurns, SettlesFinish, MovesFinish
  <2>4. QED BY <2>2, <2>3 DEF FinishInv
<1>2. ASSUME stop PROVE FinishInv'
  <2>1. posts' = posts /\ UNCHANGED <<turn, turnNo, misread, reports>> /\ pending' = "none"
    BY <1>2 DEF stop, cli, cancelPending
  <2>2. QED BY <1>2, <2>1, TimersHold DEF FinishInv, EndsOK, TurnsOK, CompactsOK, PromptsOK, PendingOK, SaidOK
<1>3. ASSUME healthCheck PROVE FinishInv'
  <2>1. UNCHANGED <<posts, turn, turnNo, misread, reports, pending, pendingTurn>>
    BY <1>3 DEF healthCheck, cli, finishing
  <2>2. QED BY <1>3, <2>1, TimersHold DEF FinishInv, EndsOK, TurnsOK, CompactsOK, PromptsOK, PendingOK, SaidOK
<1>4. ASSUME UNCHANGED vars PROVE FinishInv'
  <2>1. UNCHANGED <<posts, turn, turnNo, misread, reports, pending, pendingTurn>>
    BY <1>4 DEF vars, cli, finishing
  <2>2. HoldInv'
    BY <1>4, StutterHolds DEF FinishInv
  <2>3. QED BY <2>1, <2>2 DEF FinishInv, EndsOK, TurnsOK, CompactsOK, PromptsOK, PendingOK, SaidOK
<1>5. QED BY <1>1, <1>2, <1>3, <1>4, DeliverFinish, CheckFinish DEF Next

(* The reports' order: an invariant of every behaviour. *)
LEMMA FinishInvariant == Spec => []FinishInv
<1>1. Init => FinishInv
  <2>1. Init => DOMAIN posts = {} /\ DOMAIN reports = {} /\ pending = "none"
    BY DEF Init
  <2>2. QED BY <2>1, InitHolds DEF FinishInv, EndsOK, TurnsOK, CompactsOK, PromptsOK, PendingOK, SaidOK
<1>2. QED BY <1>1, FinishKept, PTL DEF Spec

(* No turn is reported finished twice, and the reports come in the order of the turns: over
   Stop hooks that block, subagents that wake the agent, compactions and interrupts, as long
   as the registry could be read. *)
THEOREM OneFinish == Spec => []OneFinishPerTurn
<1>1. FinishInv => OneFinishPerTurn
  BY DEF FinishInv, SaidOK, OneFinishPerTurn
<1>2. QED BY <1>1, FinishInvariant, PTL

(* What a turn that runs is told finished by a compaction before it, is told before it. *)
LEMMA FinishSpeaksTrue ==
  ASSUME FinishInv, [Next]_vars, reports' # reports
  PROVE  turn # "working" \/ PromptOnItsWay \/ misread'
<1>1. /\ TypeOK /\ PostsOK /\ EndsOK /\ TurnsOK /\ CompactsOK /\ PromptsOK
  BY Parts DEF FinishInv, HoldInv
<1>2. CASE StopFailure
  <2>1. posts # <<>> /\ Head(posts).event = "StopFailure" /\ posts' = Tail(posts)
    BY <1>2 DEF StopFailure, Receive
  <2>2. 1 \in DOMAIN posts /\ posts[1].event = "StopFailure"
    BY <1>1, <2>1, Arrived
  <2>3. QED BY <1>1, <2>2 DEF EndsOK, Ends
<1>3. CASE PostCompact
  <2>1. posts # <<>> /\ Head(posts).event = "PostCompact" /\ posts' = Tail(posts)
    BY <1>3 DEF PostCompact, Receive
  <2>2. 1 \in DOMAIN posts /\ posts[1].event = "PostCompact"
    BY <1>1, <2>1, Arrived
  <2>3. turn = "working" => posts[1].turn <= turnNo /\ posts[1].turn # turnNo
    BY <1>1, <2>2 DEF TurnsOK, CompactsOK
  <2>4. turnNo \in Nat /\ posts[1].turn \in Nat
    <3>1. posts[1] \in Deliveries /\ turnNo \in Nat
      BY <1>1, <2>2, Parts DEF PostsOK, CliOK
    <3>2. QED BY <3>1 DEF Deliveries
  <2>5. QED BY <1>1, <2>2, <2>3, <2>4 DEF PromptsOK, PromptOnItsWay
<1>4. CASE check
  BY <1>4, CheckFinish
<1>5. CASE ~StopFailure /\ ~PostCompact /\ ~check
  <2>1. ASSUME CliStep PROVE reports' = reports
    BY <2>1 DEF CliStep, Prompt, StopTurn, Settle, Block, FailTurn, Interrupt, Compact, AutoCompact,
           Panel, StartAgent, EndAgent, Ask, Answer, ours
  <2>2. ASSUME Deliver PROVE reports' = reports
    BY <1>5, <2>2 DEF Deliver, UserPromptSubmit, Stop, SubagentStop, PostAutoCompact, raisePrompt,
           ElicitationResult, IgnoreStopped, ours
  <2>3. ASSUME stop \/ healthCheck \/ UNCHANGED vars PROVE reports' = reports
    BY <2>3 DEF stop, healthCheck, vars
  <2>4. QED BY <1>5, <2>1, <2>2, <2>3 DEF Next
<1>6. QED BY <1>2, <1>3, <1>4, <1>5

(* "Finished" is never said of a turn at work: the agent has stopped, or what follows tells of
   the turn it has begun; unless the registry could not be read. *)
THEOREM FinishesAreTrue == Spec => FinishIsTrue
<1>1. FinishInv /\ [Next]_vars => [reports' # reports => turn # "working" \/ PromptOnItsWay \/ misread']_vars
  BY FinishSpeaksTrue
<1>2. QED BY <1>1, FinishInvariant, PTL DEF Spec, FinishIsTrue
=============================================================================
