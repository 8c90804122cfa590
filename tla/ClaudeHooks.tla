----------------------------- MODULE ClaudeHooks -----------------------------
(***************************************************************************)
(* ClaudeHookAttention: how one Claude instance's hook deliveries become    *)
(* the reports everything downstream acts on -- finished (`waiting`), needs *)
(* you (`prompt`) and its clearing -- together with the CLI that sends the  *)
(* hooks.  The CLI, its registry file and the user are external; what they  *)
(* do is what the code's comments record as measured.  Hooks are posted     *)
(* asynchronously and arrive in order; timers fire at any moment relative   *)
(* to the CLI, so no property rests on how long a delay is.                 *)
(***************************************************************************)
EXTENDS Naturals, Sequences

CONSTANTS Agents,        \* ids of background subagents
          Main,          \* the main agent, where an id would be undefined
          Mcp,           \* an MCP server's form
          GiveUpChecks,  \* BUSY_GIVE_UP_MS in registry reads
          MissingPolls,  \* HOOKS_MISSING_MS in health polls
          MaxTurns,      \* bound: turns the user and the CLI start
          MaxPosts       \* bound: hook deliveries in flight

ASSUME HooksAssumption ==
  /\ Main \notin Agents /\ Mcp \notin Agents \cup {Main}
  /\ GiveUpChecks \in Nat /\ MissingPolls \in Nat /\ MaxTurns \in Nat /\ MaxPosts \in Nat

VARIABLES
  (* the CLI *)
  hooksRun,   \* FALSE: disableAllHooks, or a managed policy
  turn,       \* "idle", "working", "stopping" (its Stop hooks run) or "failing"
  turnNo,     \* turns started so far, a manual /compact counting as one
  ended,      \* the turn whose end nothing has superseded; 0 while there is none
  agents,     \* background subagents at work
  asking,     \* whose dialogs are on screen
  panel,      \* the builder has a panel open (/cost, /status)
  wake,       \* a subagent ended and the CLI is to wake the agent
  posts,      \* hook deliveries on their way to Multi-Code
  (* ClaudeHookAttention *)
  pending,           \* "none", "confirm", "hold", "grace"
  held,              \* pending.agents
  pendingTurn,       \* whose finish is pending (history)
  timer,             \* a check is scheduled
  checks,            \* registry reads since pending.startedAt
  promptOutstanding,
  knownRunning,
  stopped,
  heardFromHooks, reportedMissing,
  seenPolls,         \* health polls since the registry was seen; 0 before
  gaveUp,            \* the last Stop was given up on (history)
  misread,           \* a check could not read the registry (history)
  reports            \* the turns reported finished, in order (history)

cli == <<hooksRun, turn, turnNo, ended, agents, asking, panel, wake>>
finishing == <<pending, held, pendingTurn, timer, checks, gaveUp, misread>>
health == <<heardFromHooks, reportedMissing, seenPolls>>
vars == <<cli, posts, finishing, promptOutstanding, knownRunning, stopped, health, reports>>

Deliveries ==
  [event : {"UserPromptSubmit", "Stop", "SubagentStop", "StopFailure", "PostCompact",
            "AutoCompact", "PermissionRequest", "Elicitation", "ElicitationResult"},
   agent : Agents \cup {Main}, running : SUBSET Agents, turn : 0..MaxTurns]

TypeOK ==
  /\ hooksRun \in BOOLEAN
  /\ turn \in {"idle", "working", "stopping", "failing"}
  /\ turnNo \in 0..MaxTurns /\ ended \in 0..MaxTurns
  /\ agents \subseteq Agents
  /\ asking \subseteq Agents \cup {Main, Mcp}
  /\ panel \in BOOLEAN /\ wake \in BOOLEAN
  /\ posts \in Seq(Deliveries)
  /\ pending \in {"none", "confirm", "hold", "grace"}
  /\ held \subseteq Agents
  /\ pendingTurn \in 0..MaxTurns
  /\ timer \in BOOLEAN
  /\ checks \in 0..GiveUpChecks
  /\ promptOutstanding \in BOOLEAN
  /\ knownRunning \subseteq Agents
  /\ stopped \in BOOLEAN
  /\ heardFromHooks \in BOOLEAN /\ reportedMissing \in BOOLEAN
  /\ seenPolls \in 0..MissingPolls + 1
  /\ gaveUp \in BOOLEAN /\ misread \in BOOLEAN
  /\ reports \in Seq(0..MaxTurns)

Init ==
  /\ hooksRun \in BOOLEAN
  /\ turn = "idle" /\ turnNo = 0 /\ ended = 0
  /\ agents = {} /\ asking = {} /\ panel = FALSE /\ wake = FALSE
  /\ posts = <<>>
  /\ pending = "none" /\ held = {} /\ pendingTurn = 0 /\ timer = FALSE /\ checks = 0
  /\ promptOutstanding = FALSE /\ knownRunning = {} /\ stopped = FALSE
  /\ heardFromHooks = FALSE /\ reportedMissing = FALSE /\ seenPolls = 0
  /\ gaveUp = FALSE /\ misread = FALSE /\ reports = <<>>

-----------------------------------------------------------------------------
(* The CLI and the builder in it *)

\* A hook runs curl, which posts the event; Multi-Code may never hear of it.
Post(event, agent, running) ==
  /\ UNCHANGED hooksRun
  /\ Len(posts) < MaxPosts
  /\ posts' = IF hooksRun
              THEN Append(posts, [event |-> event, agent |-> agent, running |-> running,
                                  turn |-> turnNo'])
              ELSE posts

ours == <<finishing, promptOutstanding, knownRunning, stopped, health, reports>>

\* A turn begins: typed by the builder, or a <task-notification> waking the agent.
Prompt ==
  /\ turn = "idle" /\ ~panel /\ turnNo < MaxTurns
  /\ wake \/ asking = {}
  /\ turn' = "working" /\ turnNo' = turnNo + 1 /\ ended' = 0 /\ wake' = FALSE
  /\ Post("UserPromptSubmit", Main, {})
  /\ UNCHANGED <<agents, asking, panel, ours>>

StartAgent(a) ==
  /\ turn = "working" /\ Main \notin asking /\ a \notin agents
  /\ agents' = agents \cup {a}
  /\ UNCHANGED <<hooksRun, turn, turnNo, ended, asking, panel, wake, posts, ours>>

\* A dialog: a permission question of the main agent or a subagent, an MCP form.
Ask(who) ==
  /\ who \notin asking /\ ~panel
  /\ who \in Agents => who \in agents
  /\ who \in {Main, Mcp} => turn = "working" /\ asking \cap {Main, Mcp} = {}
  /\ asking' = asking \cup {who}
  /\ UNCHANGED <<turn, turnNo, ended, agents, panel, wake>>
  /\ IF who = Mcp THEN Post("Elicitation", Main, {}) ELSE Post("PermissionRequest", who, {})
  /\ UNCHANGED ours

\* Answering posts nothing for a permission question (no PostToolUse hook is set).
Answer(who) ==
  /\ who \in asking
  /\ asking' = asking \ {who}
  /\ UNCHANGED <<turn, turnNo, ended, agents, panel, wake>>
  /\ IF who = Mcp THEN Post("ElicitationResult", Main, {}) ELSE UNCHANGED <<hooksRun, posts>>
  /\ UNCHANGED ours

\* A background subagent ends, and the CLI is to wake the agent (or never does).
EndAgent(a) ==
  /\ a \in agents /\ a \notin asking
  /\ agents' = agents \ {a}
  /\ wake' \in {TRUE, wake}
  /\ UNCHANGED <<turn, turnNo, ended, asking, panel>>
  /\ Post("SubagentStop", a, {})
  /\ UNCHANGED ours

\* The Stop hooks start; the registry stays busy while they run.
StopTurn ==
  /\ turn = "working" /\ asking \cap {Main, Mcp} = {}
  /\ turn' = "stopping"
  /\ UNCHANGED <<turnNo, ended, agents, asking, panel, wake>>
  /\ Post("Stop", Main, agents)
  /\ UNCHANGED ours

\* The turn dies on an API error.
FailTurn ==
  /\ turn = "working" /\ asking \cap {Main, Mcp} = {}
  /\ turn' = "failing"
  /\ UNCHANGED <<turnNo, ended, agents, asking, panel, wake>>
  /\ Post("StopFailure", Main, {})
  /\ UNCHANGED ours

\* The turn ends, or a user's own Stop hook keeps it going.  The report has landed
\* by then: the registry was measured to leave `busy` 15 to 60 ms after it.
EndLanded == \A i \in DOMAIN posts : posts[i].event \notin {"Stop", "StopFailure"}

Settle ==
  /\ turn \in {"stopping", "failing"} /\ EndLanded
  /\ turn' = "idle" /\ ended' = turnNo
  /\ UNCHANGED <<hooksRun, turnNo, agents, asking, panel, wake, posts, ours>>

Block ==
  /\ turn = "stopping" /\ EndLanded
  /\ turn' = "working"
  /\ UNCHANGED <<hooksRun, turnNo, ended, agents, asking, panel, wake, posts, ours>>

\* Esc ends the turn, and the main agent's dialog with it, without a hook.
Interrupt ==
  /\ turn = "working"
  /\ turn' = "idle" /\ asking' = asking \ {Main, Mcp}
  /\ UNCHANGED <<hooksRun, turnNo, ended, agents, panel, wake, posts, ours>>

\* A manual /compact, which sends no Stop; an automatic one inside a turn.
Compact ==
  /\ turn = "idle" /\ ~panel /\ asking = {} /\ turnNo < MaxTurns
  /\ turnNo' = turnNo + 1 /\ ended' = turnNo'
  /\ UNCHANGED <<turn, agents, asking, panel, wake>>
  /\ Post("PostCompact", Main, {})
  /\ UNCHANGED ours

AutoCompact ==
  /\ turn = "working" /\ asking = {}
  /\ UNCHANGED <<turn, turnNo, ended, agents, asking, panel, wake>>
  /\ Post("AutoCompact", Main, {})
  /\ UNCHANGED ours

Panel ==
  /\ panel \/ (turn = "idle" /\ asking = {})
  /\ panel' = ~panel
  /\ UNCHANGED <<hooksRun, turn, turnNo, ended, agents, asking, wake, posts, ours>>

\* What the registry may read: nothing while its entry is being rewritten (bound: one
\* such read); either way while only subagents work.
RegistryStatus ==
  (IF misread THEN {} ELSE {"unreadable"}) \cup
  IF asking # {} \/ panel THEN {"waiting"}
  ELSE IF turn # "idle" THEN {"busy"}
  ELSE IF agents # {} THEN {"busy", "idle"}
  ELSE {"idle", "shell"}

\* (A slip: a turn that still runs counts as settled.)
SettledBusy(status) == status # "waiting"

\* An unreadable registry leaves the Stop's word standing.
isSettled(status) == status \in {"idle", "shell", "unreadable"}

-----------------------------------------------------------------------------
(* ClaudeHookAttention *)

cancelPending == /\ timer' = FALSE
                 /\ pending' = "none" /\ held' = {} /\ pendingTurn' = 0 /\ checks' = 0

finish(t) == /\ timer' = FALSE
             /\ pending' = "none" /\ held' = {} /\ pendingTurn' = 0 /\ checks' = 0
             /\ reports' = Append(reports, t)

hold(who, t) == /\ pending' = "hold" /\ held' = who /\ pendingTurn' = t
                /\ timer' = FALSE /\ checks' = 0

confirm(t) == /\ pending' = "confirm" /\ held' = {} /\ pendingTurn' = t
              /\ timer' = TRUE /\ checks' = 0

clearPrompt == promptOutstanding' = FALSE

noteHeard == /\ heardFromHooks' = TRUE
             /\ reportedMissing' = FALSE
             /\ UNCHANGED seenPolls

\* The delivery that arrives next. Once stopped, nothing is done with it.
Receive(event) ==
  /\ posts # <<>> /\ Head(posts).event = event
  /\ posts' = Tail(posts)
  /\ ~stopped
  /\ noteHeard
  /\ UNCHANGED <<cli, stopped>>

UserPromptSubmit ==
  /\ Receive("UserPromptSubmit")
  /\ cancelPending
  /\ clearPrompt
  /\ UNCHANGED <<knownRunning, gaveUp, misread, reports>>

Stop ==
  /\ Receive("Stop")
  /\ clearPrompt
  /\ knownRunning' = Head(posts).running
  /\ IF Head(posts).running # {} THEN hold(Head(posts).running, Head(posts).turn)
                                 ELSE confirm(Head(posts).turn)
  /\ gaveUp' = FALSE
  /\ UNCHANGED <<misread, reports>>

\* (Slips: deletes only while a finish is held; lets the hold go when its last subagent
\* stops.)
SubagentStopHeldOnly ==
  LET a == Head(posts).agent IN
  /\ Receive("SubagentStop")
  /\ IF pending = "hold"
     THEN /\ knownRunning' = knownRunning \ {a}
          /\ held' = held \ {a}
          /\ IF held' = {} THEN pending' = "grace" /\ timer' = TRUE
                           ELSE UNCHANGED <<pending, timer>>
     ELSE UNCHANGED <<held, pending, timer, knownRunning>>
  /\ UNCHANGED <<pendingTurn, checks, gaveUp, misread, promptOutstanding, reports>>

SubagentStopNoGrace ==
  LET a == Head(posts).agent IN
  /\ Receive("SubagentStop")
  /\ knownRunning' = knownRunning \ {a}
  /\ held' = held \ {a}
  /\ UNCHANGED <<pending, timer, pendingTurn, checks, gaveUp, misread, promptOutstanding,
                 reports>>

SubagentStop ==
  LET a == Head(posts).agent IN
  /\ Receive("SubagentStop")
  /\ knownRunning' = knownRunning \ {a}
  /\ IF pending = "hold"
     THEN /\ held' = held \ {a}
          /\ IF held' = {} THEN pending' = "grace" /\ timer' = TRUE
                           ELSE UNCHANGED <<pending, timer>>
     ELSE UNCHANGED <<held, pending, timer>>
  /\ UNCHANGED <<pendingTurn, checks, gaveUp, misread, promptOutstanding, reports>>

StopFailure ==
  /\ Receive("StopFailure")
  /\ clearPrompt
  /\ IF knownRunning # {}
     THEN hold(knownRunning, Head(posts).turn) /\ UNCHANGED reports
     ELSE finish(Head(posts).turn)
  /\ UNCHANGED <<knownRunning, gaveUp, misread>>

PostCompact ==
  /\ Receive("PostCompact")
  /\ finish(Head(posts).turn)
  /\ UNCHANGED <<knownRunning, gaveUp, misread, promptOutstanding>>

\* (A slip: any compaction ends its turn.)
CompactAnyTrigger ==
  /\ Receive("AutoCompact")
  /\ finish(Head(posts).turn)
  /\ UNCHANGED <<knownRunning, gaveUp, misread, promptOutstanding>>

\* An automatic compaction: its turn's own Stop will follow.
PostAutoCompact ==
  /\ Receive("AutoCompact")
  /\ UNCHANGED <<finishing, knownRunning, promptOutstanding, reports>>

raisePrompt ==
  /\ Receive("PermissionRequest") \/ Receive("Elicitation")
  /\ promptOutstanding' = TRUE
  /\ UNCHANGED <<finishing, knownRunning, reports>>

ElicitationResult ==
  /\ Receive("ElicitationResult")
  /\ clearPrompt
  /\ UNCHANGED <<finishing, knownRunning, reports>>

IgnoreStopped ==
  /\ stopped /\ posts # <<>>
  /\ posts' = Tail(posts)
  /\ UNCHANGED <<cli, ours>>

\* A scheduled check. Out of grace, it is an ordinary confirm from that moment.
confirmed(t) == finish(t) /\ UNCHANGED gaveUp

giveUp == /\ cancelPending
          /\ gaveUp' = TRUE
          /\ UNCHANGED reports

recheck(n) == /\ pending' = "confirm" /\ held' = {} /\ timer' = TRUE
              /\ checks' = n + 1
              /\ UNCHANGED <<pendingTurn, gaveUp, reports>>

checkWith(status) ==
  LET n == IF pending = "grace" THEN 0 ELSE checks IN
  IF isSettled(status) THEN confirmed(pendingTurn)
  ELSE IF n >= GiveUpChecks THEN giveUp
  ELSE recheck(n)

check ==
  /\ timer /\ ~stopped
  /\ \E status \in RegistryStatus : /\ checkWith(status)
                                   /\ misread' = (misread \/ status = "unreadable")
  /\ UNCHANGED <<cli, posts, promptOutstanding, knownRunning, stopped, health>>

\* The instance's pty went, or its contact was removed or restarted.
stop ==
  /\ ~stopped /\ stopped' = TRUE
  /\ cancelPending
  /\ UNCHANGED <<cli, posts, gaveUp, misread, promptOutstanding, knownRunning, health, reports>>

\* (A slip: looks once and does not schedule the next check.)
healthCheckOnce ==
  /\ ~stopped /\ ~heardFromHooks /\ seenPolls = 0
  /\ seenPolls' = 1
  /\ reportedMissing' = (seenPolls >= MissingPolls)
  /\ UNCHANGED <<cli, posts, finishing, promptOutstanding, knownRunning, stopped,
                 heardFromHooks, reports>>

\* Counts from the moment the registry lists the CLI until the first delivery.
healthCheck ==
  /\ ~stopped /\ ~heardFromHooks /\ ~reportedMissing
  /\ seenPolls' = IF seenPolls > MissingPolls THEN seenPolls ELSE seenPolls + 1
  /\ reportedMissing' = (seenPolls >= MissingPolls)
  /\ UNCHANGED <<cli, posts, finishing, promptOutstanding, knownRunning, stopped,
                 heardFromHooks, reports>>

-----------------------------------------------------------------------------
Deliver == \/ UserPromptSubmit \/ Stop \/ SubagentStop \/ StopFailure \/ PostCompact
           \/ PostAutoCompact \/ raisePrompt \/ ElicitationResult \/ IgnoreStopped

CliStep == \/ Prompt \/ StopTurn \/ Settle \/ Block \/ FailTurn \/ Interrupt
           \/ Compact \/ AutoCompact \/ Panel
           \/ \E a \in Agents : StartAgent(a) \/ EndAgent(a)
           \/ \E who \in Agents \cup {Main, Mcp} : Ask(who) \/ Answer(who)

Next == (~stopped /\ CliStep) \/ Deliver \/ check \/ stop \/ healthCheck

\* The HTTP server and the timers keep running; Stop hooks and subagents come to an
\* end, and the builder answers a subagent's dialog.  Nobody is owed a wake-up.
Fairness == /\ WF_vars(Deliver) /\ WF_vars(check) /\ WF_vars(healthCheck)
            /\ WF_vars(Settle)
            /\ \A a \in Agents : SF_vars(EndAgent(a)) /\ WF_vars(Answer(a))

Spec == Init /\ [][Next]_vars
FairSpec == Spec /\ Fairness

-----------------------------------------------------------------------------
(* Properties *)

PromptOnItsWay == \E i \in DOMAIN posts : posts[i].event = "UserPromptSubmit"

\* A finish waits for the subagents the agent's own last word listed as running: while
\* any is, the finish is held, for exactly them, and no check is scheduled.  And what it
\* waits for comes: a subagent this instance thinks is running either is, or its
\* SubagentStop (or a newer list) is on its way.
HoldMatchesKnown ==
  /\ TypeOK
  /\ pending = "hold" => held = knownRunning /\ held # {} /\ ~timer
  /\ pending \in {"confirm", "grace"} => knownRunning = {} /\ timer
  /\ ~stopped => \A a \in knownRunning \ agents :
       \E i \in DOMAIN posts : posts[i].event = "SubagentStop" /\ posts[i].agent = a

\* "Finished" is never reported mid-turn: the main agent has stopped, or has begun a
\* turn whose own report is on its way.  (An unreadable registry voids this: check
\* then goes by the Stop alone, which a Stop hook of the user's may have blocked.)
FinishIsTrue ==
  [][reports' # reports => turn # "working" \/ PromptOnItsWay \/ misread']_vars

\* No turn is reported finished twice, and reports come in the order of the turns,
\* whatever Stop hooks block, subagents wake the agent and compactions happen (as
\* long as the registry could be read).
OneFinishPerTurn ==
  ~misread => \A i, j \in DOMAIN reports : i < j => reports[i] < reports[j]

\* An instance whose hooks run reports every turn that ends: none stays unreported for ever,
\* unless a new turn begins, the instance stops, or the registry stayed busy for
\* BUSY_GIVE_UP_MS.  And one whose hooks never run says so.
TurnEndReported ==
  []<>(stopped \/ IF hooksRun THEN ended = 0 \/ gaveUp \/ \E i \in DOMAIN reports : reports[i] = ended
                              ELSE reportedMissing)

\* A dialog that blocks the builder stays reported for as long as it is on screen.
DialogStaysReported == asking # {} /\ posts = <<>> /\ hooksRun /\ ~stopped => promptOutstanding
=============================================================================
