------------------------------ MODULE MCFair ---------------------------------
(***************************************************************************)
(* What is checked under fairness, one part in each behaviour: the hooks of *)
(* a Claude instance (ClaudeHooks), two Claude contacts (SessionClaims), or *)
(* the connection to OpenCode's service (ServiceStream).  The variables of  *)
(* the parts that do not run keep their first values.                       *)
(***************************************************************************)
EXTENDS ClaudeHooks

CONSTANTS a1, c1, c2, s1, s2, None, Pending, MaxLaunches,
          Listeners, l1, Pumps, MaxServices, MaxOpens, MaxBreaks

VARIABLE part   \* one of Hooks, "claude", or one of Streams

VARIABLES up, instances, ptyProcess, sessionId, ownSessionId, discovery, saved, savedSession,
          launched, alive, program, working, published, transcripts, latest, minted

VARIABLES registered, services, listeners, opens, pumps, stream, tried, retryTimer,
          unreachableTimer, polling, status, pluginHeard, pluginMissing, serviceDown,
          breaks, synced

Contacts == {c1, c2}
Sessions == {s1, s2}

Claude ==
  INSTANCE SessionClaims WITH BackendOf <- [c \in Contacts |-> "claude"],
                              BackendOfSession <- [s \in Sessions |-> "claude"]
Stream == INSTANCE ServiceStream WITH health <- services

claimVars == <<up, instances, ptyProcess, sessionId, ownSessionId, discovery, saved,
               savedSession, launched, alive, program, working, published, transcripts,
               latest, minted>>
streamVars == <<registered, services, listeners, opens, pumps, stream, tried, retryTimer,
                unreachableTimer, polling, status, pluginHeard, pluginMissing, serviceDown,
                breaks, synced>>
allVars == <<part, vars, claimVars, streamVars>>

Hooks == {"turns", "agents"}
Streams == {"replaced", "shared", "reopened"}

\* None is neither a pump nor the record of one.
ASSUME StreamAssumption ==
  MaxServices \in Nat /\ None \notin Pumps /\ None \notin Stream!PumpRecords

PartsInit ==
  /\ part \in {"claude"} \cup Hooks \cup Streams
  /\ Init /\ Claude!Init /\ Stream!Init
  /\ part \notin Hooks => hooksRun
  /\ part # "claude" => transcripts = {}

\* Turns and dialogs with one subagent, or turns of two that ask nothing; two services, one
\* in place of the other; two contacts that share the stream; a stream that breaks and a
\* client that is closed and opened again.
InBounds ==
  /\ part = "turns" => agents' \subseteq {a1}
  /\ part = "agents" => asking' = {} /\ ~panel'
  /\ part = "replaced" => listeners' \subseteq {l1} /\ opens' <= 1 /\ breaks' = 0
  /\ part = "shared" => registered' <= 1 /\ opens' <= 1 /\ breaks' = 0
  /\ part = "reopened" => listeners' \subseteq {l1} /\ registered' <= 1

PartsNext ==
  \/ part \in Hooks /\ Next /\ InBounds /\ UNCHANGED <<part, claimVars, streamVars>>
  \/ part \in Hooks /\ stopped /\ posts = <<>> /\ UNCHANGED allVars   \* the instance is over
  \/ part = "claude" /\ Claude!Next /\ UNCHANGED <<part, vars, streamVars>>
  \/ part \in Streams /\ Stream!Next /\ InBounds /\ UNCHANGED <<part, vars, claimVars>>
  \/ part \in Streams /\ listeners = {} /\ UNCHANGED allVars   \* nobody listens any more

\* The poll's interval timer keeps running, and the CLI gets to write its registry entry; for
\* the hooks, and for the client of the service, the fairness of their modules.
PartsFairness ==
  /\ WF_vars(part \in Hooks /\ Deliver) /\ WF_vars(part \in Hooks /\ check)
  /\ WF_vars(part \in Hooks /\ healthCheck) /\ WF_vars(part \in Hooks /\ Settle)
  /\ \A a \in Agents : SF_vars(part \in Hooks /\ EndAgent(a)) /\ WF_vars(part \in Hooks /\ Answer(a))
  /\ \A c \in Contacts : WF_claimVars(part = "claude" /\ Claude!syncLiveSessionId(c))
  /\ \A p \in 1..MaxLaunches : /\ WF_claimVars(part = "claude" /\ Claude!Continue(p))
                               /\ WF_claimVars(part = "claude" /\ Claude!Register(p))
  /\ \A p \in Pumps :
       WF_streamVars(\/ Stream!ReadRegistration(p) \/ Stream!pump(p) \/ Stream!Connected(p)
                     \/ Stream!Stall(p) \/ Stream!Ends(p) \/ Stream!AfterPump(p))
  /\ WF_streamVars(Stream!Retry)
  /\ WF_streamVars(Stream!PollReads) /\ WF_streamVars(Stream!poll)

PartsSpec == PartsInit /\ [][PartsNext]_allVars /\ PartsFairness

-----------------------------------------------------------------------------
\* A running Claude contact reads the conversation its process has moved to, unless another
\* contact holds that one or the process moves on or ends first (syncLiveSessionId).  Nothing
\* tells the contacts, or the sessions, apart: one of each stands for all.
FollowsProcess ==
  []<>(\/ part # "claude" \/ ptyProcess[c1] = Claude!NoPid \/ working[ptyProcess[c1]] # s1
       \/ sessionId[c1] = s1 \/ Claude!isSessionClaimedBy(s1, c1))

\* One attempt to reach the service at a time, and a status that is the stream's
\* (ServiceStream: connect, retryLater, poll, close, setStatus).
StreamIsTrue == part \in Streams => Stream!OneAttempt /\ Stream!StatusIsTrue

\* A service that is registered and answers is reached, however the registration, a backoff
\* and a stalled or older stream raced (poll, retryLater).
ReachesService ==
  []<>(\/ part \notin Streams \/ listeners = {}
       \/ registered \notin 1..MaxServices \/ services[registered] # "up"
       \/ Stream!Reached(registered))
=============================================================================
