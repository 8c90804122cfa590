---------------------------- MODULE ServiceStream ----------------------------
(***************************************************************************)
(* The one connection Multi-Code keeps to OpenCode's shared service: found  *)
(* through the registration file, opened, watched for silence, lost and     *)
(* opened again, and replaced when another service registers; and what each *)
(* contact makes of its state (the degraded bar).                           *)
(*                                                                         *)
(* A pump is one run of connect().  Times are left out: an armed timer may  *)
(* fire whenever what it waits for has not come.  The pumps of a closed     *)
(* client touch nothing any more and are dropped with it.                   *)
(***************************************************************************)
EXTENDS Naturals, FiniteSets

CONSTANTS Listeners, Pumps, None,
          MaxServices,   \* bound: services ever registered
          MaxOpens,      \* bound: times the client is opened
          MaxBreaks      \* bound: streams of a running service that break

Services == 1..MaxServices
NoService == 0

VARIABLES
  registered,   \* the service in the registration file
  health,       \* of each service: "none" before it starts, "up", "hung" or "gone"
  listeners,
  opens,        \* this.run, as a count of opens
  pumps,        \* each running pump, or None
  stream,       \* the pump whose frames count
  tried,        \* the service the latest attempt read
  retryTimer, unreachableTimer,
  polling,      \* the service a poll has read, None when no poll is under way
  status,
  pluginHeard,  \* each contact's plugin has reported
  pluginMissing,
  serviceDown,  \* what each contact was last told
  breaks,       \* streams broken so far
  synced        \* contacts that re-synced on the stream there is

\* A pump's step, the service it found, whether it had server.connected, and why it was cut.
PumpRecords == [at : {"reading", "found", "opening", "streaming", "over"},
                found : Services \cup {NoService, None}, connected : BOOLEAN,
                cut : {None, "stalled", "replaced"}]

services == <<registered, health>>
client == <<opens, pumps, stream, tried, retryTimer, unreachableTimer, polling, status>>
contacts == <<pluginHeard, pluginMissing, serviceDown, synced>>
serviceVars == <<services, breaks, listeners, client, contacts>>

Init ==
  /\ registered = NoService /\ health = [i \in Services |-> "none"]
  /\ breaks = 0
  /\ listeners = {} /\ opens = 0
  /\ pumps = [p \in Pumps |-> None] /\ stream = None
  /\ tried = NoService
  /\ retryTimer = FALSE /\ unreachableTimer = FALSE /\ polling = None
  /\ status = "connecting"
  /\ pluginHeard = {} /\ pluginMissing = {} /\ serviceDown = {} /\ synced = {}

-----------------------------------------------------------------------------
(* The service *)

\* A service starts and registers itself, the first one or in place of another, which may
\* go on running; or stops answering, dies, or takes its registration away.
Register(i) ==
  /\ health[i] = "none" /\ \A j \in 1..i - 1 : health[j] # "none"
  /\ registered' = i
  /\ health' = [health EXCEPT ![i] = "up"]
  /\ UNCHANGED <<listeners, client, contacts, breaks>>

Ail(i) ==
  /\ \/ health[i] = "up" /\ health' = [health EXCEPT ![i] = "hung"]
     \/ health[i] \in {"up", "hung"} /\ health' = [health EXCEPT ![i] = "gone"]
  /\ registered' \in {registered, IF registered = i THEN NoService ELSE registered}
  /\ UNCHANGED <<listeners, client, contacts, breaks>>

-----------------------------------------------------------------------------
(* What the contacts are told *)

\* setStatus: onStatus of everybody listening.  `connecting` changes nothing for them.
Tell(new) ==
  /\ status' = new
  /\ serviceDown' = CASE new = "unreachable" -> serviceDown \cup listeners
                      [] new = "connected" -> serviceDown \ listeners
                      [] OTHER -> serviceDown

\* reportHealth: the service outranks the plugin.
Bar(l) == IF l \in serviceDown THEN "service" ELSE IF l \in pluginMissing THEN "plugin" ELSE "ok"

PluginPosts(l) ==
  /\ l \in listeners \ pluginHeard
  /\ pluginHeard' = pluginHeard \cup {l}
  /\ pluginMissing' = pluginMissing \ {l}
  /\ UNCHANGED <<services, breaks, listeners, client, serviceDown, synced>>

PluginMissing(l) ==
  /\ l \in listeners \ (pluginHeard \cup pluginMissing)
  /\ pluginMissing' = pluginMissing \cup {l}
  /\ UNCHANGED <<services, breaks, listeners, client, pluginHeard, serviceDown, synced>>

-----------------------------------------------------------------------------
(* The client *)

NewPump(p) ==
  /\ pumps[p] = None
  /\ pumps' = [pumps EXCEPT ![p] = [at |-> "reading", found |-> None, connected |-> FALSE, cut |-> None]]
  /\ stream' = p

connect == \E p \in Pumps : NewPump(p)

\* The first subscriber opens the client; a later one is told how things are, and
\* re-syncs when the stream is up.
subscribe(l) ==
  /\ l \notin listeners
  /\ listeners' = listeners \cup {l}
  /\ IF listeners = {}
     THEN /\ opens < MaxOpens /\ opens' = opens + 1
          /\ connect
          /\ tried' = NoService /\ status' = "connecting"
          /\ unreachableTimer' = TRUE
          /\ serviceDown' = serviceDown \ {l} /\ synced' = synced \ {l}
          /\ UNCHANGED <<retryTimer, polling>>
     ELSE /\ serviceDown' = IF status = "unreachable" THEN serviceDown \cup {l} ELSE serviceDown \ {l}
          /\ synced' = IF status = "connected" THEN synced \cup {l} ELSE synced \ {l}
          /\ UNCHANGED client
  /\ pluginHeard' = pluginHeard \ {l} /\ pluginMissing' = pluginMissing \ {l}
  /\ UNCHANGED <<services, breaks>>

unsubscribe(l) ==
  /\ l \in listeners
  /\ listeners' = listeners \ {l}
  /\ IF listeners' = {}
     THEN /\ pumps' = [p \in Pumps |-> None] /\ stream' = None
          /\ retryTimer' = FALSE /\ unreachableTimer' = FALSE
          /\ status' = "connecting"
          /\ UNCHANGED <<opens, tried, polling>>
     ELSE UNCHANGED client
  /\ UNCHANGED <<services, breaks, contacts>>

At(p, step) == pumps[p] # None /\ pumps[p].at = step
Step(p, field, value) == pumps' = [pumps EXCEPT ![p][field] = value]
RestOfClient == UNCHANGED <<opens, retryTimer, polling>>

\* endpoint(): the file is read, and the answer used.
ReadRegistration(p) ==
  /\ At(p, "reading")
  /\ pumps' = [pumps EXCEPT ![p].at = "found", ![p].found = registered]
  /\ UNCHANGED <<services, breaks, listeners, contacts, stream, tried, unreachableTimer, status>> /\ RestOfClient

\* pump(): the registered service is asked for its events.
pump(p) ==
  /\ At(p, "found")
  /\ tried' = pumps[p].found
  /\ Step(p, "at", IF pumps[p].cut # None \/ pumps[p].found = NoService THEN "over" ELSE "opening")
  /\ UNCHANGED <<services, breaks, listeners, contacts, stream, unreachableTimer, status>> /\ RestOfClient

\* frame(): server.connected, the stream is live.
Connected(p) ==
  /\ At(p, "opening") /\ pumps[p].cut = None /\ stream = p
  /\ health[pumps[p].found] = "up"
  /\ pumps' = [pumps EXCEPT ![p].at = "streaming", ![p].connected = TRUE]
  /\ unreachableTimer' = FALSE
  /\ Tell("connected") /\ synced' = listeners
  /\ UNCHANGED <<services, breaks, listeners, stream, tried, pluginHeard, pluginMissing>> /\ RestOfClient

\* The watchdog cuts a stream that did not open in time, or went silent.
Stall(p) ==
  /\ At(p, "opening") \/ At(p, "streaming")
  /\ pumps[p].cut = None
  /\ health[pumps[p].found] = "hung"
  /\ Step(p, "cut", "stalled")
  /\ UNCHANGED <<services, breaks, listeners, contacts, stream, tried, unreachableTimer, status>> /\ RestOfClient

\* The request fails, the stream ends, or the cut takes effect.
Ends(p) ==
  /\ At(p, "opening") \/ At(p, "streaming")
  /\ pumps[p].cut # None \/ health[pumps[p].found] = "gone"
  /\ Step(p, "at", "over")
  /\ UNCHANGED <<services, breaks, listeners, contacts, stream, tried, unreachableTimer, status>> /\ RestOfClient

Breaks(p) ==
  /\ At(p, "opening") \/ At(p, "streaming")
  /\ breaks < MaxBreaks /\ breaks' = breaks + 1
  /\ Step(p, "at", "over")
  /\ UNCHANGED <<services, listeners, contacts, stream, tried, unreachableTimer, status>> /\ RestOfClient

\* The rest of connect(): a lost stream starts the outage clock; a replaced one is opened
\* again at once, any other after a while.
AfterPump(p) ==
  /\ At(p, "over")
  /\ IF pumps[p].connected
     THEN /\ Tell("connecting")
          /\ unreachableTimer' = TRUE /\ synced' = {}
     ELSE UNCHANGED <<status, unreachableTimer, serviceDown, synced>>
  /\ IF pumps[p].cut = "replaced"
     THEN /\ pumps' = [pumps EXCEPT ![p] = [at |-> "reading", found |-> None, connected |-> FALSE,
                                            cut |-> None]]
          /\ stream' = p /\ UNCHANGED retryTimer
     ELSE /\ pumps' = [pumps EXCEPT ![p] = None]
          /\ stream' = IF stream = p THEN None ELSE stream
          /\ retryTimer' = TRUE
  /\ UNCHANGED <<services, breaks, listeners, opens, tried, polling, pluginHeard, pluginMissing>>

Retry ==
  /\ retryTimer /\ retryTimer' = FALSE
  /\ connect
  /\ UNCHANGED <<services, breaks, listeners, contacts, opens, tried, unreachableTimer, polling, status>>

Unreachable ==
  /\ unreachableTimer /\ unreachableTimer' = FALSE
  /\ Tell("unreachable")
  /\ UNCHANGED <<services, breaks, listeners, opens, pumps, stream, tried, retryTimer, polling,
                 pluginHeard, pluginMissing, synced>>

\* poll(): the registration is read, for the open of that moment.
PollReads ==
  /\ polling = None /\ listeners # {}
  /\ polling' = [found |-> registered, opens |-> opens]
  /\ UNCHANGED <<services, breaks, listeners, contacts, opens, pumps, stream, tried, retryTimer,
                 unreachableTimer, status>>

RestOfPoll == UNCHANGED <<services, breaks, listeners, contacts, opens, unreachableTimer, status>>

\* The poll found another service than the latest attempt's.
Replaces == /\ listeners # {} /\ polling.opens = opens
            /\ polling.found \notin {NoService, tried}

\* (Slips: opens a stream beside the one there is; leaves a stream there is alone.)
pollBeside ==
  /\ polling # None /\ polling' = None
  /\ IF ~Replaces THEN UNCHANGED <<tried, pumps, stream, retryTimer>>
     ELSE tried' = polling.found /\ retryTimer' = FALSE /\ connect
  /\ RestOfPoll

pollPatient ==
  /\ polling # None /\ polling' = None
  /\ IF ~Replaces \/ stream # None THEN UNCHANGED <<tried, pumps, stream, retryTimer>>
     ELSE tried' = polling.found /\ retryTimer' = FALSE /\ connect
  /\ RestOfPoll

\* Its stream replaces the one there is, or the wait for the next attempt.
poll ==
  /\ polling # None /\ polling' = None
  /\ IF ~Replaces THEN UNCHANGED <<tried, pumps, stream, retryTimer>>
     ELSE /\ tried' = polling.found
          /\ IF stream # None
             THEN /\ pumps' = [pumps EXCEPT ![stream].cut = IF @ = None THEN "replaced" ELSE @]
                  /\ UNCHANGED <<stream, retryTimer>>
             ELSE retryTimer' = FALSE /\ connect
  /\ RestOfPoll

-----------------------------------------------------------------------------
Client == \/ \E p \in Pumps : \/ ReadRegistration(p) \/ pump(p) \/ Connected(p)
                              \/ Stall(p) \/ Ends(p) \/ AfterPump(p)
          \/ Retry \/ Unreachable \/ PollReads \/ poll

World == \/ \E i \in Services : Register(i) \/ Ail(i)
         \/ \E p \in Pumps : Breaks(p)
         \/ \E l \in Listeners : subscribe(l) \/ unsubscribe(l) \/ PluginPosts(l) \/ PluginMissing(l)

Next == World \/ Client

\* Timers fire, the poll's interval runs and requests end, answered or timed out.
Fairness == /\ \A p \in Pumps : WF_serviceVars(ReadRegistration(p) \/ pump(p) \/ Connected(p)
                                                 \/ Stall(p) \/ Ends(p) \/ AfterPump(p))
            /\ WF_serviceVars(Retry)
            /\ WF_serviceVars(PollReads) /\ WF_serviceVars(poll)

Spec == Init /\ [][Next]_serviceVars /\ Fairness

-----------------------------------------------------------------------------
(* Properties *)

Running == {p \in Pumps : pumps[p] # None}

\* While anybody listens there is exactly one attempt, live, under way or due; and none
\* otherwise (connect, retryLater, poll, close).
OneAttempt ==
  Cardinality(Running) + (IF retryTimer THEN 1 ELSE 0) = (IF listeners = {} THEN 0 ELSE 1)

\* The status is the stream's: connected while it is live, and every contact that listens
\* has re-synced on it; an outage is on the clock until it is reported, to everybody.
StatusIsTrue ==
  /\ status = "connected" <=> stream # None /\ pumps[stream].connected
  /\ status = "connected" => listeners \subseteq synced
  /\ listeners # {} => (unreachableTimer <=> status = "connecting")
  /\ status = "unreachable" => listeners \subseteq serviceDown
  /\ status = "connected" => listeners \cap serviceDown = {}

\* The stream of service i is open, and no contact's bar names the service.
Reached(i) ==
  /\ stream # None /\ pumps[stream].connected /\ pumps[stream].found = i
  /\ \A l \in listeners : Bar(l) # "service"

=============================================================================
