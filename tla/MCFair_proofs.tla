--------------------------- MODULE MCFair_proofs -----------------------------
(***************************************************************************)
(* Proofs about the connection to OpenCode's service (ServiceStream), for    *)
(* any contacts that listen, pumps, services, opens and breaks: in the       *)
(* behaviours of MCFair, and in all of its own.                          *)
(***************************************************************************)
EXTENDS MCFair, FiniteSetTheorems, TLAPS

StreamTypes ==
  /\ registered \in 0..MaxServices
  /\ pumps \in [Pumps -> Stream!PumpRecords \cup {None}]
  /\ stream \in Pumps \cup {None}
  /\ status \in {"connecting", "connected", "unreachable"}
  /\ retryTimer \in BOOLEAN /\ unreachableTimer \in BOOLEAN

\* A pump runs exactly while its frames count; and another attempt is due exactly when none does
\* while anybody listens.  Nobody listening, all is at rest.
AttemptOK ==
  /\ \A p \in Pumps : pumps[p] # None <=> stream = p
  /\ listeners # {} => (retryTimer <=> stream = None)
  /\ listeners = {} => stream = None /\ ~retryTimer /\ ~unreachableTimer /\ status = "connecting"

StreamInv == StreamTypes /\ AttemptOK /\ Stream!StatusIsTrue

-----------------------------------------------------------------------------
(* The steps, by what they do to the pumps. *)

\* A step that leaves the client's attempts, its status and its clock alone, and everybody told.
Aside == UNCHANGED <<listeners, stream, retryTimer, unreachableTimer, status, serviceDown, synced>>

\* The pump p goes on, connected or not as it was.
GoesOn(p) == /\ pumps[p] # None
             /\ \E r \in Stream!PumpRecords : pumps' = [pumps EXCEPT ![p] = r] /\ r.connected = pumps[p].connected

\* A new pump takes the place of none.
Begins(p) == /\ p \in Pumps
             /\ \E r \in Stream!PumpRecords : pumps' = [pumps EXCEPT ![p] = r] /\ ~r.connected
             /\ stream' = p

Steps == {"reading", "found", "opening", "streaming", "over"}

(* Changing one field of a record of a pump gives another. *)
LEMMA PumpFields ==
  ASSUME NEW r \in Stream!PumpRecords
  PROVE  /\ \A at \in Steps :
              /\ [r EXCEPT !.at = at] \in Stream!PumpRecords
              /\ [r EXCEPT !.at = at].connected = r.connected
         /\ \A i \in 0..MaxServices :
              /\ [r EXCEPT !.at = "found", !.found = i] \in Stream!PumpRecords
              /\ [r EXCEPT !.at = "found", !.found = i].connected = r.connected
         /\ [r EXCEPT !.at = "streaming", !.connected = TRUE] \in Stream!PumpRecords
         /\ [r EXCEPT !.at = "streaming", !.connected = TRUE].connected
         /\ \A cut \in {None, "stalled", "replaced"} : /\ [r EXCEPT !.cut = cut] \in Stream!PumpRecords
                                                       /\ [r EXCEPT !.cut = cut].connected = r.connected
<1>1. ASSUME NEW at \in Steps
      PROVE  /\ [r EXCEPT !.at = at] \in Stream!PumpRecords
             /\ [r EXCEPT !.at = at].connected = r.connected
  BY DEF Stream!PumpRecords, Steps
<1>2. ASSUME NEW i \in 0..MaxServices
      PROVE  /\ [r EXCEPT !.at = "found", !.found = i] \in Stream!PumpRecords
             /\ [r EXCEPT !.at = "found", !.found = i].connected = r.connected
  <2>1. i \in Stream!Services \cup {Stream!NoService, None}
    BY StreamAssumption DEF Stream!Services, Stream!NoService
  <2>2. QED BY <2>1 DEF Stream!PumpRecords
<1>3. /\ [r EXCEPT !.at = "streaming", !.connected = TRUE] \in Stream!PumpRecords
      /\ [r EXCEPT !.at = "streaming", !.connected = TRUE].connected
  BY DEF Stream!PumpRecords
<1>4. ASSUME NEW cut \in {None, "stalled", "replaced"}
      PROVE  /\ [r EXCEPT !.cut = cut] \in Stream!PumpRecords
             /\ [r EXCEPT !.cut = cut].connected = r.connected
  BY DEF Stream!PumpRecords
<1>5. QED BY <1>1, <1>2, <1>3, <1>4

(* What connect() starts with is the record of a pump. *)
LEMMA FirstRecord ==
  LET r == [at |-> "reading", found |-> None, connected |-> FALSE, cut |-> None] IN
  r \in Stream!PumpRecords /\ ~r.connected
  BY DEF Stream!PumpRecords

(* The client starts at rest. *)
LEMMA StreamStarts == Stream!Init => StreamInv
<1>1. ASSUME Stream!Init PROVE StreamTypes
  <2>1. 0 \in 0..MaxServices /\ registered = 0
    BY <1>1, StreamAssumption DEF Stream!Init, Stream!NoService
  <2>2. pumps = [p \in Pumps |-> None] /\ stream = None /\ status = "connecting"
        /\ retryTimer = FALSE /\ unreachableTimer = FALSE
    BY <1>1 DEF Stream!Init
  <2>3. pumps \in [Pumps -> Stream!PumpRecords \cup {None}]
    BY <2>2
  <2>4. QED BY <2>1, <2>2, <2>3 DEF StreamTypes
<1>2. ASSUME Stream!Init PROVE AttemptOK
  BY <1>2, StreamAssumption DEF Stream!Init, AttemptOK
<1>3. ASSUME Stream!Init PROVE Stream!StatusIsTrue
  BY <1>3 DEF Stream!Init, Stream!StatusIsTrue
<1>4. QED BY <1>1, <1>2, <1>3 DEF StreamInv

(* A pump that goes on, with nothing else, keeps all. *)
LEMMA GoingOn ==
  ASSUME StreamInv, NEW p \in Pumps, GoesOn(p), Aside, registered' \in 0..MaxServices
  PROVE  StreamInv'
<1>1. PICK r \in Stream!PumpRecords :
        pumps' = [pumps EXCEPT ![p] = r] /\ r.connected = pumps[p].connected
  BY DEF GoesOn
<1>2. pumps[p] # None /\ r # None /\ stream = p
  BY StreamAssumption DEF GoesOn, StreamInv, AttemptOK
<1>3. StreamTypes'
  BY <1>1 DEF StreamInv, StreamTypes, Aside
<1>4. AttemptOK'
  BY <1>1, <1>2 DEF StreamInv, StreamTypes, AttemptOK, Aside
<1>5. Stream!StatusIsTrue'
  BY <1>1, <1>2 DEF StreamInv, StreamTypes, Stream!StatusIsTrue, Aside
<1>6. QED BY <1>3, <1>4, <1>5 DEF StreamInv

(* A step that leaves the pumps alone too keeps all. *)
LEMMA StandingBy ==
  ASSUME StreamInv, Aside, pumps' = pumps, registered' \in 0..MaxServices
  PROVE  StreamInv'
  BY DEF StreamInv, StreamTypes, AttemptOK, Stream!StatusIsTrue, Aside

(* An attempt that was due begins. *)
LEMMA Beginning ==
  ASSUME StreamInv, NEW p, Begins(p), stream = None, listeners # {}, retryTimer' = FALSE,
         UNCHANGED <<registered, listeners, unreachableTimer, status, serviceDown, synced>>
  PROVE  StreamInv'
<1>1. PICK r \in Stream!PumpRecords : pumps' = [pumps EXCEPT ![p] = r] /\ ~r.connected
  BY DEF Begins
<1>2. r # None /\ p # None /\ p \in Pumps /\ stream' = p
  BY StreamAssumption DEF Begins
<1>3. StreamTypes'
  BY <1>1, <1>2 DEF StreamInv, StreamTypes
<1>4. AttemptOK'
  BY <1>1, <1>2, StreamAssumption DEF StreamInv, StreamTypes, AttemptOK
<1>5. Stream!StatusIsTrue'
  BY <1>1, <1>2 DEF StreamInv, StreamTypes, Stream!StatusIsTrue
<1>6. QED BY <1>3, <1>4, <1>5 DEF StreamInv

(* A contact subscribes: the first opens the client. *)
LEMMA Subscribing ==
  ASSUME StreamInv, NEW l \in Listeners, Stream!subscribe(l)
  PROVE  StreamInv'
<1>1. CASE listeners = {}
  <2>1. PICK p \in Pumps : Stream!NewPump(p)
    BY <1>1 DEF Stream!subscribe, Stream!connect
  <2>2. PICK r \in Stream!PumpRecords : pumps' = [pumps EXCEPT ![p] = r] /\ ~r.connected
    BY <2>1, FirstRecord DEF Stream!NewPump
  <2>3. r # None /\ p # None /\ stream' = p /\ stream = None
    BY <1>1, <2>1, StreamAssumption DEF Stream!NewPump, StreamInv, AttemptOK
  <2>4. /\ listeners' = {l} /\ status' = "connecting" /\ unreachableTimer' = TRUE
        /\ retryTimer' = retryTimer /\ retryTimer = FALSE /\ registered' = registered
    BY <1>1 DEF Stream!subscribe, StreamInv, StreamTypes, AttemptOK, Stream!services
  <2>5. StreamTypes'
    BY <2>2, <2>3, <2>4 DEF StreamInv, StreamTypes
  <2>6. AttemptOK'
    BY <2>2, <2>3, <2>4, StreamAssumption DEF StreamInv, StreamTypes, AttemptOK
  <2>7. Stream!StatusIsTrue'
    BY <2>2, <2>3, <2>4 DEF StreamInv, StreamTypes, Stream!StatusIsTrue
  <2>8. QED BY <2>5, <2>6, <2>7 DEF StreamInv
<1>2. CASE listeners # {}
  <2>1. /\ UNCHANGED <<registered, pumps, stream, retryTimer, unreachableTimer, status>>
        /\ listeners' = listeners \cup {l}
        /\ serviceDown' = IF status = "unreachable" THEN serviceDown \cup {l} ELSE serviceDown \ {l}
        /\ synced' = IF status = "connected" THEN synced \cup {l} ELSE synced \ {l}
    BY <1>2 DEF Stream!subscribe, Stream!client, Stream!services
  <2>2. QED BY <1>2, <2>1 DEF StreamInv, StreamTypes, AttemptOK, Stream!StatusIsTrue
<1>3. QED BY <1>1, <1>2

(* A contact goes: with the last one, everything stops. *)
LEMMA Unsubscribing ==
  ASSUME StreamInv, NEW l \in Listeners, Stream!unsubscribe(l)
  PROVE  StreamInv'
<1>1. listeners # {} /\ listeners' \subseteq listeners /\ UNCHANGED <<registered, serviceDown, synced>>
  BY DEF Stream!unsubscribe, Stream!services, Stream!contacts
<1>2. CASE listeners' = {}
  <2>1. /\ pumps' = [p \in Pumps |-> None] /\ stream' = None
        /\ retryTimer' = FALSE /\ unreachableTimer' = FALSE /\ status' = "connecting"
    BY <1>2 DEF Stream!unsubscribe
  <2>2. QED BY <1>1, <1>2, <2>1, StreamAssumption
            DEF StreamInv, StreamTypes, AttemptOK, Stream!StatusIsTrue
<1>3. CASE listeners' # {}
  <2>1. UNCHANGED <<pumps, stream, retryTimer, unreachableTimer, status>>
    BY <1>3 DEF Stream!unsubscribe, Stream!client
  <2>2. QED BY <1>1, <1>3, <2>1 DEF StreamInv, StreamTypes, AttemptOK, Stream!StatusIsTrue
<1>4. QED BY <1>2, <1>3

(* The stream says server.connected: everybody who listens re-syncs and is told. *)
LEMMA Connecting ==
  ASSUME StreamInv, NEW p \in Pumps, Stream!Connected(p)
  PROVE  StreamInv'
<1>1. pumps[p] # None /\ pumps[p] \in Stream!PumpRecords /\ stream = p /\ p # None
  BY StreamAssumption DEF Stream!Connected, Stream!At, StreamInv, StreamTypes
<1>2. PICK r \in Stream!PumpRecords : pumps' = [pumps EXCEPT ![p] = r] /\ r.connected
  <2>1. pumps' = [pumps EXCEPT ![p] = [pumps[p] EXCEPT !.at = "streaming", !.connected = TRUE]]
    BY <1>1 DEF Stream!Connected, StreamInv, StreamTypes
  <2>2. QED BY <1>1, <2>1, PumpFields
<1>3. /\ status' = "connected" /\ serviceDown' = serviceDown \ listeners /\ synced' = listeners
      /\ unreachableTimer' = FALSE /\ UNCHANGED <<registered, listeners, stream, retryTimer>>
  BY DEF Stream!Connected, Stream!Tell, Stream!services, Stream!RestOfClient
<1>4. r # None /\ listeners # {}
  BY <1>1, StreamAssumption DEF StreamInv, AttemptOK
<1>5. StreamTypes'
  BY <1>2, <1>3 DEF StreamInv, StreamTypes
<1>6. AttemptOK'
  BY <1>1, <1>2, <1>3, <1>4 DEF StreamInv, StreamTypes, AttemptOK
<1>7. Stream!StatusIsTrue'
  BY <1>1, <1>2, <1>3 DEF StreamInv, StreamTypes, Stream!StatusIsTrue
<1>8. QED BY <1>5, <1>6, <1>7 DEF StreamInv

(* A pump is over: it is opened again at once, or another attempt is due. *)
LEMMA Ending ==
  ASSUME StreamInv, NEW p \in Pumps, Stream!AfterPump(p)
  PROVE  StreamInv'
<1>1. pumps[p] # None /\ stream = p /\ p # None /\ listeners # {} /\ ~retryTimer
  BY StreamAssumption DEF Stream!AfterPump, Stream!At, StreamInv, StreamTypes, AttemptOK
<1>2. UNCHANGED <<registered, listeners>>
  BY DEF Stream!AfterPump, Stream!services
<1>3. \/ status' = "connecting" /\ unreachableTimer' = TRUE
      \/ UNCHANGED <<status, unreachableTimer, serviceDown, synced>> /\ status # "connected"
  <2>1. CASE pumps[p].connected
    BY <2>1 DEF Stream!AfterPump, Stream!Tell
  <2>2. CASE ~pumps[p].connected
    BY <1>1, <2>2 DEF Stream!AfterPump, StreamInv, Stream!StatusIsTrue
  <2>3. QED BY <2>1, <2>2
<1>4. /\ status' \in {"connecting", "unreachable"} /\ unreachableTimer' \in BOOLEAN
      /\ unreachableTimer' <=> status' = "connecting"
      /\ status' = "unreachable" => listeners \subseteq serviceDown'
  <2>1. CASE status' = "connecting" /\ unreachableTimer' = TRUE
    BY <2>1
  <2>2. CASE UNCHANGED <<status, unreachableTimer, serviceDown, synced>> /\ status # "connected"
    BY <1>1, <2>2 DEF StreamInv, StreamTypes, Stream!StatusIsTrue
  <2>3. QED BY <1>3, <2>1, <2>2
<1>5. \/ /\ \E r \in Stream!PumpRecords : pumps' = [pumps EXCEPT ![p] = r] /\ ~r.connected
         /\ stream' = p /\ retryTimer' = retryTimer
      \/ pumps' = [pumps EXCEPT ![p] = None] /\ stream' = None /\ retryTimer' = TRUE
  BY <1>1, FirstRecord DEF Stream!AfterPump
<1>6. StreamTypes'
  BY <1>2, <1>4, <1>5 DEF StreamInv, StreamTypes
<1>7. AttemptOK'
  BY <1>1, <1>2, <1>5, StreamAssumption DEF StreamInv, StreamTypes, AttemptOK
<1>8. Stream!StatusIsTrue'
  BY <1>1, <1>2, <1>4, <1>5 DEF StreamInv, StreamTypes, Stream!StatusIsTrue
<1>9. QED BY <1>6, <1>7, <1>8 DEF StreamInv

(* The poll: another service replaces the stream there is, or the wait for the next attempt. *)
LEMMA Polling ==
  ASSUME StreamInv, Stream!poll
  PROVE  StreamInv'
<1>1. UNCHANGED <<registered, listeners, unreachableTimer, status, serviceDown, synced>>
  BY DEF Stream!poll, Stream!RestOfPoll, Stream!services, Stream!contacts
<1>2. CASE UNCHANGED <<pumps, stream, retryTimer>>
  BY <1>1, <1>2, StandingBy DEF Aside, StreamInv, StreamTypes
<1>3. CASE Stream!Replaces /\ stream # None
  <2>1. stream \in Pumps /\ pumps[stream] \in Stream!PumpRecords /\ pumps[stream] # None
    BY <1>3 DEF StreamInv, StreamTypes, AttemptOK
  <2>2. /\ pumps' = [pumps EXCEPT ![stream].cut = IF @ = None THEN "replaced" ELSE @]
        /\ UNCHANGED <<stream, retryTimer>>
    BY <1>3 DEF Stream!poll
  <2>3. (IF pumps[stream].cut = None THEN "replaced" ELSE pumps[stream].cut) \in {None, "stalled", "replaced"}
    BY <2>1 DEF Stream!PumpRecords
  <2>4. GoesOn(stream)
    BY <2>1, <2>2, <2>3, PumpFields DEF GoesOn, StreamInv, StreamTypes
  <2>5. QED BY <1>1, <2>1, <2>2, <2>4, GoingOn DEF Aside, StreamInv, StreamTypes
<1>4. CASE Stream!Replaces /\ stream = None
  <2>1. PICK p \in Pumps : Stream!NewPump(p)
    BY <1>4 DEF Stream!poll, Stream!connect
  <2>2. Begins(p) /\ retryTimer' = FALSE /\ listeners # {}
    BY <1>4, <2>1, FirstRecord DEF Stream!NewPump, Begins, Stream!poll, Stream!Replaces
  <2>3. QED BY <1>1, <1>4, <2>2, Beginning
<1>5. QED BY <1>2, <1>3, <1>4 DEF Stream!poll

(* Every step keeps the invariant. *)
LEMMA StreamKept ==
  ASSUME StreamInv, Stream!Next
  PROVE  StreamInv'
<1>1. ASSUME NEW i \in Stream!Services, Stream!Register(i) \/ Stream!Ail(i) PROVE StreamInv'
  <2>1. registered' \in 0..MaxServices /\ pumps' = pumps /\ Aside
    BY <1>1, StreamAssumption DEF Stream!Register, Stream!Ail, Stream!Services, Stream!NoService,
       Stream!client, Stream!contacts, Aside, StreamInv, StreamTypes
  <2>2. QED BY <2>1, StandingBy
<1>2. ASSUME NEW p \in Pumps, \/ Stream!ReadRegistration(p) \/ Stream!pump(p) \/ Stream!Stall(p)
                              \/ Stream!Ends(p) \/ Stream!Breaks(p)
      PROVE  StreamInv'
  <2>1. pumps[p] # None /\ pumps[p] \in Stream!PumpRecords /\ registered \in 0..MaxServices
    BY <1>2 DEF Stream!ReadRegistration, Stream!pump, Stream!Stall, Stream!Ends, Stream!Breaks,
                Stream!At, StreamInv, StreamTypes
  <2>2. GoesOn(p)
    <3>1. CASE Stream!ReadRegistration(p)
      <4>1. pumps' = [pumps EXCEPT ![p] = [pumps[p] EXCEPT !.at = "found", !.found = registered]]
        BY <3>1 DEF Stream!ReadRegistration, StreamInv, StreamTypes
      <4>2. DEFINE r == [pumps[p] EXCEPT !.at = "found", !.found = registered]
      <4>3. r \in Stream!PumpRecords /\ r.connected = pumps[p].connected
        BY <2>1, PumpFields
      <4>4. QED BY <2>1, <4>1, <4>3 DEF GoesOn
    <3>2. CASE Stream!Stall(p)
      <4>1. pumps' = [pumps EXCEPT ![p] = [pumps[p] EXCEPT !.cut = "stalled"]]
        BY <3>2 DEF Stream!Stall, Stream!Step
      <4>2. QED BY <2>1, <4>1, PumpFields DEF GoesOn
    <3>3. CASE Stream!pump(p) \/ Stream!Ends(p) \/ Stream!Breaks(p)
      <4>1. PICK at \in Steps : pumps' = [pumps EXCEPT ![p] = [pumps[p] EXCEPT !.at = at]]
        BY <3>3 DEF Stream!pump, Stream!Ends, Stream!Breaks, Stream!Step, Steps
      <4>2. DEFINE r == [pumps[p] EXCEPT !.at = at]
      <4>3. r \in Stream!PumpRecords /\ r.connected = pumps[p].connected
        BY <2>1, PumpFields
      <4>4. QED BY <2>1, <4>1, <4>3 DEF GoesOn
    <3>4. QED BY <1>2, <3>1, <3>2, <3>3
  <2>3. Aside /\ registered' = registered
    BY <1>2 DEF Stream!ReadRegistration, Stream!pump, Stream!Stall, Stream!Ends, Stream!Breaks,
       Stream!RestOfClient, Stream!services, Stream!contacts, Aside
  <2>4. QED BY <2>1, <2>2, <2>3, GoingOn
<1>3. ASSUME NEW l \in Listeners, Stream!PluginPosts(l) \/ Stream!PluginMissing(l) PROVE StreamInv'
  <2>1. pumps' = pumps /\ Aside /\ registered' = registered
    BY <1>3 DEF Stream!PluginPosts, Stream!PluginMissing, Stream!client, Stream!services, Aside
  <2>2. QED BY <2>1, StandingBy DEF StreamInv, StreamTypes
<1>4. ASSUME Stream!Retry PROVE StreamInv'
  <2>1. PICK p \in Pumps : Stream!NewPump(p)
    BY <1>4 DEF Stream!Retry, Stream!connect
  <2>2. /\ Begins(p) /\ retryTimer' = FALSE /\ stream = None /\ listeners # {}
        /\ UNCHANGED <<registered, listeners, unreachableTimer, status, serviceDown, synced>>
    BY <1>4, <2>1, FirstRecord DEF Stream!NewPump, Begins, Stream!Retry, Stream!services,
       Stream!contacts, StreamInv, AttemptOK
  <2>3. QED BY <2>2, Beginning
<1>5. ASSUME Stream!Unreachable PROVE StreamInv'
  <2>1. /\ unreachableTimer /\ unreachableTimer' = FALSE
        /\ status' = "unreachable" /\ serviceDown' = serviceDown \cup listeners
        /\ UNCHANGED <<registered, listeners, pumps, stream, retryTimer, synced>>
    BY <1>5 DEF Stream!Unreachable, Stream!Tell, Stream!services
  <2>2. QED BY <2>1 DEF StreamInv, StreamTypes, AttemptOK, Stream!StatusIsTrue
<1>6. ASSUME Stream!PollReads PROVE StreamInv'
  <2>1. pumps' = pumps /\ Aside /\ registered' = registered
    BY <1>6 DEF Stream!PollReads, Stream!services, Stream!contacts, Aside
  <2>2. QED BY <2>1, StandingBy DEF StreamInv, StreamTypes
<1>7. QED BY <1>1, <1>2, <1>3, <1>4, <1>5, <1>6, Subscribing, Unsubscribing, Connecting, Ending, Polling
          DEF Stream!Next, Stream!World, Stream!Client

(* The instance counts as anybody does. *)
LEMMA SameCount == \A S : Stream!Cardinality(S) = Cardinality(S)
  BY DEF Stream!Cardinality, Cardinality

(* With the invariant, one attempt and a true status. *)
LEMMA StreamTrue == StreamInv => Stream!OneAttempt /\ Stream!StatusIsTrue
<1>1. ASSUME StreamInv PROVE Stream!OneAttempt
  <2>1. CASE stream = None
    <3>1. Stream!Running = {}
      BY <1>1, <2>1, StreamAssumption DEF Stream!Running, StreamInv, AttemptOK
    <3>2. Stream!Cardinality(Stream!Running) = 0
      BY <3>1, FS_EmptySet, SameCount
    <3>3. QED BY <1>1, <2>1, <3>2 DEF Stream!OneAttempt, StreamInv, StreamTypes, AttemptOK
  <2>2. CASE stream # None
    <3>1. Stream!Running = {stream}
      BY <1>1, <2>2 DEF Stream!Running, StreamInv, StreamTypes, AttemptOK
    <3>2. Stream!Cardinality(Stream!Running) = 1
      BY <3>1, FS_Singleton, SameCount
    <3>3. QED BY <1>1, <2>2, <3>2 DEF Stream!OneAttempt, StreamInv, StreamTypes, AttemptOK
  <2>3. QED BY <2>1, <2>2
<1>2. QED BY <1>1 DEF StreamInv

-----------------------------------------------------------------------------
(* While anybody listens there is exactly one attempt to reach the service, and the status is the
   stream's and everybody's, in every behaviour of the client: whatever services come, hang and
   go, streams break, and contacts open and close it (connect, retryLater, poll, setStatus). *)
THEOREM StreamAlwaysTrue == Stream!Spec => [](Stream!OneAttempt /\ Stream!StatusIsTrue)
<1>1. StreamInv /\ [Stream!Next]_(Stream!serviceVars) => StreamInv'
  <2>1. ASSUME StreamInv, UNCHANGED Stream!serviceVars PROVE StreamInv'
    <3>1. pumps' = pumps /\ Aside /\ registered' = registered
      BY <2>1 DEF Stream!serviceVars, Stream!services, Stream!client, Stream!contacts, Aside
    <3>2. QED BY <2>1, <3>1, StandingBy DEF StreamInv, StreamTypes
  <2>2. QED BY <2>1, StreamKept
<1>2. QED BY StreamStarts, <1>1, StreamTrue, PTL DEF Stream!Spec

(* The same in the behaviours of MCFair, where it is one of the parts. *)
THEOREM StreamStaysTrue == PartsSpec => []StreamIsTrue
<1> DEFINE Held == part \in Streams => StreamInv
<1>1. PartsInit => Held
  BY StreamStarts DEF PartsInit
<1>2. Held /\ [PartsNext]_allVars => Held'
  <2>1. ASSUME Held, part \in Streams, Stream!Next, part' = part PROVE Held'
    BY <2>1, StreamKept
  <2>2. ASSUME Held, part' = part, UNCHANGED streamVars PROVE Held'
    <3>1. pumps' = pumps /\ Aside /\ registered' = registered
      BY <2>2 DEF streamVars, Aside
    <3>2. QED BY <2>2, <3>1, StandingBy DEF StreamInv, StreamTypes
  <2>3. QED BY <2>1, <2>2 DEF PartsNext, allVars
<1>3. Held => StreamIsTrue
  BY StreamTrue DEF StreamIsTrue
<1>4. QED BY <1>1, <1>2, <1>3, PTL DEF PartsSpec
=============================================================================
