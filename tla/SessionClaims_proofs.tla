------------------------- MODULE SessionClaims_proofs -------------------------
(***************************************************************************)
(* Proofs about SessionClaims, for any contacts, conversations, backends    *)
(* and number of processes.                                                 *)
(***************************************************************************)
EXTENDS SessionClaims, TLAPS

USE DEF Backends, Pids, NoPid

(* What attaching a session may leave in the records and the file.                *)
LEMMA AttachTypes ==
  ASSUME TypeOK, NEW c \in Contacts, NEW s \in Sessions, attachSession(c, s)
  PROVE  /\ sessionId' \in [Contacts -> Sessions \cup {None}]
         /\ ownSessionId' \in [Contacts -> Sessions \cup {None}]
         /\ saved' \subseteq Contacts
         /\ savedSession' \in [Contacts -> Sessions \cup {None}]
<1>1. /\ sessionId' \in [Contacts -> Sessions \cup {None}]
      /\ ownSessionId' \in [Contacts -> Sessions \cup {None}]
  BY DEF attachSession, TypeOK
<1>2. /\ saved' \subseteq Contacts
      /\ savedSession' \in [Contacts -> Sessions \cup {None}]
  BY <1>1 DEF attachSession, TypeOK, file
<1>3. QED BY <1>1, <1>2

(* Every handler, and every step of the CLIs, keeps the types.                    *)
LEMMA TypeStep == TypeOK /\ [Next]_vars => TypeOK'
<1> SUFFICES ASSUME TypeOK, [Next]_vars PROVE TypeOK'
  OBVIOUS
<1> USE ConstantsAssumption DEF TypeOK, file, disk, processes, memory
<1>1. ASSUME NEW c \in Contacts, NEW openings,
             openings = Openings(c, None) \/ openings = Openings(c, ownSessionId[c])
               \/ openings = Fresh(c)
      PROVE  /\ \A o \in openings : /\ o.opened \in Sessions \cup {None}
                                    /\ o.works \in Sessions \cup {Pending}
             /\ spawnProcess(c, openings) =>
                  /\ ptyProcess' \in [Contacts -> Pids \cup {NoPid}]
                  /\ sessionId' \in [Contacts -> Sessions \cup {None}]
                  /\ ownSessionId' \in [Contacts -> Sessions \cup {None}]
                  /\ discovery' \in [Contacts -> BOOLEAN]
                  /\ launched' \in 0..MaxLaunches
                  /\ alive' \subseteq 1..launched'
                  /\ program' \in [Pids -> Backends]
                  /\ working' \in [Pids -> Sessions \cup {None, Pending}]
                  /\ published' \in [Pids -> Sessions \cup {None}]
                  /\ minted' \subseteq Sessions
  <2>1. \A o \in openings : /\ o.opened \in Sessions \cup {None}
                            /\ o.works \in Sessions \cup {Pending}
    BY <1>1 DEF Openings, Fresh, Unused
  <2>2. ASSUME NEW o \in openings, Launch(BackendOf[c], o.works)
        PROVE  /\ launched' \in 0..MaxLaunches /\ launched' \in Pids
               /\ alive' \subseteq 1..launched'
               /\ program' \in [Pids -> Backends]
               /\ working' \in [Pids -> Sessions \cup {None, Pending}]
               /\ published' \in [Pids -> Sessions \cup {None}]
               /\ minted' \subseteq Sessions
    <3>1. launched' \in 0..MaxLaunches /\ launched' \in Pids
      BY <2>2 DEF Launch
    <3>2. alive' \subseteq 1..launched'
      BY <2>2 DEF Launch
    <3>3. o.works \in Sessions \cup {Pending}
      BY <2>1
    <3>4. QED BY <2>2, <3>1, <3>2, <3>3 DEF Launch
  <2>3. ASSUME NEW o \in openings, launched' \in Pids,
               SetRecord(c, launched', o.opened, o.opened, o.opened = None)
        PROVE  /\ ptyProcess' \in [Contacts -> Pids \cup {NoPid}]
               /\ sessionId' \in [Contacts -> Sessions \cup {None}]
               /\ ownSessionId' \in [Contacts -> Sessions \cup {None}]
               /\ discovery' \in [Contacts -> BOOLEAN]
    <3>1. (o.opened = None) \in BOOLEAN
      OBVIOUS
    <3>2. QED BY <2>1, <2>3, <3>1 DEF SetRecord
  <2>4. QED BY <2>1, <2>2, <2>3 DEF spawnProcess
<1>2. ASSUME NEW c \in Contacts, createInstance(c) PROVE TypeOK'
  BY <1>1, <1>2 DEF createInstance, refuseSpawn, SetRecord, persist
<1>3. ASSUME NEW c \in Contacts, NEW source \in Contacts, duplicateInstance(source, c)
      PROVE TypeOK'
  BY <1>1, <1>3 DEF duplicateInstance, refuseSpawn, SetRecord, persist
<1>4. ASSUME NEW c \in Contacts, respawn(c) PROVE TypeOK'
  <2>1. UNCHANGED <<up, instances, disk>>
    BY <1>4 DEF respawn
  <2>2. /\ ptyProcess' \in [Contacts -> Pids \cup {NoPid}]
        /\ sessionId' \in [Contacts -> Sessions \cup {None}]
        /\ ownSessionId' \in [Contacts -> Sessions \cup {None}]
        /\ discovery' \in [Contacts -> BOOLEAN]
        /\ launched' \in 0..MaxLaunches
        /\ alive' \subseteq 1..launched'
        /\ program' \in [Pids -> Backends]
        /\ working' \in [Pids -> Sessions \cup {None, Pending}]
        /\ published' \in [Pids -> Sessions \cup {None}]
        /\ minted' \subseteq Sessions
    <3>1. CASE spawnProcess(c, Openings(c, ownSessionId[c]))
      BY <1>1, <3>1
    <3>2. CASE refuseSpawn(c, ownSessionId[c])
      BY <3>2 DEF refuseSpawn, SetRecord
    <3>3. QED BY <1>4, <3>1, <3>2 DEF respawn
  <2>3. saved' \subseteq Contacts /\ savedSession' \in [Contacts -> Sessions \cup {None}]
    BY <1>4, <2>2 DEF respawn
  <2>4. QED BY <2>1, <2>2, <2>3
<1>5. ASSUME NEW c \in Contacts, removeInstance(c) PROVE TypeOK'
  BY <1>5 DEF removeInstance, SetRecord, persist
<1>6. ASSUME NEW c \in Contacts, Follow(c) PROVE TypeOK'
  <2>1. CASE discoverSessionId(c)
    BY <2>1, AttachTypes DEF discoverSessionId
  <2>2. CASE syncLiveSessionId(c)
    <3>1. \A p \in Pids : findClaudeLiveSessionId(p) \subseteq Sessions
      BY DEF findClaudeLiveSessionId, Entries
    <3>2. QED BY <2>2, <3>1, AttachTypes DEF syncLiveSessionId
  <2>3. QED BY <1>6, <2>1, <2>2 DEF Follow
<1>7. ASSUME NEW p \in Pids, Cli(p) PROVE TypeOK'
  <2>1. CASE Continue(p) BY <2>1 DEF Continue
  <2>2. CASE Register(p) BY <2>2 DEF Register
  <2>3. CASE Turn(p) BY <2>3 DEF Turn
  <2>4. CASE NewSession(p) BY <2>4 DEF NewSession, Unused
  <2>5. CASE Exit(p) BY <2>5 DEF Exit
  <2>6. CASE onSessionShown(p) BY <2>6, AttachTypes DEF onSessionShown
  <2>7. QED BY <1>7, <2>1, <2>2, <2>3, <2>4, <2>5, <2>6 DEF Cli
<1>8. ASSUME NEW p \in Pids, PickSession(p) PROVE TypeOK'
  BY <1>8 DEF PickSession
<1>9. CASE ExternalStart
  BY <1>9 DEF ExternalStart, Launch, Unused
<1>10. CASE Crash
  BY <1>10 DEF Crash
<1>11. CASE loadSavedContacts
  BY <1>11 DEF loadSavedContacts
<1>12. CASE UNCHANGED vars
  BY <1>12 DEF vars
<1>13. QED
  BY <1>2, <1>3, <1>4, <1>5, <1>6, <1>7, <1>8, <1>9, <1>10, <1>11, <1>12
     DEF Next, NextUnpicked, Operate, startInstance, restartInstance

(* Type correctness: every handler keeps the map, the file and the CLIs' state    *)
(* within their types.                                                            *)
THEOREM TypeCorrect == Spec => []TypeOK
<1>1. Init => TypeOK
  BY ConstantsAssumption DEF Init, TypeOK
<1>2. QED
  BY <1>1, TypeStep, PTL DEF Spec

-----------------------------------------------------------------------------
(* Claims *)

(* A session isSessionClaimedBy does not report is no other contact's own.        *)
LEMMA Unclaimed ==
  ASSUME TypeOK, ClaimsInv, NEW c \in Contacts, NEW s \in Sessions,
         ~isSessionClaimedBy(s, c)
  PROVE  \A d \in Contacts \ {c} : ownSessionId[d] # s
BY ConstantsAssumption
   DEF isSessionClaimedBy, ClaimsInv, OnlyMembersHold, TypeOK

(* A session no id was minted for is nobody's.                                    *)
LEMMA UnusedIsFree ==
  ASSUME TypeOK, ClaimsInv, NEW b, NEW s \in Unused(b)
  PROVE  \A d \in Contacts : ownSessionId[d] # s
BY ConstantsAssumption DEF Unused, ClaimsInv, KnownIsMinted

(* What the records and the file look like after the handlers of one contact,     *)
(* which all set its record and leave the others'.                                *)
OneRecord(c, s, own) ==
  /\ sessionId' = [sessionId EXCEPT ![c] = s]
  /\ ownSessionId' = [ownSessionId EXCEPT ![c] = own]
  /\ saved' = instances'
  /\ savedSession' = ownSessionId'

(* Spawning: what an opening names is free, and the spawn only mints.             *)
LEMMA OpeningIsFree ==
  ASSUME TypeOK, ClaimsInv, NEW c \in Contacts, NEW openings, NEW o \in openings,
         openings \in {Openings(c, None), Openings(c, ownSessionId[c]), Fresh(c)}
  PROVE  /\ o.opened \in Sessions \cup {None}
         /\ o.works \in Sessions \cup {Pending}
         /\ o.opened \in {None, o.works}
         /\ o.opened # None => \A d \in Contacts \ {c} : ownSessionId[d] # o.opened
<1>1. CASE openings = Fresh(c)
  BY <1>1, UnusedIsFree, ConstantsAssumption DEF Fresh, Unused
<1>2. ASSUME NEW own \in {None, ownSessionId[c]}, openings = Openings(c, own)
      PROVE  /\ o.opened \in Sessions \cup {None}
             /\ o.works \in Sessions \cup {Pending}
             /\ o.opened \in {None, o.works}
             /\ o.opened # None => \A d \in Contacts \ {c} : ownSessionId[d] # o.opened
  <2>1. CASE own # None
    BY <1>2, <2>1 DEF Openings, TypeOK, ClaimsInv, Distinct
  <2>2. CASE own = None /\ latest[BackendOf[c]] # None
               /\ ~isSessionClaimedBy(latest[BackendOf[c]], c)
    <3>1. latest[BackendOf[c]] \in Sessions
      BY <2>2, ConstantsAssumption DEF TypeOK
    <3>2. \A d \in Contacts \ {c} : ownSessionId[d] # latest[BackendOf[c]]
      BY <2>2, <3>1, Unclaimed
    <3>3. QED BY <1>2, <2>2, <3>1, <3>2 DEF Openings
  <2>3. CASE own = None /\ ~(latest[BackendOf[c]] # None
               /\ ~isSessionClaimedBy(latest[BackendOf[c]], c))
    <3>1. o.opened \in Unused(BackendOf[c]) /\ o.works = o.opened
      BY <1>2, <2>3 DEF Openings
    <3>2. QED BY <3>1, UnusedIsFree DEF Unused
  <2>4. QED BY <2>1, <2>2, <2>3
<1>3. QED BY <1>1, <1>2

(* Starting a process mints at most the session it works in, and forgets none.    *)
LEMMA LaunchKeepsMinted ==
  ASSUME TypeOK, ClaimsInv, NEW b, NEW s \in Sessions \cup {Pending}, Launch(b, s),
         UNCHANGED disk
  PROVE  /\ minted \subseteq minted'
         /\ s \in Sessions => s \in minted'
         /\ \A p \in Pids : /\ working'[p] \in minted' \cup {None, Pending}
                            /\ published'[p] \in minted' \cup {None}
         /\ \A q \in Backends : latest'[q] \in minted' \cup {None}
         /\ transcripts' \subseteq minted'
<1>1. minted \subseteq minted' /\ (s \in Sessions => s \in minted')
  BY DEF Launch
<1>2. \A p \in Pids : working'[p] \in minted' \cup {None, Pending}
  BY <1>1 DEF Launch, TypeOK, ClaimsInv, KnownIsMinted
<1>3. \A p \in Pids : published'[p] \in minted' \cup {None}
  BY <1>1 DEF Launch, TypeOK, ClaimsInv, KnownIsMinted
<1>4. QED BY <1>1, <1>2, <1>3 DEF disk, ClaimsInv, KnownIsMinted

(* Every step that touches the records is OneRecord of some contact; the others   *)
(* leave records and file alone, or are a crash or a load.                        *)
RecordStep ==
  \E c \in Contacts, s \in Sessions \cup {None}, own \in minted' \cup {None} :
    /\ up /\ up'
    /\ s \in {None, own}
    /\ own # None => \A d \in Contacts \ {c} : ownSessionId[d] # own
    /\ instances' \in {instances, instances \cup {c}, instances \ {c}}
    /\ c \notin instances' => own = None
    /\ c \in instances /\ c \in instances' /\ ownSessionId[c] # None => own # None
    /\ OneRecord(c, s, own)

(* A spawn, with its save, changes one contact's record to what it opened.        *)
LEMMA SpawnRecordStep ==
  ASSUME TypeOK, ClaimsInv, up, up', NEW c \in Contacts,
         NEW openings \in {Openings(c, None), Openings(c, ownSessionId[c]), Fresh(c)},
         spawnProcess(c, openings), UNCHANGED disk,
         c \in instances => openings = Openings(c, ownSessionId[c]),
         instances' = instances \cup {c},
         saved' = instances', savedSession' = ownSessionId'
  PROVE  RecordStep /\ KnownIsMinted'
<1>1. PICK o \in openings : /\ Launch(BackendOf[c], o.works)
                            /\ SetRecord(c, launched', o.opened, o.opened, o.opened = None)
  BY DEF spawnProcess
<1>2. /\ o.opened \in Sessions \cup {None}
      /\ o.works \in Sessions \cup {Pending}
      /\ o.opened \in {None, o.works}
      /\ o.opened # None => \A d \in Contacts \ {c} : ownSessionId[d] # o.opened
  BY OpeningIsFree
<1>3. /\ minted \subseteq minted'
      /\ o.works \in Sessions => o.works \in minted'
      /\ \A p \in Pids : /\ working'[p] \in minted' \cup {None, Pending}
                         /\ published'[p] \in minted' \cup {None}
      /\ \A b \in Backends : latest'[b] \in minted' \cup {None}
      /\ transcripts' \subseteq minted'
  BY <1>1, <1>2, LaunchKeepsMinted
<1>4. o.opened \in minted' \cup {None}
  BY <1>2, <1>3
<1>5. c \in instances /\ ownSessionId[c] # None => o.opened # None
  BY DEF Openings
<1>6. OneRecord(c, o.opened, o.opened)
  BY <1>1 DEF SetRecord, OneRecord
<1>7. RecordStep
  BY <1>2, <1>4, <1>5, <1>6 DEF RecordStep
<1>8. \A d \in Contacts : {ownSessionId[d], savedSession[d]}' \subseteq minted' \cup {None}
  BY <1>3, <1>4, <1>6 DEF OneRecord, TypeOK, ClaimsInv, KnownIsMinted
<1>9. QED BY <1>3, <1>7, <1>8 DEF KnownIsMinted

(* A record step that leaves the CLIs alone adds no session that is not minted.   *)
LEMMA KnownIsMintedKept ==
  ASSUME TypeOK, ClaimsInv, RecordStep, UNCHANGED <<working, published, disk, minted>>
  PROVE  KnownIsMinted'
<1>1. PICK c \in Contacts, s \in Sessions \cup {None}, own \in minted' \cup {None} :
        OneRecord(c, s, own)
  BY DEF RecordStep
<1>2. QED BY <1>1 DEF OneRecord, ClaimsInv, KnownIsMinted, TypeOK, disk

(* A refused spawn keeps the contact's own session and reads none.                *)
LEMMA RefusedRecordStep ==
  ASSUME TypeOK, ClaimsInv, up, up', NEW c \in Contacts,
         NEW own \in {None, ownSessionId[c]}, c \in instances => own = ownSessionId[c],
         refuseSpawn(c, own), UNCHANGED disk,
         instances' = instances \cup {c},
         saved' = instances', savedSession' = ownSessionId'
  PROVE  RecordStep /\ KnownIsMinted'
<1>1. own \in minted' \cup {None}
  BY DEF refuseSpawn, ClaimsInv, KnownIsMinted
<1>2. own # None => \A d \in Contacts \ {c} : ownSessionId[d] # own
  BY DEF ClaimsInv, Distinct
<1>3. OneRecord(c, None, own)
  BY DEF refuseSpawn, SetRecord, OneRecord
<1>4. RecordStep
  BY <1>1, <1>2, <1>3 DEF RecordStep
<1>5. QED BY <1>4, KnownIsMintedKept DEF refuseSpawn, processes

(* Attaching an unclaimed session, saved only if it changed, is a record step: the *)
(* file was already up to date when it did not change.                            *)
LEMMA AttachRecordStep ==
  ASSUME TypeOK, ClaimsInv, up, up', NEW c \in instances, NEW s \in Sessions,
         s \in minted', ~isSessionClaimedBy(s, c), attachSession(c, s),
         UNCHANGED instances
  PROVE  RecordStep
<1>1. c \in Contacts
  BY DEF TypeOK
<1>2. \A d \in Contacts \ {c} : ownSessionId[d] # s
  BY <1>1, Unclaimed
<1>3. saved' = instances' /\ savedSession' = ownSessionId'
  <2>1. CASE ownSessionId[c] # s
    BY <2>1 DEF attachSession
  <2>2. CASE ownSessionId[c] = s
    <3>1. ownSessionId' = ownSessionId
      BY <2>2, <1>1 DEF attachSession, TypeOK
    <3>2. QED BY <2>2, <3>1 DEF attachSession, ClaimsInv, PersistedMatches, file
  <2>3. QED BY <2>1, <2>2
<1>4. OneRecord(c, s, s)
  BY <1>3 DEF attachSession, OneRecord
<1>5. QED BY <1>1, <1>2, <1>4, ConstantsAssumption DEF RecordStep

(* Steps that leave the records and the file as they are.                         *)
QuietStep ==
  /\ UNCHANGED <<up, instances, sessionId, ownSessionId, saved, savedSession>>
  /\ KnownIsMinted'

(* What the CLIs and the user in them do leaves records and file alone.           *)
LEMMA QuietCli ==
  ASSUME TypeOK, ClaimsInv, NEW p \in Pids,
         \/ Continue(p) \/ Register(p) \/ Turn(p) \/ NewSession(p) \/ Exit(p)
         \/ PickSession(p)
  PROVE  QuietStep
<1> USE DEF TypeOK, QuietStep, memory, file, disk, processes
<1>1. CASE Continue(p)
  BY <1>1 DEF Continue, ClaimsInv, KnownIsMinted
<1>2. CASE Register(p)
  BY <1>2, ConstantsAssumption DEF Register, ClaimsInv, KnownIsMinted
<1>3. CASE Turn(p)
  BY <1>3, ConstantsAssumption DEF Turn, ClaimsInv, KnownIsMinted
<1>4. CASE NewSession(p)
  BY <1>4, ConstantsAssumption DEF NewSession, ClaimsInv, KnownIsMinted
<1>5. CASE Exit(p)
  BY <1>5 DEF Exit, ClaimsInv, KnownIsMinted
<1>6. CASE PickSession(p)
  BY <1>6 DEF PickSession, ClaimsInv, KnownIsMinted
<1>7. QED BY <1>1, <1>2, <1>3, <1>4, <1>5, <1>6

(* A `claude` started outside Multi-Code touches nothing of a contact's.          *)
LEMMA QuietExternal ==
  ASSUME TypeOK, ClaimsInv, ExternalStart
  PROVE  QuietStep
<1>1. PICK s \in Unused("claude") : Launch("claude", s)
  BY DEF ExternalStart
<1>2. s \in Sessions /\ UNCHANGED <<up, memory, file, disk>>
  BY DEF ExternalStart, Unused
<1>3. QED BY <1>1, <1>2, LaunchKeepsMinted
          DEF QuietStep, memory, file, disk, ClaimsInv, KnownIsMinted

(* Every step is one of: quiet, one contact's record, a crash or a load.          *)
LEMMA StepKinds ==
  ASSUME TypeOK, ClaimsInv, Next
  PROVE  QuietStep \/ (RecordStep /\ KnownIsMinted') \/ Crash \/ loadSavedContacts
<1> USE DEF file, disk, processes, memory
<1>1. ASSUME NEW c \in Contacts, createInstance(c) PROVE RecordStep /\ KnownIsMinted'
  BY <1>1, SpawnRecordStep, RefusedRecordStep DEF createInstance, persist
<1>2. ASSUME NEW c \in Contacts, NEW source \in Contacts, duplicateInstance(source, c)
      PROVE  RecordStep /\ KnownIsMinted'
  BY <1>2, SpawnRecordStep, RefusedRecordStep DEF duplicateInstance, persist
<1>3. ASSUME NEW c \in instances, up, respawn(c) PROVE RecordStep /\ KnownIsMinted'
  <2>1. /\ c \in Contacts /\ up' /\ instances' = instances \cup {c} /\ UNCHANGED disk
        /\ spawnProcess(c, Openings(c, ownSessionId[c])) \/ refuseSpawn(c, ownSessionId[c])
    BY <1>3 DEF respawn, TypeOK
  <2>2. saved' = instances' /\ savedSession' = ownSessionId'
    <3>1. \E own : ownSessionId' = [ownSessionId EXCEPT ![c] = own]
      BY <2>1 DEF spawnProcess, refuseSpawn, SetRecord
    <3>2. CASE ownSessionId'[c] # ownSessionId[c]
      BY <1>3, <2>1, <3>2 DEF respawn
    <3>3. CASE ownSessionId'[c] = ownSessionId[c]
      <4>1. ownSessionId' = ownSessionId
        BY <2>1, <3>1, <3>3 DEF TypeOK
      <4>2. QED BY <1>3, <3>3, <4>1 DEF respawn, ClaimsInv, PersistedMatches
    <3>4. QED BY <3>2, <3>3
  <2>3. QED BY <1>3, <2>1, <2>2, SpawnRecordStep, RefusedRecordStep
<1>4. ASSUME NEW c \in Contacts, removeInstance(c) PROVE RecordStep /\ KnownIsMinted'
  <2>1. OneRecord(c, None, None)
    BY <1>4 DEF removeInstance, SetRecord, OneRecord, persist
  <2>2. RecordStep
    BY <1>4, <2>1 DEF removeInstance, RecordStep
  <2>3. QED BY <1>4, <2>2, KnownIsMintedKept DEF removeInstance
<1>5. ASSUME NEW c \in Contacts, discoverSessionId(c) PROVE RecordStep /\ KnownIsMinted'
  <2>1. PICK p \in Entries : /\ ~isSessionClaimedBy(published[p], c)
                             /\ attachSession(c, published[p])
    BY <1>5 DEF discoverSessionId
  <2>2. published[p] \in Sessions /\ published[p] \in minted
    BY <2>1, ConstantsAssumption DEF Entries, TypeOK, ClaimsInv, KnownIsMinted
  <2>3. RecordStep
    BY <1>5, <2>1, <2>2, AttachRecordStep DEF discoverSessionId
  <2>4. QED BY <1>5, <2>3, KnownIsMintedKept DEF discoverSessionId
<1>6. ASSUME NEW c \in Contacts, syncLiveSessionId(c) PROVE RecordStep /\ KnownIsMinted'
  <2>1. PICK live \in findClaudeLiveSessionId(ptyProcess[c]) :
               /\ ~isSessionClaimedBy(live, c)
               /\ attachSession(c, live)
    BY <1>6 DEF syncLiveSessionId
  <2>2. live \in Sessions /\ live \in minted
    BY <2>1, ConstantsAssumption
       DEF findClaudeLiveSessionId, Entries, TypeOK, ClaimsInv, KnownIsMinted
  <2>3. RecordStep
    BY <1>6, <2>1, <2>2, AttachRecordStep DEF syncLiveSessionId
  <2>4. QED BY <1>6, <2>3, KnownIsMintedKept DEF syncLiveSessionId
<1>7. ASSUME NEW p \in Pids, onSessionShown(p)
      PROVE  QuietStep \/ (RecordStep /\ KnownIsMinted')
  <2>1. /\ working[p] \in Sessions /\ working[p] \in minted
        /\ \A q \in Pids : published'[q] \in minted' \cup {None}
    BY <1>7, ConstantsAssumption DEF onSessionShown, TypeOK, ClaimsInv, KnownIsMinted
  <2>2. CASE UNCHANGED <<sessionId, ownSessionId, file>>
    BY <1>7, <2>1, <2>2 DEF onSessionShown, QuietStep, ClaimsInv, KnownIsMinted
  <2>3. ASSUME NEW c \in instances, ~isSessionClaimedBy(working[p], c),
               attachSession(c, working[p])
        PROVE  RecordStep /\ KnownIsMinted'
    <3>1. RecordStep
      BY <1>7, <2>1, <2>3, AttachRecordStep DEF onSessionShown
    <3>2. \A d \in Contacts : {ownSessionId[d], savedSession[d]}' \subseteq minted' \cup {None}
      BY <1>7, <2>1, <2>3
         DEF onSessionShown, attachSession, ClaimsInv, KnownIsMinted, TypeOK
    <3>3. QED BY <1>7, <2>1, <3>1, <3>2 DEF onSessionShown, ClaimsInv, KnownIsMinted
  <2>4. QED BY <1>7, <2>2, <2>3 DEF onSessionShown
<1>8. ASSUME NEW c \in Contacts, Operate(c) \/ Follow(c) PROVE RecordStep /\ KnownIsMinted'
  BY <1>1, <1>2, <1>3, <1>4, <1>5, <1>6, <1>8
     DEF Operate, Follow, startInstance, restartInstance
<1>9. ASSUME NEW p \in Pids, Cli(p) \/ PickSession(p)
      PROVE  QuietStep \/ (RecordStep /\ KnownIsMinted')
  BY <1>7, <1>9, QuietCli DEF Cli
<1>10. QED
  BY <1>8, <1>9, QuietExternal DEF Next, NextUnpicked

-----------------------------------------------------------------------------
(* The theorems *)

(* Every step keeps ClaimsInv.                                                    *)
LEMMA ClaimsStep == TypeOK /\ ClaimsInv /\ [Next]_vars => ClaimsInv'
<1> SUFFICES ASSUME TypeOK, ClaimsInv, [Next]_vars PROVE ClaimsInv'
  OBVIOUS
<1>1. CASE RecordStep /\ KnownIsMinted'
  <2>1. PICK c \in Contacts, s \in Sessions \cup {None}, own \in minted' \cup {None} :
          /\ s \in {None, own}
          /\ own # None => \A d \in Contacts \ {c} : ownSessionId[d] # own
          /\ instances' \in {instances, instances \cup {c}, instances \ {c}}
          /\ c \notin instances' => own = None
          /\ up'
          /\ OneRecord(c, s, own)
    BY <1>1 DEF RecordStep
  <2>2. /\ ReadsItsOwn'
        /\ Distinct(ownSessionId)' /\ Distinct(savedSession)'
        /\ OnlyMembersHold'
        /\ PersistedMatches'
    <3> USE <2>1 DEF TypeOK, ClaimsInv, OneRecord
    <3>1. ReadsItsOwn' BY DEF ReadsItsOwn
    <3>2. Distinct(ownSessionId)' /\ Distinct(savedSession)' BY DEF Distinct
    <3>3. OnlyMembersHold' BY DEF OnlyMembersHold
    <3>4. PersistedMatches' BY DEF PersistedMatches
    <3>5. QED BY <3>1, <3>2, <3>3, <3>4
  <2>3. QED BY <1>1, <2>2 DEF ClaimsInv
<1>2. CASE QuietStep
  BY <1>2 DEF QuietStep, ClaimsInv, ReadsItsOwn, Distinct, OnlyMembersHold, PersistedMatches
<1>3. CASE Crash
  <2>1. KnownIsMinted'
    BY <1>3 DEF Crash, TypeOK, ClaimsInv, KnownIsMinted, file, disk
  <2>2. QED
    BY <1>3, <2>1 DEF Crash, TypeOK, ClaimsInv, ReadsItsOwn, Distinct, OnlyMembersHold,
                      PersistedMatches, file
<1>4. CASE loadSavedContacts
  <2>1. KnownIsMinted'
    BY <1>4 DEF loadSavedContacts, ClaimsInv, KnownIsMinted, file, disk, processes
  <2>2. \A c \in Contacts : sessionId[c] = None
    BY <1>4 DEF loadSavedContacts, ClaimsInv, OnlyMembersHold
  <2>3. QED
    BY <1>4, <2>1, <2>2 DEF loadSavedContacts, TypeOK, ClaimsInv, ReadsItsOwn, Distinct,
                      OnlyMembersHold, PersistedMatches, file
<1>5. CASE UNCHANGED vars
  BY <1>5 DEF vars, memory, file, disk, processes, ClaimsInv, ReadsItsOwn, Distinct,
              OnlyMembersHold, KnownIsMinted, PersistedMatches
<1>6. QED BY <1>1, <1>2, <1>3, <1>4, <1>5, StepKinds

(* ClaimsInv holds of every reachable state: the strengthening of ExclusiveClaims  *)
(* that every handler keeps.                                                      *)
THEOREM ClaimsInvariant == Spec => []ClaimsInv
<1>1. Init => ClaimsInv
  BY ConstantsAssumption
     DEF Init, ClaimsInv, ReadsItsOwn, Distinct, OnlyMembersHold, KnownIsMinted, PersistedMatches
<1>2. QED
  BY <1>1, ClaimsStep, TypeCorrect, PTL DEF Spec

(* No two contacts read, or go back to, one conversation: whatever discovery, the  *)
(* poll, the terminals' reports and the user's commands do, in any order.         *)
THEOREM ClaimsExclusive == Spec => []ExclusiveClaims
<1>1. ClaimsInv => ExclusiveClaims
  <2> SUFFICES ASSUME ClaimsInv, TypeOK, NEW c \in instances, NEW d \in instances, c # d
               PROVE {sessionId[c], ownSessionId[c]} \cap {sessionId[d], ownSessionId[d]}
                       \subseteq {None}
    BY DEF ExclusiveClaims
  <2>1. QED BY DEF ClaimsInv, ReadsItsOwn, Distinct, TypeOK
<1>2. QED
  BY <1>1, ClaimsInvariant, TypeCorrect, PTL

(* contacts.json agrees with memory in every state in which Multi-Code runs.       *)
THEOREM PersistedAlways == Spec => []PersistedMatches
<1>1. ClaimsInv => PersistedMatches
  BY DEF ClaimsInv
<1>2. QED
  BY <1>1, ClaimsInvariant, PTL

(* One step of the program is a step of the book of contacts, or none.            *)
LEMMA BookStep ==
  TypeOK /\ TypeOK' /\ ClaimsInv /\ ClaimsInv' /\ [Next]_vars
    => [Book!Next]_(Book!bookVars)
<1> SUFFICES ASSUME TypeOK, TypeOK', ClaimsInv, ClaimsInv', [Next]_vars
             PROVE  [Book!Next]_(Book!bookVars)
  OBVIOUS
<1> USE DEF Book!bookVars
<1>1. CASE RecordStep
  <2>1. PICK c \in Contacts, own \in minted' \cup {None} :
          /\ up /\ up'
          /\ own # None => \A d \in Contacts \ {c} : ownSessionId[d] # own
          /\ instances' \in {instances, instances \cup {c}, instances \ {c}}
          /\ c \notin instances' => own = None
          /\ c \in instances /\ c \in instances' /\ ownSessionId[c] # None => own # None
          /\ ownSessionId' = [ownSessionId EXCEPT ![c] = own]
    BY <1>1 DEF RecordStep, OneRecord
  <2>2. /\ saved = instances /\ savedSession = ownSessionId
        /\ saved' = instances' /\ savedSession' = ownSessionId'
    BY <2>1 DEF ClaimsInv, PersistedMatches
  <2>3. own \in Sessions \cup {None}
    BY DEF TypeOK
  <2>4. CASE c \in instances /\ c \in instances'
    <3>1. saved' = saved
      BY <2>1, <2>2, <2>4
    <3>2. CASE savedSession[c] = own
      BY <2>1, <2>2, <3>1, <3>2 DEF TypeOK
    <3>3. CASE savedSession[c] # own
      <4>1. own \in Sessions
        BY <2>1, <2>2, <2>4, <2>3, <3>3
      <4>2. Book!Adopt(c, own)
        BY <2>1, <2>2, <2>4, <3>1, <3>3, <4>1, ConstantsAssumption DEF Book!Adopt, Book!Free
      <4>3. QED BY <4>1, <4>2 DEF Book!Next
    <3>4. QED BY <3>2, <3>3
  <2>5. CASE c \notin instances /\ c \in instances'
    <3>1. ownSessionId[c] = None
      BY <2>5 DEF ClaimsInv, OnlyMembersHold
    <3>2. Book!Join(c, own)
      BY <2>1, <2>2, <2>5, <3>1 DEF Book!Join, Book!Free
    <3>3. QED BY <2>3, <3>2 DEF Book!Next
  <2>6. CASE c \in instances /\ c \notin instances'
    <3>1. Book!Leave(c)
      BY <2>1, <2>2, <2>6 DEF Book!Leave
    <3>2. QED BY <3>1 DEF Book!Next
  <2>7. CASE c \notin instances /\ c \notin instances'
    <3>1. ownSessionId[c] = None /\ own = None
      BY <2>1, <2>7 DEF ClaimsInv, OnlyMembersHold
    <3>2. instances' = instances
      BY <2>1, <2>7
    <3>3. ownSessionId' = ownSessionId
      BY <2>1, <3>1 DEF TypeOK
    <3>4. QED BY <2>2, <3>2, <3>3
  <2>8. QED BY <2>4, <2>5, <2>6, <2>7
<1>2. CASE QuietStep
  BY <1>2 DEF QuietStep
<1>3. CASE Crash
  BY <1>3 DEF Crash, file
<1>4. CASE loadSavedContacts
  BY <1>4 DEF loadSavedContacts, file
<1>5. CASE UNCHANGED vars
  BY <1>5 DEF vars, file
<1>6. QED BY <1>1, <1>2, <1>3, <1>4, <1>5, StepKinds

(* contacts.json behaves as a ContactBook, through every interleaving and crash.  *)
THEOREM ContactsFileIsABook == Spec => ImplementsContactBook
<1>1. Init => Book!Init
  BY DEF Init, Book!Init
<1>2. QED
  BY <1>1, BookStep, TypeCorrect, ClaimsInvariant, PTL
     DEF Spec, ImplementsContactBook, Book!Spec

(* A contact with a conversation on record never ends up with none while it stays *)
(* in contacts.json.                                                              *)
THEOREM ConversationsKept == Spec => ConversationKept
<1> DEFINE Kept == \A c \in Contacts : savedSession[c] # None /\ c \in saved'
                                         => savedSession'[c] # None
<1>1. TypeOK /\ ClaimsInv /\ [Book!Next]_(Book!bookVars) => Kept
  <2> SUFFICES ASSUME TypeOK, ClaimsInv, [Book!Next]_(Book!bookVars), NEW c \in Contacts,
                      savedSession[c] # None, c \in saved'
               PROVE  savedSession'[c] # None
    OBVIOUS
  <2>1. ASSUME NEW d \in Contacts, Book!Leave(d) PROVE savedSession'[c] # None
    BY <2>1 DEF Book!Leave, TypeOK
  <2>2. ASSUME NEW d \in Contacts, NEW s \in Sessions, Book!Adopt(d, s)
        PROVE savedSession'[c] # None
    BY <2>2, ConstantsAssumption DEF Book!Adopt, TypeOK
  <2>3. ASSUME NEW d \in Contacts, NEW s \in Sessions \cup {None}, Book!Join(d, s)
        PROVE savedSession'[c] # None
    BY <2>3 DEF Book!Join, TypeOK, ClaimsInv, OnlyMembersHold
  <2>4. CASE UNCHANGED Book!bookVars
    BY <2>4 DEF Book!bookVars
  <2>5. QED BY <2>1, <2>2, <2>3, <2>4 DEF Book!Next
<1>2. TypeOK /\ TypeOK' /\ ClaimsInv /\ ClaimsInv' /\ [Next]_vars => [Kept]_vars
  BY <1>1, BookStep
<1>3. QED
  BY <1>2, TypeCorrect, ClaimsInvariant, PTL DEF Spec, ConversationKept
=============================================================================
