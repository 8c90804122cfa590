---------------------------- MODULE SessionClaims ----------------------------
(***************************************************************************)
(* Which conversation belongs to which contact.  Several contacts of one    *)
(* project directory each drive an agent process.  ProcessManager learns    *)
(* the conversation a process works in at spawn, by discovery, by polling   *)
(* the CLI's registry or from the terminal's own report, records it as the  *)
(* contact's own in contacts.json, and opens it again at the next start.    *)
(*                                                                         *)
(* One action is one synchronous handler of the Electron main process, or   *)
(* one step of the world outside it: the CLIs, the user, the operating      *)
(* system.  The directory is fixed: contacts of other directories meet none *)
(* of these sessions.                                                       *)
(***************************************************************************)
EXTENDS Naturals

CONSTANTS Contacts,     \* contact ids
          Sessions,     \* conversation ids, of either backend
          None,         \* undefined / null
          Pending,      \* a `--continue` the CLI has not resolved yet
          BackendOf,    \* the backend of each contact
          BackendOfSession, \* the backend whose store a conversation lives in
          MaxLaunches   \* bound: processes ever started in the directory

Backends == {"claude", "opencode"}
Pids == 1..MaxLaunches   \* in the order they start, so also by startedAt
NoPid == 0

ASSUME ConstantsAssumption ==
  /\ None \notin Sessions
  /\ Pending \notin Sessions \cup {None}
  /\ BackendOf \in [Contacts -> Backends]
  /\ BackendOfSession \in [Sessions -> Backends]
  /\ MaxLaunches \in Nat

VARIABLES
  (* ProcessManager, in memory *)
  up,            \* Multi-Code runs
  instances,     \* the contacts in the instances map
  ptyProcess,    \* each one's process; NoPid while status is stopped
  sessionId,     \* the session its read paths follow
  ownSessionId,  \* the one its next start opens
  discovery,     \* a discovery poll is armed
  (* contacts.json *)
  saved,         \* the contacts in the file
  savedSession,  \* the session saved with each
  (* the CLIs *)
  launched,      \* processes started so far
  alive,         \* those still running
  program,       \* the backend each belongs to
  working,       \* the session each works in
  published,     \* what each last published: its registry entry, its route
  transcripts,   \* sessions with a transcript on disk
  latest,        \* of each backend, the one written last
  minted         \* session ids in use

memory == <<instances, ptyProcess, sessionId, ownSessionId, discovery>>
file == <<saved, savedSession>>
disk == <<transcripts, latest>>
processes == <<launched, alive, program, working, published>>
vars == <<up, memory, file, processes, disk, minted>>

TypeOK ==
  /\ up \in BOOLEAN
  /\ instances \subseteq Contacts
  /\ ptyProcess \in [Contacts -> Pids \cup {NoPid}]
  /\ sessionId \in [Contacts -> Sessions \cup {None}]
  /\ ownSessionId \in [Contacts -> Sessions \cup {None}]
  /\ discovery \in [Contacts -> BOOLEAN]
  /\ saved \subseteq Contacts
  /\ savedSession \in [Contacts -> Sessions \cup {None}]
  /\ launched \in 0..MaxLaunches
  /\ alive \subseteq 1..launched
  /\ program \in [Pids -> Backends]
  /\ working \in [Pids -> Sessions \cup {None, Pending}]
  /\ published \in [Pids -> Sessions \cup {None}]
  /\ transcripts \subseteq Sessions
  /\ latest \in [Backends -> Sessions \cup {None}]
  /\ minted \subseteq Sessions

Init ==
  /\ up = TRUE
  /\ instances = {}
  /\ ptyProcess = [c \in Contacts |-> NoPid]
  /\ sessionId = [c \in Contacts |-> None]
  /\ ownSessionId = [c \in Contacts |-> None]
  /\ discovery = [c \in Contacts |-> FALSE]
  /\ saved = {}
  /\ savedSession = [c \in Contacts |-> None]
  /\ launched = 0
  /\ alive = {}
  /\ program = [p \in Pids |-> "claude"]
  /\ working = [p \in Pids |-> None]
  /\ published = [p \in Pids |-> None]
  /\ transcripts \in SUBSET Sessions   \* the directory may have been worked in before
  /\ latest \in [Backends -> transcripts \cup {None}]
  /\ \A b \in Backends :
       LET past == {s \in transcripts : BackendOfSession[s] = b}
       IN IF past = {} THEN latest[b] = None ELSE latest[b] \in past
  /\ minted = transcripts

-----------------------------------------------------------------------------
(* Claims *)

\* (A slip: forgets the sessions stopped contacts go back to.)
ClaimedByReader(s, except) == \E other \in instances \ {except} : sessionId[other] = s

\* Another contact reads this session, or has it to go back to.
isSessionClaimedBy(s, except) ==
  \E other \in instances \ {except} :
    sessionId[other] = s \/ ownSessionId[other] = s

Unused(b) == {s \in Sessions \ minted : BackendOfSession[s] = b}

\* persist(): the map as it is after the handler's own changes.
persist == /\ saved' = instances'
           /\ savedSession' = ownSessionId'

-----------------------------------------------------------------------------
(* Starting a process *)

\* What a spawn opens, and whether the backend says so (`opened`): the session on
\* record; else the directory's latest unless another contact holds it, which
\* Claude reaches by an unnamed --continue; else one it mints.
Openings(c, own) ==
  LET b == BackendOf[c] IN
  IF own # None
  THEN {[opened |-> own, works |-> own]}
  ELSE IF latest[b] # None /\ ~isSessionClaimedBy(latest[b], c)
  THEN {IF b = "claude" THEN [opened |-> None, works |-> Pending]
                        ELSE [opened |-> latest[b], works |-> latest[b]]}
  ELSE {[opened |-> s, works |-> s] : s \in Unused(b)}

Fresh(c) == {[opened |-> s, works |-> s] : s \in Unused(BackendOf[c])}

Launch(b, s) ==
  /\ launched < MaxLaunches
  /\ launched' = launched + 1
  /\ alive' = alive \cup {launched'}
  /\ program' = [program EXCEPT ![launched'] = b]
  /\ working' = [working EXCEPT ![launched'] = s]
  /\ minted' = IF s \in Sessions THEN minted \cup {s} ELSE minted
  /\ UNCHANGED published

SetRecord(c, p, s, own, seeking) ==
  /\ ptyProcess' = [ptyProcess EXCEPT ![c] = p]
  /\ sessionId' = [sessionId EXCEPT ![c] = s]
  /\ ownSessionId' = [ownSessionId EXCEPT ![c] = own]
  /\ discovery' = [discovery EXCEPT ![c] = seeking]

spawnProcess(c, openings) ==
  \E o \in openings :
    /\ Launch(BackendOf[c], o.works)
    /\ SetRecord(c, launched', o.opened, o.opened, o.opened = None)

\* (A slip: a refused start drops the session on record.)
RefusalForgets(c, own) ==
  /\ BackendOf[c] = "opencode"
  /\ SetRecord(c, NoPid, None, None, FALSE)
  /\ UNCHANGED <<processes, minted>>

\* OpenCode 1.x: nothing is spawned and the contact keeps the session it had.
refuseSpawn(c, own) ==
  /\ BackendOf[c] = "opencode"
  /\ SetRecord(c, NoPid, None, own, FALSE)
  /\ UNCHANGED <<processes, minted>>

createInstance(c) ==
  /\ up /\ c \notin instances
  /\ instances' = instances \cup {c}
  /\ spawnProcess(c, Openings(c, None)) \/ refuseSpawn(c, None)
  /\ persist
  /\ UNCHANGED <<up, disk>>

duplicateInstance(source, c) ==
  /\ up /\ source \in instances /\ c \notin instances
  /\ BackendOf[c] = BackendOf[source]
  /\ instances' = instances \cup {c}
  /\ spawnProcess(c, Fresh(c)) \/ refuseSpawn(c, None)
  /\ persist
  /\ UNCHANGED <<up, disk>>

\* startInstance and restartInstance share the spawn; both save only when the
\* contact's own session changed.
respawn(c) ==
  /\ \/ spawnProcess(c, Openings(c, ownSessionId[c]))
     \/ refuseSpawn(c, ownSessionId[c])
  /\ IF ownSessionId'[c] # ownSessionId[c]
     THEN saved' = instances /\ savedSession' = ownSessionId'
     ELSE UNCHANGED file
  /\ UNCHANGED <<up, instances, disk>>

startInstance(c) ==
  /\ up /\ c \in instances /\ ptyProcess[c] = NoPid
  /\ respawn(c)

\* The old process is killed, and still there until Exit.
restartInstance(c) ==
  /\ up /\ c \in instances
  /\ respawn(c)

removeInstance(c) ==
  /\ up /\ c \in instances
  /\ instances' = instances \ {c}
  /\ SetRecord(c, NoPid, None, None, FALSE)
  /\ persist
  /\ UNCHANGED <<up, processes, disk, minted>>

-----------------------------------------------------------------------------
(* Following a running process's session *)

\* (Slips: does not save; follows the session without owning it.)
AttachUnsaved(c, s) ==
  /\ sessionId' = [sessionId EXCEPT ![c] = s]
  /\ ownSessionId' = [ownSessionId EXCEPT ![c] = s]
  /\ UNCHANGED file

AttachReadOnly(c, s) ==
  /\ sessionId' = [sessionId EXCEPT ![c] = s]
  /\ UNCHANGED <<ownSessionId, file>>

attachSession(c, s) ==
  /\ sessionId' = [sessionId EXCEPT ![c] = s]
  /\ ownSessionId' = [ownSessionId EXCEPT ![c] = s]
  /\ IF ownSessionId[c] # s THEN saved' = instances /\ savedSession' = ownSessionId'
                            ELSE UNCHANGED file

\* The registry: one entry per Claude process that has written one, its own or
\* another's, stale ones of crashed processes included.
Entries == {p \in Pids : program[p] = "claude" /\ published[p] # None}

\* ClaudeSessionDiscovery: the newest entry no other contact holds, once it has
\* a transcript.
discoverSessionId(c) ==
  LET candidates == {p \in Entries : ~isSessionClaimedBy(published[p], c)} IN
  /\ up /\ c \in instances /\ discovery[c]
  /\ \E p \in candidates :
       /\ \A q \in candidates : q <= p
       /\ published[p] \in transcripts
       /\ attachSession(c, published[p])
  /\ discovery' = [discovery EXCEPT ![c] = FALSE]
  /\ UNCHANGED <<up, instances, ptyProcess, processes, disk, minted>>

\* The process's own entry, else the only one there is.
findClaudeLiveSessionId(p) ==
  {published[q] : q \in {q \in Entries : q = p \/ (p \notin Entries /\ Entries = {q})}}

\* (A slip: only a contact whose session is unknown follows its process.)
SyncOnce(c) ==
  /\ up /\ c \in instances /\ ptyProcess[c] # NoPid
  /\ BackendOf[c] = "claude" /\ sessionId[c] = None
  /\ \E live \in findClaudeLiveSessionId(ptyProcess[c]) :
       /\ ~isSessionClaimedBy(live, c)
       /\ attachSession(c, live)
  /\ UNCHANGED <<up, instances, ptyProcess, discovery, processes, disk, minted>>

\* The poll, or the SessionStart hook that brings it forward.
syncLiveSessionId(c) ==
  /\ up /\ c \in instances /\ ptyProcess[c] # NoPid
  /\ BackendOf[c] = "claude"
  /\ \E live \in findClaudeLiveSessionId(ptyProcess[c]) :
       /\ live # sessionId[c]
       /\ ~isSessionClaimedBy(live, c)
       /\ attachSession(c, live)
  /\ UNCHANGED <<up, instances, ptyProcess, discovery, processes, disk, minted>>

\* (A slip: takes the shown session over from whoever holds it.)
ShownUnchecked(p) ==
  /\ up /\ p \in alive /\ program[p] = "opencode"
  /\ working[p] \in Sessions /\ published[p] # working[p]
  /\ published' = [published EXCEPT ![p] = working[p]]
  /\ \E c \in instances : ptyProcess[c] = p /\ attachSession(c, working[p])
  /\ UNCHANGED <<up, instances, ptyProcess, discovery, launched, alive, program,
                 working, disk, minted>>

\* OpenCode's plugin reports the session its terminal moved to, once.
onSessionShown(p) ==
  /\ up /\ p \in alive /\ program[p] = "opencode"
  /\ working[p] \in Sessions /\ published[p] # working[p]
  /\ published' = [published EXCEPT ![p] = working[p]]
  /\ LET readers == {c \in instances : /\ ptyProcess[c] = p
                                       /\ sessionId[c] # working[p]
                                       /\ ~isSessionClaimedBy(working[p], c)}
     IN \/ \E c \in readers : attachSession(c, working[p])
        \/ readers = {} /\ UNCHANGED <<sessionId, ownSessionId, file>>
  /\ UNCHANGED <<up, instances, ptyProcess, discovery, launched, alive, program,
                 working, disk, minted>>

-----------------------------------------------------------------------------
(* The CLIs and the user in them *)

\* A `claude` the user runs in the directory outside Multi-Code.
ExternalStart ==
  /\ \E s \in Unused("claude") : Launch("claude", s)
  /\ UNCHANGED <<up, memory, file, disk>>

\* `--continue` takes the latest transcript as the CLI gets to look.
Continue(p) ==
  /\ p \in alive /\ working[p] = Pending
  /\ working' = [working EXCEPT ![p] = latest[program[p]]]
  /\ UNCHANGED <<up, memory, file, launched, alive, program, published, disk, minted>>

\* The CLI writes its registry entry, at startup and again when it moves.
Register(p) ==
  /\ p \in alive /\ program[p] = "claude"
  /\ working[p] \in Sessions /\ published[p] # working[p]
  /\ published' = [published EXCEPT ![p] = working[p]]
  /\ UNCHANGED <<up, memory, file, launched, alive, program, working, disk, minted>>

\* A message in a session writes its transcript.
Turn(p) ==
  /\ p \in alive /\ working[p] \in Sessions
  /\ transcripts' = transcripts \cup {working[p]}
  /\ latest' = [latest EXCEPT ![program[p]] = working[p]]
  /\ UNCHANGED <<up, memory, file, processes, minted>>

\* `/new`, `/clear`: the process goes on in a session of a new id.
NewSession(p) ==
  /\ p \in alive /\ working[p] \in Sessions
  /\ \E s \in Unused(program[p]) :
       /\ working' = [working EXCEPT ![p] = s]
       /\ minted' = minted \cup {s}
  /\ UNCHANGED <<up, memory, file, launched, alive, program, published, disk>>

\* `/resume`, `/sessions`: the user picks another conversation of the directory.
PickSession(p) ==
  /\ p \in alive /\ working[p] \in Sessions
  /\ \E s \in transcripts \ {working[p]} :
       /\ BackendOfSession[s] = program[p]
       /\ working' = [working EXCEPT ![p] = s]
  /\ UNCHANGED <<up, memory, file, launched, alive, program, published, disk, minted>>

\* A process ends; one that crashed leaves its registry entry behind.
Exit(p) ==
  /\ p \in alive
  /\ alive' = alive \ {p}
  /\ published' \in {published, [published EXCEPT ![p] = None]}
  /\ ptyProcess' = [c \in Contacts |-> IF ptyProcess[c] = p THEN NoPid ELSE ptyProcess[c]]
  /\ discovery' = [c \in Contacts |-> discovery[c] /\ ptyProcess[c] # p]
  /\ working' = [working EXCEPT ![p] = None]
  /\ UNCHANGED <<up, instances, sessionId, ownSessionId, file, launched, program,
                 disk, minted>>

\* Multi-Code quits or dies, and every process with a pty of its own goes too.
Crash ==
  /\ up /\ up' = FALSE
  /\ instances' = {}
  /\ ptyProcess' = [c \in Contacts |-> NoPid]
  /\ sessionId' = [c \in Contacts |-> None]
  /\ ownSessionId' = [c \in Contacts |-> None]
  /\ discovery' = [c \in Contacts |-> FALSE]
  /\ alive' = {p \in alive : \A c \in instances : ptyProcess[c] # p}
  /\ working' = [p \in Pids |-> IF p \in alive' THEN working[p] ELSE None]
  /\ UNCHANGED <<file, launched, program, published, disk, minted>>

loadSavedContacts ==
  /\ ~up /\ up' = TRUE
  /\ instances' = saved
  /\ ownSessionId' = savedSession
  /\ UNCHANGED <<ptyProcess, sessionId, discovery, file, processes, disk, minted>>

-----------------------------------------------------------------------------
Operate(c) ==
  \/ createInstance(c)
  \/ \E source \in Contacts : duplicateInstance(source, c)
  \/ startInstance(c)
  \/ restartInstance(c)
  \/ removeInstance(c)

Follow(c) == discoverSessionId(c) \/ syncLiveSessionId(c)

Cli(p) == \/ Continue(p) \/ Register(p) \/ Turn(p) \/ NewSession(p) \/ Exit(p)
          \/ onSessionShown(p)

NextUnpicked ==
  \/ \E c \in Contacts : Operate(c) \/ Follow(c)
  \/ \E p \in Pids : Cli(p)
  \/ ExternalStart \/ Crash \/ loadSavedContacts

Next == NextUnpicked \/ \E p \in Pids : PickSession(p)

Spec == Init /\ [][Next]_vars

-----------------------------------------------------------------------------
(* Properties *)

\* No two contacts ever read, or would go back to, the same conversation, however
\* discovery, the poll and the user's own moves between sessions interleave
\* (isSessionClaimedBy and every place that asks it).
ExclusiveClaims ==
  \A c, d \in instances : c # d =>
    {sessionId[c], ownSessionId[c]} \cap {sessionId[d], ownSessionId[d]} \subseteq {None}

\* Whenever Multi-Code runs, contacts.json names exactly the contacts in memory,
\* each with the session memory would open next: a crash at any point loses none
\* (persist in every handler that changes either).
PersistedMatches ==
  up => saved = instances /\ savedSession = ownSessionId

\* What makes ExclusiveClaims inductive: a contact that reads a session also has it
\* as its own, and reads none while Multi-Code is down; own sessions are distinct in
\* memory and in the file; a contact not in the map, or in the file, holds nothing; and
\* every session anybody holds, works in or published is minted, so that a fresh one is
\* held by nobody.
ReadsItsOwn == \A c \in Contacts : sessionId[c] \in {None, ownSessionId[c]}

Distinct(held) == \A c, d \in Contacts : c # d /\ held[c] # None => held[c] # held[d]

OnlyMembersHold ==
  \A c \in Contacts : /\ c \notin instances => ownSessionId[c] = None
                      /\ ~up => sessionId[c] = None
                      /\ c \notin saved => savedSession[c] = None

KnownIsMinted ==
  /\ \A c \in Contacts : {ownSessionId[c], savedSession[c]} \subseteq minted \cup {None}
  /\ \A p \in Pids : /\ working[p] \in minted \cup {None, Pending}
                     /\ published[p] \in minted \cup {None}
  /\ \A b \in Backends : latest[b] \in minted \cup {None}
  /\ transcripts \subseteq minted

ClaimsInv == /\ ReadsItsOwn
             /\ Distinct(ownSessionId) /\ Distinct(savedSession)
             /\ OnlyMembersHold
             /\ KnownIsMinted
             /\ PersistedMatches

\* A contact that has a conversation on record keeps having one for as long as it
\* is in contacts.json, across refusals, restarts, exits and crashes.
ConversationKept ==
  [][\A c \in Contacts : savedSession[c] # None /\ c \in saved'
       => savedSession'[c] # None]_vars

\* No two contacts' processes work in one conversation, as long as the user does
\* not choose it in the CLI (the aim stated at sessionStartFor).
NoSharedConversation ==
  \A c, d \in instances :
    c # d /\ ptyProcess[c] # NoPid /\ ptyProcess[d] # NoPid
    /\ working[ptyProcess[c]] = working[ptyProcess[d]]
      => working[ptyProcess[c]] = Pending

\* The promise without the machinery: contacts.json is a ContactBook.
Book == INSTANCE ContactBook WITH members <- saved, conversation <- savedSession
ImplementsContactBook == Book!Spec
=============================================================================
