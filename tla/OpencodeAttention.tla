-------------------------- MODULE OpencodeAttention --------------------------
(***************************************************************************)
(* What one OpenCode contact reports: a turn finished, a dialog needs the   *)
(* builder, the dialog is gone, the contact works.  One service runs the    *)
(* sessions of every client; its event stream says when turns start and end *)
(* and dialogs open and close, the plugin in the contact's terminal says    *)
(* which session is shown, and after every connect a snapshot is read, in   *)
(* four rounds of requests, while events keep arriving.                     *)
(*                                                                         *)
(* One action is one handler, or one continuation of an awaited request; a  *)
(* request's answer is computed at one step and used at a later one.        *)
(* Continuations that wait for nothing more run before the next handler     *)
(* (Runnable).                                                              *)
(***************************************************************************)
EXTENDS Naturals, Sequences, FiniteSets, SequencesExt

CONSTANTS Sessions,
          Dialogs,        \* request ids, in the order they are asked
          Own,            \* the session the contact's terminal was started with
          ParentOf,       \* the family of each session
          Root, Unknown,  \* no parent; a parent not known yet
          Home,           \* the terminal's home screen
          None, Cleared, Waiting,
          MaxDepth,       \* bound: nesting of subagents
          Budgets         \* bounds of each scenario: turns, dialogs, ..., and `lag`, the events
                          \* published on the stream and not yet handled

VARIABLES
  (* the service *)
  created, active, outcome,
  ends,         \* turns of each session whose end is a finish
  owed,         \* finishes to be said of each by now
  askedBy,      \* the session each dialog was asked in
  open,         \* the dialogs that wait for an answer
  connected,    \* the event stream
  queue,        \* published on it and not yet handled
  (* the terminal *)
  toTell,       \* the route its plugin still has to tell
  (* OpencodeAttention *)
  att,          \* what it knows and has said, see Init
  lookups,      \* sessions whose parent is being asked
  chain,        \* for each family being learned, the link it waits for
  adopting,     \* shown sessions whose family decides whether they are adopted
  held,         \* events of a session whose family is being learned
  learning,     \* started sessions whose family only the working state waits for
  sync,         \* the re-sync being read
  stopped,
  misread,      \* a request has failed
  crossed,      \* events of an earlier stream were held when the latest re-sync began
  left          \* what is left of the budget

service == <<created, active, outcome, ends, owed, askedBy, open>>
wire == <<connected, queue>>
families == <<lookups, chain, adopting, learning>>
history == <<misread, crossed>>
vars == <<service, wire, toTell, att, families, held, sync, stopped, history, left>>

Spend(what) == left[what] > 0 /\ left' = [left EXCEPT ![what] = @ - 1]

\* A request is answered, or fails (a timeout, a service that is gone).
Answered == UNCHANGED <<history, left>>
Failed == Spend("fails") /\ misread' = TRUE /\ UNCHANGED crossed

Idle == [stage |-> "idle", ready |-> FALSE, active |-> {}, wanted |-> {}, pages |-> <<>>,
         outcomes |-> <<>>, unread |-> {}, ended |-> {}, before |-> {},
         touched |-> {}, settled |-> {}, endedSeen |-> {}]

Init ==
  /\ left \in Budgets
  /\ created = {} /\ active = {} /\ open = {}
  /\ outcome = [s \in Sessions |-> "none"] /\ ends = [s \in Sessions |-> 0]
  /\ owed = [s \in Sessions |-> 0]
  /\ askedBy = [d \in Dialogs |-> None]
  /\ connected = FALSE /\ queue = <<>>
  /\ toTell = IF left["routes"] = 0 THEN None ELSE Home   \* None when the plugin did not load
  /\ att = [shown |-> {Own}, lastShown |-> None, lastAdopted |-> None, home |-> FALSE,
            parents |-> [s \in Sessions |-> Unknown],
            running |-> {}, finishedBySync |-> {}, dialogs |-> <<>>, live |-> None,
            working |-> FALSE,
            \* what was said: the last activity, how often each dialog chimed and each
            \* session finished
            said |-> None, chimes |-> [d \in Dialogs |-> 0], finishes |-> [s \in Sessions |-> 0]]
  /\ lookups = {} /\ adopting = {} /\ learning = {}
  /\ chain = [s \in Sessions |-> None]
  /\ held = [s \in Sessions |-> <<>>]
  /\ sync = Idle
  /\ stopped = FALSE /\ misread = FALSE /\ crossed = FALSE

-----------------------------------------------------------------------------
(* The service, its other clients, and the terminal *)

Event(type, s) == [type |-> type, session |-> s, dialog |-> None, finishing |-> FALSE]

Room == Len(queue) < left["lag"]
Publish(events) == queue' = IF connected THEN queue \o events ELSE queue

\* Pending dialogs of `s` that nobody has answered.
Pending(s) == {d \in open : askedBy[d] = s}

\* A turn starts: a prompt in a root, or a subagent of a running turn.  The first one
\* creates the session.
StartTurn(s) ==
  /\ s \in left["sessions"] \ active
  /\ ParentOf[s] = Root \/ ParentOf[s] \in active
  /\ Spend("turns") /\ Room
  /\ created' = created \cup {s} /\ owed' = [owed EXCEPT ![s] = IF s \in att.running THEN None ELSE 0]
  /\ active' = active \cup {s}
  /\ Publish((IF s \in created THEN <<>> ELSE <<Event("created", s)>>) \o <<Event("started", s)>>)
  /\ UNCHANGED <<outcome, ends, askedBy, open, connected, toTell, att, families, held, sync, stopped, history>>

\* It succeeds or fails; is interrupted, with what it was asking; or is evicted after an
\* hour, which the event tells from an interrupt and the session's record does not.
EndTurn(s, how) ==
  /\ s \in active
  /\ \A t \in active : ParentOf[t] # s
  /\ Room
  /\ how = "finished" => Pending(s) = {}
  /\ active' = active \ {s}
  /\ open' = open \ Pending(s)
  /\ outcome' = [outcome EXCEPT ![s] = IF how = "finished" THEN how ELSE "interrupted"]
  /\ ends' = [ends EXCEPT ![s] = IF how = "interrupted" THEN @ ELSE @ + 1]
  /\ owed' = [owed EXCEPT ![s] = IF how = "finished" /\ ParentOf[s] = Root
                                   /\ @ # None /\ s \in att.running \cap att.shown
                                THEN att.finishes[s] + 1 ELSE 0]
  /\ Publish(<<[Event("ended", s) EXCEPT !.finishing = how # "interrupted"]>>)
  /\ UNCHANGED <<created, askedBy, connected, toTell, att, families, held, sync, stopped, history, left>>

Ask(s, d) ==
  /\ s \in active /\ askedBy[d] = None /\ Room
  /\ \A c \in 1..d - 1 : askedBy[c] # None
  /\ Spend("asks")
  /\ askedBy' = [askedBy EXCEPT ![d] = s]
  /\ open' = open \cup {d}
  /\ Publish(<<[Event("asked", s) EXCEPT !.dialog = d]>>)
  /\ UNCHANGED <<created, active, outcome, ends, owed, connected, toTell, att, families, held, sync, stopped, history>>

\* From this contact's phone or terminal, or from any other client.
Reply(d) ==
  /\ d \in open /\ Room
  /\ open' = open \ {d}
  /\ Publish(<<[Event("replied", askedBy[d]) EXCEPT !.dialog = d]>>)
  /\ UNCHANGED <<created, active, outcome, ends, owed, askedBy, connected, toTell, att, families, held,
                 sync, stopped, history, left>>

\* The stream breaks with what was on it; a new one starts with server.connected, and may
\* while a session's family is still being asked (a request takes up to 5 s, a backoff
\* starts at 500 ms, and a registration that changed is connected to at once).
Drop ==
  /\ connected /\ Spend("drops")
  /\ connected' = FALSE /\ queue' = <<>>
  /\ UNCHANGED <<service, toTell, att, families, held, sync, stopped, history>>

Reconnect ==
  /\ ~stopped /\ ~connected
  /\ connected' = TRUE /\ queue' = <<Event("connected", None)>>
  /\ UNCHANGED <<service, toTell, att, families, held, sync, stopped, history, left>>

\* The terminal shows another screen.  A route still to tell is superseded.
Navigate(v) ==
  /\ v \in created \cup {Home} /\ v # toTell
  /\ Spend("routes")
  /\ toTell' = v
  /\ UNCHANGED <<service, wire, att, families, held, sync, stopped, history>>

-----------------------------------------------------------------------------
(* Families *)

\* The session and those above it, as far as the parents are known.
Lineage(a, s) ==
  LET up[n \in 0..MaxDepth] ==
        IF n = 0 THEN s
        ELSE IF up[n - 1] \in Sessions THEN a.parents[up[n - 1]] ELSE None
  IN {up[n] : n \in 0..MaxDepth} \cap Sessions

owned(a, s) == Lineage(a, s) \cap a.shown # {}
isRoot(a, s) == a.parents[s] = Root

\* The link of the chain whose parent is not known, if there is one.
unknownLink(a, s) ==
  LET missing == {t \in Lineage(a, s) : a.parents[t] = Unknown}
  IN IF missing = {} THEN None ELSE CHOOSE t \in missing : TRUE

\* resolveChain for each of `wanted`: one lookup per unknown link, however many wait.
LearnFamilies(wanted) ==
  /\ chain' = [s \in Sessions |-> IF s \in wanted /\ chain[s] = None THEN unknownLink(att, s)
                                  ELSE chain[s]]
  /\ lookups' = lookups \cup ({chain'[s] : s \in Sessions} \ {None})

-----------------------------------------------------------------------------
(* Turns and dialogs *)

Said(a, what) == [a EXCEPT !.said = what]

raise(a, d) ==
  IF d \in Range(a.dialogs) THEN a
  ELSE [a EXCEPT !.dialogs = Append(@, d), !.live = d, !.said = d, !.chimes[d] = @ + 1]

restateNewest(a) ==
  IF a.dialogs = <<>> THEN a ELSE [a EXCEPT !.live = Last(a.dialogs), !.said = Last(a.dialogs)]

clearPrompt(a) == [a EXCEPT !.live = None, !.said = Cleared]

Without(a, gone) == [a EXCEPT !.dialogs = SelectSeq(@, LAMBDA d : d \notin gone)]

\* What is said once dialogs went: that none is left, or which one is the newest when the
\* one shown went with them.
ClearedOrRestated(a, gone) ==
  IF gone = {} THEN a
  ELSE IF a.dialogs = <<>> THEN clearPrompt(a)
  ELSE IF a.live \notin Range(a.dialogs) THEN restateNewest(a)
  ELSE a

close(a, d) ==
  LET gone == {d} \cap Range(a.dialogs) IN ClearedOrRestated(Without(a, gone), gone)

Tree(a, root) == {d \in Range(a.dialogs) : root \in Lineage(a, askedBy[d])}

Finish(a, s) == [a EXCEPT !.said = Waiting, !.finishes[s] = @ + 1]

turnEnded(a, s, finishing) ==
  LET quiet == [a EXCEPT !.running = @ \ {s}, !.finishedBySync = @ \ {s}]
      gone == Tree(a, s)
      closed == Without(quiet, gone)
      cleared == IF gone # {} /\ closed.dialogs = <<>> THEN clearPrompt(closed) ELSE closed
      finished == finishing /\ s \notin a.finishedBySync /\ isRoot(a, s)
      told == IF finished THEN Finish(cleared, s) ELSE cleared
  IN IF ~owned(a, s) THEN quiet
     ELSE IF finished \/ told.live \notin Range(told.dialogs) THEN restateNewest(told)
     ELSE told

apply(a, e) ==
  CASE e.type = "started" ->
         [a EXCEPT !.running = @ \cup {e.session}, !.finishedBySync = @ \ {e.session}]
    [] e.type = "ended" -> turnEnded(a, e.session, e.finishing)
    [] e.type = "asked" -> IF owned(a, e.session) THEN raise(a, e.dialog) ELSE a
    [] e.type = "replied" -> close(a, e.dialog)

\* Said on a change only.
reportWorking(a) ==
  [a EXCEPT !.working = a.dialogs = <<>> /\ \E s \in a.running : owned(a, s)]

-----------------------------------------------------------------------------
(* Handlers *)

\* (A slip: forgets which dialogs were there before the reads.)
BeginBlank == sync' = [Idle EXCEPT !.stage = "active"]

BeginResync == sync' = [Idle EXCEPT !.stage = "active", !.before = Range(att'.dialogs)]

\* An event is newer than any snapshot being read.
noteDuringSync(r, events) ==
  LET of(type) == {e \in Range(events) : e.type = type} IN
  IF r.stage = "idle" THEN r
  ELSE [r EXCEPT !.touched = @ \cup {e.session : e \in Range(events)},
                 !.settled = @ \cup {e.dialog : e \in of("replied")},
                 !.endedSeen = @ \cup {e.session : e \in of("ended")}]

NeedsFamily == {"ended", "asked"}

\* Continuations that wait for nothing more: events to release, rounds of the re-sync
\* with nothing to ask.
Releasable == {s \in Sessions : held[s] # <<>> /\ chain[s] = None}
FamiliesKnown == sync.stage = "families" /\ \A s \in sync.active \cup att.shown : chain[s] = None
NothingToRead == \/ sync.stage = "dialogs" /\ sync.wanted = {}
                 \/ sync.stage = "outcomes" /\ sync.ended = {}
Runnable == Releasable # {} \/ FamiliesKnown \/ NothingToRead

onResync ==
  /\ Head(queue).type = "connected"
  /\ crossed' = (\E s \in Sessions : held[s] # <<>>)
  /\ UNCHANGED <<att, families, held>>
  /\ BeginResync

onCreated ==
  /\ Head(queue).type = "created"
  /\ LET s == Head(queue).session IN att' = [att EXCEPT !.parents[s] = ParentOf[s]]
  /\ UNCHANGED <<families, held, sync, crossed>>

\* An event of a session whose family is being learned waits behind the others of it.
onEvent ==
  LET e == Head(queue)
      s == e.session
  IN
  /\ e.type \notin {"connected", "created"}
  /\ sync' = noteDuringSync(sync, <<e>>)
  /\ UNCHANGED <<adopting, crossed>>
  /\ IF held[s] # <<>>
     THEN held' = [held EXCEPT ![s] = Append(@, e)] /\ UNCHANGED <<att, lookups, chain, learning>>
     ELSE IF e.type \in NeedsFamily /\ unknownLink(att, s) # None
     THEN held' = [held EXCEPT ![s] = <<e>>] /\ LearnFamilies({s}) /\ UNCHANGED <<att, learning>>
     ELSE /\ att' = reportWorking(apply(att, e))
          /\ learning' = IF e.type = "started" /\ unknownLink(att, s) # None
                         THEN learning \cup {s} ELSE learning
          /\ UNCHANGED <<held, lookups, chain>>

Deliver ==
  /\ ~stopped /\ ~Runnable /\ queue # <<>>
  /\ queue' = Tail(queue)
  /\ onResync \/ onCreated \/ onEvent
  /\ UNCHANGED <<service, connected, toTell, stopped, misread, left>>

\* The family of the shown session is known: it is adopted when it is a root, and home
\* is left, unless the terminal moved on meanwhile.
AdoptIfRoot(a, s) ==
  IF a.lastShown # s THEN a
  ELSE [a EXCEPT !.lastAdopted = IF isRoot(a, s) THEN s ELSE @, !.home = FALSE]

\* The plugin's route.
handle ==
  /\ ~stopped /\ ~Runnable /\ toTell # None
  /\ toTell' = None
  /\ IF toTell = Home
     THEN /\ att' = [att EXCEPT !.lastShown = None, !.home = TRUE]
          /\ UNCHANGED <<families, sync>>
     ELSE LET s == toTell
              first == s \notin att.shown
              moved == s # att.lastShown
              known == att.parents[s] # Unknown
              now == [att EXCEPT !.shown = @ \cup {s}, !.lastShown = s]
          IN /\ att' = reportWorking(IF moved /\ known THEN AdoptIfRoot(now, s) ELSE now)
             /\ adopting' = IF moved /\ ~known THEN adopting \cup {s} ELSE adopting
             /\ lookups' = IF moved /\ ~known THEN lookups \cup {s} ELSE lookups
             /\ IF first THEN BeginResync ELSE UNCHANGED sync
             /\ UNCHANGED <<chain, learning>>
  /\ UNCHANGED <<service, wire, held, stopped, history, left>>

\* GET /api/session/:id answers, or cannot: a session nobody knows counts as a root.  Who
\* waits for it goes on: the adoption, and each family with its next link.
LookupAnswered(s) ==
  /\ ~stopped /\ ~Runnable /\ s \in lookups
  /\ \E parent \in {IF s \in created THEN ParentOf[s] ELSE Root, Root} :
       LET learnt == [att EXCEPT !.parents[s] = IF @ = Unknown THEN parent ELSE @] IN
       /\ IF s \in created /\ parent # ParentOf[s] THEN Failed ELSE Answered
       /\ att' = IF s \in adopting THEN AdoptIfRoot(learnt, s) ELSE learnt
       /\ chain' = [t \in Sessions |-> IF chain[t] = s THEN unknownLink(learnt, t) ELSE chain[t]]
  /\ adopting' = adopting \ {s}
  /\ lookups' = (lookups \ {s}) \cup ({chain'[t] : t \in Sessions} \ {None})
  /\ UNCHANGED <<service, wire, toTell, held, learning, sync, stopped>>

\* learnChain: as a lookup, but a link that could not be asked stays unknown.
LearnAnswered(s) ==
  LET link == unknownLink(att, s) IN
  /\ ~stopped /\ ~Runnable /\ s \in learning /\ link \notin lookups
  /\ \/ /\ link # None
        /\ att' = LET learnt == [att EXCEPT !.parents[link] = ParentOf[link]]
                  IN IF unknownLink(learnt, s) = None THEN reportWorking(learnt) ELSE learnt
        /\ learning' = IF unknownLink(att', s) = None THEN learning \ {s} ELSE learning
        /\ Answered
     \/ /\ IF link = None THEN Answered ELSE Failed
        /\ att' = reportWorking(att)
        /\ learning' = learning \ {s}
  /\ UNCHANGED <<service, wire, toTell, lookups, chain, adopting, held, sync, stopped>>

releaseWhenKnown(s) ==
  /\ s \in Releasable
  /\ att' = reportWorking(FoldLeft(apply, att, held[s]))
  /\ sync' = noteDuringSync(sync, held[s])
  /\ held' = [held EXCEPT ![s] = <<>>]
  /\ UNCHANGED <<service, wire, toTell, families, stopped, history, left>>

-----------------------------------------------------------------------------
(* The re-sync *)

Reading == ~stopped /\ ~Runnable

ResyncStep == UNCHANGED <<service, wire, toTell, adopting, learning, held, stopped>>

\* The service computes an answer, or the request fails.  What it published before then
\* is handled before the answer arrives, so also before it is computed.
ReadActive ==
  /\ Reading /\ queue = <<>> /\ sync.stage = "active" /\ ~sync.ready
  /\ \/ sync' = [sync EXCEPT !.ready = TRUE, !.active = active] /\ Answered
     \/ sync' = Idle /\ Failed
  /\ ResyncStep /\ UNCHANGED <<att, lookups, chain>>

ActiveArrived ==
  /\ Reading /\ sync.stage = "active" /\ sync.ready
  /\ sync' = [sync EXCEPT !.stage = "families"]
  /\ LearnFamilies(sync.active \cup att.shown)
  /\ ResyncStep /\ UNCHANGED <<att, history, left>>

AskDialogs ==
  /\ FamiliesKnown
  /\ sync' = [sync EXCEPT !.stage = "dialogs",
                !.wanted = {s \in sync.active : owned(att, s)}
                           \cup {askedBy[d] : d \in Range(att.dialogs)}]
  /\ ResyncStep /\ UNCHANGED <<att, lookups, chain, history, left>>

ReadDialogs(s) ==
  /\ Reading /\ queue = <<>> /\ sync.stage = "dialogs" /\ s \in sync.wanted \ (DOMAIN sync.pages \cup sync.unread)
  /\ \/ sync' = [sync EXCEPT !.pages = (s :> Pending(s)) @@ @] /\ Answered
     \/ sync' = [sync EXCEPT !.unread = @ \cup {s}] /\ Failed
  /\ ResyncStep /\ UNCHANGED <<att, lookups, chain>>

\* Roots of the contact that ran and no longer do: their turns ended while away.
DialogsArrived ==
  /\ ~stopped /\ sync.stage = "dialogs" /\ sync.wanted = DOMAIN sync.pages \cup sync.unread
  /\ Runnable => sync.wanted = {}
  /\ sync' = [sync EXCEPT !.stage = "outcomes",
                !.ended = {s \in att.running \ (sync.active \cup sync.touched) :
                             owned(att, s) /\ isRoot(att, s)}]
  /\ ResyncStep /\ UNCHANGED <<att, lookups, chain, history, left>>

ReadOutcome(s) ==
  /\ Reading /\ queue = <<>> /\ sync.stage = "outcomes" /\ s \in sync.ended \ DOMAIN sync.outcomes
  /\ \/ sync' = [sync EXCEPT !.outcomes = (s :> outcome[s]) @@ @] /\ Answered
     \/ sync' = [sync EXCEPT !.outcomes = (s :> "none") @@ @] /\ Failed
  /\ ResyncStep /\ UNCHANGED <<att, lookups, chain>>

\* Only the difference from what was reported is said, and an event that spoke since the
\* reads wins: turns; the dialogs of turns that ended; those gone; those new.
Snapshot(a, order) ==
  LET r == sync
      endedRoots == r.ended \ r.touched
      turns == [a EXCEPT !.running = (@ \cap (r.active \cup r.touched)) \cup (r.active \ r.touched),
                         !.finishedBySync = @ \ (r.active \ r.touched)]
      gone == {d \in Range(a.dialogs) :
                 \/ \E s \in endedRoots : d \in Tree(a, s)
                 \/ LET s == askedBy[d] IN s \in DOMAIN r.pages /\ d \notin r.pages[s] /\ d \in r.before}
      left1 == Without(turns, gone)
      cleared == IF gone # {} /\ left1.dialogs = <<>> THEN clearPrompt(left1) ELSE left1
      finished == {s \in endedRoots : r.outcomes[s] = "finished"}
      told == FoldLeft(Finish, [cleared EXCEPT !.finishedBySync = @ \cup finished], SetToSeq(finished))
      raised == FoldLeft(raise, told, order)
  IN reportWorking(IF order = <<>> /\ (finished # {} \/ raised.live \notin Range(raised.dialogs))
                   THEN restateNewest(raised) ELSE raised)

FreshDialogs ==
  LET listed == UNION {sync.pages[s] : s \in DOMAIN sync.pages}
      closedWith(d) == Lineage(att, askedBy[d]) \cap (sync.endedSeen \cup (sync.ended \ sync.touched))
  IN {d \in listed \ (Range(att.dialogs) \cup sync.settled) : closedWith(d) = {}}

applySnapshot ==
  /\ ~stopped /\ sync.stage = "outcomes" /\ sync.ended = DOMAIN sync.outcomes
  /\ Runnable => sync.ended = {}
  /\ \E order \in SetToSeqs(FreshDialogs) : att' = Snapshot(att, order)
  /\ sync' = Idle
  /\ ResyncStep /\ UNCHANGED <<lookups, chain, history, left>>

stop ==
  /\ ~stopped /\ Spend("stops")
  /\ stopped' = TRUE
  /\ held' = [s \in Sessions |-> <<>>] /\ sync' = Idle
  /\ UNCHANGED <<service, wire, toTell, att, families, history>>

-----------------------------------------------------------------------------
World == \/ \E s \in Sessions : StartTurn(s)
         \/ \E s \in Sessions, how \in {"finished", "interrupted", "evicted"} : EndTurn(s, how)
         \/ \E s \in Sessions, d \in Dialogs : Ask(s, d)
         \/ \E d \in Dialogs : Reply(d)
         \/ \E v \in Sessions \cup {Home} : Navigate(v)
         \/ Drop

Resync == \/ ReadActive \/ ActiveArrived \/ AskDialogs
          \/ (\E s \in Sessions : ReadDialogs(s)) \/ DialogsArrived
          \/ (\E s \in Sessions : ReadOutcome(s)) \/ applySnapshot

Attend == \/ Deliver \/ handle \/ Resync
          \/ \E s \in Sessions : LookupAnswered(s) \/ LearnAnswered(s) \/ releaseWhenKnown(s)

Next == (~stopped /\ World) \/ Reconnect \/ Attend \/ stop

Spec == Init /\ [][Next]_vars

-----------------------------------------------------------------------------
(* Properties *)

TypeOK ==
  /\ active \subseteq created /\ created \subseteq Sessions
  /\ open \subseteq {d \in Dialogs : askedBy[d] \in active}
  /\ Range(att.dialogs) \subseteq {d \in Dialogs : askedBy[d] # None} /\ IsInjective(att.dialogs)
  /\ att.shown \cup att.running \subseteq Sessions /\ att.finishedBySync \subseteq att.shown
  /\ lookups \subseteq {s \in Sessions : s \in adopting \/ \E t \in Sessions : chain[t] = s}
  /\ \A s \in Sessions : held[s] # <<>> => chain[s] # None \/ s \in Releasable
  /\ sync.stage \in {"idle", "active", "families", "dialogs", "outcomes"}

\* While a dialog is known to be open, the last thing said of the contact is one of those
\* that are: a finish, or an answer to another, never leaves it looking idle (turnEnded,
\* close, restateNewest, applySnapshot).
BlockedIsSaid ==
  /\ TypeOK
  /\ IF att.dialogs = <<>> THEN att.said \in {None, Cleared, Waiting} /\ att.live = None
     ELSE att.live \in Range(att.dialogs) /\ att.said = att.live

\* Events, snapshots read meanwhile and reconnects say each thing once: no dialog chimes
\* twice, so none that was settled comes back, and no session finishes more often than its
\* turns did (noteDuringSync, applySnapshot, finishedBySync).
SaidOnce ==
  /\ \A d \in Dialogs : att.chimes[d] <= 1
  /\ \A s \in Sessions : att.finishes[s] <= ends[s]

\* Whenever no lookup is pending, home and the adopted session are those of the last
\* route told (adoptIfRoot, leaveHome).
AdoptionFollows ==
  LET s == att.lastShown IN
  IF s = None THEN att.shown # {Own} => att.home
  ELSE stopped \/ s \in adopting \/ (~att.home /\ (isRoot(att, s) => att.lastAdopted = s))

Family(s) == {s} \cup (IF ParentOf[s] = Root THEN {} ELSE {ParentOf[s]})
Ours(s) == Family(s) \cap att.shown # {}

\* Nothing is on its way: no event, route, request or continuation.
CaughtUp ==
  /\ ~stopped /\ connected /\ queue = <<>> /\ toTell = None
  /\ lookups = {} /\ learning = {} /\ sync = Idle
  /\ \A s \in Sessions : held[s] = <<>>

DialogsKnown == Range(att.dialogs) = {d \in open : Ours(askedBy[d])}

\* Once it has caught up, the contact knows exactly the dialogs that are open in what its
\* terminal has shown, whatever was asked and answered while the stream was away and while
\* the snapshot was read (applySnapshot) -- unless a request failed, or events of the stream
\* that broke were still held when the latest re-sync began: the next one puts that right.
DialogsTrue == CaughtUp /\ ~misread /\ ~crossed => DialogsKnown

\* And a turn of a shown root that it saw running and that finished has been said to be
\* finished, whether its end was heard or only read (turnEnded, applySnapshot); with the
\* same two exceptions.
FinishSaid ==
  CaughtUp /\ ~misread /\ ~crossed => \A s \in Sessions : owed[s] = None \/ att.finishes[s] >= owed[s]

\* The same of the dialogs without the second exception: "a held event is newer than any
\* snapshot in flight" (onEvent), so what it says may be applied after the snapshot.
HeldAreNewer == CaughtUp /\ ~misread => DialogsKnown

\* And it works exactly while something of it runs and nothing of it waits for the builder
\* (reportWorking, SyncNotes: "their run state is the event's").
WorkingTrue ==
  CaughtUp /\ ~misread =>
    att.working = ((\E s \in active : Ours(s)) /\ ~\E d \in open : Ours(askedBy[d]))
=============================================================================
