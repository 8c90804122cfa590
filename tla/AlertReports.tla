----------------------------- MODULE AlertReports -----------------------------
(***************************************************************************)
(* How a session's process reports to Multi-Code (main/alert-server,         *)
(* backends/opencodePlugin.ts): each launch of the app mints a token and a    *)
(* port, writes the files its sessions start with, and takes what comes with  *)
(* that token from the process a contact runs now.  A Claude hook is a curl   *)
(* that reads its file when it runs; OpenCode's plugin reads it once, and     *)
(* sends the terminal's route until it is taken.                              *)
(*                                                                         *)
(* One contact of each backend.  A second Multi-Code may share the files.    *)
(***************************************************************************)
EXTENDS Naturals, Sequences, SequencesExt

CONSTANTS Routes,      \* what an OpenCode terminal can show; it starts at Home
          Home, Unsaid,
          MAX_QUEUED,
          Budgets      \* [launches, fails, spawns, moves, events, reloads, rivals, lost, late]

VARIABLES launches,    \* how many Multi-Codes have listened: each one's port and token
          app,         \* [up, server, settings, plugin, alone]
          rival,       \* the other Multi-Code's, 0 for none
          files,       \* file -> whose it is, 0 when it is not there
          spawns,      \* every process started: [contact, hooked]
          current,     \* instances: contact -> the process it runs, 0 for none
          hooks,       \* hook commands still to run: sequence of their processes
          tui,         \* the OpenCode process: [route, generation, target, disposed, last, timers]
          queue,       \* its plugin's posts, the first under way
          wire,        \* requests to a port: [to, spawn, route, waits]
          told,        \* the route the contact's attention was told
          stale,       \* something of a process long replaced was taken
          left
vars == <<launches, app, rival, files, spawns, current, hooks, tui, queue, wire, told, stale, left>>

Spend(what) == left[what] > 0 /\ left' = [left EXCEPT ![what] = @ - 1]

Contacts == {"claude", "opencode"}
Files == {"curl", "settings", "target", "plugin"}
Down == [up |-> FALSE, server |-> 0, settings |-> FALSE, plugin |-> FALSE, alone |-> FALSE]
Nobody == [c \in Contacts |-> 0]
Terminal == [route |-> Home, generation |-> 0, target |-> 0, disposed |-> FALSE, last |-> Unsaid,
             timers |-> <<>>]

Init ==
  /\ launches = 0 /\ app = Down /\ rival = 0 /\ files = [f \in Files |-> 0]
  /\ spawns = <<>> /\ current = Nobody /\ hooks = <<>>
  /\ tui = Terminal /\ queue = <<>> /\ wire = <<>> /\ told = Unsaid /\ stale = FALSE
  /\ left \in Budgets

-----------------------------------------------------------------------------
(* The server and its files *)

\* A pair's second file is written only after its first; one that cannot be written is left
\* as it was, or gone.
FirstOf == [settings |-> "curl", plugin |-> "target", curl |-> "curl", target |-> "target"]
IsWritten(f, broken) == broken \notin {f, FirstOf[f]}
writePrivateFiles(server, broken, remains) ==
  [f \in Files |-> IF IsWritten(f, broken) THEN server
                   ELSE IF f = broken THEN remains ELSE files[f]]

\* A server that cannot listen writes nothing, and sessions start without hooks.
startAlertServer ==
  /\ ~app.up /\ Spend("launches")
  /\ launches' = launches + 1
  /\ \E broken \in Files \cup {"none"}, remains \in {0} \cup {files[f] : f \in Files} :
       /\ broken = "none" => remains = 0
       /\ broken # "none" => left.fails > 0 /\ remains \in {0, files[broken]}
       /\ files' = writePrivateFiles(launches', broken, remains)
       /\ app' = [up |-> TRUE, server |-> launches', settings |-> IsWritten("settings", broken),
                  plugin |-> IsWritten("plugin", broken), alone |-> rival = 0]
  /\ current' = Nobody
  /\ UNCHANGED <<rival, spawns, hooks, tui, queue, wire, told, stale>>

cannotListen ==
  /\ ~app.up /\ Spend("fails")
  /\ app' = [Down EXCEPT !.up = TRUE]
  /\ current' = Nobody
  /\ UNCHANGED <<launches, rival, files, spawns, hooks, tui, queue, wire, told, stale>>

\* The app ends, its terminals with it: by a crash, or by a quit that has time to remove the
\* files or has not.
Ends ==
  /\ app.up
  /\ app' = Down
  /\ files' \in {files, [f \in Files |-> 0]}
  /\ current' = Nobody /\ tui' = Terminal /\ queue' = <<>>
  /\ UNCHANGED <<launches, rival, spawns, hooks, wire, told, stale, left>>

\* Another one that shares the files starts, and quits.
RivalStarts ==
  /\ rival = 0 /\ Spend("rivals")
  /\ launches' = launches + 1 /\ rival' = launches'
  /\ files' = [f \in Files |-> launches']
  /\ app' = [app EXCEPT !.alone = FALSE]
  /\ UNCHANGED <<spawns, current, hooks, tui, queue, wire, told, stale>>

RivalQuits ==
  /\ rival # 0
  /\ rival' = 0
  /\ files' = [f \in Files |-> 0]
  /\ app' = [app EXCEPT !.alone = FALSE]
  /\ UNCHANGED <<launches, spawns, current, hooks, tui, queue, wire, told, stale, left>>

-----------------------------------------------------------------------------
(* The processes *)

\* A start or a restart: the process before, if any, is killed.
spawn(c) ==
  /\ app.up /\ Spend("spawns")
  /\ spawns' = Append(spawns, [contact |-> c, hooked |-> IF c = "claude" THEN app.settings ELSE app.plugin])
  /\ current' = [current EXCEPT ![c] = Len(spawns')]
  /\ IF c = "opencode" THEN tui' = Terminal /\ queue' = <<>> /\ told' = Unsaid
     ELSE UNCHANGED <<tui, queue, told>>
  /\ UNCHANGED <<launches, app, rival, files, hooks, wire, stale>>

exits(c) ==
  /\ current[c] # 0
  /\ current' = [current EXCEPT ![c] = 0]
  /\ IF c = "opencode" THEN tui' = Terminal /\ queue' = <<>> ELSE UNCHANGED <<tui, queue>>
  /\ UNCHANGED <<launches, app, rival, files, spawns, hooks, wire, told, stale, left>>

Request(p, to, route) == [to |-> to, spawn |-> p, route |-> route, waits |-> TRUE]

\* Something happens in Claude: its hook's command is started, and runs on without it.
hookEvent ==
  /\ current["claude"] # 0 /\ spawns[current["claude"]].hooked /\ Spend("events")
  /\ hooks' = Append(hooks, current["claude"])
  /\ UNCHANGED <<launches, app, rival, files, spawns, current, tui, queue, wire, told, stale>>

curl ==
  /\ hooks # <<>>
  /\ hooks' = Tail(hooks)
  /\ wire' = IF files["curl"] = 0 THEN wire
             ELSE Append(wire, Request(Head(hooks), files["curl"], Unsaid))
  /\ UNCHANGED <<launches, app, rival, files, spawns, current, tui, queue, told, stale, left>>

-----------------------------------------------------------------------------
(* OpenCode's plugin.  Only the newest setup speaks: what an older one posts counts as done, *)
(* so an older one whose effect lives on is not modelled.                                    *)

HasPlugin == current["opencode"] # 0 /\ spawns[current["opencode"]].hooked

\* Queued, or refused at once when too much waits; a refused route is tried again later.
Post(t, route) == [generation |-> t.generation, to |-> t.target, route |-> route]
PostRoute(t, posts) ==
  IF Len(posts) < MAX_QUEUED
  THEN tui' = t /\ queue' = Append(posts, Post(t, t.last))
  ELSE tui' = [t EXCEPT !.timers = Append(@, t.last)] /\ queue' = posts

\* OpenCode loads it, or its file changed and it is loaded again.  Without a target it stays
\* quiet, and the copy before is disposed of all the same.
setup ==
  /\ HasPlugin
  /\ IF tui.generation = 0 /\ ~tui.disposed THEN UNCHANGED left ELSE Spend("reloads")
  /\ IF files["target"] = 0
     THEN tui' = [tui EXCEPT !.disposed = TRUE, !.timers = <<>>] /\ UNCHANGED queue
     ELSE LET t == [tui EXCEPT !.generation = @ + 1, !.target = files["target"],
                               !.disposed = FALSE, !.last = tui.route, !.timers = <<>>]
          IN PostRoute(t, IF Len(queue) < MAX_QUEUED THEN Append(queue, Post(t, Unsaid)) ELSE queue)
  /\ UNCHANGED <<launches, app, rival, files, spawns, current, hooks, wire, told, stale>>

\* The terminal shows something else: said, in place of what was to be said again.
report ==
  /\ current["opencode"] # 0 /\ Spend("moves")
  /\ \E route \in Routes \ {tui.route} :
       LET shown == [tui EXCEPT !.route = route]
           t == [shown EXCEPT !.last = route,
                              !.timers = IF @ = <<>> THEN @ ELSE Front(@)]
       IN IF HasPlugin /\ tui.generation > 0 /\ ~tui.disposed THEN PostRoute(t, queue)
          ELSE tui' = shown /\ UNCHANGED queue
  /\ UNCHANGED <<launches, app, rival, files, spawns, current, hooks, wire, told, stale>>

\* A wait is over: sent again when it is still what is shown.
retry(i) ==
  LET t == [tui EXCEPT !.timers = RemoveAt(@, i)]
  IN IF tui.timers[i] = tui.last THEN PostRoute(t, queue) ELSE tui' = t /\ UNCHANGED queue

Retry ==
  /\ \E i \in DOMAIN tui.timers : retry(i)
  /\ UNCHANGED <<launches, app, rival, files, spawns, current, hooks, wire, told, stale, left>>

\* One post at a time.
Underway == \E i \in DOMAIN wire : wire[i].spawn = current["opencode"] /\ wire[i].waits
fetch ==
  /\ queue # <<>> /\ ~Underway
  /\ wire' = Append(wire, Request(current["opencode"], Head(queue).to, Head(queue).route))
  /\ UNCHANGED <<launches, app, rival, files, spawns, current, hooks, tui, queue, told, stale, left>>

\* How a request of the plugin ended: a route that was not taken is armed to be sent again,
\* as long as it is what is shown.
Ended(request, ok) ==
  IF request.waits /\ request.spawn = current["opencode"]
  THEN /\ queue' = Tail(queue)
       /\ tui' = IF ~ok /\ request.route # Unsaid /\ Head(queue).generation = tui.generation
                    /\ ~tui.disposed /\ tui.last = request.route
                 THEN [tui EXCEPT !.timers = Append(@, request.route)] ELSE tui
  ELSE UNCHANGED <<queue, tui>>

-----------------------------------------------------------------------------
(* A request arrives, is lost, or is given up and arrives all the same *)

InTurn(i) == ~\E j \in 1..(i - 1) : wire[j].spawn = wire[i].spawn

\* Taken by the instance whose process sent it, when the token is this launch's.
handleAlertDelivery(request) ==
  LET c == spawns[request.spawn].contact
  IN IF request.to = app.server /\ current[c] = request.spawn
     THEN /\ told' = IF request.route # Unsaid THEN request.route ELSE told
          /\ stale' = (stale \/ \E p \in DOMAIN spawns : p > request.spawn /\ spawns[p].contact = c)
     ELSE UNCHANGED <<told, stale>>

handleAlert(i) ==
  /\ InTurn(i)
  /\ wire' = RemoveAt(wire, i)
  /\ handleAlertDelivery(wire[i])
  /\ Ended(wire[i], wire[i].to \in {app.server, rival})
  /\ UNCHANGED <<launches, app, rival, files, spawns, current, hooks, left>>

Lost(i) ==
  /\ InTurn(i) /\ Spend("lost")
  /\ wire' = RemoveAt(wire, i)
  /\ Ended(wire[i], FALSE)
  /\ UNCHANGED <<launches, app, rival, files, spawns, current, hooks, told, stale>>

GivenUp(i) ==
  /\ wire[i].waits /\ wire[i].spawn = current["opencode"] /\ Spend("late")
  /\ wire' = [wire EXCEPT ![i].waits = FALSE]
  /\ Ended(wire[i], FALSE)
  /\ UNCHANGED <<launches, app, rival, files, spawns, current, hooks, told, stale>>

-----------------------------------------------------------------------------

Next ==
  \/ startAlertServer \/ cannotListen \/ Ends \/ RivalStarts \/ RivalQuits
  \/ \E c \in Contacts : spawn(c) \/ exits(c)
  \/ hookEvent \/ curl \/ setup \/ report \/ Retry \/ fetch
  \/ \E i \in DOMAIN wire : handleAlert(i) \/ Lost(i) \/ GivenUp(i)

Spec == Init /\ [][Next]_vars
-----------------------------------------------------------------------------

\* With nothing left to send, the contact was told what its terminal shows (the plugin's
\* report and its retries).
RouteKnown ==
  LET quiet == queue = <<>> /\ tui.timers = <<>>
               /\ ~\E i \in DOMAIN wire : wire[i].spawn = current["opencode"]
  IN app.up /\ HasPlugin /\ tui.generation > 0 /\ ~tui.disposed /\ tui.target = app.server /\ quiet
     => told = tui.route

\* What a session is started with finds this launch's server, whatever a crash left there
\* (writePrivateFile), unless another Multi-Code shares the files.
HooksReach ==
  app.alone => /\ app.settings => files["settings"] = app.server /\ files["curl"] = app.server
               /\ app.plugin => files["plugin"] = app.server /\ files["target"] = app.server

\* And nothing a replaced process sends is taken for its successor's (SPAWN_ENV), though its
\* hooks read this launch's token.
ReportsHold == RouteKnown /\ HooksReach /\ ~stale
=============================================================================
