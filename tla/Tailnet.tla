------------------------------- MODULE Tailnet -------------------------------
(***************************************************************************)
(* Whether a phone can reach this Mac (main/remote/tailscale.ts): what the   *)
(* tailscale command says is read in two runs, kept by a cache that asks     *)
(* again every 30 s, and shown by the Phone section, whose button sets up    *)
(* HTTPS by the one command that changes anything.  Runs end late, fail, and *)
(* are dropped when the link was turned off meanwhile.                       *)
(*                                                                           *)
(* Tailscale itself is not of this repository: a status, and what port 443   *)
(* serves, in the background and for a command in the foreground; the        *)
(* builder and other programs change both at any time.                       *)
(***************************************************************************)
EXTENDS Naturals, Sequences, FiniteSets

CONSTANTS Served,    \* what else may be made of port 443: [bg, fg]
          Budgets    \* [changes, polls, presses, toggles, remounts, fails]

VARIABLES tailnet,   \* [cli, state, name, certs, serve]
          changes,   \* how often it has changed
          cache,     \* ChecksCache: [port: listening, value, generation, running, settingUp, recent]
          runs,      \* of the checker: id -> [setup, generation, at, name, since, asked, ok]
          section,   \* PhoneSection: [enabled, checks, confirm, error, about, asks]
          mail,      \* to it: pushes and replies
          seen,      \* the latest change a finished run of this listening began after: [since, at]
          lost,      \* the command replaced what it had seen there
          left
vars == <<tailnet, changes, cache, runs, section, mail, seen, lost, left>>

Spend(what) == left[what] > 0 /\ left' = [left EXCEPT ![what] = @ - 1]

Empty443 == [tcp |-> "none", name |-> 0, root |-> "none", beside |-> FALSE, funnel |-> FALSE]
Ours(name) == [tcp |-> "https", name |-> name, root |-> "ours", beside |-> FALSE, funnel |-> FALSE]
Unserved == [bg |-> Empty443, fg |-> Empty443]

Checks(tailscale, https, origin, sure) ==
  [tailscale |-> tailscale, https |-> https, origin |-> origin, sure |-> sure]
UNKNOWN_CHECKS == Checks("unknown", "unknown", 0, FALSE)
Offline == [enabled |-> FALSE, checks |-> UNKNOWN_CHECKS, confirm |-> FALSE,
            error |-> FALSE, about |-> UNKNOWN_CHECKS, asks |-> 0]

Init ==
  /\ tailnet \in [cli : BOOLEAN, state : {"Running", "Stopped"}, name : {1}, certs : BOOLEAN,
                  serve : {Unserved}]
  /\ changes = 0
  /\ cache = [port |-> FALSE, value |-> UNKNOWN_CHECKS, generation |-> 0, running |-> 0,
              settingUp |-> 0, recent |-> FALSE]
  /\ runs = <<>> /\ section = Offline /\ mail = <<>>
  /\ seen = [since |-> 0, at |-> 0] /\ lost = FALSE
  /\ left \in Budgets

-----------------------------------------------------------------------------
(* Reading what the command reports *)

\* What both configurations have mounted under this machine's name, the background's first,
\* and whether either serves another name.
First(a, b, none) == IF a # none THEN a ELSE b
RootOf(config, name) == IF config.name = name THEN config.root ELSE "none"
httpsCheck(serve, name) ==
  LET both == {serve.bg, serve.fg}
      tcp == First(serve.bg.tcp, serve.fg.tcp, "none")
      root == First(RootOf(serve.bg, name), RootOf(serve.fg, name), "none")
      beside == \E c \in both : c.beside /\ c.name = name
      otherHosts == \E c \in both : c.name \notin {0, name}
      funnel == \E c \in both : c.funnel /\ c.name = name
  IN IF tcp = "https" /\ root = "ours"
     THEN IF beside \/ funnel THEN "serve-conflict" ELSE "ready"
     ELSE IF tcp = "none" /\ root = "none" /\ ~beside /\ ~otherHosts
     THEN "serve-missing"
     ELSE "serve-conflict"

\* The checks of a status alone; those that need no look at port 443.
tailscaleCheck(status) ==
  CASE ~status.cli -> Checks("missing", "unknown", 0, TRUE)
    [] status.cli /\ status.state = "Running" ->
         Checks("running", IF status.certs THEN "unknown" ELSE "certs-off", 0, TRUE)
    [] status.cli /\ status.state \in {"Stopped", "Quit"} -> Checks("stopped", "unknown", 0, TRUE)
    [] OTHER -> Checks("unknown", "unknown", 0, TRUE)
Reaches443(status) == status.cli /\ status.state = "Running" /\ status.certs
WithHttps(serve, name) ==
  LET https == httpsCheck(serve, name)
  IN Checks("running", https, IF https = "ready" THEN name ELSE 0, TRUE)

Truth ==
  IF Reaches443(tailnet) THEN WithHttps(tailnet.serve, tailnet.name) ELSE tailscaleCheck(tailnet)

-----------------------------------------------------------------------------
(* The cache *)

Shown(checks) == [checks EXCEPT !.sure = TRUE]
Push(c) == [kind |-> "push", run |-> 0, enabled |-> c.port, checks |-> c.value, error |-> FALSE]
Reply(r, c, error) == [Push(c) EXCEPT !.kind = "reply", !.run = r, !.error = error]

\* Dropped when it is from before an unwatch or a setup; told when it differs.
store(c, generation, checks) ==
  IF generation = c.generation THEN [c EXCEPT !.value = checks] ELSE c
Told(c, d) == IF Shown(c.value) # Shown(d.value) THEN <<Push(d)>> ELSE <<>>

Run(setup, generation) ==
  [setup |-> setup, generation |-> generation, at |-> "status", name |-> 0,
   since |-> changes, asked |-> "before", ok |-> TRUE]

\* One check at a time, at most every 5 s unless forced, and none beside a setup.
refresh(c, force) ==
  IF ~c.port \/ c.settingUp # 0 \/ c.running # 0 \/ (~force /\ c.recent)
  THEN cache' = c /\ UNCHANGED runs
  ELSE /\ cache' = [c EXCEPT !.running = Len(runs) + 1, !.recent = TRUE]
       /\ runs' = Append(runs, Run(FALSE, c.generation))

unwatch(c) ==
  [c EXCEPT !.port = FALSE, !.running = 0, !.settingUp = 0, !.value = UNKNOWN_CHECKS,
            !.generation = @ + 1]

watch(c) == refresh([unwatch(c) EXCEPT !.port = TRUE], TRUE)

poll ==
  /\ cache.port /\ Spend("polls")
  /\ refresh(cache, TRUE)
  /\ UNCHANGED <<tailnet, changes, section, mail, seen, lost>>

\* Five seconds pass.
Ages ==
  /\ cache.recent
  /\ cache' = [cache EXCEPT !.recent = FALSE]
  /\ UNCHANGED <<tailnet, changes, runs, section, mail, seen, lost, left>>

(* Slip: a check that runs already is let finish. *)
KeepsItsChecks(c) ==
  IF c.settingUp # 0 THEN cache' = c /\ UNCHANGED runs
  ELSE /\ cache' = [c EXCEPT !.settingUp = Len(runs) + 1]
       /\ runs' = Append(runs, Run(TRUE, c.generation))

\* A second press while it runs gets the same result.
setUpHttps(c) ==
  IF c.settingUp # 0 THEN cache' = c /\ UNCHANGED runs
  ELSE /\ cache' = [c EXCEPT !.settingUp = Len(runs) + 1, !.generation = @ + 1, !.running = 0]
       /\ runs' = Append(runs, Run(TRUE, c.generation + 1))

-----------------------------------------------------------------------------
(* The checker: a run of the command at a time *)

At(r, at) == runs' = [runs EXCEPT ![r].at = at]

Sees(r) ==
  seen' = IF runs[r].generation >= seen.since /\ runs[r].since > seen.at
          THEN [seen EXCEPT !.at = runs[r].since] ELSE seen

\* The end of a check: stored, and its asker answered.
EndCheck(r, checks) ==
  LET stored == store(cache, runs[r].generation, checks)
      c == [stored EXCEPT !.running = IF @ = r THEN 0 ELSE @]
  IN /\ cache' = c
     /\ mail' = mail \o Told(cache, c) \o <<Reply(r, c, FALSE)>>
     /\ At(r, "done")
     /\ Sees(r)

\* The end of a setup: an error when the command did not run or did not work.
EndSetup(r, checks, error) ==
  LET stored == store(cache, runs[r].generation, checks)
      kept == runs[r].generation = cache.generation
      c == [stored EXCEPT !.settingUp = IF @ = r THEN 0 ELSE @, !.recent = @ \/ kept]
  IN /\ cache' = c
     /\ mail' = mail \o Told(cache, c) \o <<Reply(r, c, error)>>
     /\ At(r, "done")
     /\ Sees(r)

\* What a look found: for a setup's first look, whether to run the command.
Found(r, checks) ==
  IF ~runs[r].setup THEN EndCheck(r, checks)
  ELSE IF runs[r].asked = "after" THEN EndSetup(r, checks, ~runs[r].ok)
  ELSE IF checks.https = "ready" THEN EndSetup(r, checks, FALSE)
  ELSE IF checks.https # "serve-missing" THEN EndSetup(r, checks, TRUE)
  ELSE At(r, "command") /\ UNCHANGED <<cache, mail, seen>>

Fails == Checks("unknown", "unknown", 0, FALSE)

inspectStatus(r) ==
  /\ runs[r].at = "status"
  /\ \/ /\ IF Reaches443(tailnet)
           THEN /\ runs' = [runs EXCEPT ![r].at = "serve", ![r].name = tailnet.name]
                /\ UNCHANGED <<cache, mail, seen>>
           ELSE Found(r, tailscaleCheck(tailnet))
        /\ UNCHANGED left
     \/ tailnet.cli /\ Spend("fails") /\ Found(r, Fails)
  /\ UNCHANGED <<tailnet, changes, section, lost>>

inspectServe(r) ==
  /\ runs[r].at = "serve"
  /\ \/ Found(r, WithHttps(tailnet.serve, runs[r].name)) /\ UNCHANGED left
     \/ Spend("fails") /\ Found(r, [Fails EXCEPT !.tailscale = "running"])
  /\ UNCHANGED <<tailnet, changes, section, lost>>

\* tailscale serve: whatever is mounted at / is replaced, unless TCP is forwarded; it may
\* fail, or be killed when its time is up.
serveCommand(r) ==
  /\ runs[r].at = "command"
  /\ LET serve == tailnet.serve
         works == serve.bg.tcp # "forward" /\ tailnet.cli /\ tailnet.state = "Running"
     IN \/ /\ works
           /\ tailnet' = [tailnet EXCEPT !.serve.bg = Ours(tailnet.name)]
           /\ changes' = changes + 1
           /\ lost' = (lost \/ (runs[r].since = changes /\ serve # Unserved))
           /\ runs' = [runs EXCEPT ![r].at = "status", ![r].asked = "after", ![r].since = changes + 1]
           /\ UNCHANGED left
        \/ /\ IF works THEN Spend("fails") ELSE UNCHANGED left
           /\ runs' = [runs EXCEPT ![r].at = "status", ![r].asked = "after", ![r].ok = FALSE,
                                   ![r].since = changes]
           /\ UNCHANGED <<tailnet, changes, lost>>
  /\ UNCHANGED <<cache, section, mail, seen>>

-----------------------------------------------------------------------------
(* The Phone section *)

Unasked == section.asks = 0 /\ mail = <<>>

\* On: the reply waits for the first check.  Off: the checks go, and it is said.
setRemoteEnabled ==
  /\ Unasked /\ section.enabled = cache.port /\ Spend("toggles")
  /\ IF cache.port
     THEN /\ cache' = unwatch(cache)
          /\ mail' = <<Push(cache')>>
          /\ section' = [section EXCEPT !.error = FALSE, !.confirm = FALSE]
          /\ UNCHANGED runs
     ELSE /\ watch(cache)
          /\ section' = [section EXCEPT !.error = FALSE, !.confirm = FALSE, !.asks = Len(runs')]
          /\ UNCHANGED mail
  /\ seen' = [since |-> cache'.generation, at |-> 0]
  /\ UNCHANGED <<tailnet, changes, lost>>

\* Set up HTTPS, and Run it.
confirmServe ==
  /\ Unasked /\ section.enabled /\ section.checks.https = "serve-missing" /\ ~section.confirm
  /\ section' = [section EXCEPT !.confirm = TRUE]
  /\ UNCHANGED <<tailnet, changes, cache, runs, mail, seen, lost, left>>

runServe ==
  /\ Unasked /\ section.enabled /\ section.confirm /\ section.checks.https = "serve-missing"
  /\ cache.port /\ Spend("presses")
  /\ setUpHttps(cache)
  /\ section' = [section EXCEPT !.error = FALSE, !.asks = cache'.settingUp]
  /\ UNCHANGED <<tailnet, changes, mail, seen, lost>>

\* Check again: the status as it is now, a refresh behind it.
requestStatus ==
  /\ mail = <<>> /\ Spend("polls")
  /\ refresh(cache, FALSE)
  /\ mail' = <<[Push(cache) EXCEPT !.kind = "status"]>>
  /\ UNCHANGED <<tailnet, changes, section, seen, lost>>

\* The section leaves and comes back: what it waited for is answered to nobody.
remount ==
  /\ Spend("remounts")
  /\ refresh(cache, FALSE)
  /\ section' = Offline
  /\ mail' = <<[Push(cache) EXCEPT !.kind = "status"]>>
  /\ UNCHANGED <<tailnet, changes, seen, lost>>

\* A push that changes the checks drops the last action's error, a reply to nobody is lost.
show(s, message) ==
  LET shown == [s EXCEPT !.enabled = message.enabled, !.checks = message.checks]
  IN CASE message.kind = "push" /\ Shown(message.checks) # Shown(s.checks) ->
            [shown EXCEPT !.error = FALSE]
       [] message.kind = "reply" /\ message.run = s.asks ->
            [shown EXCEPT !.asks = 0, !.error = message.error, !.about = message.checks,
                          !.confirm = FALSE]
       [] message.kind = "reply" /\ message.run # s.asks -> s
       [] OTHER -> shown

Receives ==
  /\ mail # <<>>
  /\ section' = show(section, Head(mail))
  /\ mail' = Tail(mail)
  /\ UNCHANGED <<tailnet, changes, cache, runs, seen, lost, left>>

-----------------------------------------------------------------------------

\* The builder, the tailnet's console, and other programs.
Changes ==
  /\ Spend("changes")
  /\ changes' = changes + 1
  /\ tailnet' \in [cli : {TRUE}, state : {"Running", "Quit", "Starting"}, name : {1, 2},
                   certs : {TRUE}, serve : Served \cup {tailnet.serve, Unserved}]
  /\ Cardinality({f \in DOMAIN tailnet : tailnet'[f] # tailnet[f]}) = 1
  /\ UNCHANGED <<cache, runs, section, mail, seen, lost>>

Next ==
  \/ \E r \in DOMAIN runs : inspectStatus(r) \/ inspectServe(r) \/ serveCommand(r)
  \/ poll \/ Ages \/ setRemoteEnabled \/ confirmServe \/ runServe \/ requestStatus \/ remount
  \/ Receives \/ Changes

Spec == Init /\ [][Next]_vars
-----------------------------------------------------------------------------

\* With no run under way, the checks are what Tailscale says, unless it has changed since the
\* last look began or the command would not answer (ChecksCache's generation, store).
ChecksTrue ==
  LET quiet == cache.running = 0 /\ cache.settingUp = 0
  IN cache.port /\ quiet /\ cache.value.sure /\ seen.at = changes => cache.value = Truth

\* The section says what the cache has, and an error only beside the checks it was about.
SectionTrue ==
  mail = <<>> /\ section.asks = 0 =>
    /\ section.enabled = cache.port
    /\ Shown(section.checks) = Shown(cache.value)
    /\ section.error => Shown(section.about) = Shown(section.checks)

\* The Phone section's checks are true, and setting up HTTPS replaces nothing it has seen on
\* port 443 (httpsCheck's serve-missing, setUpHttps).
TailnetHolds == ChecksTrue /\ SectionTrue /\ ~lost
=============================================================================
