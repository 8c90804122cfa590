# Multi-Code: formal verification

Multi-Code is an Electron app that runs many coding agents side by side: each
*contact* is a directory with a Claude Code or OpenCode CLI in a pseudo-terminal.
The app knows which conversation each contact works in, when an agent has finished
or needs an answer, prepares spoken briefs about it, and lets a paired phone follow
and steer everything. This directory holds TLA+ models of that program, the TLC
configurations that check them, and TLAPS proofs about them.

Sources are under `src/workspace/app/src/`; paths below are relative to it.

## The system

| Component | State | Operations | Talks to |
| --- | --- | --- | --- |
| ProcessManager (`main/process-manager.ts`, `main/store.ts`) | the `instances` map (process, `sessionId`, `ownSessionId`, pending secretary event, run state), `contacts.json` | create, duplicate, start, restart, remove, attach a session, poll for moves, answer a dialog, interrupt, send a prompt | backends, renderer (IPC), RemoteHost, Secretary |
| Backends (`main/backends/claude.ts`, `opencode.ts`, `opencodeDb.ts`) | none of their own; they read `~/.claude` and OpenCode's database | arguments of a spawn, discovery, latest session, live session, transcripts, usage | ProcessManager |
| Alert server (`main/alert-server/`, `main/backends/opencodePlugin.ts`) | port, token, the files sessions start with; in a terminal: the last route, its retry | start, quit, take a delivery, write the files; report a route, retry | CLIs' hooks and plugin (HTTP), ProcessManager |
| Claude attention (`main/backends/claudeHooks.ts`) | pending finish, held subagents, outstanding dialog, health | handle a hook, recheck the registry, health check | alert server, ProcessManager (callbacks) |
| OpenCode attention (`main/backends/opencodeAttention.ts`, `opencodeService.ts`) | owned sessions, families, open dialogs, one event stream | handle a plugin report or stream event, resync, reconnect | OpenCode's service, ProcessManager |
| Secretary (`main/secretary/`, `shared/secretaryQueue.ts`) | one job per contact (brief, audio, replies), read marks | prepare, reply, see, drop, switch the mode | ProcessManager events, speech server, desk and phone |
| Remote server (`main/remote/ws-server.ts`, `remote-host.ts`, `device-store.ts`) | devices, connections, subscriptions, acks by client message id, audio keys | pair, revoke, authenticate, handle a frame, broadcast | phone, ProcessManager |
| Phone (`renderer-mobile/`) | outbox, cached sessions, the link, drafts, the player, cached files of the app | queue, send, resend, settle, answer, pair, relaunch | remote server |
| Push (`main/remote/push.ts`, `renderer-mobile/push.ts`) | each device's subscription | subscribe, push, expire | phone's service worker |
| Tailscale checks (`main/remote/tailscale.ts`) | the last checks, a generation | check, set up HTTPS, watch, unwatch | the `tailscale` command, the Phone section |
| Desk (`renderer/`) | badges, drops, diff window, compose box, terminals and shells, the bar, the New Instance sheet | what the builder does there | main process (IPC) |
| New projects and drops (`main/new-project.ts`, `main/file-drop.ts`) | one running clone; copies in progress | clone, cancel, copy | desk |
| Settings (`main/settings-store.ts`) | `settings.json`, the speech key's file | save, load, test | desk, phone's switch |
| Transcript readers, git, markdown, themes, layout | files and views | read, render | everything above |

What is hard here, and what correctness means for each part:

* **ProcessManager.** Everything it learns about a conversation is learned late, from
  files of other programs: two contacts of one directory decide from what is claimed
  *now*. Correct: no two contacts read or save one conversation; a crash at any point
  loses none; a contact follows its process when the user moves on.
* **Attention.** Reports come from asynchronous hooks, a registry polled at moments of
  its own, an event stream that drops and snapshots that race it; background subagents
  outlive turns, stops are blocked, failed, interrupted. Correct: finished is never said
  mid-turn and once per turn; every end is reported; a dialog stays reported while it
  blocks the builder, and a settled one never returns.
* **Reports.** The app restarts under running CLIs, and CLIs under a running app; two
  copies may share the files. Correct: what a terminal shows arrives in the end, and
  nothing is taken from a process the contact no longer runs.
* **Phone link.** Sockets die with frames and acks in them, iOS kills the app, the Mac
  restarts, the phone pairs again, the CLI's session is replaced. Correct: nothing is
  typed twice or out of order, what the phone shows is true, no message waits for ever,
  an answer is never sent into another moment.
* **Dialog answers and Stop.** Keys go in one at a time with waits between them, while
  the desk types, other phones and the secretary answer, the dialog changes and the
  process goes. Correct: a dialog gets one answer's keys, no key lands in another dialog
  or another turn, every answer ends, and the keys planned are those the dialog needs.
* **Secretary.** Work in flight is overtaken by newer events, the mode, the contact's
  removal. Correct: no stale brief is published over a newer one, nothing that widens
  what an agent may do is pressed unasked, and a phone hears what it tapped.
* **Devices and push.** A row exists before its phone does, saves fail, the browser
  forgets. Correct: a pairing goes only when asked to or unused; phone, memory and file
  agree on a subscription; each event is pushed once, with its own line.
* **The desk.** Every call to the main process answers late, while the builder has moved
  on. Correct: what was meant for one contact, file, drop or name is not done to another;
  nothing of anyone else's on disk is removed or replaced.

PROJECT.json lists the hazards at their lines with the properties about each.

## Modules

| Module | What it is |
| --- | --- |
| `SessionClaims` | ProcessManager's claims on conversations, the contacts file, the CLIs |
| `ContactBook` | the abstract specification `SessionClaims` implements |
| `SessionClaims_proofs`, `ClaudeHooks_proofs`, `PhoneLink_proofs` | TLAPS proofs about the modules they are named after |
| `Secretary_proofs` | TLAPS proofs about `DialogAnswer`, then about `Secretary` |
| `Parts_proofs` | TLAPS proofs about `FileDrop`, `EventPush`, `AppShell`, `Pairing` and `CloneRepo`, each with its own variables |
| `MCFair_proofs`, `MCParts_proofs` | TLAPS proofs about the compositions: of `ServiceStream` in `MCFair`, of the proved parts in `MCParts` |
| `ClaudeHooks` | `ClaudeHookAttention` and the CLI that sends the hooks |
| `OpencodeAttention` | one OpenCode contact's attention: stream, snapshots, route, family lookups |
| `ServiceStream` | the one connection to OpenCode's service |
| `AlertReports`, `TuiConfig` | how a session's process reports to Multi-Code, and the settings that make OpenCode's do so |
| `DialogAnswer` | one contact's event, run state and writers: the desk, phones' text and Stop, the answers to its dialogs |
| `Secretary` | EXTENDS `DialogAnswer`: briefs of that contact's events, replies, the answers they start |
| `AnswerKeys` | the keys `checkChoice` plans, against the CLI's dialogs |
| `SecretaryBar`, `BriefAudio` | what desk and phone show and play of the briefs; how a brief is made and reaches the phone's ear |
| `PhoneLink` | the phone's outbox, its sockets, the server's acks, the transcript |
| `PhoneSocket` | dialling, pings, backoff and the probe of `transport.ts` |
| `PhoneScreen`, `PhoneDialog` | the list, chat and terminal on the phone; its dialog and the answer made there |
| `Pairing`, `PhonePush`, `EventPush` | codes and devices; a subscription in four places; which push an event gives |
| `AppShell` | the phone's service worker and the app's files |
| `Tailnet` | Tailscale's checks and the setup of HTTPS |
| `UnreadBadges`, `DropFlow`, `DiffView`, `ReplyJump`, `ToolboxShells`, `NewInstance`, `SpeechSettings` | parts of the desk with their calls to the main process |
| `CloneRepo`, `FileDrop` | the main process's side of a clone and of a drop |
| `MCSessionClaims`, `MCClaims`, `MCSessionHistory`, `MCFair`, `MCPhoneLink`, `MCSecretary`, `MCOpencodeAttention`, `MCParts` | instances for TLC |

Compositions: `Secretary` EXTENDS `DialogAnswer` (events, writers and briefs of one
contact move together), `PhoneDialog` EXTENDS `AnswerKeys` (what a phone sends is held to
`checkChoice`), `SessionClaims` refines `ContactBook`; `ClaudeHooks`, `PhoneScreen`,
`PhonePush`, `DiffView` and the others each hold both sides of their own boundary, desk
or phone and main process, with the messages between.

Definitions marked "slip" or "a bug ... must not have" are plausible bugs of the
definition that follows them; no action uses them. Each was put in its place once to see
that the property named for it in PROJECT.json then fails.

### SessionClaims

One action is one synchronous handler of the main process, or one step of the world.
Contacts of one directory only: the code compares sessions and directories, and
contacts of other directories meet none of these. Both backends share the handlers;
`BackendOf` says which branch a contact takes.

* `createInstance`, `duplicateInstance`, `startInstance`, `restartInstance`,
  `removeInstance`, `loadSavedContacts`, `Crash` and `Exit` are the methods of
  those names (exit being the pty's `onExit`), each with the `persist()` it ends in.
* `Openings` is `sessionStartFor` together with each backend's arguments: the session
  a spawn names and the one its process then works in, which differ for
  `claude --continue` (`Pending`, until the CLI resolves it in `Continue`).
* `discoverSessionId` is the discovery poll, `syncLiveSessionId` the poll for moves
  (its own registry entry first, else the only entry of the directory),
  `onSessionShown` the OpenCode route; all end in `attachSession`.
* `Register`, `Turn`, `NewSession`, `PickSession`, `ExternalStart` are the CLIs and
  their users, modelled from what the code expects of them.

`restartInstance` is allowed while a process runs, which the user interface offers
only for a stopped contact: the method itself does not check. `PickSession` is the
user's `/resume` or `/sessions`, and lets two processes work in one conversation: that
is the user's choice, the claims still stay exclusive, and `NoSharedConversation` is
checked without it (`SpecUnpicked`).

### ClaudeHooks

Each case of `handle` is an action that takes the first delivery (hooks are accepted
asynchronously and arrive in order: measured, `alert-server/config.ts:151-154`); the
recheck timer is `check` (confirmed, given up or rescheduled), the hold and grace of
subagents are `pending`, and `healthCheck` notices hooks that never run. The CLI's
side -- turns, Stop hooks that block, API failures, compaction, subagents that end and
wake the agent, dialogs of either -- is what the code's comments record as measured. A
timer may fire at any moment after it is set, so no property rests on how long a delay
is, with one exception: a settled turn's registry status is assumed to land before a
check reads it (`EndLanded`, measured as 15 to 60 ms against 300), assumed for a failed
turn as for a stopped one. The case `PostToolUse` is left out: it is not among
`ALERT_HOOK_EVENTS`, so nothing delivers it. A registry that cannot be read counts
against nothing: one unreadable check is allowed (`misread`), and the properties about
finishes say what it voids.

### PhoneLink

One phone, one contact, which is open on the phone. `outbox.ts` is a set of pure
functions, here operators of the same names on the status of every frame; `store.ts`
and `state.ts` are the phone's actions; `acked` is `Resent` and `remember`. Frames keep
their order within a socket, and a frame on a socket the phone has dropped may still
arrive: the Mac learns later that the socket closed. `sendPrompt` refuses at the
model's choice (a stopped contact, an open dialog), `setPushSubscription` fails at it
(a full disk). `Show` lets messages reach the transcript in the order they were typed;
`NewSession` is `/new`.

Left out: the match of an entry's time with the message's, `DELIVERED_KEPT`, OpenCode's
slash commands, messages typed at the desk with the same text, pairing with another
Mac, revoking. The instance keeps as many acks as there are frames, so the eviction of
an ack is not exercised.

### DialogAnswer and Secretary

One contact, whose records follow each other over restarts; a record outlives its place
in `instances` until its process exits, and what was started on it goes on against it,
as the closures in the code do. `answerDialog` is cut at its `await`s: `settling` (a
dialog too young to take keys), `keys`, `follow` (a denial's reason), `record` (the CLI's
record of a question box) and `asking` (OpenCode's API); `pressNext`, `followUp`,
`recorded` and `asked` are what runs after each. `interrupt` and `interruptAgain` are the
Escs of a phone's Stop. Keys matter only by being input or not (`carriesInput`) and by
who wrote them; `Plans` gives how many an answer takes. The agent reports what it likes:
`onScreen` is its own record of a dialog (Claude's registry, OpenCode's open requests),
which may differ from the event. `secretarySeq` counts by one. A focus report makes an
idle contact `busy`, as `noteWrite` tells the run state of every write, though
`run-state.ts:17` describes `idle` by input alone; the model keeps what the code does.

`Secretary` hears of events in the step that raises or clears them, as listeners are
called synchronously: every step of `DialogAnswer` is conjoined with `Heard`, and the
secretary's own steps that press a key apply what the cleared event does to their job.
`signal` is the current job's number: a job is aborted exactly when it is no longer that.
`written`, `spoken` and `interpreted` end the writing of a brief, its speech and the
reading of a reply at any moment, with any result. What a reply means is the model's
choice among those of the dialog; only replies that the code itself reads, a plain yes
to a confirmation, are told apart. Left out: several contacts (jobs are per contact and
share only the mode), audio (`BriefAudio`), the OpenCode dialogs' re-reporting (`restated`).

### AnswerKeys and PhoneDialog

`AnswerKeys`: a dialog of every shape and every choice in bounds; `checkChoice` and
`checkAnswers` are the operators of those names, and `press` feeds the planned keys to the
CLI's dialog, which is modelled from what the comments of `dialog.ts` record as measured:
digits pick or tick, a preview question takes arrows, a review page follows several
questions or a multi-select one.

`PhoneDialog` is the slot that shows such a dialog on the phone: its draft per dialog
(`useDraft`), what may be sent (`checkChoice` again at the Mac), the one frame, its ack and
the line said of it. A refusal of the previous dialog's answer other than "gone" may never
be said, and the line may say a refusal the next slot says again: that is the code's.
Left out: bubbles, compose drafts, scrolling, a dialog restated under its own number with
another shape.

### OpencodeAttention and ServiceStream

One OpenCode contact with sessions of its own, a subagent's and another client's. Each
`await` is a cut: family lookups (`familyOf`), the four rounds of a re-sync
(`BeginResync`, the active sessions, the pages, the outcomes), `adoptIfRoot`. Events
published before an answer was computed arrive before it, as they come over one HTTP
server. The stream may break and start again at any moment, while a family is still being
looked up too, as a backoff (500 ms) is shorter than a request may be (5 s): what was held
for that family is then released into, or after, the next re-sync.
`ServiceStream` is `connect`, `pump`, `retryLater`, the registration poll, the stall timer
and the outage timer; a pump is one run of `connect`, so an overtaken run stays visible.

`DialogsTrue` and `FinishSaid` have two exceptions: a request failed (`misread`), or events
of the stream that broke were still held when the latest re-sync began (`crossed`). Both end
with the next re-sync in the code; `crossed` ends with it in the model too, so what is checked
includes that one clean re-sync puts everything right. What happens while `crossed` is a
finding, shown without the exception by the run `opencode_held`. Seen besides: a stale
`finishedBySync` swallows the finish of a later turn that the contact never saw running
(an event of it arrived while the re-sync read, so the reads were not applied); `FinishSaid`
speaks of turns it saw running.

### AlertReports and TuiConfig

The server's life (`start` in one step; a quit during `listen` is not cut), port and token,
the files, a Claude hook as a curl that reads its file when it runs, OpenCode's plugin with
its queue, retry and dispose. Requests of one process arrive in the order sent. A second
Multi-Code shares the files, as nothing keeps a second from starting: it then takes the reports
of the first one's sessions and drops them with a 204, and its quit removes the files of
both; the properties are about an app alone with its files (`alone`). `TuiConfig` is
`opencodeCliConfig` against what OpenCode makes of a list that replaces a list.

### The phone's other modules

`PhoneScreen`: `broadcastExit` drops a transcript refresh that waits (`cut`), and a
replaced process's late exit clears the tail of the new one and sends `exit`
(`process-manager.ts:648-657`). Contacts removed and previews are left out. `PhoneSocket`:
timers are armed or not; the browser's events come in any order. `Pairing`: a Revoke whose
save fails throws before live sockets are dropped (`unsaved`); starts and stops racing each
other, and revoking one's own shown code, are left out. `PhonePush`: a push-subscribe on a
dropped socket may overtake and be overtaken (`overtaken`); the resend of a refused one does
not look whether the browser still has it. `EventPush`: the push's listener runs before the
secretary's (`index.ts:93`, `:96`); removal of a contact is left out. `AppShell`: the Mac is
not updated while a worker comes in (a second build inside an activation could delete the
newer cache), an answer is of the build at its arrival, `addAll` is all or nothing, and the
browser evicts no cache. The page and its bundle are kept one by one, by whichever answer
came last: a page of a newer build may open with the worker's own bundle, and an older answer
that settles later may take a newer one's place, though nothing older than the worker's build
ever does. `AppOpens` says no more than that. `SecretaryBar`: a brief's number is also its time. `BriefAudio`: a 404 for
a replaced brief reads as a format the phone cannot play, so it keeps to PCM from then on
(`player.ts:130-142`); the frame between the mode's off and on is merged, the fitting of a
turn, ADPCM, loudness and byte ranges are left out.

### The desk's modules

* `UnreadBadges`: reports and reads cross on the wire. A desk acknowledgement in flight
  while a new turn finishes marks the newer one read on the phone (`remote-host.ts:351-357`),
  and a phone that stopped looking counts as reading up to `LOOKING_MS`; both are excused.
* `DropFlow`, `FileDrop`: a second drop in the moment before the dialog is drawn overwrites
  the keys it holds (`slipped`): what `DropsEndWell` says of the keyboard is said while that
  has not happened, the rest has no exception. Hover tracking and wording are left out.
* `DiffView`: every answer may be late. Noticed: the seed of an ask survives the compose
  box's closing; an image saved after its box closed is never deleted (`compose-box/prd.md:121`);
  the section keeps the previous contact's rows until the first answer; View on the file
  already shown does not read it again; line numbers of a staged file are the index's,
  where the file's are meant. Renames' headers, quoted paths and the window's geometry are
  left out.
* `ReplyJump`: the jump from a finish to the reply's first line. OpenCode hides its label at
  once and scrolls later, and has handled keys by the time its output settles; a key that
  crosses the next prompt is excused (`crossed`). A process's restart, dropped markers and
  the search for the words are left out.
* `ToolboxShells`: the listeners live as long as a Terminal section is drawn, so a shell that
  ends meanwhile stays on screen dead, with no "Terminal exited" and no Restart: a finding,
  shown by the run `shell_ends`, and what `StartedAsMeant` excuses (`unheard`). An end that
  crosses the page's own start of a shell is said though it was started again; Restart then
  asks for one, which the main process answers with the one there is. Both are checked: no
  section without a shell keeps silent about an end that was heard, and none that says one
  refuses to start.
* `NewInstance`, `CloneRepo`: the sheet, its checks and its two ways to submit. A folder is
  typed or browsed to whole. `createInstance` is not awaited by `startIn`, so a slow first
  one may close a dialog that is busy with a second submission, which goes on; a Cancel after git has finished
  still opens the session; a blank "Clone into" clones into the home folder with no target
  shown. `CloneRepo` assumes a path does not change hands between `mkdir` and `lstat`, or
  between `lstat` and `rm`, and no reuse of an inode.
* `SpeechSettings`: the three writes of `setSpeechServer` with a failure or an end of the app
  after any. `settings.json` is written in place, so a torn write loses every setting
  (`lost`, excused). A save whose key file cannot be written has moved the address by then,
  but rejects like one that did nothing (`settings-store.ts:169-171`): the section keeps the
  old address as saved, so once it is typed back nothing is dirty and Test tests the new one,
  where `SecretarySection.tsx:137-138` has the result "about the fields as they read"
  (`ahead`, excused; it took the proof to find, as the run had one edit too few). Both excuse
  what the section says only: the key stays at home all the same, without exception. After a save failed midway the section may say the key is set.
* `Tailnet`: the command is external and its port fixed. A setup still running when the link
  goes off and on again runs its command late, its result dropped until the next poll, and a
  second may run beside it.

## Runs

| Run | Checks | Instance |
| --- | --- | --- |
| `session_claims` | `ExclusiveClaims`, `PersistedMatches`, `ClaimsInv`, `ImplementsContactBook` | two contacts, of Claude or of OpenCode; three sessions and two launches of processes, or three about two |
| `fairness` | `TurnEndReported`, `FollowsProcess`, `ReachesService` (liveness), `HoldMatchesKnown`, `OneFinishPerTurn`, `FinishIsTrue`, `StreamIsTrue` | one part in each behaviour: two turns with one subagent that may ask, or with two that do not; two contacts, two sessions, two processes; a service that is replaced, shared or reopened |
| `session_shared` | `NoSharedConversation`: violated | two contacts, no picking by the user |
| `session_history` | `OwnSessionWasWorkedIn`: violated | two contacts, three sessions |
| `claude_hooks_dialog` | `DialogStaysReported`: violated | one subagent, two turns |
| `phone_link` | `OncePerRun`, `InOrder`, `AcksAreTrue`, `PromptSettled` (liveness) | two messages of one text, an answer and a subscription of which two frames are made, two sockets, one upset |
| `phone_link_twice` | `NeverTwice`: violated | one message |
| `secretary` | `RepliesAreMeant`, `CardIsTrue`, `BriefsFollowEvents`, `KeysStayTogether`, `StopHitsItsTurn`, `NothingHangs` (liveness) | either backend, two records, two answers, two Stops, eleven budgets of at most two events, turns and switches |
| `opencode_working` | `WorkingTrue`: violated | one turn that asks, around an outage |
| `opencode_held` | `HeldAreNewer`: violated | the same |
| `parts` | eighteen properties of twenty-three small parts, one behaviour each | the budgets in `MCParts` |
| `shell_ends` | `ShellEndsSaid`: violated | the same |

`parts` holds the parts that share no state with another: `part`, chosen in `Init`, says
which of them moves, in slots (`v1` to `v21`) that the others leave empty; a property of
`MCParts` says of one part, or of two neighbours, what their modules say. So one run shows
what twenty-three would, and each part still has all of its interleavings: they have no
step in common. `MCFair` does the same for the three specifications whose liveness is
checked beside their safety, with the fairness stated over each one's own variables; where a
part is over (an instance stopped, nobody listening), a step that changes nothing says so, and
everywhere else a deadlock is an error. The parts with proofs take their bounds as
constants of the MC module, so that a theorem is for all of them; the cfg gives them their
values, through the definitions beside them where a value is more than a number.

| Property of `parts` | Module: what it says |
| --- | --- |
| `AttentionCatchesUp` | `OpencodeAttention`: said once, true at rest, about what the terminal shows |
| `ReportsHold` | `AlertReports`, `TuiConfig`: reports arrive, from the process that runs; the builder's plugins and keys are kept |
| `AnswersHold` | `PhoneDialog`, `AnswerKeys`: a tap answers its own dialog as it was meant |
| `ScreenIsTrue` | `PhoneScreen`, `PhoneSocket`: the phone at rest shows what the Mac has, and dials while it should |
| `PairingsHold`, `SubscriptionsAgree`, `PushesFollowEvents` | `Pairing`, `PhonePush`, `EventPush` |
| `AppOpens`, `TailnetHolds` | `AppShell`: the app opens, each file as last kept and no older than the worker; `Tailnet`: the checks are Tailscale's, the setup replaces nothing |
| `BarIsTrue`, `HeardAsTapped` | `SecretaryBar`, `BriefAudio` |
| `FilesKept`, `DropsEndWell`, `StartedAsMeant` | `CloneRepo` and `FileDrop`; `DropFlow`; `NewInstance` and `ToolboxShells` |
| `AskedAsShown`, `BadgesAreOwed`, `JumpsAreWelcome`, `KeyStaysHome` | `DiffView`, `UnreadBadges`, `ReplyJump`, `SpeechSettings` |

**Bounds.** Claims are pairwise, so two contacts meet every conflict there is; three
sessions leave one to move to when each holds one; three processes allow a restart next
to a running neighbour, and the external `claude`. `InBounds` of `MCClaims` allows the
third launch only while a session is left to mint: both at once was checked and is too
slow to keep. A finish concerns one turn, its predecessor and the subagents that outlive
it: two subagents tell held from running, two turns let a check meet the turn after its
own. `MCFair` takes two turns and two deliveries on their way, with one subagent that may ask
or with two that ask nothing: a third turn, and both at once, were checked before and are too
slow to keep beside the liveness; the three safety properties are proved for all of them. In `PhoneLink` two sockets give one loss with a resend; `MaxUpsets` counts
restarts, new pairings and new CLI sessions together. The safety properties were also
checked once with two upsets and with three sockets (up to 3.5 million states), which is
too slow to keep. `MoreSockets` ends the trouble with the last connection, so that a bound
never shows as a stuck message.

In `Secretary` and in most parts every kind of trouble (events, turns, taps, drops of the
link, failed saves, restarts) may happen only so often; `Init` picks one of the budgets,
each of which spends the steps on one conflict: all at once is too much to check, and a
conflict is between two or three actors. Two records give an answer whose process was
replaced; three replies give a question, a word in between and a yes. Every part has two of
what can be confused with each other: contacts, dialogs, sockets, turns, drops, servers,
folders, builds. In `AnswerKeys` two questions show that one's keys end where the next's
begin, three options tell first, middle and last; in `DiffView` every script of up to three
lines, and longer ones for context and cut-off, meets one selection of up to two clicks.

**Deadlock** is checked for the session runs and in `fairness`, whose parts stop only where
`PartsNext` says they are over. `PhoneLink` ends with all frames made and all connections
used; the others spend their budgets. All may stop, so their configurations say
`CHECK_DEADLOCK FALSE`.

**Symmetry** over contacts and sessions is used only where no liveness property is checked.
`FollowsProcess` speaks of one contact and one session, since nothing tells them apart.

**Liveness** in `fairness` is stated as what holds again and again (`[]<>`): no end of a turn
stays unreported for ever, no move unfollowed, no service that answers unreached.
`TurnEndReported` says it of an instance whose hooks run; of one whose hooks never do it says
that the health check reports so.

**Fairness.** `SessionClaims`: the poll is an interval timer of the main process, and a
running CLI resolves its `--continue` and writes its registry entry. `ServiceStream`: a
pump's requests end, an armed retry and the registration poll come; a service that is
registered and healthy answers. `ClaudeHooks`: the HTTP
server and the timers of the main process run; Stop hooks and subagents end (a subagent
that asks is answered). No wake-up is owed, so the grace period is really needed.
`PhoneLink`: the phone reconnects (`scheduleRetry`), notices a dead socket (its ping),
handles what it receives; the server handles frames and the keys of an answer end.
`Secretary`: each wait of `answerDialog` has a timer, an OpenCode answer its request's
end, and the writer, the speech client and the interpreter are given up after a time
(`CLI_TIMEOUT_MS` and `KILL_GRACE_MS` in `cli.ts`, `SPEECH_TIMEOUT_MS`). Nothing is
assumed of the builder, the agent or the record of an answer. The parts state what must
come about as what holds once nothing is on its way (their `Quiet`, `Settled`,
`CaughtUp`), which needs no fairness.

## What the violations show

* `session_shared`: a contact started with `--continue` claims nothing until its session
  is discovered; a second contact started in between continues the same conversation,
  which the comment at `sessionStartFor` means to prevent.
* `session_history`: a poll that finds no registry entry of the new process yet takes
  the directory's only one, a `claude` started outside Multi-Code, for its own, and
  saves it. Two contacts can likewise take each other's.
* `claude_hooks_dialog`: one flag stands for all dialogs; the main agent's next event
  clears a background subagent's dialog that is still on screen.
* `phone_link_twice`: acks live in memory, so a message typed just before a restart is
  typed again when resent. `ws-server.ts:65-67` knows that acks are forgotten; the
  phone's product requirements say it never happens.
* `opencode_held`: an event held for its session's family outlives the stream it came on. A
  dialog asked before the break and answered during it is released into the next re-sync as
  something newer than what that reads, and is said to be open until the one after.
* `shell_ends`: a shell that ends while its section is folded, or its contact is not the one
  selected and no Terminal section is drawn, leaves a dead terminal where
  `docs/specs/toolbox/prd.md:175` promises "Terminal exited" and Restart.
* `opencode_working`: any event heard while a re-sync reads marks its session as spoken
  for, a dialog's too; the run state that was read is then dropped, and a contact that
  works is not said to.

## Proofs

`SessionClaims_proofs`, for any contacts, sessions, backends and number of launches,
from `ConstantsAssumption` alone:

* `TypeCorrect`: the type invariant.
* `ClaimsInvariant`: `ClaimsInv`, which is inductive together with the types.
  `ExclusiveClaims` alone is not: a step from a state where a contact reads a session
  it does not own, or where the file names one a contact in memory also has, or where a
  "fresh" id is already somebody's, breaks it. Hence the parts: `ReadsItsOwn`,
  `Distinct` in memory and in the file, `OnlyMembersHold`, `KnownIsMinted`,
  `PersistedMatches`.
* `ClaimsExclusive`, `PersistedAlways`: what it implies.
* `ConversationsKept`: the action property.
* `ContactsFileIsABook`: refinement of `ContactBook`, each step a step of the book or
  a stutter.

The argument: every step is one of four kinds (`StepKinds`): a *quiet* step of the
CLIs that leaves records and file alone; a *record* step that changes one contact's
record and saves it; a crash; a load. A lemma per handler shows which kind it is, where
the checks of the code (`isSessionClaimedBy`, `sessionStartFor`) give that the new
session is free; the theorems then only look at the four kinds.

`ClaudeHooks_proofs`, for any subagents and any bounds on turns, registry reads, polls and
deliveries, from `HooksAssumption`:

* `HooksTypes`: the type invariant.
* `FinishWaits`: `HoldMatchesKnown`, which is not inductive. That a subagent known to run
  is at work or has its `SubagentStop` on its way says nothing of the list a later Stop
  brings, so `HoldInv` adds `ListsOK`: of every Stop on its way, each subagent it lists is
  at work or has its `SubagentStop` *behind* that Stop. It adds that a check is scheduled
  only in a confirm or a grace (`CheckOK`), and that a CLI whose hooks never run has posted
  nothing (`QuietOK`). The argument follows one delivery: what is posted joins the end, so
  whoever ends after a Stop ends behind it; what arrives leaves the others in order; when
  a Stop arrives, what it lists becomes what is known, owed by what is left.
* `OneFinish`: `OneFinishPerTurn`, and `FinishesAreTrue`: the action property `FinishIsTrue`.
  Both come from `FinishInv`. At most one end of a turn is on its way, that of the present
  turn, which waits in its last state for it to land (`EndsOK`, from `EndLanded`, the 15 to
  60 ms measured); a compaction has a number of its own, above whatever was posted before it
  (`CompactsOK`); while a turn runs, its `UserPromptSubmit` is behind all that is left of
  earlier ones (`PromptsOK`); and while the registry could be read, every report is older than
  the pending finish and than every end on its way, and older than the present turn while
  that can still stop (`PendingOK`, `SaidOK`).

`PhoneLink_proofs`, for any prompts, answers, push subscriptions, texts
and bounds, from `LinkAssumption` and `MaxFrames <= AcksKept`: every frame the phone makes
finds room among the acks a device is kept (`ACKS_KEPT`, 200). The hypothesis is needed: a
prompt whose ack was evicted and that is then resent is typed again. So the theorems speak of
the first 200 frames, or, read as the code is used, of no more than 200 between a frame's
first sending and its last.

* `TypedOncePerRun`: `OncePerRun`, by the invariant `Once`. Of every frame there is one trace
  in the running Multi-Code: it is on the wire, acked, or typed, for one device only
  (`OneDevice`); what was typed in this run is among the acks of the device that brought it
  (`TypedAcked`), so every resend is answered from there; an unmade frame has no trace
  (`NoneOK`); an answer is on one place of one wire, and not once it is being acted on
  (`OneWire`, `AnswersOK`).
* `TypedInOrder`: `InOrder`, by `Once` and `Ordered`. On each wire, a prompt has every older
  one before it, or that one is *gone* for this device: acked, or not on its way and never to
  be sent again by it (`WireOrder`); so what was typed has only such before it (`TypedOrder`).
  A prompt leaves the outbox only when its ack is on record or its device was replaced
  (`PastOK`), which `ResultOK` and `InboxOK` carry through the acks and the answers on their
  way.
* `AcksHold`: `AcksAreTrue`, by `Once`, `Ordered` and `TrueAcks`. What is acked was typed
  (`StatusOK`). The count of delivered messages needs more than the count of entries: an entry
  that delivered one must never deliver again, so `CountOK` counts the *spent* entries, those
  delivered and those of a CLI session the phone can no longer be shown (`Alive`), with the
  transcripts on their way in the order of their sessions (`CliOK`, `MailOrder`). That
  `settleDelivered` gives away at most as many prompts as it uses entries is `SettledCount`,
  from a ranking of the prompts by age (`Ranked`, `MadeRanks`, `Matched`).

`Secretary_proofs`, for any backends, number of records, calls,
Stops, events, turns and mode switches, and any budgets within those, from `AnswerAssumption`,
`NoEvent` and `SecretaryAssumption`. `MaxSeq`, `MaxTurns` and `MaxModes` only say that the
budgets fit the ranges the numbers are taken from:

* `SecretaryInvariant`: `SecretaryInv`, inductive over a contact, its agent, the answers and
  Stops of every sender, and its secretary. Its first part, `AnswerInv`, is about the contact
  alone, and is kept whoever starts an answer. None of the properties is inductive by itself:
  that two calls never type into one dialog rests on a call that pressed a key being the only
  one for its event *and* that event being live no more (`KeyedOK`), which the first key's
  `clearSecretaryEvent` gives; that needs listeners and the current record to have one event
  (`HeardOK`), numbered by what was raised (`SeqOK`), and a call that waits for a young dialog to
  wait for one (`SettlingOK`). That a later key follows its own earlier one is `MineOK`: while
  the count of writes is the call's, the last input is. That a Stop meets no answer between its
  keys is `CountOK`: `answering` counts exactly the calls there.
* `CardAlwaysTrue`: `CardIsTrue`, and `BriefsAlwaysFollow`: `BriefsFollowEvents`. The job is of
  an event of a contact that is there, and what runs under its number is about that event
  (`JobOK`); what runs under another number is of a dropped job (`NewOK`: of none to come).
  While the secretary is on, the event listeners know of has the brief (`BriefOK`).
* `RepliesAlwaysMeant`: `RepliesAreMeant`. The one open exchange is that the job's reading or
  pressing is about, those after it were refused (`TalkOK`), so the question a plain yes
  confirms is still the last thing said (`ConfirmOK`); an answer under way for a job is the one
  it is pressing (`CallsOK`), including those of dropped jobs.
* `KeysAlwaysTogether`, `StopsAlwaysHit`: the action properties `KeysStayTogether` and
  `StopHitsItsTurn`, of every step from `SecretaryInv`.

The argument has two levels. For the contact, a step is told by what it does to the event
(raised, cleared or neither: `Told`), to the keyboard (`Typed`) and to the calls (one begins,
moves on or ends: `Kinds`), and each part of `AnswerInv` is kept by every such kind. For the
secretary, a step of the contact reaches it only as an event heard, replaced or gone
(`HeardNew`, `HeardGone`, `HeardSame`); its own steps end a writing (`Ended`, `Publishes`),
switch the mode (`Switched`), take a reply (`Refuses`, `Listens`, `GivesUp`, `Confirms`) or press
an answer (`PressedFor`), whose first key may clear the event its own job is about.

`MCFair_proofs`, for any services, listeners and bounds, from `StreamAssumption` (what
stands for the absence of a service is none):

* `StreamAlwaysTrue`: `OneAttempt` and `StatusIsTrue` of `ServiceStream` alone. Both need
  `AttemptOK`: a pump that is not over is the one the client calls its stream, so whoever
  replaces the stream ends the other; and while anybody listens the retry's timer runs exactly
  when there is no stream. That is what the code gets from `run` and from `this.stream ===
  stream` after each wait: a connect that ends late decides nothing.
* `StreamStaysTrue`: `StreamIsTrue`, the same where the stream is one of the parts of
  `MCFair`.

`Parts_proofs`, each part from its own assumption:

* `NothingIsReplaced`: `NothingReplaced` of `FileDrop`, from `DropAssumption` (names are
  sequences, other programs' files are no drop's). What a result says is of entries
  made long before, so `DropInv` has of each drop how far it is (`Underway`), and of each of
  its files that a result is of that file's only entry and a file without one has none
  (`ResultsTrue`); `InFolder` says the disk and the record of entries agree.
* `PushesAlwaysFollow`: `PushesFollowEvents` of `EventPush`, from `PushAssumption`. A push that
  waits for its brief goes out later, among other events: `PushInv` says that only the fresh
  event waits, without a push yet, while its brief is not settled (`WaitersOK`); that all
  after it are its restatements (`FreshOK`); and that what was pushed is no newer than it
  (`PushedOK`).
* `AppAlwaysOpens`: `AppOpens` of `AppShell`, for any number of builds. `OpenInv`: the cache
  of the worker in charge comes first and has all of the shell, each file as it was last kept
  and no older than the worker (`ActiveFirst`), since an answer is no older than the worker
  that asked (`RequestRecords`); and the cache of a worker on its way in is whole, of its own
  build (`InstalledWhole`), so taking charge keeps the first.
* `PairingsAlwaysHold`: `PairingsHold` of `Pairing`, for any phones, codes and sockets.
  `PairInv` follows a code from the dialog's request to the phone: the code shown, and the one
  about to be, has a row (`ShownHasRow`); before its hello a socket is nobody's (`HelloFirst`);
  a phone is alone on its socket and sends its own code only (`HeldAlone`); a socket let in and
  counted is of a row (`ServedHasRow`); and whom the Mac let in, *or is about to tell so*, has
  a row in memory and on disk unless revoked (`LetInKept`).
* `CloneInvariant`: `CloneInv` of `CloneRepo`, for any paths, requests and changes by other
  programs, from `CloneAssumption` (no request is named like the absence of one): the one that
  runs is the one underway (`OneUnderway`); a clone past `mkdir` holds the identity of a folder
  it made (`OwnFolder`); what was removed was its remover's own (`RemovedOwn`); a folder left
  behind is one the disk refused to remove, and is not said removed (`LeftBehind`).
  `FoldersAreKept`: what it implies.

* `KeysStayHome`: `KeyStaysHome` of `SpeechSettings`, for any addresses and budgets, from
  `SpeechAssumption` (what has no origin has no engine): the key's part without exception, the
  section's unless the file became unreadable (`lost`) or, for a test's result, a failed save
  moved the address (`ahead`). `SpeechInv` follows the section's one
  job from its press to its answer (`OneJob`); the key at hand is of the address saved, or
  nothing can be asked there (`KeyAtHome`), which the order of `setSpeechServer`'s three writes
  gives at each of its ends. What is on its way to the page is read in order: settings that
  answer a save, and all behind them, tell of the address as it is (`UrlTold`); the last ones,
  unless another look is due, tell whether the secretary is on (`ModeTold`); and from the press
  of Test on, the fields, the test and its result are about the address saved (`TestTrue`).

* `DropsAllEndWell`: `DropsEndWell` of `DropFlow`, for any contacts, folders, drops and messages,
  from `FlowAssumption` (the contact shown at the start is one); what it says of the keyboard
  is said while no drop slipped in before a dialog's state was set. `FlowInv`: while none slipped
  in, the drop that asks is the one the keyboard is held for, `dropBusyRef` is set while it is
  looked up or picked for, and its dialog is the one there is (`OneAsks`); even after a slip the
  dialog is that of a drop that waits for it (`PromptOK`); what is said of a drop follows from
  where it is, and a drop given up is past its deadline, so the late call moves no window
  (`WellSaid`); a drop that still asks has no copy (`CopiesOK`); and of no drop are there two
  messages (`SaysOf`), which is why `dismissDrop` may take one away by its place.

`MCParts_proofs`, for any constants of those parts, from `PartsAssumption` (the assumptions of
the parts together):

* `PartsKeep`: `PartInv`, each part's own invariant while it is the one that moves. `part`
  never changes (`PartStays`), and a step of the composition is a step of that part or leaves
  its slots alone (`OwnSteps`); the part's lemmas then do the rest, since its definitions over
  `v1`, `v2`, ... are those over its own variables (`SameDrop`, `SamePushes`, ...).
* `FilesAreKept`, `PushesFollow`, `PairingsStay`, `KeysStayAtHome`, `DropsKeepEndingWell`,
  `AppStaysOpen`: `FilesKept`, `PushesFollowEvents`, `PairingsHold`, `KeyStaysHome`,
  `DropsEndWell` and `AppOpens` as the run `parts` checks them.

Only model-checked: everything else. Every liveness property, `NothingHangs` of `secretary`
among them, stays with TLC (liveness under fairness is outside TLAPS's reach); so does
`AnswerKeys`, part of `AnswersHold`, whose claim is about what folds over sequences compute for
every input. Of the parts, the other properties of the run `parts` have no proof yet:
`AttentionCatchesUp`, `SubscriptionsAgree`, `BarIsTrue`, `ScreenIsTrue`, `AnswersHold`,
`AskedAsShown`, `BadgesAreOwed`, `HeardAsTapped`, `JumpsAreWelcome`,
`TailnetHolds`, `ReportsHold`, `StartedAsMeant`.

## Not modelled, and why

* Cryptography, TLS, web push encryption: calls that succeed or fail.
* What language models and speech servers write or say, ADPCM and loudness.
* Readers of transcripts, of OpenCode's tables, of git's and Tailscale's output: tables of
  formats of other programs, where a bug is a wrong row and not a wrong order.
* Contact order (`shared/reorder.ts`): a pure function on a list.
* Usage figures, avatars, group and theme settings, markdown, sounds, layout.
* In the modelled parts, what each section above says it leaves out. `PhoneLink` also leaves
  out the eviction of acks: a phone has far fewer than 200 frames on their way.

## Plan

Done: every module of the table, checked; the proofs of `SessionClaims`, `PhoneLink`,
`ClaudeHooks`, `DialogAnswer` with `Secretary`, `ServiceStream`, `CloneRepo`, `FileDrop`,
`EventPush`, `AppShell`, `Pairing`, `SpeechSettings` and `DropFlow`, the last eight as the runs
compose them. What would add most next: `BadgesAreOwed` of `UnreadBadges` and `SubscriptionsAgree` of `PhonePush`, then the
other parts in the same way, a section of `Parts_proofs` and an entry of `PartInv` each. After
them the transcript readers, against a reference definition over bounded inputs.
