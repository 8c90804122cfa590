------------------------------ MODULE MCParts --------------------------------
(***************************************************************************)
(* Small parts of the program, one in each behaviour: `part` names it.      *)
(* They share nothing but the slots their variables are kept in; the slots  *)
(* a part has no use for stay empty.  Each budget spends a part's bounds on *)
(* one kind of trouble.                                                     *)
(***************************************************************************)
EXTENDS Naturals, Sequences, TLC

CONSTANTS own, sub, alien,                          \* sessions of OpenCode
          Root, Unknown, Home, Nil, Gone, Pends,
          Phones, MaxCodes, MaxSockets, PairBudgets,             \* of Pairing
          Dialogs, MaxEvents, MaxTurns, MaxModes,                \* of EventPush
          MaxBuilds, OpenBudgets,                                \* of AppShell
          Paths, Requests, MaxOthers,                            \* of CloneRepo
          Names, Drops, MAX_DROP_FILES, MAX_NUMBER, MaxChanges,  \* of FileDrop
          Addresses, Nowhere, ServerBudgets,                     \* of SpeechSettings
          Roster, ShownFirst, Folders, MAX_NOTICES, MaxDrops     \* of DropFlow

VARIABLES part,
          v1, v2, v3, v4, v5, v6, v7, v8, v9, v10, v11, v12, v13, v14, v15, v16, v17, v18,
          v19, v20, v21

Past21 == <<part>>   \* which never changes
Past20 == <<v21, Past21>>
Past14 == <<v15, v16, v17, v18, v19, v20, Past20>>
Past13 == <<v14, Past14>>
Past12 == <<v13, Past13>>
Past11 == <<v12, Past12>>
Past10 == <<v11, Past11>>
Past9 == <<v10, Past10>>
Past8 == <<v9, Past9>>
Past7 == <<v8, Past8>>
Past6 == <<v7, Past7>>
Past5 == <<v6, Past6>>
Past4 == <<v5, Past5>>

Empty20 == v21 = 0
Empty14 == v15 = 0 /\ v16 = 0 /\ v17 = 0 /\ v18 = 0 /\ v19 = 0 /\ v20 = 0 /\ Empty20
Empty13 == v14 = 0 /\ Empty14
Empty12 == v13 = 0 /\ Empty13
Empty11 == v12 = 0 /\ Empty12
Empty10 == v11 = 0 /\ Empty11
Empty9 == v10 = 0 /\ Empty10
Empty8 == v9 = 0 /\ Empty9
Empty7 == v8 = 0 /\ Empty8
Empty6 == v7 = 0 /\ Empty7
Empty5 == v6 = 0 /\ Empty6
Empty4 == v5 = 0 /\ Empty5

-----------------------------------------------------------------------------
(* OpenCode's attention: a root, a subagent of it, a root of another client *)

AttentionBudget(sessions, turns, asks, drops, routes, fails, stops) ==
  [sessions |-> sessions, turns |-> turns, asks |-> asks, drops |-> drops, routes |-> routes,
   fails |-> fails, stops |-> stops, lag |-> 2]

\* Outages about a turn with a dialog, one, two and in a row, and about two turns; with a
\* subagent, a failed request; a foreign session the terminal moves to; two moves and a stop.
AttentionBudgets ==
  {AttentionBudget({own}, 1, 1, 2, 0, 0, 0),
   AttentionBudget({own}, 1, 2, 1, 0, 0, 0), AttentionBudget({own}, 2, 1, 1, 0, 0, 0),
   AttentionBudget({own, sub}, 2, 1, 0, 0, 1, 0), AttentionBudget({alien}, 1, 1, 1, 1, 0, 0),
   AttentionBudget({alien}, 1, 0, 0, 2, 0, 1)}

Attention ==
  INSTANCE OpencodeAttention WITH
    Sessions <- {own, sub, alien}, Dialogs <- {1, 2}, Own <- own, MaxDepth <- 1,
    ParentOf <- [s \in {own, sub, alien} |-> IF s = sub THEN own ELSE Root],
    Budgets <- AttentionBudgets, None <- Nil, Cleared <- Gone, Waiting <- Pends,
    created <- v1, active <- v2, outcome <- v3, ends <- v4, owed <- v5, askedBy <- v6,
    open <- v7, connected <- v8, queue <- v9, toTell <- v10, att <- v11, lookups <- v12,
    chain <- v13, adopting <- v14, held <- v15, learning <- v16, sync <- v17, stopped <- v18,
    misread <- v19, left <- v20, crossed <- v21

-----------------------------------------------------------------------------
(* What goes to a CLI: the keys of an answer, and the settings it starts with *)

\* In and out of order, twice the same, and out of range.
Keys ==
  INSTANCE AnswerKeys WITH
    MaxQuestions <- 2, MaxOptions <- 3,
    Picks <- {<<>>, <<1>>, <<2>>, <<1, 2>>, <<3, 1>>, <<2, 2>>, <<3>>, <<4>>, <<0>>},
    dialog <- v1, plan <- v2, meant <- v3, at <- v4, box <- v5

\* What a builder may list beside Multi-Code's own plugin: one by a relative path, one that
\* is not a plugin's.
Listed(package, relative, good) == [package |-> package, relative |-> relative, good |-> good]

Config ==
  INSTANCE TuiConfig WITH
    Entries <- {Listed("a", TRUE, TRUE), Listed("b", FALSE, FALSE), Listed("ours", FALSE, TRUE)},
    Ours <- Listed("ours", FALSE, TRUE), Strokes <- {<<>>, <<"g", "end">>}, Stroke <- "new",
    Default <- <<"end">>, Absent <- Nil, Bad <- Gone,
    inherited <- v1, cliJson <- v2, offered <- v3, content <- v4

ReportsBudget(launches, fails, spawns, moves, events, reloads, rivals, lost, late) ==
  [launches |-> launches, fails |-> fails, spawns |-> spawns, moves |-> moves,
   events |-> events, reloads |-> reloads, rivals |-> rivals, lost |-> lost, late |-> late]

\* Posts lost and given up; another Multi-Code; launches that fail, and hooks of an old one.
Reports ==
  INSTANCE AlertReports WITH
    Routes <- {"home", "s1"}, Home <- "home", Unsaid <- "unsaid", MAX_QUEUED <- 2,
    Budgets <- {ReportsBudget(1, 0, 1, 3, 0, 0, 0, 1, 1), ReportsBudget(1, 0, 1, 1, 0, 1, 1, 1, 0),
                ReportsBudget(2, 1, 2, 0, 1, 0, 0, 0, 0), ReportsBudget(1, 0, 2, 0, 2, 0, 1, 0, 0),
                ReportsBudget(1, 0, 1, 2, 0, 1, 0, 1, 0), ReportsBudget(1, 0, 2, 2, 0, 0, 0, 0, 1)},
    launches <- v1, app <- v2, rival <- v3, files <- v4, spawns <- v5, current <- v6,
    hooks <- v7, tui <- v8, queue <- v9, wire <- v10, told <- v11, stale <- v12, left <- v13

-----------------------------------------------------------------------------
(* The phone *)

PushBudget(taps, sockets, upsets, fails, pushes) ==
  [taps |-> taps, sockets |-> sockets, upsets |-> upsets, fails |-> fails, pushes |-> pushes]

Push ==
  INSTANCE PhonePush WITH
    RESENDS <- 1, MaxSockets <- 3,
    Budgets <- {PushBudget(3, 1, 1, 1, 1), PushBudget(1, 2, 1, 2, 1)},
    browser <- v1, subs <- v2, permission <- v3, off <- v4, item <- v5, ids <- v6,
    push <- v7, app <- v8, run <- v9, socket <- v10, open <- v11, wire <- v12, inbox <- v13,
    device <- v14, file <- v15, key <- v16, acks <- v17, sending <- v18, stale <- v19,
    overtaken <- v20, left <- v21

\* The desk alone, the phone alone, and both.
BarBudget(devices, events, taps, reads) ==
  [devices |-> devices, events |-> events, taps |-> taps, reads |-> reads]

Bar ==
  INSTANCE SecretaryBar WITH
    Contacts <- {1, 2}, None <- 0,
    Budgets <- {BarBudget({"desk"}, 3, 1, 0), BarBudget({"phone"}, 2, 2, 1),
                BarBudget({"desk", "phone"}, 2, 1, 0)},
    clock <- v1, briefs <- v2, view <- v3, bar <- v4, reads <- v5, heard <- v6, left <- v7

ScreenBudget(works, events, outputs, moves, exits, opens, pages, drops) ==
  [works |-> works, events |-> events, outputs |-> outputs, moves |-> moves, exits |-> exits,
   opens |-> opens, pages |-> pages, drops |-> drops]

Screen ==
  INSTANCE PhoneScreen WITH
    Contacts <- {"c1", "c2"}, MaxSockets <- 3,
    Budgets <- {ScreenBudget(1, 1, 0, 0, 0, 0, 0, 1), ScreenBudget(0, 0, 1, 1, 0, 1, 1, 0),
                ScreenBudget(0, 1, 0, 0, 1, 1, 0, 1), ScreenBudget(0, 0, 1, 0, 1, 1, 0, 0),
                ScreenBudget(0, 0, 1, 0, 0, 3, 0, 0), ScreenBudget(0, 0, 1, 1, 0, 1, 0, 1)},
    mac <- v1, phone <- v2, up <- v3, down <- v4, left <- v5

PairingBudget(revokes, fails, restarts, https, switches, drops) ==
  [revokes |-> revokes, fails |-> fails, restarts |-> restarts, https |-> https,
   switches |-> switches, drops |-> drops]

PairingBudgets ==
  {PairingBudget(1, 1, 0, 0, 0, 0), PairingBudget(0, 1, 0, 0, 0, 1),
   PairingBudget(0, 1, 1, 0, 0, 0), PairingBudget(1, 0, 0, 1, 0, 0),
   PairingBudget(0, 0, 0, 0, 1, 0)}

Pairings ==
  INSTANCE Pairing WITH
    Budgets <- PairBudgets,
    devices <- v1, file <- v2, conns <- v3, https <- v4, up <- v5, mail <- v6, tell <- v7,
    codes <- v8, section <- v9, phone <- v10, told <- v11, revoked <- v12, unsaved <- v13,
    left <- v14

Socket ==
  INSTANCE PhoneSocket WITH
    MaxDials <- 4, MaxFlips <- 4,
    link <- v1, status <- v2, visible <- v3, probes <- v4, dials <- v5, flips <- v6

\* The dialogs a phone shows: one to allow, a plan, and questions with one or two options,
\* of several picks or with a preview.
Permission == [kind |-> "permission", options |-> <<"allow-once", "allow-always", "deny">>]
Plan == [kind |-> "plan", options |-> <<"approve-auto", "approve", "revise">>]
Asked(multi, preview, count) == [multi |-> multi, preview |-> preview, count |-> count]
Several(count) == Asked(TRUE, FALSE, count)
One(count) == Asked(FALSE, FALSE, count)
Previewed(count) == Asked(FALSE, TRUE, count)
Box(questions) == [kind |-> "questions", options |-> questions]
Undrawn == [kind |-> "none", options |-> <<>>]

DialogBudget(dialogs, answers, desk, stops, fails, drops, routes) ==
  [dialogs |-> dialogs, answers |-> answers, desk |-> desk, stops |-> stops, fails |-> fails,
   drops |-> drops, routes |-> routes]

Slots ==
  INSTANCE PhoneDialog WITH
    Budgets <- {DialogBudget(<<Box(<<One(2), Several(2)>>)>>, 1, 0, 0, 0, 0, 0),
                DialogBudget(<<Box(<<Previewed(2), One(1)>>)>>, 1, 0, 0, 0, 0, 0),
                DialogBudget(<<Box(<<One(2)>>), Box(<<One(1)>>)>>, 2, 1, 0, 0, 0, 0),
                DialogBudget(<<Permission, Plan>>, 1, 1, 0, 0, 0, 0),
                DialogBudget(<<Box(<<One(1)>>), Undrawn>>, 2, 0, 0, 0, 1, 1),
                DialogBudget(<<Box(<<One(1)>>)>>, 2, 0, 1, 1, 1, 0)},
    mac <- v1, phone <- v2, up <- v3, down <- v4, left <- v5

Pushes ==
  INSTANCE EventPush WITH
    Finished <- "finished", None <- Nil,
    events <- v1, live <- v2, turn <- v3, link <- v4, fresh <- v5, restatements <- v6,
    on <- v7, brief <- v8, waiters <- v9, pushed <- v10, modes <- v11

TailnetBudget(changes, polls, presses, toggles, remounts, fails) ==
  [changes |-> changes, polls |-> polls, presses |-> presses, toggles |-> toggles,
   remounts |-> remounts, fails |-> fails]
Port443(tcp, root, beside, funnel) ==
  [tcp |-> tcp, name |-> 1, root |-> root, beside |-> beside, funnel |-> funnel]
Free443 == [tcp |-> "none", name |-> 0, root |-> "none", beside |-> FALSE, funnel |-> FALSE]

\* Port 443 forwards, serves something else in the foreground, serves more than ours, or
\* serves ours to everybody.
Tailscale ==
  INSTANCE Tailnet WITH
    Served <- {[bg |-> [Free443 EXCEPT !.tcp = "forward"], fg |-> Free443],
               [bg |-> Free443, fg |-> Port443("https", "other", FALSE, FALSE)],
               [bg |-> Port443("https", "ours", TRUE, FALSE), fg |-> Free443],
               [bg |-> Port443("https", "ours", FALSE, TRUE), fg |-> Free443]},
    Budgets <- {TailnetBudget(1, 1, 1, 1, 0, 0), TailnetBudget(0, 1, 1, 1, 0, 1),
                TailnetBudget(0, 0, 1, 3, 1, 0), TailnetBudget(2, 1, 0, 1, 0, 0),
                TailnetBudget(0, 1, 2, 1, 1, 0)},
    tailnet <- v1, changes <- v2, cache <- v3, runs <- v4, section <- v5, mail <- v6,
    seen <- v7, lost <- v8, left <- v9

OpenBudget(opens, fails, updates) == [opens |-> opens, fails |-> fails, updates |-> updates]

AppBudgets == {OpenBudget(2, 2, 1), OpenBudget(2, 1, 2)}

Opens ==
  INSTANCE AppShell WITH
    Budgets <- OpenBudgets,
    build <- v1, active <- v2, installed <- v3, caches <- v4, requests <- v5, kept <- v6,
    wrong <- v7, left <- v8

-----------------------------------------------------------------------------
(* The desk *)

Clone ==
  INSTANCE CloneRepo WITH
    at <- v1, makers <- v2, running <- v3, clone <- v4, stuck <- v5, removals <- v6,
    quit <- v7, others <- v8

\* A file, and another whose name is that of its second copy.
FileNames == {<<1>>, <<1, 2>>}

Drop ==
  INSTANCE FileDrop WITH
    disk <- v1, entries <- v2, deleted <- v3, kind <- v4, drop <- v5, changes <- v6

DiffBudget(disk, edits, moves, polls, views, clicks, asks, opens, images, stops) ==
  [disk |-> disk, edits |-> edits, moves |-> moves, polls |-> polls, views |-> views,
   clicks |-> clicks, asks |-> asks, opens |-> opens, images |-> images, stops |-> stops]
Disk(unstaged, staged, untracked, other) ==
  ("c1" :> ("unstaged" :> unstaged @@ "staged" :> staged @@ "untracked" :> untracked)) @@
  ("c2" :> ("unstaged" :> other @@ "staged" :> <<>> @@ "untracked" :> <<>>))
Replaced == <<"-", "+", "=">>

\* Every change of up to three lines, and some longer; three sides and two contacts; the
\* compose box; files that change.
Scripts == UNION {[1..n -> {"=", "-", "+"}] : n \in 1..3}
           \cup {<<"=", "-", "-", "+">>, <<"-", "+", "=", "-">>, <<"+", "=", "+", "+">>,
                 <<"+", "+", "-", "+", "+">>}
Diff ==
  INSTANCE DiffView WITH
    Contacts <- {"c1", "c2"}, First <- "c1", Changes <- {Replaced, <<"binary">>},
    Context <- 1, MaxShown <- 3, MaxTotal <- 4,
    Budgets <-
      {DiffBudget(Disk(s, <<>>, <<>>, <<>>), 0, 1, 0, 1, 2, 1, 0, 0, 0) : s \in Scripts}
      \cup {DiffBudget(Disk(Replaced, <<"=", "-", "-", "+">>, <<"+", "+">>, Replaced),
                       0, 2, 1, 2, 1, 1, 0, 0, 0),
            DiffBudget(Disk(Replaced, <<>>, <<>>, <<>>), 0, 1, 0, 1, 1, 2, 2, 2, 1),
            DiffBudget(Disk(Replaced, <<>>, <<>>, <<>>), 1, 1, 1, 2, 0, 0, 0, 0, 0)},
    disk <- v1, desk <- v2, calls <- v3, win <- v4, box <- v5, left <- v6

BadgeBudget(events, phone, keys) == [events |-> events, phone |-> phone, keys |-> keys]

Badges ==
  INSTANCE UnreadBadges WITH
    Contacts <- {1, 2}, Sockets <- {"k1"},
    Budgets <- {BadgeBudget(2, 2, 1), BadgeBudget(2, 0, 3), BadgeBudget(2, 3, 0)},
    main <- v1, wire <- v2, asked <- v3, page <- v4, owed <- v5, left <- v6

DropBox ==
  INSTANCE DropFlow WITH
    Contacts <- Roster, First <- ShownFirst, None <- "none",
    selected <- v1, default <- v2, gone <- v3, busy <- v4, keys <- v5, holds <- v6,
    prompt <- v7, drawn <- v8, drops <- v9, notices <- v10, copies <- v11, slipped <- v12,
    stolen <- v13

SpeechBudget(edits, tests, modes, phone, claude, fails, toggles, launches) ==
  [edits |-> edits, tests |-> tests, modes |-> modes, phone |-> phone, claude |-> claude,
   fails |-> fails, toggles |-> toggles, launches |-> launches]

SpeechAddresses == {[origin |-> "A", form |-> "v1", engine |-> "openai"],
                    [origin |-> "B", form |-> "plain", engine |-> "cloudflare"]}

\* Two servers, edited while saves fail, and once more after one that failed halfway; the
\* section opened and shut; the mode's switches.
SpeechBudgets ==
  {SpeechBudget(3, 1, 0, 0, 0, 1, 1, 1), SpeechBudget(4, 1, 0, 0, 0, 1, 1, 0),
   SpeechBudget(2, 2, 0, 0, 0, 0, 2, 0), SpeechBudget(0, 0, 2, 1, 1, 1, 2, 0),
   SpeechBudget(3, 0, 1, 0, 0, 1, 1, 0)}

Speech ==
  INSTANCE SpeechSettings WITH
    Budgets <- ServerBudgets,
    file <- v1, key <- v2, secretary <- v3, claude <- v4, page <- v5, asked <- v6,
    answers <- v7, test <- v8, sent <- v9, lost <- v10, ahead <- v11, left <- v12

AudioBudget(events, modes, timeouts, drops, pairings, taps) ==
  [events |-> events, modes |-> modes, timeouts |-> timeouts, drops |-> drops,
   pairings |-> pairings, taps |-> taps]

Audio ==
  INSTANCE BriefAudio WITH
    Budgets <- {AudioBudget(2, 0, 1, 0, 0, 1), AudioBudget(1, 2, 1, 0, 0, 1),
                AudioBudget(1, 2, 0, 1, 0, 1), AudioBudget(1, 0, 0, 0, 1, 2),
                AudioBudget(2, 0, 0, 1, 0, 1)},
    secretary <- v1, jobs <- v2, mac <- v3, wire <- v4, requests <- v5, phone <- v6,
    heard <- v7, left <- v8

JumpBudget(backend, turns, works, others, flips, resizes, removals) ==
  [backend |-> backend, turns |-> turns, works |-> works, others |-> others, flips |-> flips,
   resizes |-> resizes, removals |-> removals]

\* Turns that end with words, with a tool, and with none.
Jumps ==
  INSTANCE ReplyJump WITH
    Transcripts <- {<<"tool", "assistant", "assistant">>, <<"assistant", "tool">>, <<"tool">>},
    Budgets <- {JumpBudget("claude", 2, 1, 0, 2, 0, 0), JumpBudget("claude", 1, 2, 0, 1, 1, 1),
                JumpBudget("opencode", 2, 1, 0, 1, 0, 0), JumpBudget("opencode", 1, 1, 1, 2, 1, 0)},
    terminal <- v1, turn <- v2, tui <- v3, replyJumps <- v4, pending <- v5, jumps <- v6,
    acts <- v7, owed <- v8, deed <- v9, left <- v10

ShellBudget(exits, moves, stops, removals, windows) ==
  [exits |-> exits, moves |-> moves, stops |-> stops, removals |-> removals, windows |-> windows]

Shells ==
  INSTANCE ToolboxShells WITH
    Contacts <- {1, 2}, None <- 0,
    Budgets <- {ShellBudget(2, 4, 1, 0, 0), ShellBudget(1, 4, 0, 1, 1), ShellBudget(2, 4, 0, 1, 0)},
    instances <- v1, shells <- v2, started <- v3, page <- v4, asked <- v5, ends <- v6,
    unheard <- v7, left <- v8

NewBudget(opens, types, clicks, others) ==
  [opens |-> opens, types |-> types, clicks |-> clicks, others |-> others]

\* One folder is there, and a clone's may be made, beside it or at home.
New ==
  INSTANCE NewInstance WITH
    Folders <- {1, 2}, None <- 0, Home <- 3, DefaultParent <- 2,
    Disks <- {[f \in 1..3 |-> IF f = 2 THEN "directory" ELSE "missing"]},
    Budgets <- {NewBudget(1, 3, 1, 0), NewBudget(1, 2, 1, 1), NewBudget(2, 2, 2, 0),
                NewBudget(1, 2, 3, 0)},
    disk <- v1, sessions <- v2, clone <- v3, page <- v4, run <- v5, calls <- v6,
    touched <- v7, left <- v8

-----------------------------------------------------------------------------

\* What some parts are without: a request, a folder, a file or an event that is called what
\* stands for none of them; names that are not sequences; and a server at no
\* address.  The contact shown at the start is one.
PartsAssumption ==
  /\ Clone!Idle \notin Requests /\ Clone!Other \notin Requests /\ Clone!Nothing \notin Paths
  /\ \A name \in Names : name \in Seq({name[i] : i \in DOMAIN name})
  /\ "other" \notin Drops
  /\ MAX_NUMBER \in Nat \ {0}
  /\ MaxEvents \in Nat /\ MaxTurns \in Nat \ {0}
  /\ Nil \notin Pushes!Seqs /\ Nil \notin Pushes!Bodies
  /\ Nil \notin [seq : Pushes!Seqs, status : {"preparing", "ready", "failed"}]
  /\ \A url \in Addresses :
       /\ url = [origin |-> url.origin, form |-> url.form, engine |-> url.engine]
       /\ url.origin = Nowhere => Speech!NoEngine(url)
  /\ ShownFirst \in Roster /\ MAX_NOTICES \in Nat
ASSUME PartsAssumption

Init ==
  \/ part = "attention" /\ Attention!Init
  \/ part = "keys" /\ Keys!Init /\ Empty5
  \/ part = "push" /\ Push!Init
  \/ part = "bar" /\ Bar!Init /\ Empty7
  \/ part = "screen" /\ Screen!Init /\ Empty5
  \/ part = "pairing" /\ Pairings!Init /\ Empty14
  \/ part = "socket" /\ Socket!Init /\ Empty6
  \/ part = "slot" /\ Slots!Init /\ Empty5
  \/ part = "pushes" /\ Pushes!Init /\ Empty11
  \/ part = "clone" /\ Clone!Init /\ Empty8
  \/ part = "drop" /\ Drop!Init /\ Empty6
  \/ part = "diff" /\ Diff!Init /\ Empty6
  \/ part = "badges" /\ Badges!Init /\ Empty6
  \/ part = "dropped" /\ DropBox!Init /\ Empty13
  \/ part = "speech" /\ Speech!Init /\ Empty12
  \/ part = "audio" /\ Audio!Init /\ Empty8
  \/ part = "jumps" /\ Jumps!Init /\ Empty10
  \/ part = "tailnet" /\ Tailscale!Init /\ Empty9
  \/ part = "config" /\ Config!Init /\ Empty4
  \/ part = "reports" /\ Reports!Init /\ Empty13
  \/ part = "opens" /\ Opens!Init /\ Empty8
  \/ part = "shells" /\ Shells!Init /\ Empty8
  \/ part = "new" /\ New!Init /\ Empty8

Next ==
  \/ part = "attention" /\ Attention!Next /\ UNCHANGED Past21
  \/ part = "keys" /\ Keys!press /\ UNCHANGED Past5
  \/ part = "push" /\ Push!Next /\ UNCHANGED Past21
  \/ part = "bar" /\ Bar!Next /\ UNCHANGED Past7
  \/ part = "screen" /\ Screen!Next /\ UNCHANGED Past5
  \/ part = "pairing" /\ Pairings!Next /\ UNCHANGED Past14
  \/ part = "socket" /\ Socket!Next /\ UNCHANGED Past6
  \/ part = "slot" /\ Slots!Next /\ UNCHANGED Past5
  \/ part = "pushes" /\ Pushes!Next /\ UNCHANGED Past11
  \/ part = "clone" /\ Clone!Next /\ UNCHANGED Past8
  \/ part = "drop" /\ Drop!Next /\ UNCHANGED Past6
  \/ part = "diff" /\ Diff!Next /\ UNCHANGED Past6
  \/ part = "badges" /\ Badges!Next /\ UNCHANGED Past6
  \/ part = "dropped" /\ DropBox!Next /\ UNCHANGED Past13
  \/ part = "speech" /\ Speech!Next /\ UNCHANGED Past12
  \/ part = "audio" /\ Audio!Next /\ UNCHANGED Past8
  \/ part = "jumps" /\ Jumps!Next /\ UNCHANGED Past10
  \/ part = "tailnet" /\ Tailscale!Next /\ UNCHANGED Past9
  \/ part = "config" /\ Config!Next /\ UNCHANGED Past4
  \/ part = "reports" /\ Reports!Next /\ UNCHANGED Past13
  \/ part = "opens" /\ Opens!Next /\ UNCHANGED Past8
  \/ part = "shells" /\ Shells!Next /\ UNCHANGED Past8
  \/ part = "new" /\ New!Next /\ UNCHANGED Past8

Spec == Init /\ [][Next]_<<v1, v2, v3, v4, v5, Past5>>
-----------------------------------------------------------------------------
(* Properties: of each part, what its module says of it *)

\* Each thing is said once, and the last thing said is true of what is open (OpencodeAttention:
\* close, restateNewest, turnEnded, finishedBySync); a contact that has caught up knows what is
\* open and has said what finished, unless a request failed (`misread`) or events of a broken
\* stream were still held when the latest re-sync began (`crossed`), and is about what its
\* terminal shows (adoptIfRoot, leaveHome, applySnapshot).
AttentionCatchesUp ==
  part = "attention" => /\ Attention!BlockedIsSaid /\ Attention!SaidOnce
                        /\ Attention!AdoptionFollows /\ Attention!DialogsTrue
                        /\ Attention!FinishSaid

\* Phone and Mac agree on the push subscription once nothing is on its way, and what the
\* Mac acked is on file (startPush, setPushSubscription).
SubscriptionsAgree == part = "push" => Push!SubscriptionsAgree /\ Push!RecordIsTrue

\* A bar plays what it shows and loses nothing that waits, and what it says is read was
\* heard, got or opened (SecretaryBar.tsx, bar.ts, markSeenAt).
BarIsTrue == part = "bar" => Bar!BarIsTrue /\ Bar!ReadAsMeant

\* What the phone's screen shows of a contact is what the Mac has, after whatever came and
\* went of its link and its pages (PhoneScreen: sendInstances, openSession, broadcastExit);
\* and it dials whenever it should be linked, its timers and its word for the link those of
\* its socket (transport.ts).
ScreenIsTrue ==
  /\ part = "screen" => Screen!ScreenIsTrue
  /\ part = "socket" => Socket!LinkIsTrue

\* A pairing is taken away only when the builder asked, or nobody had used it; and nobody
\* it was taken from is served (createPairing, revokeUnusedDevice, handleHello).
PairingsHold == part = "pairing" => Pairings!PairingsHold

\* A tap on a phone answers the dialog it was made on, as it was meant, or nothing
\* (DialogSlot, useDraft, answerDialog); and the keys of an answer leave in the CLI's dialog
\* what the choice meant, none left over (checkChoice, checkAnswers).
AnswersHold ==
  /\ part = "slot" => Slots!AnswersHold
  /\ part = "keys" => Keys!TakenAsMeant

\* A push goes out for every event that still waits, once, and says what it is about
\* (pushEvent, waitForBrief, todayLine).
PushesFollowEvents == part = "pushes" => Pushes!PushesFollowEvents

\* What other programs, or other requests, put on the disk is neither removed nor replaced
\* (cloneRepo's removeOwnFolder, copyIntoFolder's claimName).
FilesKept ==
  /\ part = "clone" => Clone!FoldersKept
  /\ part = "drop" => Drop!NothingReplaced

\* What the agent is asked about a line is what the builder saw of it (DiffWindow's ask,
\* referenceFor, composeSeed).
AskedAsShown == part = "diff" => Diff!AskedAsShown

\* A badge counts the events nobody has read, at the desk or on a phone (useNotifications,
\* attentionPolicy, markSeen).
BadgesAreOwed == part = "badges" => Badges!BadgesAreOwed

\* A drop's files are copied once, to the project they were dropped on, and what is said of it
\* became of it; and it gives the keys back, while none was let go in the moment before a
\* dialog's state was set, `slipped` (App.tsx: handleFileDrop, copyDrop; dropFlow.ts).
DropsEndWell == part = "dropped" => DropBox!DropsEndWell

\* A speech server's key goes to no other server, whatever failed; and the section of the
\* settings says what is so, unless a save left the file unreadable (`lost`) or, for a test's
\* result, one that failed had moved the address (`ahead`) (setSpeechServer;
\* SecretarySection.tsx).
KeyStaysHome == part = "speech" => Speech!KeyStaysHome

\* A phone hears the brief it tapped, and no CLI outlives its job (broadcastSecretary,
\* audioUrl, serveAudio; runJsonPrompt).
HeardAsTapped == part = "audio" => Audio!HeardAsTapped

\* A finished turn is shown in its terminal, and the builder who works there is left alone
\* (TerminalView: showReplyOnFinish, cancelReplyJump, refit).
JumpsAreWelcome == part = "jumps" => Jumps!JumpsAreWelcome

\* The Phone section's checks are what Tailscale says, and setting up HTTPS replaces nothing
\* (ChecksCache, setUpHttps).
TailnetHolds == part = "tailnet" => Tailscale!TailnetHolds

\* What a session is started with finds this launch of Multi-Code, which is told what the
\* terminal shows and takes nothing for another process's (alert-server, opencodePlugin.ts);
\* and the builder's own OpenCode settings stay (opencodeCliConfig).
ReportsHold ==
  /\ part = "reports" => Reports!ReportsHold
  /\ part = "config" => Config!BuildersSettingsKept

\* The phone's app opens without the Mac, each file as the worker in charge last kept it and
\* no older than that worker (sw.ts).
AppOpens == part = "opens" => Opens!AppOpens

\* A session starts where the builder meant it, and the dialog says what is so
\* (NewInstanceDialog); and a drawn terminal section has its shell, or says it ended and can
\* be given another, save that of a shell that ended while no section was drawn
\* (TerminalSection, ShellManager).
StartedAsMeant ==
  /\ part = "new" => New!StartedAsMeant
  /\ part = "shells" => Shells!ShellsOffered

\* The same without the exception: a shell that exits is always said to have (toolbox's PRD,
\* "section shows "Terminal exited" with a Restart action").
ShellEndsSaid == part = "shells" => Shells!EndsAreSaid
=============================================================================
