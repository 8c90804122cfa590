------------------------------ MODULE ReplyJump ------------------------------
(***************************************************************************)
(* TerminalView.tsx: a finished turn is shown in its terminal from the first *)
(* line of its conclusion (shared/replyStart.ts says which), Claude Code's in *)
(* xterm's scrollback, OpenCode's by two of OpenCode's own commands.  A jump  *)
(* waits: for the transcript to be read, for the output to settle, for the    *)
(* terminal to show.  Meanwhile the builder works in the terminal, the next   *)
(* turn starts, another one ends.                                             *)
(*                                                                           *)
(* A turn is what its transcript holds, and whether its conclusion fits the   *)
(* screen at the bottom; a needle is the number of its turn.  OpenCode, which *)
(* is not of this repository, hides "Jump to latest" at once and scrolls      *)
(* later; it has done both by the time its output has settled.                *)
(***************************************************************************)
EXTENDS Naturals, Sequences, FiniteSets, SequencesExt

CONSTANTS Transcripts,   \* what a turn can hold: sequences of "tool" and "assistant"
          Budgets        \* [backend, turns, works, others, flips, resizes]

VARIABLES terminal,   \* [there, shown, due: a refit is, view]
          turn,       \* the latest: [no, holds, short], the next's phase, and whether it was crossed
          tui,        \* OpenCode: [todo: commands on their way, label, late: a scroll to come]
          replyJumps, \* [seq, latest], 0 for none
          pending,    \* pendingReplyJumps: [needle, born], needle 0 for none
          jumps,      \* running: [job, needle, born, ended: shownAsItEnded, at]
          acts,       \* how often the builder worked here or a turn started
          owed,       \* the last turn to show: [turn, born, dealt, ended]
          deed,       \* what the last jump did: [born, acts, ended, from, how]
          left
vars == <<terminal, turn, tui, replyJumps, pending, jumps, acts, owed, deed, left>>

Bottom == [at |-> "bottom", turn |-> 0]
Up == [at |-> "up", turn |-> 0]          \* where the builder scrolled
Other == [at |-> "other", turn |-> 0]    \* a message that is not the conclusion
Reply(n) == [at |-> "reply", turn |-> n]
NoJump == [needle |-> 0, born |-> 0]
NoDeed == [born |-> 0, acts |-> 0, ended |-> FALSE, from |-> Bottom, how |-> "none"]
Nothing == [turn |-> 0, born |-> 0, dealt |-> FALSE, ended |-> FALSE]
opencode == left.backend = "opencode"

Spend(what) == left[what] > 0 /\ left' = [left EXCEPT ![what] = @ - 1]

Init ==
  /\ terminal \in [there : {TRUE}, shown : BOOLEAN, due : {FALSE}, view : {Bottom}]
  /\ turn = [no |-> 0, holds |-> <<>>, short |-> FALSE, phase |-> "idle", crossed |-> FALSE]
  /\ tui = [todo |-> <<>>, label |-> FALSE, late |-> FALSE]
  /\ replyJumps = [seq |-> 0, latest |-> 0]
  /\ pending = NoJump /\ jumps = {} /\ acts = 0
  /\ owed = Nothing /\ deed = NoDeed
  /\ left \in Budgets

-----------------------------------------------------------------------------
(* replyStart.ts *)

\* Where in the transcript the conclusion is: the first words after the last tool call,
\* or the last words before it; 0 when nothing was said.
replyConclusion(holds) ==
  LET tools == {i \in DOMAIN holds : holds[i] = "tool"}
      said == {i \in DOMAIN holds : holds[i] = "assistant"}
      after == {i \in said : \A t \in tools : t < i}
  IN IF after # {} THEN CHOOSE i \in after : \A k \in after : i <= k
     ELSE IF said # {} THEN CHOOSE i \in said : \A k \in said : k <= i
     ELSE 0

replyOnScreen(needle) ==
  \/ terminal.view = Reply(needle)
  \/ (terminal.view = Bottom /\ turn.no = needle /\ turn.short)

awayFromLatest == tui.label
settled == tui.todo = <<>> /\ ~tui.late

-----------------------------------------------------------------------------
(* A jump's number *)

Claimed == [seq |-> replyJumps.seq + 1, latest |-> replyJumps.seq + 1]
current(j) == replyJumps.latest = j.job
Jump(needle, born, ended, at) ==
  [job |-> replyJumps.seq + 1, needle |-> needle, born |-> born, ended |-> ended, at |-> at]

(* Slip: what waits for the terminal to show is forgotten about. *)
CancelsRunning ==
  replyJumps' = Claimed /\ acts' = acts + 1 /\ UNCHANGED pending

\* The builder is at work in the terminal, or the next turn started.
cancelReplyJump ==
  replyJumps' = Claimed /\ pending' = NoJump /\ acts' = acts + 1

-----------------------------------------------------------------------------
(* The builder, and the turns *)

\* A key, a click or the wheel in the terminal.
builderAtWork(how) ==
  /\ terminal.there /\ terminal.shown /\ Spend("works")
  /\ cancelReplyJump
  /\ terminal' = [terminal EXCEPT !.view = CASE how = "wheelUp" -> Up
                                             [] how = "wheelDown" -> Bottom
                                             [] how = "key" /\ ~opencode -> Bottom
                                             [] OTHER -> @]
  /\ tui' = [tui EXCEPT !.label = opencode /\ terminal'.view # Bottom]
  /\ UNCHANGED <<turn, jumps, owed, deed>>

\* A message from the compose box.
handleSend ==
  /\ terminal.there /\ terminal.shown /\ Spend("works")
  /\ cancelReplyJump
  /\ terminal' = [terminal EXCEPT !.view = IF opencode THEN @ ELSE Bottom]
  /\ UNCHANGED <<turn, tui, jumps, owed, deed>>

\* A prompt is submitted, from the phone say, after the keys that went before it; it takes
\* OpenCode's view down, Claude Code's stays where it is left.
submits ==
  /\ terminal.there /\ turn.phase = "idle" /\ settled /\ left.turns > 0
  /\ turn' = [turn EXCEPT !.phase = "sent", !.crossed = FALSE]
  /\ terminal' = [terminal EXCEPT !.view = IF opencode THEN Bottom ELSE @]
  /\ tui' = [tui EXCEPT !.label = FALSE]
  /\ UNCHANGED <<replyJumps, pending, jumps, acts, owed, deed, left>>

\* The renderer hears of the turn.
onInstanceWorking ==
  /\ terminal.there /\ turn.phase = "sent"
  /\ turn' = [turn EXCEPT !.phase = "working"]
  /\ cancelReplyJump
  /\ UNCHANGED <<terminal, tui, jumps, owed, deed, left>>

\* The jump is claimed before the transcript is read.
showReplyOnFinish(needle) ==
  /\ replyJumps' = Claimed
  /\ jumps' = jumps \cup {Jump(needle, acts, FALSE, "read")}

\* Claude Code's words push the view no further than the bottom it is at; a turn takes
\* OpenCode longer than a key does.
onInstanceActivity(holds, short) ==
  /\ terminal.there /\ turn.phase = "working" /\ settled /\ Spend("turns")
  /\ turn' = [turn EXCEPT !.no = @ + 1, !.holds = holds, !.short = short, !.phase = "idle"]
  /\ LET needle == IF replyConclusion(holds) = 0 THEN 0 ELSE turn.no + 1
     IN /\ showReplyOnFinish(needle)
        /\ owed' = IF turn.crossed THEN Nothing
                   ELSE [Nothing EXCEPT !.turn = needle, !.born = acts]
  /\ UNCHANGED <<terminal, tui, pending, acts, deed>>

\* A session of OpenCode's that is not on screen finished: replySource has nothing for it,
\* and the jump of the one on screen, if it still runs, is no longer the latest.
otherActivity ==
  /\ terminal.there /\ opencode /\ Spend("others")
  /\ showReplyOnFinish(0)
  /\ owed' = Nothing
  /\ UNCHANGED <<terminal, turn, tui, pending, acts, deed>>

-----------------------------------------------------------------------------
(* A jump's steps *)

Goes(j, at) == jumps' = (jumps \ {j}) \cup {[j EXCEPT !.at = at]}
Ends(j) == jumps' = jumps \ {j}
Does(j, how) ==
  deed' = [born |-> j.born, acts |-> acts, ended |-> j.ended, from |-> terminal.view, how |-> how]
\* The jump had its chance: what the screen shows now is what it leaves.
Deals(j) ==
  owed' = IF current(j) /\ owed.turn = j.needle
          THEN [owed EXCEPT !.dealt = TRUE, !.ended = j.ended] ELSE owed
Waits(j) == pending' = [needle |-> j.needle, born |-> j.born]
press(command) == tui' = [tui EXCEPT !.todo = Append(@, command)]
readReplyConclusion(j) ==
  /\ j.at = "read"
  /\ CASE ~terminal.there \/ j.needle = 0 \/ ~current(j) -> Ends(j) /\ UNCHANGED pending
       [] terminal.there /\ j.needle # 0 /\ current(j) /\ ~terminal.shown -> Ends(j) /\ Waits(j)
       [] OTHER -> /\ jumps' = (jumps \ {j}) \cup {[j EXCEPT !.at = "settle", !.ended = TRUE]}
                   /\ UNCHANGED pending
  /\ UNCHANGED <<terminal, turn, tui, replyJumps, acts, owed, deed, left>>

\* Only in the scrollback, and only when the row is not on screen already.
scrollToReplyStart(j) ==
  IF replyOnScreen(j.needle) THEN UNCHANGED <<terminal, deed>>
  ELSE terminal' = [terminal EXCEPT !.view = Reply(j.needle)] /\ Does(j, "scroll")

isAtBottom == terminal.view = Bottom
isParked == terminal.view.at = "reply"

showScrollbackReply(j) ==
  /\ j.at = "settle" /\ ~opencode
  /\ Ends(j)
  /\ CASE ~current(j) -> UNCHANGED <<terminal, pending, owed, deed>>
       [] current(j) /\ ~terminal.shown -> Waits(j) /\ UNCHANGED <<terminal, owed, deed>>
       [] OTHER ->
            /\ IF ~j.ended \/ isAtBottom \/ isParked
               THEN scrollToReplyStart(j) ELSE UNCHANGED <<terminal, deed>>
            /\ Deals(j)
            /\ UNCHANGED pending
  /\ UNCHANGED <<turn, tui, replyJumps, acts, left>>

\* Each look at OpenCode's screen, once its output is quiet or shows what is waited for.
showOpencodeReply(j) ==
  /\ opencode
  /\ CASE j.at = "settle" /\ settled ->
            IF ~current(j) \/ replyOnScreen(j.needle) \/ (awayFromLatest /\ j.ended)
            THEN Ends(j) /\ Deals(j) /\ UNCHANGED <<tui, deed>>
            ELSE /\ Goes(j, IF awayFromLatest THEN "latest" ELSE "previous")
                 /\ press(IF awayFromLatest THEN "last" ELSE "previous")
                 /\ Does(j, "press")
                 /\ UNCHANGED owed
       [] j.at = "latest" /\ ~awayFromLatest -> Goes(j, "again") /\ UNCHANGED <<tui, deed, owed>>
       [] j.at = "again" /\ settled ->
            IF ~current(j) \/ replyOnScreen(j.needle)
            THEN Ends(j) /\ Deals(j) /\ UNCHANGED <<tui, deed>>
            ELSE /\ Goes(j, "previous") /\ press("previous") /\ Does(j, "press")
                 /\ UNCHANGED owed
       [] j.at = "previous" ->
            /\ Ends(j) /\ Deals(j)
            /\ IF replyOnScreen(j.needle) \/ ~current(j) THEN UNCHANGED <<tui, deed>>
               ELSE press("last") /\ Does(j, "return")
       [] OTHER -> FALSE
  /\ turn' = [turn EXCEPT !.crossed = @ \/ (tui' # tui /\ turn.phase = "sent")]
  /\ UNCHANGED <<terminal, replyJumps, pending, acts, left>>

\* OpenCode: "last" hides the label at once and scrolls later; "previous" goes, from the
\* bottom, to the last message with words.
tuiActs ==
  /\ \/ /\ tui.late
        /\ tui' = [tui EXCEPT !.late = FALSE, !.label = FALSE]
        /\ terminal' = [terminal EXCEPT !.view = Bottom]
     \/ /\ tui.todo # <<>> /\ Head(tui.todo) = "last"
        /\ tui' = [todo |-> Tail(tui.todo), label |-> FALSE, late |-> TRUE]
        /\ UNCHANGED terminal
     \/ /\ tui.todo # <<>> /\ Head(tui.todo) = "previous"
        /\ tui' = [tui EXCEPT !.todo = Tail(@), !.label = TRUE]
        /\ LET said == {i \in DOMAIN turn.holds : turn.holds[i] = "assistant"}
           IN terminal' = [terminal EXCEPT !.view =
                             IF @ = Bottom /\ said # {} /\ turn.phase = "idle"
                                /\ replyConclusion(turn.holds) = Max(said)
                             THEN Reply(turn.no) ELSE Other]
  /\ UNCHANGED <<turn, replyJumps, pending, jumps, acts, owed, deed, left>>

-----------------------------------------------------------------------------
(* The terminal comes into sight and goes *)

\* Selected or unfolded, or neither any longer.
flips ==
  /\ terminal.there /\ Spend("flips")
  /\ terminal' = [terminal EXCEPT !.shown = ~@, !.due = ~terminal.shown]
  /\ UNCHANGED <<turn, tui, replyJumps, pending, jumps, acts, owed, deed>>

layoutResize ==
  /\ terminal.there /\ ~terminal.due /\ Spend("resizes")
  /\ terminal' = [terminal EXCEPT !.due = TRUE]
  /\ UNCHANGED <<turn, tui, replyJumps, pending, jumps, acts, owed, deed>>

\* A turn that finished out of sight.
refit ==
  /\ terminal.there /\ terminal.due
  /\ terminal' = [terminal EXCEPT !.due = FALSE]
  /\ IF terminal.shown /\ pending.needle # 0
     THEN /\ pending' = NoJump
          /\ replyJumps' = Claimed
          /\ jumps' = jumps \cup {Jump(pending.needle, pending.born, FALSE, "settle")}
     ELSE UNCHANGED <<pending, replyJumps, jumps>>
  /\ UNCHANGED <<turn, tui, acts, owed, deed, left>>

cleanupTerminal ==
  /\ terminal.there /\ Spend("removals")
  /\ terminal' = [terminal EXCEPT !.there = FALSE, !.shown = FALSE, !.due = FALSE]
  /\ pending' = NoJump
  /\ replyJumps' = [replyJumps EXCEPT !.latest = 0]
  /\ owed' = Nothing
  /\ acts' = acts + 1
  /\ UNCHANGED <<turn, tui, jumps, deed>>

Next ==
  \/ \E how \in {"key", "click", "wheelUp", "wheelDown"} : builderAtWork(how)
  \/ handleSend \/ submits \/ onInstanceWorking \/ otherActivity
  \/ \E holds \in Transcripts, short \in BOOLEAN : onInstanceActivity(holds, short)
  \/ \E j \in jumps : readReplyConclusion(j) \/ showScrollbackReply(j) \/ showOpencodeReply(j)
  \/ tuiActs \/ flips \/ layoutResize \/ refit \/ cleanupTerminal

Spec == Init /\ [][Next]_vars
-----------------------------------------------------------------------------

\* No jump moves the view once the builder has worked in the terminal, or the next turn
\* has started, since the turn it shows ended; and one that runs as its turn ends moves it
\* only from the bottom or from where the last one left it (cancelReplyJump, current,
\* showScrollbackReply's isParked, awayFromLatest).
Welcome ==
  /\ deed.born = deed.acts
  /\ deed.ended /\ deed.how # "return" => deed.from.at \in {"bottom", "reply"}

\* With nothing running, a turn that ended with words since is shown, or waits for its
\* terminal to show; only the builder's own scrolling of a terminal in sight keeps it from
\* the screen, and OpenCode's view is never left on another message (refit, pendingReplyJumps,
\* showOpencodeReply's way back).  A key that crosses the next prompt leaves OpenCode's view
\* away from its end, as the builder's own scrolling would.
FinishShown ==
  LET quiet == jumps = {} /\ settled /\ ~terminal.due
  IN quiet /\ owed.turn # 0 /\ owed.born = acts =>
       /\ terminal.shown => owed.dealt
       /\ owed.dealt \/ pending.needle = owed.turn
       /\ owed.dealt => \/ replyOnScreen(owed.turn)
                        \/ (owed.ended /\ terminal.view = Up)
                        \/ (opencode /\ terminal.view = Bottom)

\* What a jump does is welcome, and what finished is shown.
JumpsAreWelcome == Welcome /\ FinishShown
=============================================================================
