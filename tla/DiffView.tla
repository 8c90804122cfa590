------------------------------ MODULE DiffView ------------------------------
(***************************************************************************)
(* From a contact's changed files to a question about them: the Git section *)
(* and its poll, the diff window, the lines selected in it, and the         *)
(* reference "Ask agent" puts into the compose box.  A file's change is the *)
(* sequence of its lines' marks; git prints it as hunks, the app parses it  *)
(* into rows.  Every answer of the main process may come late.              *)
(***************************************************************************)
EXTENDS Naturals, Sequences, FiniteSets, SequencesExt

CONSTANTS Contacts, First,        \* First is the one selected at the start
          Changes,      \* what a file's change may be: sequences of "=", "-" and "+", or Binary
          Context,      \* unchanged lines git prints about a change
          MaxShown, MaxTotal,     \* rows shown of a diff, and rows beyond which none are
          Budgets       \* bounds of each scenario: its files, and how often what may happen

VARIABLES disk,         \* contact -> side -> the change of its file on that side, <<>> for none
          desk,         \* the contact selected, whether it runs, and the Git section
          calls,        \* calls of the renderer on their way, and their answers
          win,          \* the diff window
          box,          \* the compose box
          left          \* what may still happen

vars == <<disk, desk, calls, win, box, left>>

Sides == {"unstaged", "staged", "untracked"}
Binary == <<"binary">>
None == <<>>

Spend(what) == left[what] > 0 /\ left' = [left EXCEPT ![what] = @ - 1]

---------------------------------------------------------------------------
(* git's output for a change, and the rows made of it.                     *)

Count(change, k, marks) == Cardinality({j \in 1..k : change[j] \in marks})
Printed(change, k) ==
  \E j \in DOMAIN change : change[j] # "=" /\ j <= k + Context /\ k <= j + Context

Line(mark, old, new) == [mark |-> mark, old |-> old, new |-> new]
GitOutput(change) ==
  LET Of(k) == (IF k > 1 /\ Printed(change, k - 1) THEN <<>>
                ELSE <<Line("@@", Count(change, k - 1, {"=", "-"}) + 1,
                                  Count(change, k - 1, {"=", "+"}) + 1)>>)
               \o <<Line(change[k], 0, 0)>>
  IN <<Line("diff", 0, 0)>>
     \o (IF change = Binary THEN <<Line("binary", 0, 0)>>
         ELSE FlattenSeq([k \in DOMAIN change |-> IF Printed(change, k) THEN Of(k) ELSE <<>>]))

\* A row's line numbers, 0 for a side it has none on.
Row(kind, old, new) == [kind |-> kind, old |-> old, new |-> new]

flush(p) ==
  LET At(s, i) == IF i \in DOMAIN s THEN s[i] ELSE 0
      n == Max({Len(p.dels), Len(p.adds)})
      Paired(i) == LET old == At(p.dels, i)
                       new == At(p.adds, i)
                   IN Row(IF new = 0 THEN "del" ELSE IF old = 0 THEN "add" ELSE "replace", old, new)
  IN [p EXCEPT !.rows = @ \o [i \in 1..n |-> Paired(i)], !.dels = <<>>, !.adds = <<>>]

Unparsed == [rows |-> <<>>, binary |-> FALSE, inHunk |-> FALSE, old |-> 0, new |-> 0,
             dels |-> <<>>, adds |-> <<>>]

parseLine(p, line) ==
  CASE line.mark = "diff" -> [flush(p) EXCEPT !.inHunk = FALSE]
    [] line.mark = "@@" -> [flush(p) EXCEPT !.inHunk = TRUE, !.old = line.old, !.new = line.new]
    [] line.mark = "binary" /\ ~p.inHunk -> [p EXCEPT !.binary = TRUE]
    [] line.mark = "=" /\ p.inHunk ->
         [flush(p) EXCEPT !.rows = Append(flush(p).rows, Row("context", p.old, p.new)),
                          !.old = @ + 1, !.new = @ + 1]
    [] line.mark = "-" /\ p.inHunk ->
         LET run == IF p.adds # <<>> THEN flush(p) ELSE p
         IN [run EXCEPT !.dels = Append(@, p.old), !.old = @ + 1]
    [] line.mark = "+" /\ p.inHunk -> [p EXCEPT !.adds = Append(@, p.new), !.new = @ + 1]
    [] OTHER -> p

parseUnifiedDiff(lines) == flush(FoldLeft(parseLine, Unparsed, lines))

rowsForNewFile(change) == [i \in DOMAIN change |-> Row("add", 0, i)]

Failed(reason) == [ok |-> FALSE, reason |-> reason, rows |-> <<>>]
applyRowLimits(rows) ==
  IF Len(rows) > MaxTotal THEN Failed("too-large")
  ELSE [ok |-> TRUE, reason |-> "",
        rows |-> IF Len(rows) > MaxShown THEN SubSeq(rows, 1, MaxShown) ELSE rows]

getFileDiff(side, change) ==
  LET parsed == parseUnifiedDiff(GitOutput(change))
      rows == IF side = "untracked" THEN rowsForNewFile(change) ELSE parsed.rows
  IN IF change = <<>> THEN Failed(IF side = "untracked" THEN "not-found" ELSE "no-changes")
     ELSE IF change = Binary THEN Failed("binary")
     ELSE IF rows = <<>> THEN Failed("no-changes")
     ELSE applyRowLimits(rows)

---------------------------------------------------------------------------
(* The reference for a range of selected rows: lines of the new version,    *)
(* or the nearest one when every selected line was removed.                *)

nearestNewLine(rows, lo, hi) ==
  LET before == {i \in 1..(lo - 1) : rows[i].new # 0}
      after == {i \in (hi + 1)..Len(rows) : rows[i].new # 0}
  IN IF before = {} /\ after = {} THEN 0
     ELSE IF after = {} THEN rows[Max(before)].new
     ELSE IF before = {} THEN rows[Min(after)].new
     ELSE IF lo - Max(before) <= Min(after) - hi THEN rows[Max(before)].new
     ELSE rows[Min(after)].new

refForRange(rows, lo, hi) ==
  LET new == {rows[i].new : i \in lo..hi} \ {0}
      near == nearestNewLine(rows, lo, hi)
  IN IF new # {} THEN [first |-> Min(new), last |-> Max(new), fellBack |-> FALSE]
     ELSE [first |-> near, last |-> near, fellBack |-> TRUE]

---------------------------------------------------------------------------
(* What is on the desk.                                                    *)

NoDiff == [ok |-> FALSE, reason |-> "", rows |-> <<>>, of |-> None]
Closed == [target |-> "", diff |-> NoDiff, selection |-> <<>>, drag |-> FALSE]
NoBox == [open |-> FALSE, gen |-> 0, draft |-> <<>>, images |-> {}, seed |-> None, asked |-> 0,
          since |-> 0, pasted |-> 0, saved |-> {}, sent |-> {}, late |-> {}]

Init ==
  /\ left \in Budgets
  /\ disk = left.disk
  /\ desk \in [selected : {First}, running : {TRUE}, active : {FALSE}, status : {None},
               run : {1}, shown : {1}]
  /\ calls = {}
  /\ win = Closed
  /\ box = NoBox

Mounted == box.open /\ desk.running
Call(type, run, c, side) == [type |-> type, run |-> run, contact |-> c, side |-> side, answer |-> None]

\* A file of a project changes: the agent works, the builder stages or edits.
Edit ==
  /\ Spend("edits")
  /\ \E c \in Contacts, side \in Sides, change \in Changes \cup {<<>>} :
       /\ disk[c][side] # change
       /\ side = "untracked" /\ change # Binary => \A k \in DOMAIN change : change[k] = "+"
       /\ disk' = [disk EXCEPT ![c][side] = change]
  /\ UNCHANGED <<desk, calls, win, box>>

\* The Git section's effect: a fetch at once, and no earlier answer is listened to.
Watch(d) ==
  /\ desk' = [d EXCEPT !.run = @ + 1]
  /\ calls' = IF d.active THEN calls \cup {Call("status", d.run + 1, d.selected, "")} ELSE calls

\* The box is unmounted: its draft goes, and of its images those that were not sent.
Unmounted(b) == [b EXCEPT !.saved = @ \ (b.images \ b.sent), !.draft = <<>>, !.images = {}]

\* It is mounted, and its effect appends the reference that waits, whenever it was asked for.
MountedBox(b) == [b EXCEPT !.open = TRUE, !.gen = @ + 1, !.draft = b.seed, !.since = b.asked]

\* Another contact: the section looks again, and window, box and reference go.
Select ==
  /\ Spend("moves")
  /\ \E c \in Contacts \ {desk.selected} : Watch([desk EXCEPT !.selected = c])
  /\ win' = Closed
  /\ box' = [Unmounted(box) EXCEPT !.open = FALSE, !.seed = None]
  /\ UNCHANGED disk

\* The section of the toolbox is unfolded or folded away.
ToggleGit ==
  /\ Spend("moves")
  /\ Watch([desk EXCEPT !.active = ~@])
  /\ UNCHANGED <<disk, win, box>>

Poll ==
  /\ desk.active /\ Spend("polls")
  /\ calls' = calls \cup {Call("status", desk.run, desk.selected, "")}
  /\ UNCHANGED <<disk, desk, win, box>>

Replaced(call, answer) == (calls \ {call}) \cup {[call EXCEPT !.answer = <<answer>>]}

parsePorcelain(c) == {side \in Sides : disk[c][side] # <<>>}

\* The main process runs git status, or it fails and there is no repository to speak of.
GetGitStatus ==
  /\ \E call \in calls :
       /\ call.type = "status" /\ call.answer = None
       /\ \E files \in {parsePorcelain(call.contact), {}} :
            calls' = Replaced(call, [of |-> call.contact, files |-> files])
  /\ UNCHANGED <<disk, desk, win, box, left>>

StatusShown ==
  /\ \E call \in calls :
       /\ call.type = "status" /\ call.answer # None
       /\ calls' = calls \ {call}
       /\ desk' = IF call.run = desk.run /\ desk.active
                    THEN [desk EXCEPT !.status = call.answer] ELSE desk
  /\ UNCHANGED <<disk, win, box, left>>

FileRows == IF desk.active /\ desk.status # None THEN desk.status[1].files ELSE {}

\* A row's View; the same file again changes nothing, the window's effect does not run.
View ==
  /\ Spend("views")
  /\ \E side \in FileRows :
       IF win.target = side THEN UNCHANGED <<desk, calls, win>>
       ELSE /\ win' = [Closed EXCEPT !.target = side]
            /\ desk' = [desk EXCEPT !.shown = @ + 1]
            /\ calls' = calls \cup {Call("diff", desk.shown + 1, desk.selected, side)}
  /\ UNCHANGED <<disk, box>>

CloseDiff ==
  /\ win.target # "" /\ Spend("moves")
  /\ win' = Closed
  /\ UNCHANGED <<disk, desk, calls, box>>

GetFileDiff ==
  /\ \E call \in calls :
       /\ call.type = "diff" /\ call.answer = None
       /\ \E diff \in {getFileDiff(call.side, disk[call.contact][call.side]), Failed("failed")} :
            calls' = Replaced(call, diff @@ [of |-> <<call.contact, call.side,
                                                      disk[call.contact][call.side]>>])
  /\ UNCHANGED <<disk, desk, win, box, left>>

(* Slip: any window takes any answer. *)
OpenWindow(call) == win.target # ""

\* The window the call was made for is still there and shows that file.
StillAsked(call) ==
  win.target = call.side /\ call.contact = desk.selected /\ call.run = desk.shown

DiffShown ==
  /\ \E call \in calls :
       /\ call.type = "diff" /\ call.answer # None
       /\ calls' = calls \ {call}
       /\ win' = IF StillAsked(call) THEN [win EXCEPT !.diff = call.answer[1]] ELSE win
  /\ UNCHANGED <<disk, desk, box, left>>

---------------------------------------------------------------------------
(* Selecting rows, and asking about them.                                  *)

Click ==
  /\ Spend("clicks")
  /\ \E i \in DOMAIN win.diff.rows :
       win' = [win EXCEPT !.selection = IF @ = <<i, i>> THEN <<>> ELSE <<i, i>>, !.drag = TRUE]
  /\ UNCHANGED <<disk, desk, calls, box>>

ShiftClick ==
  /\ Spend("clicks")
  /\ \E i \in DOMAIN win.diff.rows :
       win' = [win EXCEPT !.selection = IF @ = <<>> THEN <<i, i>> ELSE <<@[1], i>>]
  /\ UNCHANGED <<disk, desk, calls, box>>

Drag ==
  /\ win.drag /\ Spend("clicks")
  /\ \E i \in DOMAIN win.diff.rows :
       win' = [win EXCEPT !.selection = IF @ = <<>> THEN @ ELSE <<@[1], i>>]
  /\ UNCHANGED <<disk, desk, calls, box>>

MouseUp == win.drag /\ win' = [win EXCEPT !.drag = FALSE] /\ UNCHANGED <<disk, desk, calls, box, left>>

Lo == Min({win.selection[1], win.selection[2]})
Hi == Max({win.selection[1], win.selection[2]})

\* "Ask agent": the reference opens the box, or joins the draft in it.
AskAgent ==
  /\ win.selection # <<>> /\ desk.running /\ Spend("asks")
  /\ LET seed == [nonce |-> box.asked + 1, on |-> desk.selected, of |-> win.diff.of,
                  ref |-> refForRange(win.diff.rows, Lo, Hi), rows |-> win.diff.rows,
                  lo |-> Lo, hi |-> Hi]
         b == [box EXCEPT !.seed = <<seed>>, !.asked = @ + 1]
     IN box' = IF Mounted THEN [b EXCEPT !.draft = Append(@, seed)]
               ELSE [MountedBox(b) EXCEPT !.since = @ - 1]
  /\ UNCHANGED <<disk, desk, calls, win>>

\* Cmd+L.
OpenBox ==
  /\ desk.running /\ ~box.open /\ Spend("opens")
  /\ box' = MountedBox(box)
  /\ UNCHANGED <<disk, desk, calls, win>>

\* Escape in the box.
CloseBox ==
  /\ Mounted
  /\ box' = [Unmounted(box) EXCEPT !.open = FALSE]
  /\ UNCHANGED <<disk, desk, calls, win, left>>

Send ==
  /\ Mounted /\ (box.draft # <<>> \/ box.images # {})
  /\ box' = [Unmounted([box EXCEPT !.sent = @ \cup box.images]) EXCEPT !.open = FALSE]
  /\ UNCHANGED <<disk, desk, calls, win, left>>

\* An image of the clipboard: main writes a file, and the box it was pasted in takes it.
PasteImage ==
  /\ Mounted /\ Spend("images")
  /\ calls' = calls \cup {[Call("image", box.gen, desk.selected, "") EXCEPT !.answer = <<box.pasted + 1>>]}
  /\ box' = [box EXCEPT !.pasted = @ + 1]
  /\ UNCHANGED <<disk, desk, win>>

\* Into a box that is gone it comes too late: nothing deletes it any more.
ImageSaved ==
  /\ \E call \in calls :
       LET image == call.answer[1]
           b == [box EXCEPT !.saved = @ \cup {image}]
       IN /\ call.type = "image"
          /\ calls' = calls \ {call}
          /\ box' = IF Mounted /\ call.run = box.gen THEN [b EXCEPT !.images = @ \cup {image}]
                    ELSE [b EXCEPT !.late = @ \cup {image}]
  /\ UNCHANGED <<disk, desk, win, left>>

NoImage ==
  /\ \E call \in calls : call.type = "image" /\ calls' = calls \ {call}
  /\ UNCHANGED <<disk, desk, win, box, left>>

RemoveImage ==
  /\ Mounted
  /\ \E image \in box.images :
       box' = [box EXCEPT !.images = @ \ {image}, !.saved = @ \ {image}]
  /\ UNCHANGED <<disk, desk, calls, win, left>>

\* The contact's process ends, and with it the box is unmounted; or it is started again.
StopOrStart ==
  /\ Spend("stops")
  /\ desk' = [desk EXCEPT !.running = ~@]
  /\ box' = IF ~box.open THEN box ELSE IF desk.running THEN Unmounted(box) ELSE MountedBox(box)
  /\ UNCHANGED <<disk, calls, win>>

Next ==
  \/ Edit \/ Select \/ ToggleGit \/ Poll \/ GetGitStatus \/ StatusShown \/ View \/ CloseDiff
  \/ GetFileDiff \/ DiffShown \/ Click \/ ShiftClick \/ Drag \/ MouseUp \/ AskAgent \/ OpenBox
  \/ CloseBox \/ Send \/ PasteImage \/ ImageSaved \/ NoImage \/ RemoveImage \/ StopOrStart

Spec == Init /\ [][Next]_vars

---------------------------------------------------------------------------
(* Properties.                                                             *)

\* Rows say of each line of the change what it is, with its numbers: an unchanged line stands
\* beside itself, the others in order on their own side, none twice and none left out.
RowsAreTrue(rows, side, change) ==
  LET marks == DOMAIN change
      OldAt(k) == Count(change, k, {"=", "-"})
      NewAt(k) == Count(change, k, {"=", "+"})
      Numbers(s) == SelectSeq(s, LAMBDA n : n # 0)
      olds == Numbers([i \in DOMAIN rows |-> rows[i].old])
      news == Numbers([i \in DOMAIN rows |-> rows[i].new])
      near == {k \in marks : side = "untracked" \/ Printed(change, k)}
      cut == Len(rows) = MaxShown
  IN /\ \A i \in DOMAIN rows : rows[i].kind = "context" =>
          \E k \in near : change[k] = "=" /\ rows[i].old = OldAt(k) /\ rows[i].new = NewAt(k)
     /\ \A i \in DOMAIN rows : rows[i].kind # "context" =>
          /\ rows[i].old # 0 => \E k \in near : change[k] = "-" /\ rows[i].old = OldAt(k)
          /\ rows[i].new # 0 => \E k \in near : change[k] = "+" /\ rows[i].new = NewAt(k)
     /\ \A s \in {olds, news} : \A i, j \in DOMAIN s : i < j => s[i] < s[j]
     /\ ~cut => /\ ToSet(olds) = {OldAt(k) : k \in {m \in near : change[m] # "+"}}
                /\ ToSet(news) = {NewAt(k) : k \in {m \in near : change[m] # "-"}}

\* A reference names exactly the new lines of the rows that were selected, and when those are
\* all removed ones, the nearest row's that has one.
RefIsTrue(seed) ==
  LET new == {seed.rows[i].new : i \in seed.lo..seed.hi} \ {0}
      Away(i) == IF i < seed.lo THEN seed.lo - i ELSE i - seed.hi
      others == {i \in DOMAIN seed.rows : seed.rows[i].new # 0}
  IN IF new # {} THEN ~seed.ref.fellBack /\ new = seed.ref.first..seed.ref.last
     ELSE /\ seed.ref.fellBack
          /\ IF others = {} THEN seed.ref.first = 0
             ELSE \E i \in others : /\ seed.rows[i].new = seed.ref.first
                                    /\ \A j \in others : Away(i) <= Away(j)

\* The window shows the file it was pointed at, as that was at one moment since, and the rows of
\* that moment; a selection is of rows on screen; a reference in the compose box is of the
\* contact the box writes to, true to the rows it was asked about, and there once for each time
\* it was asked since the box came up, after at most the last one from before; an image that was
\* sent is still there, and one that was neither sent nor kept is not, unless it came too late.
AskedAsShown ==
  /\ LET diff == win.diff
         of == diff.of
     IN of # None => /\ of[1] = desk.selected /\ of[2] = win.target
                     /\ diff.ok => RowsAreTrue(diff.rows, of[2], of[3])
                     /\ diff.ok <=> diff.rows # <<>>
  /\ win.selection # <<>> => \A i \in {1, 2} : win.selection[i] \in DOMAIN win.diff.rows
  /\ \A i \in DOMAIN box.draft : /\ box.draft[i].on = desk.selected
                                 /\ box.draft[i].of[1] = desk.selected
                                 /\ RefIsTrue(box.draft[i])
  /\ Mounted => LET fresh == SelectSeq(box.draft, LAMBDA s : s.nonce > box.since)
                     old == SelectSeq(box.draft, LAMBDA s : s.nonce <= box.since)
                 IN /\ [i \in DOMAIN fresh |-> fresh[i].nonce]
                         = [i \in 1..(box.asked - box.since) |-> box.since + i]
                    /\ old # <<>> => old = <<box.draft[1]>> /\ old[1].nonce = box.since
  /\ box.sent \subseteq box.saved /\ box.saved \subseteq box.sent \cup box.images \cup box.late
=============================================================================
