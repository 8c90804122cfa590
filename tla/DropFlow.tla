------------------------------ MODULE DropFlow -------------------------------
(***************************************************************************)
(* What a drop of files on the window does between its release and the end  *)
(* of its copy (App.tsx, dropFlow.ts, dropNotice.ts): the keyboard it       *)
(* holds, the lookups under a deadline, the picker or the dialog, the copy  *)
(* and the messages.  The copy itself is FileDrop's.                        *)
(*                                                                         *)
(* Calls to the main process are handled in the order they are made, and    *)
(* answered at any time, or never.  React draws the dialog a moment after   *)
(* it was asked to; a drop let go in that moment finds no dialog on screen  *)
(* (`slipped`).  Every contact has a project of its own.                    *)
(***************************************************************************)
EXTENDS Naturals, Sequences, SequencesExt

CONSTANTS Contacts, First,        \* First is the one selected at the start
          Folders, None,
          MAX_NOTICES,
          MaxDrops      \* bound: drops

VARIABLES
  selected,     \* the contact shown
  default,      \* by contact, its project's default folder, or None
  gone,         \* folders that are no longer there
  busy,         \* dropBusyRef
  keys,         \* dropKeysRef: the drop whose hold it is, or 0
  holds,        \* the holds whose listeners are on
  prompt,       \* dropPrompt: its drop, its folder, picking
  drawn,        \* the dialog is on screen
  drops,        \* every drop so far, in order
  notices,      \* the messages, oldest first
  copies,       \* copyDropped calls made: the drop, the contact, the folder
  slipped, stolen   \* a drop was let go in that moment; a drop given up brought the
                    \* window forward

asking == <<busy, keys, holds, prompt, drawn>>
vars == <<selected, default, gone, asking, drops, notices, copies, slipped, stolen>>

NoPrompt == [drop |-> 0, folder |-> None, picking |-> FALSE]
Kinds == {"fits", "too-many", "past-limit", "promised"}
Lookups == {"focus", "folder", "items"}
Asks == Lookups \cup {"picker", "prompt", "picking"}
Copying == {"default", "copy"}
Ends == {"settled", "cancelled", "given-up"}

Init ==
  /\ selected = First
  /\ gone \in SUBSET Folders
  /\ \E f \in Folders \cup {None} : default = [c \in Contacts |-> IF c = First THEN f ELSE None]
  /\ busy = FALSE /\ keys = 0 /\ holds = {} /\ prompt = NoPrompt /\ drawn = FALSE
  /\ drops = <<>> /\ notices = <<>> /\ copies = {} /\ slipped = FALSE /\ stolen = FALSE

-----------------------------------------------------------------------------
(* Messages *)

Dropped(stage, kind) ==
  [stage |-> stage, kind |-> kind, on |-> selected, focusing |-> stage = "focus",
   past |-> FALSE, folder |-> None, asDefault |-> FALSE, slow |-> FALSE, said |-> "none"]

\* The same drop's earlier message is replaced, else the oldest goes.
withDropReport(n, report) ==
  LET new == [drop |-> n, report |-> report] IN
  IF \E i \in DOMAIN notices : notices[i].drop = n
  THEN [i \in DOMAIN notices |-> IF notices[i].drop = n THEN new ELSE notices[i]]
  ELSE LET all == Append(notices, new) IN
       SubSeq(all, IF Len(all) > MAX_NOTICES THEN Len(all) - MAX_NOTICES + 1 ELSE 1, Len(all))

\* Drop n goes to a stage with a message, or without one.
reportDrop(n, stage, report) ==
  /\ notices' = withDropReport(n, report)
  /\ drops' = [drops EXCEPT ![n].stage = stage, ![n].said = report, ![n].slow = FALSE]
To(n, stage) == drops' = [drops EXCEPT ![n].stage = stage] /\ UNCHANGED notices

\* Its time is up, which it is not while the copy runs, or it is clicked away; no drop has two.
dismissDrop ==
  /\ \E i \in DOMAIN notices : notices' = RemoveAt(notices, i)
  /\ UNCHANGED <<selected, default, gone, asking, drops, copies, slipped, stolen>>

-----------------------------------------------------------------------------
(* The keyboard *)

takeDropKeys(n) == keys' = n /\ holds' = holds \cup {n}

returnDropKeys == keys' = 0 /\ holds' = holds \ {keys}

-----------------------------------------------------------------------------
(* The copy *)

\* The contact the files were dropped on.
Target(n) == drops[n].on

copyDropped(n, folder) ==
  copies' = copies \cup {[drop |-> n, contact |-> Target(n), folder |-> folder]}

copyDrop(n, folder, asDefault) ==
  /\ drops' = [drops EXCEPT ![n].stage = IF asDefault THEN "default" ELSE "copy",
                            ![n].folder = folder, ![n].asDefault = asDefault, ![n].slow = TRUE]
  /\ IF asDefault THEN UNCHANGED copies ELSE copyDropped(n, folder)
  /\ UNCHANGED notices

DefaultSaved(n, ok) ==
  /\ drops[n].stage = "default"
  /\ IF ok THEN /\ default' = [default EXCEPT ![Target(n)] = drops[n].folder]
                /\ copyDropped(n, drops[n].folder) /\ To(n, "copy")
           ELSE reportDrop(n, "settled", "error") /\ UNCHANGED <<default, copies>>
  /\ UNCHANGED <<selected, gone, asking, slipped, stolen>>

Copied(n, ok) ==
  /\ drops[n].stage = "copy" /\ reportDrop(n, "settled", IF ok THEN "copied" ELSE "error")
  /\ UNCHANGED <<selected, default, gone, asking, copies, slipped, stolen>>

\* COPYING_DELAY_MS.
Slow(n) ==
  /\ drops[n].slow
  /\ notices' = withDropReport(n, "copying")
  /\ drops' = [drops EXCEPT ![n].said = "copying", ![n].slow = FALSE]
  /\ UNCHANGED <<selected, default, gone, asking, copies, slipped, stolen>>

-----------------------------------------------------------------------------
(* From the release to the picker or the dialog *)

\* A drop is the shown contact's, and ignored while another one is looked up or picked for
\* or a dialog is open.
handleFileDrop(kind) ==
  LET n == Len(drops) + 1 IN
  /\ n <= MaxDrops /\ ~drawn /\ ~busy
  /\ IF kind = "promised"
     THEN /\ drops' = Append(drops, [Dropped("settled", kind) EXCEPT !.said = "only-finder"])
          /\ notices' = withDropReport(n, "only-finder") /\ UNCHANGED <<busy, keys, holds>>
     ELSE /\ drops' = Append(drops, Dropped("focus", kind)) /\ UNCHANGED notices
          /\ busy' = TRUE /\ takeDropKeys(n)
  /\ slipped' = (slipped \/ prompt # NoPrompt)
  /\ UNCHANGED <<selected, default, gone, prompt, drawn, copies, stolen>>

Past(n) ==
  /\ drops[n].stage \in Lookups /\ ~drops[n].past /\ drops' = [drops EXCEPT ![n].past = TRUE]
  /\ UNCHANGED <<selected, default, gone, asking, notices, copies, slipped, stolen>>

\* Main brings the window forward only for a drop that still waits; the call may reach it
\* after the drop was given up.
dropStillWaiting(n) == ~drops[n].past

focusDropWindow(n) ==
  /\ drops[n].focusing
  /\ drops' = [drops EXCEPT ![n].focusing = FALSE,
                            ![n].stage = IF @ = "focus" THEN "folder" ELSE @]
  /\ stolen' = (stolen \/ (dropStillWaiting(n) /\ drops[n].stage = "given-up"))
  /\ UNCHANGED <<selected, default, gone, asking, notices, copies, slipped>>

\* (A slip: an answer after the deadline counts.)
WaitsOrGaveUp(n, stage) == drops[n].stage \in {stage, "given-up"} /\ ~drops[n].focusing

\* The drop waits for this answer, and has not been given up (withDeadline).
Waits(n, stage) == drops[n].stage = stage

\* What opens: only a message past a limit, the picker with no default that is there, else
\* the dialog.
dropStep(n, folder) ==
  IF drops[n].kind # "fits"
  THEN /\ returnDropKeys /\ reportDrop(n, "settled", "past-limit") /\ busy' = FALSE
       /\ UNCHANGED <<prompt, drawn>>
  ELSE IF folder \in gone \cup {None}
  THEN To(n, "picker") /\ UNCHANGED asking
  ELSE /\ prompt' = [drop |-> n, folder |-> folder, picking |-> FALSE]
       /\ busy' = FALSE /\ To(n, "prompt") /\ UNCHANGED <<keys, holds, drawn>>

getDropFolder(n) ==
  /\ Waits(n, "folder") /\ \A m \in DOMAIN drops : drops[m].stage # "default"
  /\ IF drops[n].kind = "too-many" THEN dropStep(n, default[Target(n)])
     ELSE /\ drops' = [drops EXCEPT ![n].stage = "items", ![n].folder = default[Target(n)]]
          /\ UNCHANGED <<asking, notices>>
  /\ UNCHANGED <<selected, default, gone, copies, slipped, stolen>>

describeDropped(n) ==
  /\ Waits(n, "items") /\ dropStep(n, drops[n].folder)
  /\ UNCHANGED <<selected, default, gone, copies, slipped, stolen>>

\* A lookup fails, or DROP_LOOKUP_DEADLINE_MS is over.
GiveUp(n, stage) ==
  /\ drops[n].stage \in Lookups
  /\ returnDropKeys /\ reportDrop(n, stage, "error") /\ busy' = FALSE
  /\ UNCHANGED <<selected, default, gone, prompt, drawn, copies, slipped, stolen>>

\* The picker the drop opened at once: what is picked becomes the default.
pickDropFolder(n, picked, fails) ==
  /\ drops[n].stage = "picker" /\ returnDropKeys /\ busy' = FALSE
  /\ IF fails THEN reportDrop(n, "settled", "error") /\ UNCHANGED copies
     ELSE IF picked = None THEN To(n, "cancelled") /\ UNCHANGED copies
     ELSE copyDrop(n, picked, TRUE)
  /\ UNCHANGED <<selected, default, gone, prompt, drawn, slipped, stolen>>

-----------------------------------------------------------------------------
(* The dialog *)

Draw ==
  /\ drawn # (prompt # NoPrompt) /\ drawn' = ~drawn
  /\ UNCHANGED <<selected, default, gone, busy, keys, holds, prompt, drops, notices, copies,
                 slipped, stolen>>

closeDropPrompt == prompt' = NoPrompt /\ returnDropKeys /\ UNCHANGED busy
Clickable == drawn /\ prompt # NoPrompt /\ ~prompt.picking

\* Esc or a click outside; the button, or Enter.  A handler's changes are drawn at once.
onClose ==
  /\ Clickable /\ closeDropPrompt /\ drawn' = FALSE /\ To(prompt.drop, "cancelled")
  /\ UNCHANGED <<selected, default, gone, copies, slipped, stolen>>

putDropHere ==
  /\ Clickable /\ closeDropPrompt /\ drawn' = FALSE
  /\ copyDrop(prompt.drop, prompt.folder, FALSE)
  /\ UNCHANGED <<selected, default, gone, slipped, stolen>>

\* "Somewhere else" and "Change default path": a picker in front of the dialog.
pickForDrop(asDefault) ==
  /\ Clickable /\ prompt' = [prompt EXCEPT !.picking = TRUE]
  /\ drops' = [drops EXCEPT ![prompt.drop].stage = "picking", ![prompt.drop].asDefault = asDefault]
  /\ UNCHANGED <<selected, default, gone, busy, keys, holds, drawn, notices, copies, slipped,
                 stolen>>

PickedForDrop(n, picked, fails) ==
  /\ drops[n].stage = "picking" /\ closeDropPrompt /\ UNCHANGED drawn
  /\ IF fails THEN reportDrop(n, "settled", "error") /\ UNCHANGED copies
     ELSE IF picked = None THEN To(n, "cancelled") /\ UNCHANGED copies
     ELSE copyDrop(n, picked, drops[n].asDefault)
  /\ UNCHANGED <<selected, default, gone, slipped, stolen>>

-----------------------------------------------------------------------------

\* Another contact is selected, once at most: a dialog on screen keeps the pointer off.
Select ==
  /\ ~drawn /\ \A n \in DOMAIN drops : drops[n].stage # "picker"
  /\ selected = First /\ selected' \in Contacts \ {First}
  /\ UNCHANGED <<default, gone, asking, drops, notices, copies, slipped, stolen>>

Next ==
  \/ \E kind \in Kinds : handleFileDrop(kind)
  \/ \E n \in DOMAIN drops :
       \/ Past(n) \/ focusDropWindow(n) \/ getDropFolder(n) \/ describeDropped(n)
       \/ GiveUp(n, "settled") \/ (drops[n].past /\ GiveUp(n, "given-up"))
       \/ \E picked \in Folders \cup {None}, fails \in BOOLEAN :
            pickDropFolder(n, picked, fails) \/ PickedForDrop(n, picked, fails)
       \/ \E ok \in BOOLEAN : DefaultSaved(n, ok) \/ Copied(n, ok)
       \/ Slow(n)
  \/ Draw \/ onClose \/ putDropHere \/ \E asDefault \in BOOLEAN : pickForDrop(asDefault)
  \/ dismissDrop \/ Select

Spec == Init /\ [][Next]_vars

-----------------------------------------------------------------------------
(* Properties.                                                             *)

\* While no drop was let go between a dialog's first drawing and the state set with it
\* (~slipped), the keyboard is held exactly while one drop asks, from its release until its
\* picker or dialog is gone or it failed; the rest has no exception: files are copied once, to the project they were dropped on,
\* and only for a drop that was answered in time; a drop given up moves no window; and what
\* is said of each drop, once, is what became of it (handleFileDrop, withDeadline,
\* returnDropKeys, copyDrop, withDropReport).
DropsEndWell ==
  /\ ~slipped =>
       /\ holds = {n \in DOMAIN drops : drops[n].stage \in Asks}
       /\ holds \subseteq {keys}
  /\ \A x \in copies :
       /\ x.contact = drops[x.drop].on /\ drops[x.drop].stage \in {"copy", "settled"}
       /\ \A y \in copies : y.drop = x.drop => y = x
  /\ ~stolen
  /\ \A n \in DOMAIN drops :
       /\ drops[n].stage \in {"settled", "given-up"} => drops[n].said \notin {"none", "copying"}
       /\ drops[n].stage = "cancelled" => drops[n].said = "none"
  /\ \A i \in DOMAIN notices :
       /\ notices[i].report = drops[notices[i].drop].said
       /\ \A j \in DOMAIN notices : notices[j].drop = notices[i].drop => j = i
=============================================================================
