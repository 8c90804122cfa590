----------------------------- MODULE NewInstance ------------------------------
(***************************************************************************)
(* The New Instance dialog (renderer/NewInstanceDialog.tsx) with the calls it *)
(* makes of main: a session in a folder that is there, or in a repository     *)
(* cloned for it.  What the dialog says of a folder, or of sessions in it, is *)
(* asked again at every edit and answered when it may; a submission asks, and *)
(* acts on the answers, one at a time.                                      *)
(*                                                                         *)
(* A folder is a model value, typed or browsed to whole; a clone goes to the  *)
(* folder typed under "Clone into" once there is a URL.                     *)
(***************************************************************************)
EXTENDS Naturals, Sequences, SequencesExt, TLC

CONSTANTS Folders, None,
          Home,            \* where a clone goes with nothing typed under "Clone into"
          DefaultParent,   \* what main offers instead
          Disks,           \* what is in each folder's place: "missing", "file", "directory"
          Budgets          \* [opens, types, clicks, others]

VARIABLES disk,
          sessions,        \* sequence of [id, folder, backend, running, meant, doubled]
          clone,           \* main's: [folder, id, cancelled]: for which submission
          page,            \* [open, mode, backend, path, url, parent, alias, warned, checked,
                           \* cloning, busy, last]
          run,             \* its submission: [id, mode, folder, backend, alias, meant]
          calls,           \* to main: [by, call, arg, at, value]
          touched,         \* disk or sessions changed by others
          left
vars == <<disk, sessions, clone, page, run, calls, touched, left>>

Spend(what) == left[what] > 0 /\ left' = [left EXCEPT ![what] = @ - 1]

Backends == {"claude", "opencode"}
Modes == {"open", "clone"}
NoClone == [folder |-> None, id |-> 0, cancelled |-> 0]
Unchecked == [typed |-> None, kind |-> "missing"]
Blank == [path |-> None, url |-> FALSE, parent |-> None, alias |-> FALSE, warned |-> FALSE]
NoRun == [id |-> 0, mode |-> "open", folder |-> None, backend |-> "claude", alias |-> FALSE,
          meant |-> None]

Init ==
  /\ disk \in Disks /\ sessions = <<>> /\ clone = NoClone
  /\ page = [open |-> FALSE, mode |-> "open", backend |-> "claude", checked |-> Unchecked,
             cloning |-> FALSE, busy |-> FALSE, last |-> [mode |-> "open", backend |-> "claude"]] @@ Blank
  /\ run = NoRun /\ calls = <<>> /\ touched = FALSE
  /\ left \in Budgets

-----------------------------------------------------------------------------
(* What the dialog asks as it is drawn *)

Call(by, call, arg) == [by |-> by, call |-> call, arg |-> arg, at |-> "asked", value |-> None]
Without(queue, by) == SelectSeq(queue, LAMBDA c : c.by # by)

AboutOf(call, folder, backend) ==
  IF call = "has-running-instance-at" THEN <<folder, backend>> ELSE folder

typedTarget(p) == IF p.url THEN p.parent ELSE None

\* What was found at the folder typed now; a check for an earlier one does not count.
target(p) ==
  IF p.checked.typed # None /\ p.checked.typed = typedTarget(p) THEN p.checked.kind ELSE "unknown"
targetTaken(p) == target(p) \notin {"unknown", "missing"}

\* What each effect depends on; its earlier call no longer counts once that has changed.
checkedFor(p) == <<p.open, p.mode, typedTarget(p), p.cloning>>
warnedFor(p) == <<p.open, p.mode, p.path, p.backend>>

Checks(p, queue) ==
  IF checkedFor(p) = checkedFor(page) THEN queue
  ELSE Without(queue, "check") \o
       IF p.open /\ p.mode = "clone" /\ typedTarget(p) # None
       THEN <<Call("check", "check-folder", typedTarget(p))>> ELSE <<>>
CheckedAt(p) ==
  IF checkedFor(p) # checkedFor(page) /\ ~(p.open /\ p.mode = "clone" /\ typedTarget(p) # None)
  THEN Unchecked ELSE p.checked

Warns(p, queue) ==
  IF warnedFor(p) = warnedFor(page) THEN queue
  ELSE Without(queue, "warn") \o
       IF p.open /\ p.mode = "open" /\ p.path # None
       THEN <<Call("warn", "has-running-instance-at", <<p.path, p.backend>>)>> ELSE <<>>
WarnedAt(p) ==
  p.warned /\ (warnedFor(p) = warnedFor(page) \/ (p.open /\ p.mode = "open" /\ p.path # None))

Defaults(p, queue) ==
  IF p.open = page.open THEN queue
  ELSE Without(queue, "default") \o
       IF p.open THEN <<Call("default", "clone-default-parent", None)>> ELSE <<>>

\* The page is drawn, and its effects run; then the submission's own call, if any, was made.
Draw(p, queue) ==
  /\ page' = [p EXCEPT !.checked = CheckedAt(p), !.warned = WarnedAt(p)]
  /\ calls' = Defaults(p, Warns(p, Checks(p, queue)))

reset(p) == Blank @@ p

\* The next thing a submission asks: whether a session runs there.
Asks(p, rest) ==
  Draw(p, Append(rest, Call("run", "has-running-instance-at", <<run.folder, run.backend>>)))

-----------------------------------------------------------------------------
(* The builder *)

opens ==
  /\ ~page.open /\ Spend("opens")
  /\ Draw([page EXCEPT !.open = TRUE, !.mode = page.last.mode, !.backend = page.last.backend], calls)
  /\ UNCHANGED <<disk, sessions, clone, run, touched>>

Edits(p) ==
  {[p EXCEPT !.path = f] : f \in Folders} \cup {[p EXCEPT !.parent = f] : f \in Folders}
  \cup {[p EXCEPT !.url = ~p.url], [p EXCEPT !.alias = ~p.alias]}
  \cup {[p EXCEPT !.mode = m] : m \in Modes} \cup {[p EXCEPT !.backend = b] : b \in Backends}
types ==
  /\ page.open /\ ~page.busy /\ Spend("types")
  /\ \E p \in Edits(page) \ {page} : Draw(p, calls)
  /\ UNCHANGED <<disk, sessions, clone, run, touched>>

\* A submission begins: what it acts on is what is shown at the click.
exclusive(mode, folder, call) ==
  /\ page.open /\ ~page.busy /\ page.mode = mode /\ Spend("clicks")
  /\ run' = [id |-> run.id + 1, mode |-> mode, folder |-> folder, backend |-> page.backend,
             alias |-> page.alias, meant |-> IF mode = "open" THEN page.path ELSE typedTarget(page)]
  /\ Draw([page EXCEPT !.busy = TRUE, !.cloning = (call = "clone-repo")],
          Append(calls, Call("run", call, AboutOf(call, folder, page.backend))))
  /\ UNCHANGED <<disk, sessions, clone, touched>>

handleSubmit == page.path # None /\ exclusive("open", page.path, "check-folder")

\* Into the home folder when nothing is typed under "Clone into".
handleClone ==
  /\ page.url /\ ~targetTaken(page)
  /\ exclusive("clone", IF page.parent = None THEN Home ELSE page.parent, "clone-repo")

openIt ==
  target(page) = "directory" /\ exclusive("clone", page.checked.typed, "has-running-instance-at")

cancelClone ==
  /\ page.open /\ page.cloning /\ Spend("clicks")
  /\ calls' = Append(calls, Call("cancel", "clone-cancel", run.id))
  /\ UNCHANGED <<disk, sessions, clone, page, run, touched>>

handleClose ==
  /\ page.open /\ ~page.busy
  /\ Draw([reset(page) EXCEPT !.open = FALSE], calls)
  /\ UNCHANGED <<disk, sessions, clone, run, touched, left>>

-----------------------------------------------------------------------------
(* The answers *)

Over(p) == [p EXCEPT !.busy = FALSE, !.cloning = FALSE]

\* A session there already needs an alias; else it is asked for, and the dialog is blank again.
startIn(there, rest) ==
  IF there /\ ~run.alias
  THEN Draw(Over([page EXCEPT !.warned = @ \/ run.mode = "open"]), rest)
  ELSE Draw(Over(reset([page EXCEPT !.last = [mode |-> run.mode, backend |-> run.backend]])),
            Append(rest, Call("made", "create-instance", run)))

\* What a step of a submission found, and its next step.
Continue(call, value, rest) ==
  CASE call = "check-folder" /\ value = "directory" -> Asks(page, rest)
    [] call = "clone-repo" /\ value = "done" -> Asks([page EXCEPT !.cloning = FALSE], rest)
    [] call = "has-running-instance-at" -> startIn(value, rest)
    [] OTHER -> Draw(Over(page), rest)

Answer(i) ==
  /\ calls[i].at = "answered"
  /\ LET c == calls[i] rest == RemoveAt(calls, i)
     IN CASE c.by = "check" ->
               Draw([page EXCEPT !.checked = [typed |-> c.arg, kind |-> c.value]], rest)
          [] c.by = "warn" -> Draw([page EXCEPT !.warned = c.value], rest)
          [] c.by = "default" ->
               Draw([page EXCEPT !.parent = IF @ = None THEN c.value ELSE @], rest)
          [] c.by = "made" -> Draw([page EXCEPT !.open = FALSE], rest)
          [] c.by = "run" -> Continue(c.call, c.value, rest)
          [] OTHER -> calls' = rest /\ UNCHANGED page
  /\ UNCHANGED <<disk, sessions, clone, run, touched, left>>

-----------------------------------------------------------------------------
(* Main: calls in the order made, those of the disk and of git answered when they may *)

Earlier(i) == {j \in 1..(i - 1) : calls[j].at = "asked"}
Answered(i, value) ==
  calls' = [calls EXCEPT ![i].at = "answered", ![i].value = value]
Begun(i) == calls' = [calls EXCEPT ![i].at = "underway"]

HasRunningAt(folder, backend) ==
  \E i \in DOMAIN sessions :
    sessions[i].running /\ sessions[i].folder = folder /\ sessions[i].backend = backend

createInstance(r) ==
  sessions' = Append(sessions, [id |-> r.id, folder |-> r.folder, backend |-> r.backend,
                                running |-> TRUE, meant |-> r.meant,
                                doubled |-> ~r.alias /\ HasRunningAt(r.folder, r.backend)])

Handle(i) ==
  /\ calls[i].at = "asked" /\ Earlier(i) = {}
  /\ LET c == calls[i]
     IN CASE c.call = "check-folder" -> Begun(i) /\ UNCHANGED <<disk, sessions, clone>>
          [] c.call = "clone-default-parent" ->
               Answered(i, DefaultParent) /\ UNCHANGED <<disk, sessions, clone>>
          [] c.call = "has-running-instance-at" ->
               /\ Answered(i, HasRunningAt(c.arg[1], c.arg[2]))
               /\ UNCHANGED <<disk, sessions, clone>>
          [] c.call = "create-instance" ->
               Answered(i, None) /\ createInstance(c.arg) /\ UNCHANGED <<disk, clone>>
          [] c.call = "clone-cancel" ->
               /\ Answered(i, None)
               /\ clone' = IF clone.folder = None THEN clone ELSE [clone EXCEPT !.cancelled = c.arg]
               /\ UNCHANGED <<disk, sessions>>
          [] OTHER -> IF clone.folder # None \/ disk[c.arg] # "missing"
                      THEN Answered(i, "refused") /\ UNCHANGED <<disk, sessions, clone>>
                      ELSE /\ Begun(i)
                           /\ clone' = [folder |-> c.arg, id |-> run.id, cancelled |-> 0]
                           /\ disk' = [disk EXCEPT ![c.arg] = "directory"]
                           /\ UNCHANGED sessions
  /\ UNCHANGED <<page, run, touched, left>>

checkFolder(i) ==
  /\ calls[i].at = "underway" /\ calls[i].call = "check-folder"
  /\ Answered(i, disk[calls[i].arg])
  /\ UNCHANGED <<disk, sessions, clone, page, run, touched, left>>

\* Done; or failed or cancelled, and the folder removed unless the disk refuses.
cloneRepo(i) ==
  /\ calls[i].at = "underway" /\ calls[i].call = "clone-repo"
  /\ \E outcome \in {"done", "failed", "cancelled"}, kept \in BOOLEAN :
       /\ outcome = "cancelled" <=> clone.cancelled # 0
       /\ outcome = "done" => kept
       /\ Answered(i, outcome)
       /\ disk' = IF kept THEN disk ELSE [disk EXCEPT ![clone.folder] = "missing"]
  /\ clone' = NoClone
  /\ UNCHANGED <<sessions, page, run, touched, left>>

\* Somebody else makes or removes what is at a path, but not under git; a session ends or starts.
Others ==
  /\ Spend("others") /\ touched' = TRUE
  /\ \/ /\ \E f \in DOMAIN disk \ {clone.folder}, kind \in {"missing", "file", "directory"} :
             disk[f] # kind /\ disk' = [disk EXCEPT ![f] = kind]
        /\ UNCHANGED sessions
     \/ /\ \E i \in DOMAIN sessions : sessions' = [sessions EXCEPT ![i].running = ~@]
        /\ UNCHANGED disk
  /\ UNCHANGED <<clone, page, run, calls>>

-----------------------------------------------------------------------------

Next ==
  \/ opens \/ types \/ handleSubmit \/ handleClone \/ openIt \/ cancelClone \/ handleClose \/ Others
  \/ \E i \in DOMAIN calls : Handle(i) \/ checkFolder(i) \/ cloneRepo(i) \/ Answer(i)

Spec == Init /\ [][Next]_vars
-----------------------------------------------------------------------------

\* A session is made where the builder meant it, once for a click, and beside another of its
\* backend only with an alias.
SessionsAsMeant ==
  \A i \in DOMAIN sessions :
    LET s == sessions[i]
    IN /\ s.folder = s.meant \/ (s.meant = None /\ s.folder = Home)
       /\ \A j \in DOMAIN sessions \ {i} : sessions[j].id # s.id
       /\ s.doubled => touched

\* The dialog waits only for what will come, and a Cancel stops the clone it shows.
Waits ==
  /\ page.busy <=> \E i \in DOMAIN calls : calls[i].by = "run"
  /\ page.cloning <=> \E i \in DOMAIN calls : calls[i].call = "clone-repo"
  /\ clone.folder # None /\ clone.cancelled # 0 => clone.cancelled = clone.id

\* With nothing more to come, what it says of the folder typed is so.
SaysWhatIs ==
  page.open /\ calls = <<>> /\ ~touched =>
    /\ page.mode = "clone" /\ typedTarget(page) # None => target(page) = disk[typedTarget(page)]
    /\ page.mode = "open" /\ page.path # None => page.warned = HasRunningAt(page.path, page.backend)

\* All of it, whatever was typed, answered late or cancelled between (NewInstanceDialog's
\* effects, exclusive, startIn).
StartedAsMeant == SessionsAsMeant /\ Waits /\ SaysWhatIs
=============================================================================
