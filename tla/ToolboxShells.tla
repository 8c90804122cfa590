---------------------------- MODULE ToolboxShells -----------------------------
(***************************************************************************)
(* The shell a contact has in its toolbox (renderer/TerminalSection.tsx,      *)
(* main/shell-manager.ts): started when the section is first opened, alive    *)
(* while another contact or section is shown, and offered again when it ends. *)
(*                                                                         *)
(* Only what is drawn hears of a shell: the section's listeners are there     *)
(* while it is open, and then for every contact.                            *)
(***************************************************************************)
EXTENDS Naturals, Sequences

CONSTANTS Contacts, None,
          Budgets      \* [exits, moves, stops, removals, windows]

VARIABLES instances,   \* contacts main has
          shells,      \* contact -> its shell's number, 0 for none
          started,     \* shells started
          page,        \* [open, selected, terminal, offline, gone, entries, exited]
          asked,       \* the page's calls to main
          ends,        \* main's words of shells that ended, to the page
          unheard,     \* contacts whose shell's end came while no section was drawn
          left
vars == <<instances, shells, started, page, asked, ends, unheard, left>>

Spend(what) == left[what] > 0 /\ left' = [left EXCEPT ![what] = @ - 1]

NoEntry == [made |-> FALSE, spawned |-> FALSE, exited |-> FALSE]
\* A new window: no contact selected, the sections and terminals of the last one forgotten.
NewPage(gone) ==
  [open |-> TRUE, selected |-> None, terminal |-> {}, offline |-> {}, gone |-> gone,
   entries |-> [c \in Contacts |-> NoEntry], exited |-> FALSE]

Init ==
  /\ instances = Contacts /\ shells = [c \in Contacts |-> 0] /\ started = 0
  /\ page = NewPage({}) /\ asked = <<>> /\ ends = <<>> /\ unheard = {}
  /\ left \in Budgets

-----------------------------------------------------------------------------
(* The section *)

\* The selected contact's open section, unless it is offline.
Mounted(p) ==
  p.open /\ p.selected # None /\ p.selected \in p.terminal /\ p.selected \notin p.offline

\* What the section does once it is drawn: takes up the contact's terminal, or makes it, and
\* asks for a shell when none was asked for and none has ended.
TerminalSection(p) ==
  IF ~Mounted(p) THEN page' = p /\ UNCHANGED asked
  ELSE LET entry == p.entries[p.selected]
           spawns == ~entry.spawned /\ ~entry.exited
       IN /\ page' = [p EXCEPT !.exited = entry.exited,
                               !.entries[p.selected] = [made |-> TRUE, exited |-> entry.exited,
                                                        spawned |-> entry.spawned \/ spawns]]
          /\ asked' = IF spawns THEN Append(asked, [call |-> "shell-spawn", id |-> p.selected]) ELSE asked

setSelectedId(c) ==
  /\ page.open /\ c \in Contacts \ page.gone /\ c # page.selected /\ Spend("moves")
  /\ TerminalSection([page EXCEPT !.selected = c])
  /\ UNCHANGED <<instances, shells, started, ends, unheard>>

\* The selected contact's Terminal section, or another in its place.
handleExpandSection ==
  /\ page.open /\ page.selected # None /\ page.selected \notin page.offline /\ Spend("moves")
  /\ LET c == page.selected
     IN TerminalSection([page EXCEPT !.terminal = IF c \in @ THEN @ \ {c} ELSE @ \cup {c}])
  /\ UNCHANGED <<instances, shells, started, ends, unheard>>

\* A contact's session ends or starts: its sections fold and unfold.
StatusChanges(c) ==
  /\ page.open /\ c \in Contacts \ page.gone /\ Spend("stops")
  /\ TerminalSection([page EXCEPT !.offline = IF c \in @ THEN @ \ {c} ELSE @ \cup {c}])
  /\ UNCHANGED <<instances, shells, started, ends, unheard>>

\* The button under "Terminal exited".
handleRestart ==
  /\ Mounted(page) /\ page.exited
  /\ TerminalSection([page EXCEPT !.entries[page.selected].exited = FALSE, !.exited = FALSE])
  /\ unheard' = unheard \ {page.selected}
  /\ UNCHANGED <<instances, shells, started, ends, left>>

handleRemove(c) ==
  /\ page.open /\ c \in Contacts \ page.gone /\ Spend("removals")
  /\ page' = [page EXCEPT !.entries[c] = NoEntry, !.gone = @ \cup {c}, !.terminal = @ \ {c},
                          !.selected = IF @ = c THEN None ELSE @]
  /\ asked' = Append(asked, [call |-> "remove-instance", id |-> c])
  /\ unheard' = unheard \ {c}
  /\ UNCHANGED <<instances, shells, started, ends>>

(* Slip: a terminal that has ended still counts as started. *)
KeepsSpawned(p, c) ==
  IF p.entries[c].made THEN [p EXCEPT !.entries[c].exited = TRUE, !.exited = @ \/ c = p.selected]
  ELSE p

\* A shell's end, heard by whichever contact's section is drawn.
heardExit(p, c) ==
  LET said == [p EXCEPT !.exited = @ \/ c = p.selected]
  IN IF p.entries[c].made
     THEN [said EXCEPT !.entries[c].exited = TRUE, !.entries[c].spawned = FALSE]
     ELSE said

onShellExit ==
  /\ ends # <<>>
  /\ ends' = Tail(ends)
  /\ LET c == Head(ends)
     IN IF Mounted(page)
        THEN page' = heardExit(page, c) /\ UNCHANGED unheard
        ELSE UNCHANGED page /\ unheard' = unheard \cup {c}
  /\ UNCHANGED <<instances, shells, started, asked, left>>

\* The window is closed, what was on its way to it is lost, and opens again.
WindowCloses ==
  /\ page.open /\ Spend("windows")
  /\ page' = [NewPage(page.gone) EXCEPT !.open = FALSE]
  /\ ends' = <<>> /\ unheard' = {}
  /\ UNCHANGED <<instances, shells, started, asked>>

createWindow ==
  /\ ~page.open
  /\ page' = NewPage(page.gone)
  /\ UNCHANGED <<instances, shells, started, asked, ends, unheard, left>>

-----------------------------------------------------------------------------
(* Main *)

Say(c) == IF page.open THEN Append(ends, c) ELSE ends

\* At most one each, and none for a contact that is gone.
spawn(c) ==
  /\ IF c \in instances /\ shells[c] = 0
     THEN started' = started + 1 /\ shells' = [shells EXCEPT ![c] = started']
     ELSE UNCHANGED <<started, shells>>
  /\ UNCHANGED <<instances, ends>>

\* A shell that is killed ends too, and says so.
removeInstance(c) ==
  /\ instances' = instances \ {c}
  /\ shells' = [shells EXCEPT ![c] = 0]
  /\ ends' = IF shells[c] # 0 THEN Say(c) ELSE ends
  /\ UNCHANGED started

Called ==
  /\ asked # <<>>
  /\ asked' = Tail(asked)
  /\ LET c == Head(asked).id
     IN IF Head(asked).call = "shell-spawn" THEN spawn(c) ELSE removeInstance(c)
  /\ UNCHANGED <<page, unheard, left>>

onExit(c) ==
  /\ shells[c] # 0 /\ Spend("exits")
  /\ shells' = [shells EXCEPT ![c] = 0]
  /\ ends' = Say(c)
  /\ UNCHANGED <<instances, started, page, asked, unheard>>

-----------------------------------------------------------------------------

Next ==
  \/ handleExpandSection \/ handleRestart \/ onShellExit \/ WindowCloses \/ createWindow \/ Called
  \/ \E c \in Contacts : setSelectedId(c) \/ StatusChanges(c) \/ handleRemove(c) \/ onExit(c)

Spec == Init /\ [][Next]_vars
-----------------------------------------------------------------------------

Quiet == asked = <<>> /\ ends = <<>>
ShellThere == shells[page.selected] # 0

\* With every word said, no removed contact has a shell; a drawn section of a contact without
\* one says it ended, unless the end came while no section was drawn; and where a section says
\* so, Restart asks for a shell, also when the end crossed the page's own call and there is
\* one (TerminalSection's listeners, ShellManager's spawn and kill).
ShellsOffered ==
  Quiet =>
    /\ \A c \in Contacts \ instances : shells[c] = 0
    /\ Mounted(page) =>
         /\ ShellThere \/ page.exited \/ page.selected \in unheard
         /\ page.exited => ~page.entries[page.selected].spawned

\* "When the shell exits (user types `exit`), section shows "Terminal exited" with a Restart
\* action": without the exception.
EndsAreSaid == Quiet /\ Mounted(page) => ShellThere \/ page.exited
=============================================================================
