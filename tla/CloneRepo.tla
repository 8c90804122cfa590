----------------------------- MODULE CloneRepo -----------------------------
(***************************************************************************)
(* Cloning a repository into a new folder (new-project.ts), while the       *)
(* builder cancels, asks for another clone or quits, git ends when and how  *)
(* it likes, and other programs make, move and delete folders at the same   *)
(* paths.                                                                   *)
(*                                                                         *)
(* A folder is a number, standing for its device and inode: a path names    *)
(* one for a while.  Two windows are closed by assumption: a path does not  *)
(* change hands between the mkdir and the lstat of claimTarget, nor between *)
(* the lstat and the rm of removeOwnFolder.                                 *)
(***************************************************************************)
EXTENDS Naturals, Sequences

CONSTANTS Paths,        \* where a clone may be asked to go
          Requests,     \* calls of cloneRepo
          MaxOthers     \* bound: changes by other programs

VARIABLES
  at,           \* the folder each path names; Nothing
  makers,       \* who made each folder so far: a request, or Other
  running,      \* `running`: the request whose clone it is, or Idle
  clone,        \* of each request: its step, path, `cancelled`, `identity`, and `removed`
  stuck,        \* requests one of whose removals the disk refused
  removals,     \* <<request, folder>> of every folder the program removed
  quit,
  others        \* changes other programs may still make

vars == <<at, makers, running, clone, stuck, removals, quit, others>>

Nothing == 0
Idle == "idle"
Other == "other"
folders == DOMAIN makers
Unasked == [step |-> "unasked", path |-> Nothing, cancelled |-> FALSE,
            identity |-> Nothing, removed |-> FALSE]

(* The clones that hold the claim: between being asked and being settled. *)
Underway == {r \in Requests : clone[r].step \in {"claiming", "env", "git", "removing"}}

CloneTypeOK ==
  /\ at \in [Paths -> {Nothing} \cup folders]
  /\ running \in Requests \cup {Idle}
  /\ clone \in [Requests ->
       [step : {"unasked", "claiming", "env", "git", "removing",
                "done", "failed", "cancelled", "refused"},
        path : Paths \cup {Nothing}, cancelled : BOOLEAN, identity : {Nothing} \cup folders,
        removed : BOOLEAN]]
  /\ removals \subseteq Requests \X folders

Init ==
  /\ at = [p \in Paths |-> Nothing]
  /\ makers = <<>> /\ running = Idle
  /\ clone = [r \in Requests |-> Unasked]
  /\ stuck = {} /\ removals = {} /\ quit = FALSE /\ others = MaxOthers

----------------------------------------------------------------------------
(* A call while another clone holds the claim is refused; otherwise the    *)
(* claim is taken before anything is awaited.                              *)
cloneRepo(r, p) ==
  /\ clone[r].step = "unasked" /\ ~quit
  /\ IF running # Idle
     THEN /\ clone' = [clone EXCEPT ![r].step = "refused"]
          /\ UNCHANGED running
     ELSE /\ clone' = [clone EXCEPT ![r].step = "claiming", ![r].path = p]
          /\ running' = r
  /\ UNCHANGED <<at, makers, stuck, removals, quit, others>>

(* mkdir is the claim on the path: anything there already refuses it.      *)
claimTarget(r) ==
  /\ clone[r].step = "claiming" /\ at[clone[r].path] = Nothing
  /\ makers' = Append(makers, r)
  /\ at' = [at EXCEPT ![clone[r].path] = Len(makers')]
  /\ clone' = [clone EXCEPT ![r].step = "env", ![r].identity = Len(makers')]
  /\ UNCHANGED <<running, stuck, removals, quit, others>>

(* EEXIST, or a request that does not hold up (its URL, its name, its parent). *)
refuse(r) ==
  /\ clone[r].step = "claiming"
  /\ clone' = [clone EXCEPT ![r].step = "refused"]
  /\ running' = Idle
  /\ UNCHANGED <<at, makers, stuck, removals, quit, others>>

(* The environment is read; cancelled meanwhile, git never starts, and the *)
(* same when it cannot be started.                                         *)
spawn(r, starts) ==
  /\ clone[r].step = "env"
  /\ clone' = [clone EXCEPT ![r].step =
                 IF starts /\ ~clone[r].cancelled THEN "git" ELSE "removing"]
  /\ UNCHANGED <<at, makers, running, stuck, removals, quit, others>>

(* git and its helpers are gone, of themselves or by the signals of        *)
(* cancelClone and abortCloneForQuit; a git that fails may have taken the  *)
(* folder with it.                                                         *)
finish(r, code, swept) ==
  /\ clone[r].step = "git"
  /\ swept => code # 0 /\ at[clone[r].path] = clone[r].identity
  /\ at' = IF swept THEN [at EXCEPT ![clone[r].path] = Nothing] ELSE at
  /\ IF code = 0 /\ ~clone[r].cancelled
     THEN /\ clone' = [clone EXCEPT ![r].step = "done"]
          /\ running' = Idle
     ELSE /\ clone' = [clone EXCEPT ![r].step = "removing"]
          /\ UNCHANGED running
  /\ UNCHANGED <<makers, stuck, removals, quit, others>>

----------------------------------------------------------------------------
(* Whether the folder at the path is the one this clone made. *)
IsOwn(r) == at[clone[r].path] = clone[r].identity

(* The disk's part of a removal: the folder goes, or the disk refuses.     *)
TakeAway(r, refused) ==
  /\ at' = IF refused THEN at ELSE [at EXCEPT ![clone[r].path] = Nothing]
  /\ removals' = IF refused THEN removals ELSE removals \cup {<<r, at[clone[r].path]>>}
  /\ stuck' = IF refused THEN stuck \cup {r} ELSE stuck

(* Slip: the folder goes by its path alone. *)
removeByPath(r, refused) ==
  LET there == at[clone[r].path] # Nothing IN
  /\ clone[r].step = "removing"
  /\ IF there THEN TakeAway(r, refused) ELSE UNCHANGED <<at, removals, stuck>>
  /\ clone' = [clone EXCEPT ![r].step = IF clone[r].cancelled THEN "cancelled" ELSE "failed",
                            ![r].removed = ~there \/ ~refused]
  /\ running' = Idle
  /\ UNCHANGED <<makers, quit, others>>

(* removeOwnFolder, and what cloneRepo then settles on: `cancelled` is read *)
(* after the removal, so a cancel during it still counts.                   *)
removeOwnFolder(r, refused) ==
  LET there == at[clone[r].path] # Nothing IN
  /\ clone[r].step = "removing"
  /\ IF there /\ IsOwn(r) THEN TakeAway(r, refused) ELSE UNCHANGED <<at, removals, stuck>>
  /\ clone' = [clone EXCEPT ![r].step = IF clone[r].cancelled THEN "cancelled" ELSE "failed",
                            ![r].removed = ~there \/ (IsOwn(r) /\ ~refused)]
  /\ running' = Idle
  /\ UNCHANGED <<makers, quit, others>>

(* Cancel signals git's group; before git has started it only leaves word. *)
(* (SIGKILL follows after a while if the group is still there.)            *)
cancelClone ==
  /\ running # Idle /\ ~clone[running].cancelled
  /\ clone' = [clone EXCEPT ![running].cancelled = TRUE]
  /\ UNCHANGED <<at, makers, running, stuck, removals, quit, others>>

(* Quitting kills git at once and takes the folder with it.  The program   *)
(* lives on for a moment, so the clone's own steps may still follow.       *)
abortCloneForQuit(refused) ==
  /\ ~quit /\ quit' = TRUE
  /\ IF running = Idle
     THEN UNCHANGED <<at, clone, removals, stuck>>
     ELSE /\ clone' = [clone EXCEPT ![running].cancelled = TRUE]
          /\ IF clone[running].identity # Nothing /\ IsOwn(running)
             THEN TakeAway(running, refused)
             ELSE UNCHANGED <<at, removals, stuck>>
  /\ UNCHANGED <<makers, running, others>>

(* Another program deletes or moves away what is at a path, or makes a     *)
(* folder of its own there.                                                *)
Elsewhere(p) ==
  /\ others > 0 /\ others' = others - 1
  /\ IF at[p] = Nothing
     THEN makers' = Append(makers, Other) /\ at' = [at EXCEPT ![p] = Len(makers')]
     ELSE at' = [at EXCEPT ![p] = Nothing] /\ UNCHANGED makers
  /\ UNCHANGED <<running, clone, stuck, removals, quit>>

Next ==
  \/ \E r \in Requests : \/ \E p \in Paths : cloneRepo(r, p)
                         \/ claimTarget(r) \/ refuse(r)
                         \/ \E starts \in BOOLEAN : spawn(r, starts)
                         \/ \E code \in {0, 1}, swept \in BOOLEAN : finish(r, code, swept)
                         \/ \E refused \in BOOLEAN : removeOwnFolder(r, refused)
  \/ cancelClone \/ \E refused \in BOOLEAN : abortCloneForQuit(refused)
  \/ \E p \in Paths : Elsewhere(p)

Spec == Init /\ [][Next]_vars

----------------------------------------------------------------------------
(* The program removes no folder but one that very clone made, never one   *)
(* of a clone that is done, and one clone at a time holds the claim; a     *)
(* clone that failed or was cancelled says "removed" only when its folder  *)
(* is gone from its path, and otherwise the disk refused or another folder *)
(* is there (new-project.ts's claim and removeOwnFolder).                  *)
FoldersKept ==
  /\ CloneTypeOK
  /\ \A x \in removals : makers[x[2]] = x[1] /\ clone[x[1]].step # "done"
  /\ Underway = {running} \ {Idle}
  /\ \A r \in Requests :
       clone[r].step \in {"failed", "cancelled"} /\ at[clone[r].path] = clone[r].identity =>
         ~clone[r].removed /\ r \in stuck
=============================================================================
