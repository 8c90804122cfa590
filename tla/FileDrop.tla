------------------------------ MODULE FileDrop ------------------------------
(***************************************************************************)
(* Finder drops copied into a project's folder (file-drop.ts).  Drops may   *)
(* overlap, for nothing keeps one waiting for another; meanwhile other      *)
(* programs make and delete names in the folder and change the sources.     *)
(*                                                                         *)
(* A name is a tuple whose later members are the numbers added to it, so a  *)
(* source may bear the name that another's second copy would get.  A copy   *)
(* that the disk fails halfway leaves nothing behind: the system's copyFile *)
(* sees to that.                                                            *)
(***************************************************************************)
EXTENDS Naturals, Sequences

CONSTANTS Names,            \* the names a dropped path may have
          Drops,            \* calls of copyIntoFolder
          MAX_DROP_FILES, MAX_NUMBER,
          MaxChanges        \* bound: changes by other programs

VARIABLES
  disk,       \* the folder: each name's entry, where there is one
  entries,    \* every entry ever made there: its name, and the copy it is of, or Other
  deleted,    \* the entries other programs took away
  kind,       \* what each dropped path now is, by its drop and its place in it
  drop,       \* of each drop: its names, its results so far, and the copy under way
  changes     \* changes other programs may still make

vars == <<disk, entries, deleted, kind, drop, changes>>

Other == <<"other">>
Kinds == {"file", "folder", "pipe", "gone"}
NotYet == [step |-> "unasked", names |-> <<>>, results |-> <<>>, n |-> 1]
Copied(name, n) == [ok |-> TRUE, destination |-> name, renamed |-> n > 1]
Failed(reason) == [ok |-> FALSE, reason |-> reason]

(* `report 2.docx`: what Finder calls the nth copy.                        *)
numberedName(name, n) == IF n < 2 THEN name ELSE Append(name, n)

Init ==
  /\ disk = <<>> /\ entries = {} /\ deleted = {}
  /\ kind = <<>>
  /\ drop = [d \in Drops |-> NotYet]
  /\ changes = MaxChanges

----------------------------------------------------------------------------
(* Every source of a drop fails for the same reason, and nothing is copied. *)
RefuseAll(d, names, reason) ==
  drop' = [drop EXCEPT ![d] = [@ EXCEPT !.step = "settled", !.names = names,
                                        !.results = [i \in DOMAIN names |-> Failed(reason)]]]

(* The check before the copies: too many, a folder among them, too much,   *)
(* or a target that is gone.  A path that cannot be read is let through.   *)
copyIntoFolder(d, names, kinds, tooLarge, target) ==
  /\ drop[d].step = "unasked" /\ DOMAIN kinds = DOMAIN names
  /\ IF \/ Len(names) > MAX_DROP_FILES \/ tooLarge \/ ~target
        \/ \E i \in DOMAIN kinds : kinds[i] = "folder"
     THEN RefuseAll(d, names, "the drop is refused") /\ UNCHANGED kind
     ELSE /\ drop' = [drop EXCEPT ![d] = [@ EXCEPT !.step = "look", !.names = names]]
          /\ kind' = [x \in DOMAIN kind \cup {<<d, i>> : i \in DOMAIN names} |->
                        IF x[1] = d THEN kinds[x[2]] ELSE kind[x]]
  /\ UNCHANGED <<disk, entries, deleted, changes>>

(* The copy a drop is at, and its result, which moves it to the next one.  *)
Place(d) == Len(drop[d].results) + 1
Settle(d, result) ==
  drop' = [drop EXCEPT ![d].results = Append(@, result), ![d].n = 1,
              ![d].step = IF Place(d) = Len(drop[d].names) THEN "settled" ELSE "look"]

(* copyOne begins with what the path is by now.                            *)
copyOne(d) ==
  LET is == kind[<<d, Place(d)>>] IN
  /\ drop[d].step = "look"
  /\ IF is = "file" THEN drop' = [drop EXCEPT ![d].step = "try"]
                    ELSE Settle(d, Failed(is))
  /\ UNCHANGED <<disk, entries, deleted, kind, changes>>

Destination(d) == numberedName(drop[d].names[Place(d)], drop[d].n)

(* The copy goes to its destination, under the number it is now at.        *)
Create(d) ==
  LET e == [name |-> Destination(d), of |-> <<d, Place(d)>>] IN
  /\ entries' = entries \cup {e}
  /\ disk' = [n \in DOMAIN disk \cup {e.name} |-> IF n = e.name THEN e ELSE disk[n]]
  /\ Settle(d, Copied(e.name, drop[d].n))

(* One try of claimName's loop: an exclusive creation.  A name that is     *)
(* taken moves it to the next number; a file that has gone or become       *)
(* something else, and a disk that refuses, end it.                        *)
claimName(d, refused) ==
  /\ drop[d].step = "try"
  /\ IF Destination(d) \in DOMAIN disk
     THEN /\ IF drop[d].n = MAX_NUMBER THEN Settle(d, Failed("too many copies"))
                                       ELSE drop' = [drop EXCEPT ![d].n = @ + 1]
          /\ UNCHANGED <<disk, entries>>
     ELSE IF refused \/ kind[<<d, Place(d)>>] # "file"
     THEN Settle(d, Failed("not copied")) /\ UNCHANGED <<disk, entries>>
     ELSE Create(d)
  /\ UNCHANGED <<deleted, kind, changes>>

----------------------------------------------------------------------------
(* Another program makes a name in the folder, deletes one, or changes what *)
(* a dropped path is.                                                       *)
Elsewhere ==
  /\ changes > 0 /\ changes' = changes - 1
  /\ \/ \E name \in Names :
          LET e == [name |-> name, of |-> Append(Other, changes)] IN
          /\ name \notin DOMAIN disk
          /\ entries' = entries \cup {e}
          /\ disk' = [n \in DOMAIN disk \cup {name} |-> IF n = name THEN e ELSE disk[n]]
          /\ UNCHANGED <<deleted, kind>>
     \/ \E name \in DOMAIN disk :
          /\ deleted' = deleted \cup {disk[name]}
          /\ disk' = [n \in DOMAIN disk \ {name} |-> disk[n]]
          /\ UNCHANGED <<entries, kind>>
     \/ \E x \in DOMAIN kind, k \in Kinds :
          kind' = [kind EXCEPT ![x] = k] /\ UNCHANGED <<disk, entries, deleted>>
  /\ UNCHANGED drop

Upto(n, S) == UNION {[1..k -> S] : k \in 1..n}

Next ==
  \/ \E d \in Drops :
       \/ \E names \in Upto(MAX_DROP_FILES + 1, Names) :
            \E kinds \in [DOMAIN names -> {"file", "folder"}], tooLarge, target \in BOOLEAN :
              copyIntoFolder(d, names, kinds, tooLarge, target)
       \/ copyOne(d)
       \/ \E refused \in BOOLEAN : claimName(d, refused)
  \/ Elsewhere

Spec == Init /\ [][Next]_vars

----------------------------------------------------------------------------
(* No copy replaces what is in the folder: all that was ever made there is *)
(* under its name still, unless another program took it away.  And each    *)
(* result is true of its own source, in the drop's order: a copy said to   *)
(* be made is an entry of that very file, said to be renamed exactly when  *)
(* it is not under the file's own name, and a failure left none            *)
(* (copyIntoFolder, copyOne, claimName of file-drop.ts).                    *)
NothingReplaced ==
  /\ \A e \in entries \ deleted : e.name \in DOMAIN disk /\ disk[e.name] = e
  /\ \A d \in Drops :
       /\ drop[d].step = "settled" => Len(drop[d].results) = Len(drop[d].names)
       /\ \A i \in DOMAIN drop[d].results :
            LET result == drop[d].results[i]
                copies == {e \in entries : e.of = <<d, i>>} IN
            IF result.ok
            THEN /\ copies = {[name |-> result.destination, of |-> <<d, i>>]}
                 /\ result.renamed = (result.destination # drop[d].names[i])
            ELSE copies = {}
=============================================================================
