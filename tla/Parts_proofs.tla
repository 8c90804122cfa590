---------------------------- MODULE Parts_proofs ----------------------------
(***************************************************************************)
(* Proofs about small parts of the program, each on its own: for any value  *)
(* of their constants and in all of their behaviours.                       *)
(***************************************************************************)
EXTENDS Naturals, Sequences, FiniteSets, SequenceTheorems, TLAPS

-----------------------------------------------------------------------------
(* Files dropped into a project (FileDrop) *)

CONSTANTS Names, Drops, MAX_DROP_FILES, MAX_NUMBER, MaxChanges
VARIABLES disk, entries, deleted, kind, drop, changes

Drop == INSTANCE FileDrop

\* A name is a sequence, and no call of the program is called what stands for another program's.
DropAssumption ==
  /\ \A name \in Names : name \in Seq({name[i] : i \in DOMAIN name})
  /\ "other" \notin Drops
  /\ MAX_NUMBER \in Nat \ {0}

Destinations == {Drop!numberedName(name, n) : name \in Names, n \in 1..MAX_NUMBER}
Reasons == Drop!Kinds \cup {"too many copies", "not copied", "the drop is refused"}
Results == [ok : {TRUE}, destination : Destinations, renamed : BOOLEAN] \cup [ok : {FALSE}, reason : Reasons]
DropRecords == [step : {"unasked", "look", "try", "settled"}, names : Seq(Names), results : Seq(Results),
                n : 1..MAX_NUMBER]

DropTypes ==
  /\ drop \in [Drops -> DropRecords]
  /\ \A x \in DOMAIN kind : kind[x] \in Drop!Kinds

\* A drop under way has a result for each of its files before the one it is at, and knows what
\* that one was; a settled one has them all.
Underway ==
  \A d \in Drops :
    /\ drop[d].step \in {"look", "try"} =>
         /\ Len(drop[d].results) < Len(drop[d].names)
         /\ \A i \in 1..Len(drop[d].names) : <<d, i>> \in DOMAIN kind
    /\ drop[d].step = "settled" => Len(drop[d].results) = Len(drop[d].names)
    /\ drop[d].step = "unasked" => drop[d].results = <<>> /\ \A x \in DOMAIN kind : x[1] # d

\* What is in the folder is an entry under its own name; and all that was made and not taken
\* away is there.
InFolder ==
  /\ \A n \in DOMAIN disk : disk[n] \in entries /\ disk[n].name = n
  /\ \A e \in entries \ deleted : e.name \in DOMAIN disk /\ disk[e.name] = e

\* The entries that are copies of the i-th file of the drop d.
CopiesOf(d, i) == {e \in entries : e.of = <<d, i>>}

\* Each result is true of its own file, and a file without one has no copy.
TrueOf(d) ==
    /\ \A i \in 1..Len(drop[d].results) :
         IF drop[d].results[i].ok
         THEN /\ CopiesOf(d, i) = {[name |-> drop[d].results[i].destination, of |-> <<d, i>>]}
              /\ drop[d].results[i].renamed = (drop[d].results[i].destination # drop[d].names[i])
         ELSE CopiesOf(d, i) = {}
    /\ \A i \in Nat : i > Len(drop[d].results) => CopiesOf(d, i) = {}
ResultsTrue == \A d \in Drops : TrueOf(d)

DropInv == DropTypes /\ Underway /\ InFolder /\ ResultsTrue

(* A numbered name is another name. *)
LEMMA Numbered ==
  ASSUME DropAssumption, NEW name \in Names, NEW n \in 1..MAX_NUMBER
  PROVE  (n > 1) = (Drop!numberedName(name, n) # name)
<1>1. CASE n < 2
  BY <1>1 DEF Drop!numberedName
<1>2. CASE n > 1
  <2>1. PICK S : name \in Seq(S)
    BY DEF DropAssumption
  <2>2. name \in Seq(S \cup {n}) /\ n \in S \cup {n}
    BY <2>1
  <2>3. Len(Append(name, n)) = Len(name) + 1
    BY <2>2
  <2>4. Drop!numberedName(name, n) = Append(name, n)
    BY <1>2 DEF Drop!numberedName
  <2>5. Len(name) \in Nat
    BY <2>1
  <2>6. QED BY <1>2, <2>3, <2>4, <2>5
<1>3. QED BY <1>1, <1>2 DEF DropAssumption

(* What another program makes is a copy of no dropped file. *)
LEMMA OthersEntry ==
  ASSUME DropAssumption, NEW d \in Drops, NEW i, NEW c
  PROVE  Append(Drop!Other, c) # <<d, i>>
<1>1. <<"other">> \in Seq({"other", c}) /\ c \in {"other", c}
  OBVIOUS
<1>2. Append(<<"other">>, c)[1] = "other"
  BY <1>1
<1>3. Append(<<"other">>, c) # <<d, i>>
  <2>1. <<d, i>>[1] = d /\ d # "other"
    BY DEF DropAssumption
  <2>2. QED BY <1>2, <2>1
<1>4. QED BY <1>3 DEF Drop!Other

(* A failure is a result, and says so. *)
LEMMA FailedResult ==
  ASSUME NEW reason \in Reasons PROVE Drop!Failed(reason) \in Results /\ ~Drop!Failed(reason).ok
  BY DEF Drop!Failed, Results

(* At first nothing has been dropped. *)
LEMMA DropStarts == ASSUME DropAssumption, Drop!Init PROVE DropInv
  BY DEF DropAssumption, Drop!Init, Drop!NotYet, DropInv, DropTypes, DropRecords, Underway, InFolder,
         ResultsTrue, TrueOf, CopiesOf

(* A settled copy moves its drop on by that result, and leaves the others. *)
LEMMA Settling ==
  ASSUME DropAssumption, DropTypes, Underway, NEW d \in Drops, drop[d].step \in {"look", "try"},
         NEW result \in Results, Drop!Settle(d, result), UNCHANGED kind
  PROVE  /\ DropTypes' /\ Underway'
         /\ drop'[d].names = drop[d].names /\ drop'[d].results = Append(drop[d].results, result)
         /\ \A other \in Drops \ {d} : drop'[other] = drop[other]
<1> DEFINE step == IF Len(drop[d].results) + 1 = Len(drop[d].names) THEN "settled" ELSE "look"
           r == [drop[d] EXCEPT !.results = Append(drop[d].results, result), !.n = 1, !.step = step]
<1>1. drop' = [drop EXCEPT ![d] = r]
  BY DEF Drop!Settle, Drop!Place, DropTypes
<1>2. drop[d] \in DropRecords
  BY DEF DropTypes
<1>3. /\ r \in DropRecords /\ r.names = drop[d].names /\ r.results = Append(drop[d].results, result)
      /\ r.step = step
  <2>1. Append(drop[d].results, result) \in Seq(Results)
    BY <1>2 DEF DropRecords
  <2>2. step \in {"settled", "look"}
    OBVIOUS
  <2>3. 1 \in 1..MAX_NUMBER
    BY DEF DropAssumption
  <2> HIDE DEF step
  <2>4. QED BY <1>2, <2>1, <2>2, <2>3 DEF DropRecords
<1> HIDE DEF r
<1>4. drop'[d] = r /\ \A other \in Drops \ {d} : drop'[other] = drop[other]
  BY <1>1 DEF DropTypes
<1>5. DropTypes'
  BY <1>1, <1>3 DEF DropTypes
<1>6. Underway'
  <2>1. /\ Len(r.results) = Len(drop[d].results) + 1
        /\ Len(drop[d].results) \in Nat /\ Len(drop[d].names) \in Nat
    BY <1>2, <1>3 DEF DropRecords
  <2>2. /\ r.step \in {"look", "try"} => Len(r.results) < Len(r.names)
        /\ r.step = "settled" => Len(r.results) = Len(r.names)
        /\ r.step \in {"look", "settled"}
    BY <1>3, <2>1 DEF Underway
  <2>3. \A i \in 1..Len(r.names) : <<d, i>> \in DOMAIN kind
    BY <1>3 DEF Underway
  <2>4. ASSUME NEW other \in Drops \ {d}, NEW q, q = drop'[other]
        PROVE  /\ q.step \in {"look", "try"} =>
                    Len(q.results) < Len(q.names) /\ \A i \in 1..Len(q.names) : <<other, i>> \in DOMAIN kind
               /\ q.step = "settled" => Len(q.results) = Len(q.names)
               /\ q.step = "unasked" => q.results = <<>> /\ \A x \in DOMAIN kind : x[1] # other
    BY <1>4, <2>4 DEF Underway
  <2>5. QED BY <1>4, <2>2, <2>3, <2>4 DEF Underway
<1>7. QED BY <1>3, <1>4, <1>5, <1>6

(* A copy that fails leaves nothing, and its result says so. *)
LEMMA Failing ==
  ASSUME DropAssumption, DropInv, NEW d \in Drops, drop[d].step \in {"look", "try"},
         NEW reason \in Reasons,
         Drop!Settle(d, Drop!Failed(reason)), UNCHANGED <<disk, entries, deleted, kind>>
  PROVE  DropInv'
<1> DEFINE result == Drop!Failed(reason)
<1>1. result \in Results /\ ~result.ok
  BY FailedResult
<1>2. /\ DropTypes' /\ Underway'
      /\ drop'[d].names = drop[d].names /\ drop'[d].results = Append(drop[d].results, result)
      /\ \A other \in Drops \ {d} : drop'[other] = drop[other]
  BY <1>1, Settling DEF DropInv
<1> HIDE DEF result
<1>3. InFolder'
  BY DEF DropInv, InFolder
<1>4. ResultsTrue'
  <2>1. drop[d].results \in Seq(Results)
    BY DEF DropInv, DropTypes, DropRecords
  <2>2. /\ Len(drop'[d].results) = Len(drop[d].results) + 1 /\ Len(drop[d].results) \in Nat
        /\ \A i \in 1..Len(drop[d].results) : drop'[d].results[i] = drop[d].results[i]
        /\ drop'[d].results[Len(drop[d].results) + 1] = result
    BY <1>1, <1>2, <2>1
  <2>3. \A e, i : CopiesOf(e, i)' = CopiesOf(e, i)
    BY DEF CopiesOf
  <2> DEFINE l == Len(drop[d].results)
  <2>4. ASSUME NEW i \in 1..l
        PROVE  IF drop'[d].results[i].ok
               THEN /\ CopiesOf(d, i) = {[name |-> drop'[d].results[i].destination, of |-> <<d, i>>]}
                    /\ drop'[d].results[i].renamed = (drop'[d].results[i].destination # drop'[d].names[i])
               ELSE CopiesOf(d, i) = {}
    BY <1>2, <2>2 DEF DropInv, ResultsTrue, TrueOf
  <2>5. CopiesOf(d, l + 1) = {} /\ ~drop'[d].results[l + 1].ok
    BY SMTT(30), <1>1, <2>2 DEF DropInv, ResultsTrue, TrueOf
  <2>6. \A i \in Nat : i > l + 1 => CopiesOf(d, i) = {}
    BY <2>2 DEF DropInv, ResultsTrue, TrueOf
  <2>7. \A i \in 1..(l + 1) : i \in 1..l \/ i = l + 1
    BY <2>2
  <2>8. \A i \in 1..Len(drop'[d].results) :
          IF drop'[d].results[i].ok
          THEN /\ CopiesOf(d, i) = {[name |-> drop'[d].results[i].destination, of |-> <<d, i>>]}
               /\ drop'[d].results[i].renamed = (drop'[d].results[i].destination # drop'[d].names[i])
          ELSE CopiesOf(d, i) = {}
    BY <2>2, <2>4, <2>5, <2>7
  <2>9. TrueOf(d)'
    BY <2>2, <2>3, <2>6, <2>8 DEF TrueOf
  <2>10. ASSUME NEW other \in Drops \ {d} PROVE TrueOf(other)'
    BY <1>2, <2>3 DEF DropInv, ResultsTrue, TrueOf
  <2>11. QED BY <2>9, <2>10 DEF ResultsTrue
<1>5. QED BY <1>2, <1>3, <1>4 DEF DropInv

(* The check before the copies refuses every file, or lets the drop begin. *)
LEMMA Dropping ==
  ASSUME DropAssumption, DropInv, NEW d \in Drops, NEW names \in Seq(Names), names # <<>>,
         NEW kinds \in [DOMAIN names -> {"file", "folder"}], NEW tooLarge \in BOOLEAN, NEW target \in BOOLEAN,
         Drop!copyIntoFolder(d, names, kinds, tooLarge, target)
  PROVE  DropInv'
<1>1. drop[d].step = "unasked" /\ drop[d] \in DropRecords /\ drop[d].results = <<>>
  BY DEF Drop!copyIntoFolder, DropInv, DropTypes, Underway
<1>2. \A other, i : CopiesOf(other, i)' = CopiesOf(other, i)
  BY DEF CopiesOf, Drop!copyIntoFolder
<1>3. InFolder'
  BY DEF InFolder, DropInv, Drop!copyIntoFolder
<1>4. \A i \in Nat : i > 0 => CopiesOf(d, i) = {}
  BY <1>1 DEF DropInv, ResultsTrue, TrueOf
<1>5. Len(names) \in Nat /\ Len(names) > 0 /\ DOMAIN names = 1..Len(names)
  OBVIOUS
<1>6. CASE Drop!RefuseAll(d, names, "the drop is refused") /\ UNCHANGED kind
  <2> DEFINE result == Drop!Failed("the drop is refused")
             r == [drop[d] EXCEPT !.step = "settled", !.names = names,
                                  !.results = [i \in DOMAIN names |-> result]]
  <2>1. result \in Results /\ ~result.ok
    <3>1. "the drop is refused" \in Reasons
      BY DEF Reasons
    <3>2. QED BY <3>1, FailedResult
  <2>2. drop' = [drop EXCEPT ![d] = r]
    BY <1>6 DEF Drop!RefuseAll
  <2> HIDE DEF result
  <2>3. /\ r \in DropRecords /\ r.step = "settled" /\ r.names = names
        /\ r.results = [i \in 1..Len(names) |-> result]
    <3>1. [i \in 1..Len(names) |-> result] \in Seq(Results)
      BY <1>5, <2>1
    <3>2. QED BY <1>1, <1>5, <3>1 DEF DropRecords
  <2> HIDE DEF r
  <2>4. drop'[d] = r /\ \A other \in Drops \ {d} : drop'[other] = drop[other]
    BY <2>2 DEF DropInv, DropTypes
  <2>5. DropTypes'
    BY <1>6, <2>2, <2>3 DEF DropInv, DropTypes
  <2>6. Len(r.results) = Len(names)
    BY <1>5, <2>3
  <2>7. Underway'
    BY ZenonT(40), <1>6, <2>3, <2>4, <2>6 DEF DropInv, Underway
  <2>8. TrueOf(d)'
    BY <1>2, <1>4, <1>5, <2>1, <2>3, <2>4, <2>6 DEF TrueOf
  <2>9. ASSUME NEW other \in Drops \ {d} PROVE TrueOf(other)'
    BY <1>2, <2>4 DEF DropInv, ResultsTrue, TrueOf
  <2>10. QED BY <1>3, <2>5, <2>7, <2>8, <2>9 DEF DropInv, ResultsTrue
<1>7. CASE /\ drop' = [drop EXCEPT ![d] = [drop[d] EXCEPT !.step = "look", !.names = names]]
           /\ kind' = [x \in DOMAIN kind \cup {<<d, i>> : i \in DOMAIN names} |->
                         IF x[1] = d THEN kinds[x[2]] ELSE kind[x]]
  <2> DEFINE r == [drop[d] EXCEPT !.step = "look", !.names = names]
  <2>1. r \in DropRecords /\ r.step = "look" /\ r.names = names /\ r.results = <<>>
    BY <1>1 DEF DropRecords
  <2>2. drop' = [drop EXCEPT ![d] = r]
    BY <1>7
  <2> HIDE DEF r
  <2>3. drop'[d] = r /\ \A other \in Drops \ {d} : drop'[other] = drop[other]
    BY <2>2 DEF DropInv, DropTypes
  <2> DEFINE asked == {<<d, i>> : i \in DOMAIN names}
  <2>4. \A x \in DOMAIN kind' : kind'[x] \in Drop!Kinds
    <3>1. \A x \in DOMAIN kind : x[1] # d /\ kind[x] \in Drop!Kinds
      BY <1>1 DEF DropInv, DropTypes, Underway
    <3>2. \A x \in asked : x[1] = d /\ kinds[x[2]] \in Drop!Kinds
      BY DEF Drop!Kinds
    <3>3. QED BY <1>7, <3>1, <3>2
  <2>5. DropTypes'
    BY <2>1, <2>2, <2>4 DEF DropInv, DropTypes
  <2>6. DOMAIN kind \subseteq DOMAIN kind' /\ \A i \in 1..Len(names) : <<d, i>> \in DOMAIN kind'
    BY <1>5, <1>7
  <2>7. Underway'
    <3>1. \A x \in DOMAIN kind' : x \in DOMAIN kind \/ x[1] = d
      BY <1>7
    <3>2. \A other \in Drops \ {d} : \A x \in DOMAIN kind' : x[1] = other => x \in DOMAIN kind
      BY <3>1
    <3>3. QED BY <1>5, <2>1, <2>3, <2>6, <3>2 DEF DropInv, Underway
  <2>8. TrueOf(d)'
    BY <1>2, <1>4, <2>1, <2>3 DEF TrueOf
  <2>9. ASSUME NEW other \in Drops \ {d} PROVE TrueOf(other)'
    BY <1>2, <2>3 DEF DropInv, ResultsTrue, TrueOf
  <2>10. QED BY <1>3, <2>5, <2>7, <2>8, <2>9 DEF DropInv, ResultsTrue
<1>8. QED BY <1>6, <1>7 DEF Drop!copyIntoFolder

(* A copy made goes to a name that was free, and is its file's only one. *)
LEMMA Creating ==
  ASSUME DropAssumption, DropInv, NEW d \in Drops, drop[d].step = "try",
         Drop!Destination(d) \notin DOMAIN disk, Drop!Create(d), UNCHANGED <<deleted, kind>>
  PROVE  DropInv'
<1>0. drop[d] \in DropRecords /\ Len(drop[d].results) \in Nat
  BY DEF DropInv, DropTypes, DropRecords
<1> PICK l \in Nat : l = Len(drop[d].results)
  BY <1>0
<1> PICK name : name = Drop!Destination(d)
  OBVIOUS
<1> PICK e : e = [name |-> name, of |-> <<d, l + 1>>]
  OBVIOUS
<1> PICK result : result = Drop!Copied(name, drop[d].n)
  OBVIOUS
<1>1. /\ entries' = entries \cup {e}
      /\ disk' = [n \in DOMAIN disk \cup {name} |-> IF n = name THEN e ELSE disk[n]]
      /\ Drop!Settle(d, result)
  BY DEF Drop!Create, Drop!Place
<1>2. /\ drop[d] \in DropRecords /\ drop[d].names[l + 1] \in Names /\ l \in Nat
      /\ drop[d].n \in 1..MAX_NUMBER
  BY DEF DropInv, DropTypes, DropRecords, Underway
<1>3. name = Drop!numberedName(drop[d].names[l + 1], drop[d].n)
  BY DEF Drop!Destination, Drop!Place
<1>4. /\ result \in Results /\ result.ok /\ result.destination = name
      /\ result.renamed = (name # drop[d].names[l + 1])
  <2>1. name \in Destinations
    BY <1>2, <1>3 DEF Destinations
  <2>2. (drop[d].n > 1) = (name # drop[d].names[l + 1])
    BY <1>2, <1>3, Numbered
  <2>3. result = [ok |-> TRUE, destination |-> name, renamed |-> drop[d].n > 1]
    BY DEF Drop!Copied
  <2>4. result \in [ok : {TRUE}, destination : Destinations, renamed : BOOLEAN]
    <3>1. (drop[d].n > 1) \in BOOLEAN
      OBVIOUS
    <3> HIDE DEF Destinations
    <3>2. QED BY <2>1, <2>3, <3>1
  <2>5. result \in Results
    BY <2>4, Zenon DEF Results
  <2>6. result.renamed = (drop[d].n > 1)
    BY <2>3
  <2>7. result.renamed = (name # drop[d].names[l + 1])
    BY <2>2, <2>6, Zenon
  <2>8. QED BY <2>3, <2>5, <2>7
<1>5. /\ DropTypes' /\ Underway'
      /\ drop'[d].names = drop[d].names /\ drop'[d].results = Append(drop[d].results, result)
      /\ \A other \in Drops \ {d} : drop'[other] = drop[other]
  BY <1>1, <1>4, Settling DEF DropInv
<1>6. InFolder'
  <2>1. name \notin DOMAIN disk /\ e.name = name
    OBVIOUS
  <2>2. QED BY <1>1, <2>1 DEF DropInv, InFolder
<1>7. ASSUME NEW other \in Drops, NEW i \in Nat, other # d \/ i # l + 1
      PROVE  CopiesOf(other, i)' = CopiesOf(other, i)
  <2>1. e.of # <<other, i>>
    BY <1>7
  <2>2. QED BY <1>1, <2>1 DEF CopiesOf
<1>8. CopiesOf(d, l + 1)' = {e}
  <2>1. CopiesOf(d, l + 1) = {}
    BY <1>2 DEF DropInv, ResultsTrue, TrueOf
  <2>2. e.of = <<d, l + 1>>
    OBVIOUS
  <2>3. entries' = entries \cup {e}
    BY <1>1
  <2>4. QED BY <2>1, <2>2, <2>3 DEF CopiesOf
<1>9. /\ Len(drop'[d].results) = l + 1
      /\ \A i \in 1..l : drop'[d].results[i] = drop[d].results[i]
      /\ drop'[d].results[l + 1] = result
  BY <1>2, <1>4, <1>5 DEF DropRecords
<1>10. TrueOf(d)'
  <2>1. ASSUME NEW i \in 1..l
        PROVE  IF drop'[d].results[i].ok
               THEN /\ CopiesOf(d, i)' = {[name |-> drop'[d].results[i].destination, of |-> <<d, i>>]}
                    /\ drop'[d].results[i].renamed = (drop'[d].results[i].destination # drop'[d].names[i])
               ELSE CopiesOf(d, i)' = {}
    <3>1. CopiesOf(d, i)' = CopiesOf(d, i)
      BY <1>2, <1>7
    <3>2. QED BY <1>5, <1>9, <3>1 DEF DropInv, ResultsTrue, TrueOf
  <2>2. /\ CopiesOf(d, l + 1)' = {[name |-> result.destination, of |-> <<d, l + 1>>]}
        /\ result.renamed = (result.destination # drop'[d].names[l + 1])
    BY <1>4, <1>5, <1>8
  <2>3. \A i \in Nat : i > l + 1 => CopiesOf(d, i)' = {}
    BY <1>2, <1>7 DEF DropInv, ResultsTrue, TrueOf
  <2>4. \A i \in 1..(l + 1) : i \in 1..l \/ i = l + 1
    BY <1>2
  <2>5. /\ \A i \in 1..(l + 1) :
             IF drop'[d].results[i].ok
             THEN /\ CopiesOf(d, i)' = {[name |-> drop'[d].results[i].destination, of |-> <<d, i>>]}
                  /\ drop'[d].results[i].renamed = (drop'[d].results[i].destination # drop'[d].names[i])
             ELSE CopiesOf(d, i)' = {}
    <3> SUFFICES ASSUME NEW i \in 1..(l + 1)
                 PROVE  IF drop'[d].results[i].ok
                        THEN /\ CopiesOf(d, i)' = {[name |-> drop'[d].results[i].destination, of |-> <<d, i>>]}
                             /\ drop'[d].results[i].renamed = (drop'[d].results[i].destination # drop'[d].names[i])
                        ELSE CopiesOf(d, i)' = {}
      OBVIOUS
    <3>1. CASE i = l + 1
      <4>1. drop'[d].results[i] = result
        BY <1>9, <3>1
      <4>2. QED BY <1>4, <2>2, <3>1, <4>1
    <3>2. CASE i \in 1..l
      BY <2>1, <3>2
    <3>3. QED BY <2>4, <3>1, <3>2
  <2>6. QED BY <1>9, <2>3, <2>5 DEF TrueOf
<1>11. ASSUME NEW other \in Drops \ {d} PROVE TrueOf(other)'
  <2>1. drop'[other] = drop[other] /\ drop[other] \in DropRecords
    BY <1>5 DEF DropInv, DropTypes
  <2>2. \A i \in Nat : CopiesOf(other, i)' = CopiesOf(other, i)
    BY <1>7
  <2>3. \A i \in 1..Len(drop[other].results) : i \in Nat
    BY <2>1 DEF DropRecords
  <2>4. QED BY <2>1, <2>2, <2>3 DEF DropInv, ResultsTrue, TrueOf
<1>12. QED BY <1>5, <1>6, <1>10, <1>11 DEF DropInv, ResultsTrue

(* A step that changes nothing but a drop's own place in its work keeps all. *)
LEMMA Moving ==
  ASSUME DropAssumption, DropInv, NEW d \in Drops, drop[d].step \in {"look", "try"}, NEW r \in DropRecords,
         r.step \in {"look", "try"}, r.names = drop[d].names, r.results = drop[d].results,
         drop' = [drop EXCEPT ![d] = r], UNCHANGED <<disk, entries, deleted, kind>>
  PROVE  DropInv'
<1>1. drop'[d] = r /\ \A other \in Drops \ {d} : drop'[other] = drop[other]
  BY DEF DropInv, DropTypes
<1>2. DropTypes'
  BY DEF DropInv, DropTypes
<1>3. Underway'
  BY <1>1 DEF DropInv, Underway
<1>4. InFolder'
  BY DEF DropInv, InFolder
<1>5. \A other, i : CopiesOf(other, i)' = CopiesOf(other, i)
  BY DEF CopiesOf
<1>6. ASSUME NEW other \in Drops PROVE TrueOf(other)'
  <2>1. drop'[other].results = drop[other].results /\ drop'[other].names = drop[other].names
    BY <1>1
  <2>2. QED BY <1>5, <2>1 DEF DropInv, ResultsTrue, TrueOf
<1>7. QED BY <1>2, <1>3, <1>4, <1>6 DEF DropInv, ResultsTrue

(* A copy begins with a look at what its path now is. *)
LEMMA Looking ==
  ASSUME DropAssumption, DropInv, NEW d \in Drops, Drop!copyOne(d)
  PROVE  DropInv'
<1> DEFINE is == kind[<<d, Drop!Place(d)>>]
<1>1. drop[d].step = "look" /\ drop[d] \in DropRecords /\ UNCHANGED <<disk, entries, deleted, kind>>
  BY DEF Drop!copyOne, DropInv, DropTypes
<1>2. is \in Drop!Kinds
  <2>1. Drop!Place(d) \in 1..Len(drop[d].names)
    BY <1>1 DEF Drop!Place, DropInv, Underway, DropRecords
  <2>2. QED BY <1>1, <2>1 DEF DropInv, DropTypes, Underway
<1>3. CASE is = "file"
  <2>1. drop' = [drop EXCEPT ![d] = [drop[d] EXCEPT !.step = "try"]]
    BY <1>3 DEF Drop!copyOne
  <2>2. /\ [drop[d] EXCEPT !.step = "try"] \in DropRecords /\ [drop[d] EXCEPT !.step = "try"].step = "try"
        /\ [drop[d] EXCEPT !.step = "try"].names = drop[d].names
        /\ [drop[d] EXCEPT !.step = "try"].results = drop[d].results
    BY <1>1 DEF DropRecords
  <2>3. QED BY <1>1, <2>1, <2>2, Moving
<1>4. CASE is # "file"
  <2>1. Drop!Settle(d, Drop!Failed(is))
    BY <1>4 DEF Drop!copyOne
  <2>2. QED BY <1>1, <1>2, <2>1, Failing DEF Reasons
<1>5. QED BY <1>3, <1>4

(* One try at a name: taken, refused, or made. *)
LEMMA Trying ==
  ASSUME DropAssumption, DropInv, NEW d \in Drops, NEW refused \in BOOLEAN, Drop!claimName(d, refused)
  PROVE  DropInv'
<1>1. drop[d].step = "try" /\ drop[d] \in DropRecords /\ UNCHANGED <<deleted, kind>>
  BY DEF Drop!claimName, DropInv, DropTypes
<1>2. CASE Drop!Settle(d, Drop!Failed("too many copies")) /\ UNCHANGED <<disk, entries>>
  BY <1>1, <1>2, Failing DEF Reasons
<1>3. CASE drop[d].n # MAX_NUMBER /\ drop' = [drop EXCEPT ![d].n = @ + 1] /\ UNCHANGED <<disk, entries>>
  <2> DEFINE r == [drop[d] EXCEPT !.n = drop[d].n + 1]
  <2>1. drop' = [drop EXCEPT ![d] = r]
    BY <1>3
  <2>2. drop[d].n + 1 \in 1..MAX_NUMBER
    BY <1>1, <1>3 DEF DropRecords, DropAssumption
  <2>3. r \in DropRecords /\ r.step = "try" /\ r.names = drop[d].names /\ r.results = drop[d].results
    BY <1>1, <2>2 DEF DropRecords
  <2> HIDE DEF r
  <2>4. QED BY <1>1, <1>3, <2>1, <2>3, Moving
<1>4. CASE Drop!Settle(d, Drop!Failed("not copied")) /\ UNCHANGED <<disk, entries>>
  BY <1>1, <1>4, Failing DEF Reasons
<1>5. CASE Drop!Destination(d) \notin DOMAIN disk /\ Drop!Create(d)
  BY <1>1, <1>5, Creating
<1>6. QED BY <1>2, <1>3, <1>4, <1>5 DEF Drop!claimName

(* What other programs do in the folder or to the files. *)
LEMMA Changing ==
  ASSUME DropAssumption, DropInv, Drop!Elsewhere
  PROVE  DropInv'
<1>1. drop' = drop
  BY DEF Drop!Elsewhere
<1>2. ASSUME NEW name \in Names, name \notin DOMAIN disk,
             entries' = entries \cup {[name |-> name, of |-> Append(Drop!Other, changes)]},
             disk' = [n \in DOMAIN disk \cup {name} |->
                        IF n = name THEN [name |-> name, of |-> Append(Drop!Other, changes)] ELSE disk[n]],
             UNCHANGED <<deleted, kind>>
      PROVE  DropInv'
  <2> DEFINE e == [name |-> name, of |-> Append(Drop!Other, changes)]
  <2>1. e.name = name /\ \A d \in Drops, i \in Nat : e.of # <<d, i>>
    BY OthersEntry
  <2>2. entries' = entries \cup {e}
        /\ disk' = [n \in DOMAIN disk \cup {name} |-> IF n = name THEN e ELSE disk[n]]
    BY <1>2
  <2> HIDE DEF e
  <2>3. InFolder'
    BY <1>2, <2>1, <2>2 DEF DropInv, InFolder
  <2>4. \A d \in Drops, i \in Nat : CopiesOf(d, i)' = CopiesOf(d, i)
    BY <2>1, <2>2 DEF CopiesOf
  <2>5. \A d \in Drops : \A i \in 1..Len(drop[d].results) : i \in Nat
    BY DEF DropInv, DropTypes, DropRecords
  <2>6. ResultsTrue'
    BY <1>1, <2>4, <2>5 DEF DropInv, ResultsTrue, TrueOf
  <2>7. QED BY <1>1, <1>2, <2>3, <2>6 DEF DropInv, DropTypes, Underway
<1>3. ASSUME NEW name \in DOMAIN disk, deleted' = deleted \cup {disk[name]},
             disk' = [n \in DOMAIN disk \ {name} |-> disk[n]], UNCHANGED <<entries, kind>>
      PROVE  DropInv'
  <2>1. InFolder'
    BY <1>3 DEF DropInv, InFolder
  <2>2. \A d, i : CopiesOf(d, i)' = CopiesOf(d, i)
    BY <1>3 DEF CopiesOf
  <2>3. ResultsTrue'
    BY <1>1, <2>2 DEF DropInv, ResultsTrue, TrueOf
  <2>4. QED BY <1>1, <1>3, <2>1, <2>3 DEF DropInv, DropTypes, Underway
<1>4. ASSUME NEW x \in DOMAIN kind, NEW k \in Drop!Kinds, kind' = [kind EXCEPT ![x] = k],
             UNCHANGED <<disk, entries, deleted>>
      PROVE  DropInv'
  <2>1. DOMAIN kind' = DOMAIN kind /\ \A y \in DOMAIN kind' : kind'[y] \in Drop!Kinds
    BY <1>4 DEF DropInv, DropTypes
  <2>2. InFolder'
    BY <1>4 DEF DropInv, InFolder
  <2>3. \A d, i : CopiesOf(d, i)' = CopiesOf(d, i)
    BY <1>4 DEF CopiesOf
  <2>4. ResultsTrue'
    BY <1>1, <2>3 DEF DropInv, ResultsTrue, TrueOf
  <2>5. QED BY <1>1, <2>1, <2>2, <2>4 DEF DropInv, DropTypes, Underway
<1>5. QED BY <1>2, <1>3, <1>4 DEF Drop!Elsewhere

(* Every step keeps the invariant. *)
LEMMA DropKept ==
  ASSUME DropAssumption, DropInv, Drop!Next
  PROVE  DropInv'
<1>1. ASSUME NEW d \in Drops, NEW names \in Drop!Upto(MAX_DROP_FILES + 1, Names),
             NEW kinds \in [DOMAIN names -> {"file", "folder"}], NEW tooLarge \in BOOLEAN, NEW target \in BOOLEAN,
             Drop!copyIntoFolder(d, names, kinds, tooLarge, target)
      PROVE  DropInv'
  <2>1. names \in Seq(Names) /\ names # <<>>
    <3>1. PICK k \in 1..(MAX_DROP_FILES + 1) : names \in [1..k -> Names]
      BY DEF Drop!Upto
    <3>2. k \in Nat /\ k > 0
      BY <3>1
    <3>3. QED BY <3>1, <3>2
  <2>2. QED BY <1>1, <2>1, Dropping
<1>2. QED BY <1>1, Looking, Trying, Changing DEF Drop!Next

LEMMA DropStill == ASSUME DropInv, UNCHANGED Drop!vars PROVE DropInv'
BY DEF Drop!vars, DropInv, DropTypes, Underway, InFolder, ResultsTrue, TrueOf, CopiesOf

(* With the invariant nothing is replaced, and each result is true. *)
LEMMA DropTrue == ASSUME DropInv PROVE Drop!NothingReplaced
<1>1. ASSUME NEW d \in Drops, NEW i \in DOMAIN drop[d].results
      PROVE  i \in 1..Len(drop[d].results)
  BY DEF DropInv, DropTypes, DropRecords
<1>2. \A e \in entries \ deleted : e.name \in DOMAIN disk /\ disk[e.name] = e
  BY DEF DropInv, InFolder
<1>3. \A d \in Drops : drop[d].step = "settled" => Len(drop[d].results) = Len(drop[d].names)
  BY DEF DropInv, Underway
<1>4. QED BY <1>1, <1>2, <1>3 DEF Drop!NothingReplaced, DropInv, ResultsTrue, TrueOf, CopiesOf

(* No copy replaces what is in the folder, and each result is true of its own file             *)
(* (copyIntoFolder, copyOne, claimName of file-drop.ts).                                       *)
THEOREM NothingIsReplaced ==
  ASSUME DropAssumption PROVE Drop!Spec => []Drop!NothingReplaced
<1>1. Drop!Init => DropInv
  BY DropStarts
<1>2. DropInv /\ [Drop!Next]_Drop!vars => DropInv'
  BY DropKept, DropStill
<1>3. DropInv => Drop!NothingReplaced
  BY DropTrue
<1>4. QED BY <1>1, <1>2, <1>3, PTL DEF Drop!Spec

-----------------------------------------------------------------------------
(* Which events give a push (EventPush) *)

CONSTANTS Dialogs, Finished, None, MaxEvents, MaxTurns, MaxModes
VARIABLES events, live, turn, link, fresh, restatements, on, brief, waiters, pushed, modes

Pushes == INSTANCE EventPush

Statuses == {"preparing", "ready", "failed"}
EventRecords == [of : Dialogs \cup {Finished}, restated : BOOLEAN, turn : 1..MaxTurns, link : BOOLEAN]
Briefs == [seq : Nat, status : Statuses]

\* What stands for none is none of the things it stands for the absence of.
PushAssumption ==
  /\ MaxEvents \in Nat /\ MaxTurns \in Nat \ {0}
  /\ None \notin Pushes!Seqs /\ None \notin Pushes!Bodies
  /\ None \notin [seq : Pushes!Seqs, status : Statuses]

\* The events are those of a contact so far, and its brief is of one of them.
EventTypes ==
  /\ events \in Seq(EventRecords) /\ Len(events) <= MaxEvents
  /\ turn \in 1..MaxTurns /\ link \in BOOLEAN /\ on \in BOOLEAN
  /\ fresh \in 0..Len(events)
  /\ live \in (1..Len(events)) \cup {None}
  /\ brief # None => brief \in Briefs /\ brief.seq \in 1..Len(events)

\* The fresh event is the last that gets a push, and restatements are of its dialog.
FreshOK ==
  /\ fresh # 0 => events[fresh].link /\ ~events[fresh].restated
  /\ \A f \in (fresh + 1)..Len(events) : events[f].link => events[f].restated
  /\ \A r \in restatements : fresh # 0 /\ r \in (fresh + 1)..Len(events) /\ events[r].of = events[fresh].of

\* A push says its own event's line, or the brief of its event or of a restatement of it.
SaysRight(p) ==
  /\ p.seq \in 1..Len(events) /\ p.body \in Pushes!Bodies /\ ~events[p.seq].restated
  /\ p.body.from = "line" => p.body.turn = events[p.seq].turn
  /\ p.body.from # "line" =>
       /\ p.body.seq \in p.seq..Len(events) /\ events[p.body.seq].of = events[p.seq].of
       /\ \A f \in (p.seq + 1)..p.body.seq : events[f].link => events[f].restated

PushedOK ==
  /\ pushed \in Seq([seq : Pushes!Seqs, body : Pushes!Bodies])
  /\ \A i \in 1..Len(pushed) : SaysRight(pushed[i]) /\ pushed[i].seq <= fresh
  /\ \A i \in 1..Len(pushed) : \A j \in 1..(i - 1) : pushed[j].seq < pushed[i].seq

\* The wait there may be is of the fresh event.
Wait == [seq |-> fresh, turn |-> events[fresh].turn]

\* Only the fresh event waits, while its brief is not settled, and it has had no push then;
\* else it has had one.
WaitersOK ==
  /\ waiters \subseteq {Wait}
  /\ waiters # {} =>
       /\ fresh # 0 /\ \A i \in 1..Len(pushed) : pushed[i].seq < fresh
       /\ on /\ (brief = None \/ brief.status = "preparing" \/ brief.seq < fresh)
  /\ fresh # 0 /\ waiters = {} => \E i \in 1..Len(pushed) : pushed[i].seq = fresh

PushInv == EventTypes /\ FreshOK /\ PushedOK /\ WaitersOK

(* At first there are no events. *)
LEMMA PushStarts == ASSUME PushAssumption, Pushes!Init PROVE PushInv
<1>1. EventTypes
  BY DEF PushAssumption, Pushes!Init, EventTypes
<1>2. FreshOK
  BY DEF Pushes!Init, FreshOK
<1>3. PushedOK
  BY DEF Pushes!Init, PushedOK
<1>4. WaitersOK
  BY DEF Pushes!Init, WaitersOK
<1>5. QED BY <1>1, <1>2, <1>3, <1>4 DEF PushInv

(* The line of an event is a body, and none. *)
LEMMA LineBody ==
  ASSUME PushAssumption, NEW t \in 1..MaxTurns
  PROVE  [from |-> "line", turn |-> t] \in Pushes!Bodies /\ [from |-> "line", turn |-> t] # None
  BY DEF PushAssumption, Pushes!Bodies

(* So is its brief. *)
LEMMA BriefBody ==
  ASSUME PushAssumption, NEW e \in 1..MaxEvents
  PROVE  [from |-> "brief", seq |-> e] \in Pushes!Bodies /\ [from |-> "brief", seq |-> e] # None
  BY DEF PushAssumption, Pushes!Bodies, Pushes!Seqs

(* What a push said stays right as more events come. *)
LEMMA StaysRight ==
  ASSUME EventTypes, NEW p, SaysRight(p),
         events' = events \/ \E e : e \in EventRecords /\ events' = Append(events, e)
  PROVE  SaysRight(p)'
<1>1. /\ Len(events) \in Nat /\ Len(events) <= Len(events') /\ Len(events') \in Nat
      /\ \A i \in 1..Len(events) : events'[i] = events[i]
  BY DEF EventTypes
<1>2. /\ p.seq \in 1..Len(events)
      /\ p.body.from # "line" => p.body.seq \in p.seq..Len(events)
  BY DEF SaysRight
<1>3. ASSUME p.body.from # "line"
      PROVE  /\ p.body.seq \in p.seq..Len(events') /\ events'[p.body.seq].of = events'[p.seq].of
             /\ \A f \in (p.seq + 1)..p.body.seq : events'[f].link => events'[f].restated
  <2>1. p.seq \in Nat /\ p.body.seq \in Nat /\ p.seq <= p.body.seq /\ p.body.seq <= Len(events) /\ p.seq >= 1
    BY <1>1, <1>2, <1>3
  <2>2. \A f \in (p.seq + 1)..p.body.seq : f \in 1..Len(events)
    BY <1>1, <2>1
  <2>3. p.body.seq \in 1..Len(events)
    BY <1>1, <2>1
  <2>4. QED BY SMTT(30), <1>1, <1>2, <1>3, <2>1, <2>2, <2>3 DEF SaysRight
<1>4. QED BY <1>1, <1>2, <1>3 DEF SaysRight

(* A shorter range is part of a longer one. *)
LEMMA Between ==
  ASSUME NEW a \in Nat, NEW b \in Nat, NEW c \in Nat, b <= c
  PROVE  \A f \in (a + 1)..b : f \in (a + 1)..c
  OBVIOUS

(* Every push that waits looks again: the fresh one at the settings and the brief there are   *)
(* now, any other one is over.                                                                *)
LEMMA LooksAgain ==
  ASSUME PushAssumption, EventTypes', FreshOK', NEW waiting, Pushes!LookAgain(waiting),
         pushed \in Seq([seq : Pushes!Seqs, body : Pushes!Bodies]),
         \A p : (\E i \in 1..Len(pushed) : p = pushed[i]) => SaysRight(p)' /\ p.seq <= fresh',
         \A i \in 1..Len(pushed) : \A j \in 1..(i - 1) : pushed[j].seq < pushed[i].seq,
         \A w \in waiting : w = Wait' \/ (w.seq \in Nat /\ w.seq < fresh' /\ w.turn \in 1..MaxTurns),
         Wait' \in waiting => fresh' # 0 /\ \A i \in 1..Len(pushed) : pushed[i].seq < fresh',
         fresh' # 0 /\ Wait' \notin waiting => \E i \in 1..Len(pushed) : pushed[i].seq = fresh'
  PROVE  PushedOK' /\ WaitersOK'
<1> DEFINE line == [w \in waiting |-> Pushes!briefLine(w, fresh', restatements', on', brief')]
           done == {w \in waiting : line[w] # None}
<1>1. waiters' = waiting \ done /\ Pushes!pushEvent(done, line, fresh')
  BY DEF Pushes!LookAgain
<1>2. fresh' \in Nat /\ Wait'.seq = fresh'
  BY DEF EventTypes, Wait
<1>3. ASSUME NEW w \in waiting, w # Wait' PROVE w \in done
  <2>1. line[w] = [from |-> "line", turn |-> w.turn]
    BY <1>2, <1>3 DEF Pushes!briefLine, Pushes!todayLine
  <2>2. QED BY <1>3, <2>1, LineBody
<1>4. waiters' \subseteq {Wait'}
  BY <1>1, <1>3
<1>5. CASE Wait' \notin done
  <2>1. {w \in done : w.seq = fresh'} = {}
    BY <1>2, <1>5
  <2>2. pushed' = pushed
    BY <1>1, <2>1 DEF Pushes!pushEvent
  <2>3. PushedOK'
    BY <2>2 DEF PushedOK, SaysRight
  <2>4. waiters' # {} => Wait' \in waiting /\ line[Wait'] = None
    BY <1>1, <1>4
  <2>5. waiters' # {} => on' /\ (brief' = None \/ brief'.status = "preparing" \/ brief'.seq < fresh')
    <3> SUFFICES ASSUME waiters' # {}
                 PROVE  on' /\ (brief' = None \/ brief'.status = "preparing" \/ brief'.seq < fresh')
      OBVIOUS
    <3>1. Pushes!briefLine(Wait', fresh', restatements', on', brief') = None /\ fresh' # 0
      BY <2>4
    <3>2. Pushes!todayLine(Wait') # None
      <4>1. events'[fresh'] \in EventRecords
        BY <1>2, <3>1 DEF EventTypes
      <4>2. Wait'.turn \in 1..MaxTurns
        BY <4>1 DEF EventRecords, Wait
      <4>3. QED BY <4>2, LineBody DEF Pushes!todayLine
    <3>3. brief' # None => brief'.seq \in 1..MaxEvents /\ brief'.status \in Statuses
      BY DEF EventTypes, Briefs, PushAssumption
    <3>4. brief' # None => [from |-> "brief", seq |-> brief'.seq] # None
      BY <3>3, BriefBody
    <3>5. QED BY <1>2, <3>1, <3>2, <3>3, <3>4 DEF Pushes!briefLine, Statuses
  <2>6. fresh' # 0 /\ waiters' = {} => \E i \in 1..Len(pushed) : pushed[i].seq = fresh'
    BY <1>1, <1>5
  <2>7. WaitersOK'
    BY <1>4, <2>2, <2>4, <2>5, <2>6 DEF WaitersOK
  <2>8. QED BY <2>3, <2>7
<1>6. CASE Wait' \in done
  <2> DEFINE due == {w \in done : w.seq = fresh'}
  <2>1. due = {Wait'}
    BY <1>2, <1>6
  <2>2. (CHOOSE w \in due : TRUE) = Wait'
    BY <2>1
  <2> PICK p : p = [seq |-> fresh', body |-> line[Wait']]
    OBVIOUS
  <2>3. pushed' = Append(pushed, p)
    BY <1>1, <2>1, <2>2 DEF Pushes!pushEvent
  <2>4. fresh' \in 1..Len(events') /\ Len(events') <= MaxEvents /\ fresh' \in Pushes!Seqs
        /\ events'[fresh'] \in EventRecords /\ Len(events') \in Nat
    BY <1>6 DEF EventTypes, Pushes!Seqs, PushAssumption
  <2>5. \/ p.body = [from |-> "line", turn |-> events'[fresh'].turn]
        \/ /\ p.body = [from |-> "brief", seq |-> brief'.seq]
           /\ brief' # None /\ (brief'.seq = fresh' \/ brief'.seq \in restatements')
    <3>1. line[Wait'] = Pushes!briefLine(Wait', fresh', restatements', on', brief') /\ line[Wait'] # None
      BY <1>6
    <3>2. Pushes!todayLine(Wait') = [from |-> "line", turn |-> events'[fresh'].turn]
      BY DEF Pushes!todayLine, Wait
    <3>3. brief' # None => brief'.seq \in Nat /\ brief'.status \in Statuses
      BY DEF EventTypes, Briefs
    <3>4. QED BY <1>2, <3>1, <3>2, <3>3 DEF Pushes!briefLine, Statuses
  <2>6. SaysRight(p)' /\ p.seq = fresh' /\ p \in [seq : Pushes!Seqs, body : Pushes!Bodies]
    <3>1. CASE p.body = [from |-> "line", turn |-> events'[fresh'].turn]
      <4>1. p.body \in Pushes!Bodies
        BY <2>4, <3>1, LineBody DEF EventRecords
      <4>2. p.body.from = "line" /\ p.body.turn = events'[fresh'].turn
        BY <3>1
      <4>3. QED BY <2>4, <4>1, <4>2 DEF SaysRight, FreshOK
    <3>2. CASE /\ p.body = [from |-> "brief", seq |-> brief'.seq]
               /\ brief' # None /\ (brief'.seq = fresh' \/ brief'.seq \in restatements')
      <4>1. brief'.seq \in 1..Len(events')
        BY <3>2 DEF EventTypes
      <4>2. p.body \in Pushes!Bodies
        BY <2>4, <3>2, <4>1, BriefBody DEF PushAssumption
      <4>3. p.body.from = "brief" /\ p.body.seq = brief'.seq
        BY <3>2
      <4>4. brief'.seq \in fresh'..Len(events') /\ events'[brief'.seq].of = events'[fresh'].of
        BY <2>4, <3>2, <4>1 DEF FreshOK
      <4>5. \A f \in (fresh' + 1)..brief'.seq : events'[f].link => events'[f].restated
        <5>1. brief'.seq \in Nat /\ brief'.seq <= Len(events')
          BY <2>4, <4>1
        <5>2. \A f \in (fresh' + 1)..brief'.seq : f \in (fresh' + 1)..Len(events')
          <6>1. Len(events') \in Nat /\ brief'.seq <= Len(events')
            BY <2>4, <5>1
          <6>2. QED BY <1>2, <5>1, <6>1, Between
        <5>3. QED BY <5>2 DEF FreshOK
      <4>6. ~events'[fresh'].restated /\ p.seq = fresh'
        BY <1>6 DEF FreshOK
      <4>7. QED BY <2>4, <4>2, <4>3, <4>4, <4>5, <4>6 DEF SaysRight
    <3>3. QED BY <2>5, <3>1, <3>2
  <2>7. /\ Len(pushed') = Len(pushed) + 1 /\ Len(pushed) \in Nat
        /\ \A i \in 1..Len(pushed) : pushed'[i] = pushed[i]
        /\ pushed'[Len(pushed) + 1] = p /\ pushed' \in Seq([seq : Pushes!Seqs, body : Pushes!Bodies])
    BY <2>3, <2>6
  <2>8. \A i \in 1..Len(pushed) : pushed[i].seq < fresh'
    BY <1>6
  <2>9. \A i \in 1..Len(pushed') : i \in 1..Len(pushed) \/ i = Len(pushed) + 1
    BY <2>7
  <2>10. \A q : (\E i \in 1..Len(pushed') : q = pushed'[i]) => SaysRight(q)' /\ q.seq <= fresh'
    BY <1>2, <2>6, <2>7, <2>9
  <2>11. ASSUME NEW i \in 1..Len(pushed'), NEW j \in 1..(i - 1) PROVE pushed'[j].seq < pushed'[i].seq
    <3>1. j \in 1..Len(pushed)
      BY <2>7, <2>9
    <3>2. pushed'[j].seq = pushed[j].seq
      BY <2>7, <3>1
    <3>3. CASE i \in 1..Len(pushed)
      BY <2>7, <3>2, <3>3
    <3>4. CASE i = Len(pushed) + 1
      BY <2>6, <2>7, <2>8, <3>1, <3>2, <3>4
    <3>5. QED BY <2>9, <3>3, <3>4
  <2>12. PushedOK'
    BY <2>7, <2>10, <2>11 DEF PushedOK, SaysRight
  <2>13. waiters' = {} /\ Len(pushed) + 1 \in 1..Len(pushed')
    BY <1>1, <1>4, <1>6, <2>7
  <2>14. WaitersOK'
    BY <2>6, <2>7, <2>13 DEF WaitersOK
  <2>15. QED BY <2>12, <2>14
<1>7. QED BY <1>5, <1>6

(* With the events as they were, a look again keeps all. *)
LEMMA LookingAgain ==
  ASSUME PushAssumption, PushInv, EventTypes', FreshOK', UNCHANGED <<events, fresh>>, Pushes!LookAgain(waiters)
  PROVE  PushInv'
<1>1. \A p : (\E i \in 1..Len(pushed) : p = pushed[i]) => SaysRight(p)' /\ p.seq <= fresh'
  BY StaysRight DEF PushInv, PushedOK
<1>2. Wait' = Wait /\ fresh' = fresh
  BY DEF Wait
<1>3. PushedOK' /\ WaitersOK'
  <2>1. \A w \in waiters : w = Wait'
    BY <1>2 DEF PushInv, WaitersOK
  <2>2. Wait' \in waiters => fresh' # 0 /\ \A i \in 1..Len(pushed) : pushed[i].seq < fresh'
    BY <1>2 DEF PushInv, WaitersOK
  <2>3. fresh' # 0 /\ Wait' \notin waiters => \E i \in 1..Len(pushed) : pushed[i].seq = fresh'
    BY <1>2 DEF PushInv, WaitersOK
  <2>4. /\ pushed \in Seq([seq : Pushes!Seqs, body : Pushes!Bodies])
        /\ \A i \in 1..Len(pushed) : \A j \in 1..(i - 1) : pushed[j].seq < pushed[i].seq
    BY DEF PushInv, PushedOK
  <2>5. QED BY <1>1, <2>1, <2>2, <2>3, <2>4, LooksAgain
<1>4. QED BY <1>3 DEF PushInv

(* An event. *)
LEMMA Happening ==
  ASSUME PushAssumption, PushInv, NEW of \in Dialogs \cup {Finished}, NEW restated \in BOOLEAN,
         Pushes!onSecretaryEvent(of, restated)
  PROVE  PushInv'
<1> DEFINE n == Len(events)
           pushes == link /\ ~restated
           same == fresh # 0 /\ of # Finished /\ events[fresh].of = of
<1> PICK e : e = [of |-> of, restated |-> restated, turn |-> turn, link |-> link]
  OBVIOUS
<1> PICK seq : seq = n + 1
  OBVIOUS
<1>1. /\ n < MaxEvents /\ events' = Append(events, e) /\ live' = seq
      /\ fresh' = IF pushes THEN seq ELSE fresh
      /\ restatements' = IF pushes THEN {}
                         ELSE IF link /\ same THEN restatements \cup {seq} ELSE restatements
      /\ brief' = IF on THEN [seq |-> seq, status |-> "preparing"] ELSE brief
      /\ UNCHANGED <<turn, link, on, modes>>
      /\ Pushes!LookAgain(IF pushes THEN waiters \cup {[seq |-> seq, turn |-> turn]} ELSE waiters)
  BY DEF Pushes!onSecretaryEvent
<1>2. e \in EventRecords /\ e.of = of /\ e.link = link /\ e.turn = turn /\ e.restated = restated
  BY DEF PushInv, EventTypes, EventRecords
<1>3. /\ n \in Nat /\ Len(events') = n + 1 /\ \A i \in 1..n : events'[i] = events[i]
      /\ events'[n + 1] = e /\ events' \in Seq(EventRecords) /\ seq = n + 1
  BY <1>1, <1>2 DEF PushInv, EventTypes
<1>4. EventTypes'
  <2>1. fresh' \in 0..Len(events') /\ live' \in (1..Len(events')) \cup {None}
    BY <1>1, <1>3 DEF PushInv, EventTypes
  <2>2. brief' # None => brief' \in Briefs /\ brief'.seq \in 1..Len(events')
    <3>1. [seq |-> seq, status |-> "preparing"] \in Briefs
      BY <1>3 DEF Briefs, Statuses
    <3>2. QED BY <1>1, <1>3, <3>1 DEF PushInv, EventTypes
  <2>3. Len(events') <= MaxEvents
    BY <1>1, <1>3 DEF PushAssumption
  <2>4. QED BY <1>1, <1>3, <2>1, <2>2, <2>3 DEF PushInv, EventTypes
<1>5. fresh \in Nat /\ fresh <= n
  BY <1>3 DEF PushInv, EventTypes
<1>6. FreshOK'
  <2>1. CASE pushes
    BY <1>1, <1>2, <1>3, <2>1 DEF FreshOK
  <2>2. CASE ~pushes
    <3>1. fresh' = fresh /\ (fresh # 0 => events'[fresh] = events[fresh])
      BY <1>1, <1>3, <1>5, <2>2
    <3>2. \A f \in (fresh + 1)..(n + 1) : f = n + 1 \/ (f \in (fresh + 1)..n /\ f \in 1..n)
      BY <1>3, <1>5
    <3>3. \A f \in (fresh + 1)..(n + 1) : events'[f].link => events'[f].restated
      BY <1>2, <1>3, <2>2, <3>2 DEF PushInv, FreshOK
    <3>4. \A r \in restatements' : fresh # 0 /\ r \in (fresh + 1)..(n + 1) /\ events'[r].of = events'[fresh].of
      <4>1. ASSUME NEW r \in restatements
            PROVE  fresh # 0 /\ r \in (fresh + 1)..(n + 1) /\ events'[r].of = events'[fresh].of
        <5>1. fresh # 0 /\ r \in (fresh + 1)..n /\ events[r].of = events[fresh].of
          BY DEF PushInv, FreshOK
        <5>2. QED BY <1>3, <1>5, <3>1, <5>1
      <4>2. ASSUME same PROVE fresh # 0 /\ seq \in (fresh + 1)..(n + 1) /\ events'[seq].of = events'[fresh].of
        BY <1>2, <1>3, <1>5, <3>1, <4>2
      <4>3. QED BY <1>1, <2>2, <4>1, <4>2
    <3>5. QED BY <1>3, <3>1, <3>3, <3>4 DEF PushInv, FreshOK
  <2>3. QED BY <2>1, <2>2
<1>7. \A p : (\E i \in 1..Len(pushed) : p = pushed[i]) => SaysRight(p)' /\ p.seq <= fresh /\ p.seq \in Nat
  <2>1. ASSUME NEW i \in 1..Len(pushed), NEW p, p = pushed[i] PROVE SaysRight(p)' /\ p.seq <= fresh /\ p.seq \in Nat
    <3>1. SaysRight(p) /\ p.seq <= fresh
      BY <2>1 DEF PushInv, PushedOK
    <3>2. p.seq \in Nat
      BY <1>3, <3>1 DEF SaysRight
    <3>3. EventTypes
      BY DEF PushInv
    <3>4. QED BY <1>1, <1>2, <3>1, <3>2, <3>3, StaysRight
  <2>2. QED BY <2>1
<1>8. /\ pushed \in Seq([seq : Pushes!Seqs, body : Pushes!Bodies])
      /\ \A i \in 1..Len(pushed) : \A j \in 1..(i - 1) : pushed[j].seq < pushed[i].seq
  BY DEF PushInv, PushedOK
<1>9. CASE pushes
  <2> PICK w : w = [seq |-> seq, turn |-> turn]
    OBVIOUS
  <2>1. fresh' = seq /\ w = Wait' /\ Pushes!LookAgain(waiters \cup {w})
    BY <1>1, <1>2, <1>3, <1>9 DEF Wait
  <2>2. ASSUME NEW v \in waiters PROVE v.seq \in Nat /\ v.seq < fresh' /\ v.turn \in 1..MaxTurns
    <3>1. v = [seq |-> fresh, turn |-> events[fresh].turn] /\ fresh # 0
      BY DEF PushInv, WaitersOK, Wait
    <3>2. events[fresh] \in EventRecords
      BY <1>3, <1>5, <3>1 DEF PushInv, EventTypes
    <3>3. QED BY <1>3, <1>5, <2>1, <3>1, <3>2 DEF EventRecords
  <2>3. \A v \in waiters \cup {w} : v = Wait' \/ (v.seq \in Nat /\ v.seq < fresh' /\ v.turn \in 1..MaxTurns)
    BY <2>1, <2>2
  <2>4. fresh' # 0 /\ \A i \in 1..Len(pushed) : pushed[i].seq < fresh'
    <3>1. ASSUME NEW i \in 1..Len(pushed) PROVE pushed[i].seq \in Nat /\ pushed[i].seq <= fresh
      BY <1>7
    <3>2. fresh' = n + 1 /\ n \in Nat /\ fresh < n + 1
      BY <1>3, <1>5, <2>1
    <3>3. ASSUME NEW i \in 1..Len(pushed) PROVE pushed[i].seq < fresh'
      BY <1>5, <3>1, <3>2
    <3> QED BY <1>5, <3>2, <3>3
  <2>5. \A p : (\E i \in 1..Len(pushed) : p = pushed[i]) => SaysRight(p)' /\ p.seq <= fresh'
    BY <1>3, <1>5, <1>7, <2>1
  <2>6. Wait' \in waiters \cup {w}
    BY <2>1
  <2>7. PushedOK' /\ WaitersOK'
    BY <1>4, <1>6, <1>8, <2>1, <2>3, <2>4, <2>5, <2>6, LooksAgain
  <2>8. QED BY <1>4, <1>6, <2>7 DEF PushInv
<1>10. CASE ~pushes
  <2>1. fresh' = fresh /\ Pushes!LookAgain(waiters)
    BY <1>1, <1>10
  <2>2. fresh # 0 => Wait' = Wait
    BY <1>3, <1>5, <2>1 DEF Wait
  <2>3. \A v \in waiters : v = Wait'
    BY <2>2 DEF PushInv, WaitersOK
  <2>4. Wait' \in waiters => fresh' # 0 /\ \A i \in 1..Len(pushed) : pushed[i].seq < fresh'
    BY <2>1 DEF PushInv, WaitersOK
  <2>5. fresh' # 0 /\ Wait' \notin waiters => \E i \in 1..Len(pushed) : pushed[i].seq = fresh'
    BY <2>1, <2>2 DEF PushInv, WaitersOK
  <2>6. \A p : (\E i \in 1..Len(pushed) : p = pushed[i]) => SaysRight(p)' /\ p.seq <= fresh'
    BY <1>7, <2>1
  <2>7. PushedOK' /\ WaitersOK'
    BY <1>4, <1>6, <1>8, <2>1, <2>3, <2>4, <2>5, <2>6, LooksAgain
  <2>8. QED BY <1>4, <1>6, <2>7 DEF PushInv
<1>11. QED BY <1>9, <1>10

(* A brief is written, or the mode is switched: every wait looks again. *)
LEMMA Briefing ==
  ASSUME PushAssumption, PushInv,
         (\E status \in {"ready", "failed"} : Pushes!written(status)) \/ Pushes!setSecretaryMode
  PROVE  PushInv'
<1>1. UNCHANGED <<events, live, turn, link, fresh, restatements>> /\ Pushes!LookAgain(waiters)
  BY DEF Pushes!written, Pushes!setSecretaryMode
<1>2. on' \in BOOLEAN
  BY DEF Pushes!written, Pushes!setSecretaryMode, PushInv, EventTypes
<1>3. brief' # None => brief' \in Briefs /\ brief'.seq \in 1..Len(events)
  <2>1. ASSUME NEW status \in {"ready", "failed"}, Pushes!written(status)
        PROVE  brief' \in Briefs /\ brief'.seq \in 1..Len(events)
    <3>1. brief # None /\ brief' = [brief EXCEPT !.status = status]
      BY <2>1 DEF Pushes!written
    <3>2. QED BY <3>1 DEF PushInv, EventTypes, Briefs, Statuses
  <2>2. ASSUME Pushes!setSecretaryMode, brief' # None
        PROVE  brief' \in Briefs /\ brief'.seq \in 1..Len(events)
    <3>1. live # None /\ brief' = [seq |-> live, status |-> "preparing"]
      BY <2>2 DEF Pushes!setSecretaryMode
    <3>2. live \in 1..Len(events) /\ live \in Nat
      BY <3>1 DEF PushInv, EventTypes
    <3>3. QED BY <3>1, <3>2 DEF Briefs, Statuses
  <2>3. QED BY <2>1, <2>2
<1>4. EventTypes'
  BY <1>1, <1>2, <1>3 DEF PushInv, EventTypes
<1>5. FreshOK'
  BY <1>1 DEF PushInv, FreshOK
<1>6. QED BY <1>1, <1>4, <1>5, LookingAgain

(* A wait ends by its time: its push says the line. *)
LEMMA TimingOut ==
  ASSUME PushAssumption, PushInv, NEW w \in waiters, Pushes!timedOut(w)
  PROVE  PushInv'
<1> DEFINE body == [due \in {w} |-> Pushes!todayLine(due)]
<1>1. /\ w = Wait /\ waiters = {w} /\ fresh # 0 /\ fresh \in 1..Len(events) /\ Len(events) \in Nat
      /\ \A i \in 1..Len(pushed) : pushed[i].seq < fresh
  BY DEF PushInv, WaitersOK, EventTypes
<1>2. /\ waiters' = {} /\ Pushes!pushEvent({w}, body, fresh)
      /\ UNCHANGED <<events, live, turn, link, fresh, restatements, on, brief>>
  BY <1>1 DEF Pushes!timedOut
<1>3. events[fresh] \in EventRecords /\ w.seq = fresh /\ w.turn = events[fresh].turn /\ fresh \in Pushes!Seqs
  BY <1>1 DEF PushInv, EventTypes, Wait, Pushes!Seqs, PushAssumption
<1> PICK p : p = [seq |-> fresh, body |-> [from |-> "line", turn |-> events[fresh].turn]]
  OBVIOUS
<1>4. pushed' = Append(pushed, p)
  <2>1. {v \in {w} : v.seq = fresh} = {w} /\ (CHOOSE v \in {w} : TRUE) = w
    BY <1>3
  <2>2. body[w] = [from |-> "line", turn |-> events[fresh].turn]
    BY <1>3 DEF Pushes!todayLine
  <2>3. QED BY <1>2, <2>1, <2>2 DEF Pushes!pushEvent
<1>5. p \in [seq : Pushes!Seqs, body : Pushes!Bodies] /\ p.seq = fresh
  BY <1>3, LineBody DEF EventRecords
<1>6. SaysRight(p)
  BY <1>1, <1>5 DEF SaysRight, PushInv, FreshOK
<1>7. /\ Len(pushed') = Len(pushed) + 1 /\ Len(pushed) \in Nat
      /\ \A i \in 1..Len(pushed) : pushed'[i] = pushed[i]
      /\ pushed'[Len(pushed) + 1] = p /\ pushed' \in Seq([seq : Pushes!Seqs, body : Pushes!Bodies])
  BY <1>4, <1>5 DEF PushInv, PushedOK
<1>8. \A i \in 1..Len(pushed') : i \in 1..Len(pushed) \/ i = Len(pushed) + 1
  BY <1>7
<1>9. EventTypes' /\ FreshOK'
  BY <1>2 DEF PushInv, EventTypes, FreshOK
<1>10. PushedOK'
  <2>1. ASSUME NEW q, SaysRight(q) PROVE SaysRight(q)'
    BY <1>2, <2>1 DEF SaysRight
  <2>2. \A q : (\E i \in 1..Len(pushed') : q = pushed'[i]) => SaysRight(q)' /\ q.seq <= fresh'
    <3>1. \A i \in 1..Len(pushed) : SaysRight(pushed[i]) /\ pushed[i].seq <= fresh
      BY DEF PushInv, PushedOK
    <3>2. p.seq <= fresh
      BY <1>1, <1>5
    <3>3. QED BY <1>2, <1>6, <1>7, <1>8, <2>1, <3>1, <3>2
  <2>3. ASSUME NEW i \in 1..Len(pushed'), NEW j \in 1..(i - 1) PROVE pushed'[j].seq < pushed'[i].seq
    <3>1. j \in 1..Len(pushed)
      BY <1>7, <1>8
    <3>2. CASE i \in 1..Len(pushed)
      BY <1>7, <3>1, <3>2 DEF PushInv, PushedOK
    <3>3. CASE i = Len(pushed) + 1
      BY <1>1, <1>5, <1>7, <3>1, <3>3
    <3>4. QED BY <1>8, <3>2, <3>3
  <2>4. QED BY <1>7, <2>2, <2>3 DEF PushedOK, SaysRight
<1>11. WaitersOK'
  <2>1. Len(pushed) + 1 \in 1..Len(pushed')
    BY <1>7
  <2>2. QED BY <1>2, <1>5, <1>7, <2>1 DEF WaitersOK
<1>12. QED BY <1>9, <1>10, <1>11 DEF PushInv

(* Every step keeps the invariant. *)
LEMMA PushKept ==
  ASSUME PushAssumption, PushInv, Pushes!Next
  PROVE  PushInv'
<1>1. CASE Pushes!cleared \/ Pushes!turnStarts \/ Pushes!setRemoteEnabled
  <2>1. /\ UNCHANGED <<events, fresh, restatements, on, brief, waiters, pushed>>
        /\ live' \in {live, None} /\ turn' \in 1..MaxTurns /\ link' \in BOOLEAN
    <3>1. CASE Pushes!cleared
      BY <3>1 DEF Pushes!cleared, PushInv, EventTypes
    <3>2. CASE Pushes!turnStarts
      BY <3>2 DEF Pushes!turnStarts, PushInv, EventTypes, PushAssumption
    <3>3. CASE Pushes!setRemoteEnabled
      BY <3>3 DEF Pushes!setRemoteEnabled, PushInv, EventTypes
    <3>4. QED BY <1>1, <3>1, <3>2, <3>3
  <2>2. QED BY <2>1 DEF PushInv, EventTypes, FreshOK, PushedOK, SaysRight, WaitersOK, Wait
<1>2. QED BY <1>1, Happening, Briefing, TimingOut DEF Pushes!Next

LEMMA PushStill == ASSUME PushInv, UNCHANGED Pushes!vars PROVE PushInv'
BY DEF Pushes!vars, PushInv, EventTypes, FreshOK, PushedOK, SaysRight, WaitersOK, Wait

(* With the invariant, the pushes are those of the events. *)
LEMMA PushTrue == ASSUME PushAssumption, PushInv PROVE Pushes!PushesFollowEvents
<1>1. fresh \in 0..Len(events) /\ Len(events) \in Nat /\ Len(events) <= MaxEvents /\ MaxEvents \in Nat
  BY DEF PushInv, EventTypes, PushAssumption
<1>2. waiters \subseteq [seq : Pushes!Seqs, turn : 1..MaxTurns]
  <2>1. CASE waiters # {}
    <3>1. fresh \in 1..Len(events) /\ events[fresh] \in EventRecords
      BY <1>1, <2>1 DEF PushInv, WaitersOK, EventTypes
    <3>2. Wait \in [seq : Pushes!Seqs, turn : 1..MaxTurns]
      BY <1>1, <3>1 DEF EventRecords, Wait, Pushes!Seqs
    <3>3. QED BY <3>2 DEF PushInv, WaitersOK
  <2>2. QED BY <2>1
<1>3. DOMAIN pushed = 1..Len(pushed) /\ DOMAIN events = 1..Len(events)
  BY DEF PushInv, PushedOK, EventTypes
<1>4. \A i \in DOMAIN pushed : \A j \in 1..(i - 1) : pushed[j].seq < pushed[i].seq
  BY <1>3 DEF PushInv, PushedOK
<1>5. ASSUME NEW i \in DOMAIN pushed
      PROVE  LET e == pushed[i].seq  body == pushed[i].body IN
             /\ body \in Pushes!Bodies /\ ~events[e].restated
             /\ IF body.from = "line" THEN body.turn = events[e].turn
                ELSE /\ events[body.seq].of = events[e].of
                     /\ \A f \in (e + 1)..body.seq : events[f].link => events[f].restated
  BY <1>3 DEF PushInv, PushedOK, SaysRight
<1>6. ASSUME NEW e \in DOMAIN events, events[e].link, ~events[e].restated
      PROVE  \/ \E i \in DOMAIN pushed : pushed[i].seq = e
             \/ \E f \in DOMAIN events : f > e /\ events[f].link /\ ~events[f].restated
             \/ \E w \in waiters : w.seq = e
  <2>1. e <= fresh
    <3>1. e \notin (fresh + 1)..Len(events)
      BY <1>6 DEF PushInv, FreshOK
    <3>2. QED BY <1>1, <1>3, <3>1
  <2>2. fresh \in DOMAIN events /\ events[fresh].link /\ ~events[fresh].restated
    BY <1>1, <1>3, <2>1 DEF PushInv, FreshOK
  <2>3. CASE e = fresh
    <3>1. CASE waiters = {}
      BY <1>1, <1>3, <2>2, <2>3, <3>1 DEF PushInv, WaitersOK
    <3>2. CASE waiters # {}
      <4>1. PICK w \in waiters : w = Wait
        BY <3>2 DEF PushInv, WaitersOK
      <4>2. QED BY <2>3, <4>1 DEF Wait
    <3>3. QED BY <3>1, <3>2
  <2>4. CASE e # fresh
    BY <1>1, <1>3, <2>1, <2>2, <2>4
  <2>5. QED BY <2>3, <2>4
<1>7. \A w \in waiters :
        w.seq = fresh => on /\ (brief = None \/ brief.status = "preparing" \/ brief.seq < w.seq)
  BY DEF PushInv, WaitersOK
<1>8. QED BY <1>2, <1>4, <1>5, <1>6, <1>7 DEF Pushes!PushesFollowEvents

(* Every event due a push gets one, in order, once, and about itself (remote-host.ts).         *)
THEOREM PushesAlwaysFollow ==
  ASSUME PushAssumption PROVE Pushes!Spec => []Pushes!PushesFollowEvents
<1>1. Pushes!Init => PushInv
  BY PushStarts
<1>2. PushInv /\ [Pushes!Next]_Pushes!vars => PushInv'
  BY PushKept, PushStill
<1>3. PushInv => Pushes!PushesFollowEvents
  BY PushTrue
<1>4. QED BY <1>1, <1>2, <1>3, PTL DEF Pushes!Spec

-----------------------------------------------------------------------------
(* The phone's app opens without the Mac (AppShell) *)

CONSTANTS MaxBuilds, OpenBudgets
VARIABLES build, active, installed, caches, requests, kept, wrong, openLeft

Opens == INSTANCE AppShell WITH Budgets <- OpenBudgets, left <- openLeft

FileRecords == {<<f, b>> : f \in Opens!Shell, b \in Nat}
CacheRecords == [name : Nat, files : [Opens!Shell -> FileRecords \cup {<<>>}]]
\* A request of a worker no newer than a, and an answer no older than it and no newer than b.
RequestRecords(a, b) ==
  {r \in [worker : Nat, asked : Opens!Shell, key : Opens!Shell, at : {"racing", "late", "kept?"},
          answer : FileRecords \cup {<<>>}] :
     /\ r.worker \in 1..a /\ (r.key = "bundle" => r.asked = "bundle")
     /\ r.answer # <<>> => r.answer[1] = r.asked /\ r.answer[2] <= b /\ r.answer[2] >= r.worker}

OpenTypes ==
  /\ build \in Nat \ {0} /\ active \in 0..build /\ installed \in {0, build}
  /\ installed # 0 => active < installed
  /\ caches \in Seq(CacheRecords)
  /\ requests \in Seq(RequestRecords(active, build))
  /\ kept \in [Opens!Shell -> 0..build]

\* The first cache is the active worker's, and has all of the shell, as that worker last kept
\* it and no older than itself.
ActiveFirst ==
  active # 0 =>
    /\ Len(caches) > 0 /\ caches[1].name = active
    /\ \A f \in Opens!Shell : caches[1].files[f] = Opens!File(f, kept[f]) /\ kept[f] >= active

\* A worker on its way in has all of its files.
InstalledWhole ==
  installed # 0 =>
    /\ \E i \in 1..Len(caches) : caches[i].name = installed
    /\ \A i \in 1..Len(caches) : caches[i].name = installed =>
         \A f \in Opens!Shell : caches[i].files[f] = Opens!File(f, installed)

OpenInv == OpenTypes /\ ActiveFirst /\ InstalledWhole /\ wrong = FALSE

(* At first there is no worker, and no cache. *)
LEMMA OpenStarts == ASSUME Opens!Init PROVE OpenInv
  BY DEF Opens!Init, OpenInv, OpenTypes, ActiveFirst, InstalledWhole

(* A file is one. *)
LEMMA FileIs ==
  ASSUME NEW f \in Opens!Shell, NEW b \in Nat
  PROVE  /\ Opens!File(f, b) \in FileRecords /\ Opens!File(f, b) # <<>>
         /\ Opens!File(f, b)[1] = f /\ Opens!File(f, b)[2] = b
  BY DEF Opens!File, FileRecords

(* The parts of a file. *)
LEMMA FileParts ==
  ASSUME NEW file \in FileRecords
  PROVE  /\ file # <<>> /\ file[1] \in Opens!Shell /\ file[2] \in Nat
         /\ file = Opens!File(file[1], file[2])
  BY DEF FileRecords, Opens!File

(* Opening a worker's cache makes it, last, when there is none of its name. *)
LEMMA Opening ==
  ASSUME caches \in Seq(CacheRecords), NEW b \in Nat
  PROVE  /\ Opens!open(b) \in Seq(CacheRecords) /\ Len(Opens!open(b)) >= Len(caches)
         /\ Len(Opens!open(b)) \in Nat
         /\ \A i \in 1..Len(caches) : Opens!open(b)[i] = caches[i]
         /\ \A i \in 1..Len(Opens!open(b)) : i \in 1..Len(caches) \/ Opens!open(b)[i].name = b
         /\ \E i \in 1..Len(Opens!open(b)) : Opens!open(b)[i].name = b
<1>1. CASE Opens!Named(b) = {}
  <2> PICK c : c = [name |-> b, files |-> Opens!Empty]
    OBVIOUS
  <2>1. c \in CacheRecords /\ c.name = b
    BY DEF CacheRecords, Opens!Empty
  <2>2. Opens!open(b) = Append(caches, c)
    BY <1>1 DEF Opens!open
  <2>3. /\ Append(caches, c) \in Seq(CacheRecords) /\ Len(Append(caches, c)) = Len(caches) + 1
        /\ Len(caches) \in Nat /\ Append(caches, c)[Len(caches) + 1] = c
        /\ \A i \in 1..Len(caches) : Append(caches, c)[i] = caches[i]
    BY <2>1
  <2>4. QED BY <2>1, <2>2, <2>3
<1>2. CASE Opens!Named(b) # {}
  BY <1>2 DEF Opens!open, Opens!Named
<1>3. QED BY <1>1, <1>2

(* Putting files in a worker's cache changes the caches of its name only, there to have them. *)
LEMMA Putting ==
  ASSUME caches \in Seq(CacheRecords), NEW b \in Nat,
         NEW files \in [Opens!Shell -> FileRecords \cup {<<>>}]
  PROVE  /\ Opens!put(b, files) \in Seq(CacheRecords) /\ Len(Opens!put(b, files)) = Len(Opens!open(b))
         /\ \A i \in 1..Len(Opens!open(b)) :
              /\ Opens!put(b, files)[i].name = Opens!open(b)[i].name
              /\ Opens!open(b)[i].name # b => Opens!put(b, files)[i] = Opens!open(b)[i]
              /\ Opens!open(b)[i].name = b =>
                   \A f \in Opens!Shell :
                     Opens!put(b, files)[i].files[f] = IF files[f] # <<>> THEN files[f] ELSE Opens!open(b)[i].files[f]
<1> PICK o : o = Opens!open(b)
  OBVIOUS
<1>1. o \in Seq(CacheRecords) /\ DOMAIN o = 1..Len(o) /\ Len(o) \in Nat
  BY Opening
<1> DEFINE new(i) == [f \in Opens!Shell |-> IF files[f] # <<>> THEN files[f] ELSE o[i].files[f]]
<1>2. Opens!put(b, files) =
        [i \in 1..Len(o) |-> IF o[i].name = b THEN [o[i] EXCEPT !.files = new(i)] ELSE o[i]]
  BY <1>1 DEF Opens!put
<1>3. ASSUME NEW i \in 1..Len(o)
      PROVE  /\ new(i) \in [Opens!Shell -> FileRecords \cup {<<>>}] /\ o[i] \in CacheRecords
             /\ [o[i] EXCEPT !.files = new(i)] \in CacheRecords
             /\ [o[i] EXCEPT !.files = new(i)].name = o[i].name
             /\ [o[i] EXCEPT !.files = new(i)].files = new(i)
  <2>1. o[i] \in CacheRecords
    BY <1>1
  <2>2. new(i) \in [Opens!Shell -> FileRecords \cup {<<>>}]
    BY <2>1 DEF CacheRecords
  <2> HIDE DEF new
  <2>3. QED BY <2>1, <2>2 DEF CacheRecords
<1>4. Opens!put(b, files) \in [1..Len(o) -> CacheRecords]
  BY <1>2, <1>3
<1>5. Opens!put(b, files) \in Seq(CacheRecords) /\ Len(Opens!put(b, files)) = Len(o)
  BY SMTT(30), <1>1, <1>4
<1>6. ASSUME NEW i \in 1..Len(o)
      PROVE  /\ Opens!put(b, files)[i].name = o[i].name
             /\ o[i].name # b => Opens!put(b, files)[i] = o[i]
             /\ o[i].name = b =>
                  \A f \in Opens!Shell :
                    Opens!put(b, files)[i].files[f] = IF files[f] # <<>> THEN files[f] ELSE o[i].files[f]
  <2>1. Opens!put(b, files)[i] = IF o[i].name = b THEN [o[i] EXCEPT !.files = new(i)] ELSE o[i]
    BY <1>2
  <2>2. CASE o[i].name # b
    BY <2>1, <2>2
  <2>3. CASE o[i].name = b
    <3>1. Opens!put(b, files)[i].files = new(i) /\ Opens!put(b, files)[i].name = o[i].name
      BY <1>3, <2>1, <2>3
    <3>2. QED BY <2>3, <3>1
  <2>4. QED BY <2>2, <2>3
<1> HIDE DEF new
<1>7. QED BY <1>5, <1>6

(* Requests known for older workers and builds are known for newer ones. *)
LEMMA Newer ==
  ASSUME NEW a \in Nat, NEW b \in Nat, NEW c \in Nat, NEW d \in Nat, a <= c, b <= d
  PROVE  RequestRecords(a, b) \subseteq RequestRecords(c, d)
<1> SUFFICES ASSUME NEW r \in RequestRecords(a, b) PROVE r \in RequestRecords(c, d)
  OBVIOUS
<1>1. r.answer # <<>> => r.answer[2] \in Nat /\ r.answer[2] <= b
  BY FileParts DEF RequestRecords
<1>2. QED BY <1>1 DEF RequestRecords

(* What is served from the caches is the file asked for, as it was last kept. *)
LEMMA Serving ==
  ASSUME OpenInv, NEW r \in 1..Len(requests), Opens!FromCache(r)
  PROVE  wrong' = FALSE
<1> DEFINE key == requests[r].key
           file == Opens!match(key, requests[r].worker)
<1>1. key \in Opens!Shell /\ active # 0
  <2>1. requests[r] \in RequestRecords(active, build)
    BY DEF OpenInv, OpenTypes
  <2>2. requests[r].worker \in 1..active /\ key \in Opens!Shell
    BY <2>1 DEF RequestRecords
  <2>3. QED BY <2>2 DEF OpenInv, OpenTypes
<1> HIDE DEF key
<1>2. /\ Len(caches) > 0 /\ caches[1].files[key] = Opens!File(key, kept[key])
      /\ caches \in Seq(CacheRecords) /\ kept[key] \in Nat
  BY <1>1 DEF OpenInv, ActiveFirst, OpenTypes
<1>3. caches[1].files[key] # <<>>
  BY <1>1, <1>2, FileIs
<1>4. 1 \in Opens!Having(key) /\ \A i \in Opens!Having(key) : 1 <= i /\ i \in Nat
  BY <1>2, <1>3 DEF Opens!Having
<1>5. (CHOOSE i \in Opens!Having(key) : \A j \in Opens!Having(key) : i <= j) = 1
  BY <1>4
<1>6. file = Opens!File(key, kept[key])
  BY <1>2, <1>4, <1>5 DEF Opens!match
<1>7. wrong' = (wrong \/ file # Opens!File(key, kept[key]))
  BY DEF Opens!FromCache, Opens!Served, key
<1>8. QED BY <1>6, <1>7 DEF OpenInv

(* A request goes on. *)
LEMMA Answering ==
  ASSUME OpenInv, NEW r \in 1..Len(requests), NEW file \in FileRecords \cup {<<>>},
         file # <<>> => file[1] = requests[r].asked /\ file[2] <= build /\ file[2] >= requests[r].worker,
         NEW at \in {"late", "kept?"}, Opens!Answers(r, file, at),
         UNCHANGED <<build, active, installed, caches, kept>>, wrong' = FALSE
  PROVE  OpenInv'
<1>1. requests \in Seq(RequestRecords(active, build))
  BY DEF OpenInv, OpenTypes
<1>2. requests[r] \in RequestRecords(active, build)
  BY <1>1
<1>3. [requests[r] EXCEPT !.at = at, !.answer = file] \in RequestRecords(active, build)
  BY <1>2 DEF RequestRecords
<1>4. requests' = [requests EXCEPT ![r] = [requests[r] EXCEPT !.at = at, !.answer = file]]
  BY <1>1 DEF Opens!Answers
<1>5. requests' \in Seq(RequestRecords(active, build))
  BY <1>1, <1>3, <1>4
<1>6. OpenTypes'
  BY <1>5 DEF OpenInv, OpenTypes
<1>7. QED BY <1>6 DEF OpenInv, ActiveFirst, InstalledWhole

(* A request ends: what is kept of it goes to its own worker's cache. *)
LEMMA Ending ==
  ASSUME OpenInv, NEW r \in 1..Len(requests), Opens!done(r)
  PROVE  OpenInv'
<1> PICK q \in RequestRecords(active, build) : q = requests[r]
  BY DEF OpenInv, OpenTypes
<1>1. /\ q.worker \in 1..active /\ q.worker \in Nat /\ q.key \in Opens!Shell /\ active \in Nat /\ active # 0
      /\ q.answer \in FileRecords \cup {<<>>} /\ build \in Nat
  BY DEF RequestRecords, OpenInv, OpenTypes
<1>2. requests' = Opens!RemoveAt(requests, r) /\ UNCHANGED <<build, active, installed, wrong>>
  BY DEF Opens!done
<1>3. requests' \in Seq(RequestRecords(active, build))
  <2>1. requests \in Seq(RequestRecords(active, build)) /\ r \in Int /\ Len(requests) \in Int
    BY DEF OpenInv, OpenTypes
  <2> DEFINE S == RequestRecords(active, build)
  <2>2. \A i \in 1..(r - 1) : requests[i] \in S
    BY <2>1
  <2>3. \A i \in (r + 1)..Len(requests) : requests[i] \in S
    BY <2>1
  <2> HIDE DEF S
  <2>4. SubSeq(requests, 1, r - 1) \in Seq(S) /\ SubSeq(requests, r + 1, Len(requests)) \in Seq(S)
    BY <2>1, <2>2, <2>3, SubSeqProperties
  <2>5. QED BY <1>2, <2>4 DEF Opens!RemoveAt, S
<1>4. CASE ~Opens!Keeps(r, q.answer)
  <2>1. UNCHANGED <<caches, kept>>
    BY <1>4 DEF Opens!done
  <2>2. QED BY <1>2, <1>3, <2>1 DEF OpenInv, OpenTypes, ActiveFirst, InstalledWhole
<1>5. CASE Opens!Keeps(r, q.answer)
  <2> PICK file \in FileRecords : file = q.answer
    BY <1>1, <1>5 DEF Opens!Keeps
  <2>1. /\ file = Opens!File(q.key, file[2]) /\ file # <<>>
        /\ file[2] \in Nat /\ file[2] <= build /\ file[2] >= q.worker
    <3>1. /\ file[1] = q.asked /\ (q.key = "bundle" => q.asked = "bundle")
          /\ file[2] <= build /\ file[2] >= q.worker
      BY FileParts DEF RequestRecords
    <3>2. q.key = "page" => file[1] = "page"
      BY <1>5 DEF Opens!Keeps
    <3>3. QED BY <1>1, <3>1, <3>2, FileParts DEF Opens!Shell
  <2> PICK files : files = [Opens!Empty EXCEPT ![q.key] = file]
    OBVIOUS
  <2>2. /\ files \in [Opens!Shell -> FileRecords \cup {<<>>}] /\ files[q.key] = file
        /\ \A f \in Opens!Shell \ {q.key} : files[f] = <<>>
    BY <1>1 DEF Opens!Empty
  <2>3. /\ caches' = Opens!put(q.worker, files)
        /\ kept' = IF q.worker = active THEN [kept EXCEPT ![q.key] = file[2]] ELSE kept
    BY <1>5 DEF Opens!done
  <2>4. caches \in Seq(CacheRecords) /\ kept \in [Opens!Shell -> 0..build]
    BY DEF OpenInv, OpenTypes
  <2>5. caches' \in Seq(CacheRecords) /\ kept' \in [Opens!Shell -> 0..build]
    <3>1. file[2] \in 0..build
      BY <1>1, <2>1
    <3>2. QED BY <1>1, <2>2, <2>3, <2>4, <3>1, Putting
  <2>6. OpenTypes'
    BY <1>2, <1>3, <2>5 DEF OpenInv, OpenTypes
  <2> PICK o : o = Opens!open(q.worker)
    OBVIOUS
  <2>7. /\ Len(o) >= Len(caches) /\ Len(o) \in Nat /\ Len(caches) > 0 /\ Len(caches) \in Nat
        /\ o[1] = caches[1] /\ caches[1].name = active
        /\ \A i \in 1..Len(caches) : o[i] = caches[i]
        /\ \A i \in 1..Len(o) : i \in 1..Len(caches) \/ o[i].name = q.worker
    <3>1. /\ Len(o) >= Len(caches) /\ Len(o) \in Nat
          /\ \A i \in 1..Len(caches) : o[i] = caches[i]
          /\ \A i \in 1..Len(o) : i \in 1..Len(caches) \/ o[i].name = q.worker
      BY <1>1, <2>4, Opening
    <3>2. Len(caches) > 0 /\ caches[1].name = active /\ Len(caches) \in Nat
      BY <1>1, <2>4 DEF OpenInv, ActiveFirst
    <3>3. 1 \in 1..Len(caches)
      BY <3>2
    <3>4. QED BY <3>1, <3>2, <3>3
  <2>8. /\ Len(caches') = Len(o)
        /\ \A i \in 1..Len(o) :
             /\ caches'[i].name = o[i].name
             /\ o[i].name # q.worker => caches'[i] = o[i]
             /\ o[i].name = q.worker =>
                  \A f \in Opens!Shell : caches'[i].files[f] = IF files[f] # <<>> THEN files[f] ELSE o[i].files[f]
    <3>1. files \in [Opens!Shell -> FileRecords \cup {<<>>}] /\ caches' = Opens!put(q.worker, files)
      BY <2>2, <2>3
    <3> PICK w \in Nat : w = q.worker
      BY <1>1
    <3>2. /\ Opens!put(w, files) \in Seq(CacheRecords) /\ Len(Opens!put(w, files)) = Len(Opens!open(w))
          /\ \A i \in 1..Len(Opens!open(w)) :
               /\ Opens!put(w, files)[i].name = Opens!open(w)[i].name
               /\ Opens!open(w)[i].name # w => Opens!put(w, files)[i] = Opens!open(w)[i]
               /\ Opens!open(w)[i].name = w =>
                    \A f \in Opens!Shell :
                      Opens!put(w, files)[i].files[f] = IF files[f] # <<>> THEN files[f] ELSE Opens!open(w)[i].files[f]
      <4>1. caches \in Seq(CacheRecords)
        BY <2>4
      <4>2. files \in [Opens!Shell -> FileRecords \cup {<<>>}]
        BY <2>2
      <4>3. QED BY ONLY <4>1, <4>2, w \in Nat, Putting
    <3>3. QED BY ZenonT(40), <3>1, <3>2
  <2>9. ActiveFirst'
    <3>1. 1 \in 1..Len(o) /\ Len(caches') > 0 /\ caches'[1].name = active
      BY <2>7, <2>8
    <3>2. ASSUME NEW f \in Opens!Shell
          PROVE  caches'[1].files[f] = Opens!File(f, kept'[f]) /\ kept'[f] >= active
      <4>1. caches[1].files[f] = Opens!File(f, kept[f]) /\ kept[f] >= active
        BY <1>1 DEF OpenInv, ActiveFirst
      <4>2. CASE q.worker # active
        <5>1. caches'[1] = caches[1]
          BY <2>7, <2>8, <3>1, <4>2
        <5>2. kept' = kept
          BY <2>3, <4>2
        <5>3. QED BY <4>1, <5>1, <5>2
      <4>3. CASE q.worker = active /\ f = q.key
        <5>1. caches'[1].files[f] = file
          BY <2>1, <2>2, <2>7, <2>8, <3>1, <4>3
        <5>2. kept'[f] = file[2]
          BY <2>3, <2>4, <4>3
        <5>3. QED BY <2>1, <4>3, <5>1, <5>2
      <4>4. CASE q.worker = active /\ f # q.key
        <5>1. caches'[1].files[f] = caches[1].files[f]
          BY <2>2, <2>7, <2>8, <3>1, <4>4
        <5>2. kept'[f] = kept[f]
          BY <2>3, <2>4, <4>4
        <5>3. QED BY <4>1, <5>1, <5>2
      <4>5. QED BY <4>2, <4>3, <4>4
    <3>3. QED BY <1>2, <3>1, <3>2 DEF ActiveFirst
  <2>10. InstalledWhole'
    <3>1. ASSUME installed # 0 PROVE q.worker # installed
      BY <1>1, <3>1 DEF OpenInv, OpenTypes
    <3>2. ASSUME installed # 0 PROVE \E i \in 1..Len(caches') : caches'[i].name = installed
      <4>1. PICK i \in 1..Len(caches) : caches[i].name = installed
        BY <3>2 DEF OpenInv, InstalledWhole
      <4>2. i \in 1..Len(o) /\ o[i] = caches[i]
        BY SMTT(30), <2>7
      <4>3. QED BY <2>8, <4>1, <4>2
    <3>3. ASSUME installed # 0, NEW i \in 1..Len(caches'), caches'[i].name = installed, NEW f \in Opens!Shell
          PROVE  caches'[i].files[f] = Opens!File(f, installed)
      <4>1. i \in 1..Len(o) /\ o[i].name = installed /\ caches'[i] = o[i] /\ i \in 1..Len(caches)
        BY <2>7, <2>8, <3>1, <3>3
      <4>2. QED BY <2>7, <3>3, <4>1 DEF OpenInv, InstalledWhole
    <3>4. QED BY <1>2, <3>2, <3>3 DEF InstalledWhole
  <2>11. QED BY <1>2, <2>6, <2>9, <2>10 DEF OpenInv
<1>6. QED BY <1>4, <1>5

(* A new worker takes its files, all or none. *)
LEMMA Installing ==
  ASSUME OpenInv, Opens!install
  PROVE  OpenInv'
<1>1. /\ installed = 0 /\ build > active /\ build \in Nat \ {0} /\ active \in Nat
      /\ UNCHANGED <<build, active, requests, kept, wrong>> /\ caches \in Seq(CacheRecords)
  BY DEF Opens!install, OpenInv, OpenTypes
<1> PICK o : o = Opens!open(build)
  OBVIOUS
<1>2. /\ o \in Seq(CacheRecords) /\ Len(o) >= Len(caches) /\ Len(o) \in Nat /\ Len(caches) \in Nat
      /\ \A i \in 1..Len(caches) : o[i] = caches[i]
      /\ \A i \in 1..Len(o) : i \in 1..Len(caches) \/ o[i].name = build
      /\ \E i \in 1..Len(o) : o[i].name = build
  <2>1. build \in Nat /\ Len(caches) \in Nat
    BY <1>1
  <2>2. QED BY <1>1, <2>1, Opening
<1>3. CASE installed' = build /\ caches' = Opens!put(build, [f \in Opens!Shell |-> Opens!File(f, build)])
  <2> PICK files : files = [f \in Opens!Shell |-> Opens!File(f, build)]
    OBVIOUS
  <2>1. files \in [Opens!Shell -> FileRecords \cup {<<>>}]
        /\ \A f \in Opens!Shell : files[f] = Opens!File(f, build) /\ files[f] # <<>>
    BY <1>1, FileIs
  <2>2. /\ caches' \in Seq(CacheRecords) /\ Len(caches') = Len(o)
        /\ \A i \in 1..Len(o) :
             /\ caches'[i].name = o[i].name
             /\ o[i].name # build => caches'[i] = o[i]
             /\ o[i].name = build =>
                  \A f \in Opens!Shell : caches'[i].files[f] = IF files[f] # <<>> THEN files[f] ELSE o[i].files[f]
    <3>1. files \in [Opens!Shell -> FileRecords \cup {<<>>}] /\ caches' = Opens!put(build, files) /\ build \in Nat
      BY <1>1, <1>3, <2>1
    <3>2. /\ Opens!put(build, files) \in Seq(CacheRecords) /\ Len(Opens!put(build, files)) = Len(Opens!open(build))
          /\ \A i \in 1..Len(Opens!open(build)) :
               /\ Opens!put(build, files)[i].name = Opens!open(build)[i].name
               /\ Opens!open(build)[i].name # build => Opens!put(build, files)[i] = Opens!open(build)[i]
               /\ Opens!open(build)[i].name = build =>
                    \A f \in Opens!Shell :
                      Opens!put(build, files)[i].files[f] = IF files[f] # <<>> THEN files[f] ELSE Opens!open(build)[i].files[f]
      BY <1>1, <3>1, Putting
    <3>3. QED BY <3>1, <3>2
  <2>3. OpenTypes'
    BY <1>1, <1>3, <2>2 DEF OpenInv, OpenTypes
  <2>4. ActiveFirst'
    <3>1. ASSUME active # 0
          PROVE  /\ Len(caches') > 0 /\ caches'[1].name = active /\ caches'[1] = caches[1]
      <4>1. Len(caches) > 0 /\ caches[1].name = active
        BY <3>1 DEF OpenInv, ActiveFirst
      <4>2. 1 \in 1..Len(o) /\ o[1] = caches[1]
        BY <1>2, <4>1
      <4>3. QED BY <1>1, <1>2, <2>2, <4>1, <4>2
    <3>2. QED BY <1>1, <3>1 DEF OpenInv, ActiveFirst
  <2>5. InstalledWhole'
    BY SMTT(30), <1>2, <1>3, <2>1, <2>2 DEF InstalledWhole
  <2>6. QED BY <1>1, <2>3, <2>4, <2>5 DEF OpenInv
<1>4. CASE installed' = installed /\ caches' = o
  <2>1. OpenTypes'
    BY <1>1, <1>2, <1>4 DEF OpenInv, OpenTypes
  <2>2. ActiveFirst'
    <3>1. ASSUME active # 0 PROVE Len(o) > 0 /\ o[1] = caches[1]
      BY <1>2, <3>1 DEF OpenInv, ActiveFirst
    <3>2. QED BY <1>1, <1>4, <3>1 DEF OpenInv, ActiveFirst
  <2>3. QED BY <1>1, <1>4, <2>1, <2>2 DEF OpenInv, InstalledWhole
<1>5. QED BY <1>3, <1>4 DEF Opens!install

(* It is in charge, with its own cache alone. *)
LEMMA Activating ==
  ASSUME OpenInv, Opens!activate
  PROVE  OpenInv'
<1>1. /\ installed # 0 /\ active' = installed /\ installed' = 0 /\ UNCHANGED <<build, requests, wrong>>
      /\ kept' = [f \in Opens!Shell |-> installed]
      /\ caches' = <<caches[CHOOSE i \in Opens!Named(installed) : TRUE]>>
  BY DEF Opens!activate
<1> PICK n : n = CHOOSE i \in Opens!Named(installed) : TRUE
  OBVIOUS
<1>2. n \in 1..Len(caches) /\ caches[n].name = installed /\ caches \in Seq(CacheRecords)
  <2>1. caches \in Seq(CacheRecords) /\ DOMAIN caches = 1..Len(caches)
    BY DEF OpenInv, OpenTypes
  <2>2. Opens!Named(installed) # {}
    BY <1>1, <2>1 DEF OpenInv, InstalledWhole, Opens!Named
  <2>3. QED BY <2>1, <2>2 DEF Opens!Named
<1> PICK c \in CacheRecords : c = caches[n]
  <2>1. caches[n] \in CacheRecords
    BY <1>2
  <2>2. QED BY <2>1
<1>3. caches' = <<c>> /\ Len(caches') = 1 /\ caches'[1] = c /\ caches' \in Seq(CacheRecords)
  BY <1>1
<1>4. installed = build /\ build \in Nat \ {0} /\ active \in Nat /\ active <= build
  BY <1>1 DEF OpenInv, OpenTypes
<1>5. OpenTypes'
  <2>1. RequestRecords(active, build) \subseteq RequestRecords(build, build)
    BY <1>4, Newer
  <2>2. requests \in Seq(RequestRecords(build, build))
    BY <2>1 DEF OpenInv, OpenTypes
  <2>3. QED BY <1>1, <1>3, <1>4, <2>2 DEF OpenInv, OpenTypes
<1>6. ActiveFirst'
  <2>1. ASSUME NEW f \in Opens!Shell
        PROVE  c.files[f] = Opens!File(f, installed) /\ kept'[f] = installed /\ installed >= active'
    BY <1>1, <1>2, <1>4 DEF OpenInv, InstalledWhole
  <2>2. QED BY <1>1, <1>2, <1>3, <2>1 DEF ActiveFirst
<1>7. QED BY <1>1, <1>5, <1>6 DEF OpenInv, InstalledWhole

(* The Mac's app is newer, or the phone asks for one of its files. *)
LEMMA Going ==
  ASSUME OpenInv, Opens!Updates \/ Opens!fetch
  PROVE  OpenInv'
<1>1. CASE Opens!Updates
  <2>1. /\ installed = 0 /\ build' = build + 1 /\ UNCHANGED <<active, installed, caches, requests, kept, wrong>>
    BY <1>1 DEF Opens!Updates
  <2>2. build \in Nat \ {0} /\ active \in 0..build /\ active \in Nat
    BY DEF OpenInv, OpenTypes
  <2>3. RequestRecords(active, build) \subseteq RequestRecords(active, build + 1)
    BY <2>2, Newer
  <2>4. requests \in Seq(RequestRecords(active, build + 1))
    BY <2>3 DEF OpenInv, OpenTypes
  <2>5. kept \in [Opens!Shell -> 0..(build + 1)]
    BY <2>2 DEF OpenInv, OpenTypes
  <2>6. OpenTypes'
    BY <2>1, <2>2, <2>4, <2>5 DEF OpenInv, OpenTypes
  <2>7. QED BY <2>1, <2>6 DEF OpenInv, ActiveFirst, InstalledWhole
<1>2. CASE Opens!fetch
  <2>1. PICK request \in {[asked |-> "page", key |-> "page"], [asked |-> "bundle", key |-> "bundle"],
                          [asked |-> "bundle", key |-> "page"]} :
          requests' = Append(requests, [worker |-> active, asked |-> request.asked, key |-> request.key,
                                        at |-> "racing", answer |-> <<>>])
    BY <1>2 DEF Opens!fetch
  <2>2. active # 0 /\ UNCHANGED <<build, active, installed, caches, kept, wrong>>
    BY <1>2 DEF Opens!fetch
  <2> PICK r : r = [worker |-> active, asked |-> request.asked, key |-> request.key,
                    at |-> "racing", answer |-> <<>>]
    OBVIOUS
  <2>3. request.asked \in Opens!Shell /\ request.key \in Opens!Shell
        /\ (request.key = "bundle" => request.asked = "bundle")
    BY <2>1 DEF Opens!Shell
  <2>4. active \in 1..active /\ active \in Nat
    BY <2>2 DEF OpenInv, OpenTypes
  <2>5. r \in RequestRecords(active, build)
    BY <2>3, <2>4 DEF RequestRecords
  <2>6. requests' \in Seq(RequestRecords(active, build))
    BY <2>1, <2>5 DEF OpenInv, OpenTypes
  <2>7. OpenTypes'
    BY <2>2, <2>6 DEF OpenInv, OpenTypes
  <2>8. QED BY <2>2, <2>7 DEF OpenInv, ActiveFirst, InstalledWhole
<1>3. QED BY <1>1, <1>2

(* Every step keeps the invariant. *)
LEMMA OpenKept ==
  ASSUME OpenInv, Opens!Next
  PROVE  OpenInv'
<1>1. ASSUME NEW r \in DOMAIN requests, Opens!arrives(r) \/ Opens!fails(r) \/ Opens!timedOut(r) \/ Opens!done(r)
      PROVE  OpenInv'
  <2>1. r \in 1..Len(requests) /\ requests[r] \in RequestRecords(active, build) /\ wrong = FALSE
    BY DEF OpenInv, OpenTypes
  <2>2. CASE Opens!arrives(r)
    <3> PICK file : file = Opens!File(requests[r].asked, build)
      OBVIOUS
    <3>1. /\ requests[r].asked \in Opens!Shell /\ build \in Nat
          /\ requests[r].worker \in 1..active /\ active \in 0..build
      BY <2>1 DEF RequestRecords, OpenInv, OpenTypes
    <3>2. /\ file \in FileRecords /\ file[1] = requests[r].asked
          /\ file[2] <= build /\ file[2] >= requests[r].worker
      BY <3>1, FileIs
    <3>3. Opens!Answers(r, file, "kept?") /\ UNCHANGED <<build, active, installed, caches, kept, wrong>>
      BY <2>2 DEF Opens!arrives
    <3>4. QED BY <2>1, <3>2, <3>3, Answering
  <2>3. CASE Opens!fails(r)
    <3>1. wrong' = FALSE
      BY <2>1, <2>3, Serving DEF Opens!fails
    <3>2. QED BY <2>1, <2>3, <3>1, Answering DEF Opens!fails
  <2>4. CASE Opens!timedOut(r)
    <3>1. wrong' = FALSE
      BY <2>1, <2>4, Serving DEF Opens!timedOut
    <3>2. QED BY <2>1, <2>4, <3>1, Answering DEF Opens!timedOut
  <2>5. QED BY <1>1, <2>1, <2>2, <2>3, <2>4, Ending
<1>2. QED BY <1>1, Installing, Activating, Going DEF Opens!Next

LEMMA OpenStill == ASSUME OpenInv, UNCHANGED Opens!vars PROVE OpenInv'
BY DEF Opens!vars, OpenInv, OpenTypes, ActiveFirst, InstalledWhole

(* With the invariant, whatever is opened is the app, no older than the worker in charge. *)
LEMMA OpenTrue == ASSUME OpenInv PROVE Opens!AppOpens
<1>1. active # 0 => \A f \in Opens!Shell : kept[f] \in active..build
  BY DEF OpenInv, OpenTypes, ActiveFirst
<1>2. QED BY <1>1 DEF OpenInv, Opens!AppOpens

(* What a cache answers with is the file asked for, as the worker in charge last kept it, and *)
(* never of a build older than that worker's (sw.ts: networkFirst, respond, install,          *)
(* activate).                                                                                *)
THEOREM AppAlwaysOpens == Opens!Spec => []Opens!AppOpens
<1>1. Opens!Init => OpenInv
  BY OpenStarts
<1>2. OpenInv /\ [Opens!Next]_Opens!vars => OpenInv'
  BY OpenKept, OpenStill
<1>3. OpenInv => Opens!AppOpens
  BY OpenTrue
<1>4. QED BY <1>1, <1>2, <1>3, PTL DEF Opens!Spec

-----------------------------------------------------------------------------
(* Pairings, and the phones let in with them (Pairing) *)

CONSTANTS Phones, MaxCodes, MaxSockets, PairBudgets
VARIABLES devices, file, conns, https, up, mail, tell, codes, section, phone,
          told, revoked, unsaved, pairLeft

Pairings == INSTANCE Pairing WITH Budgets <- PairBudgets, left <- pairLeft

Ats == {"none", "new", "sealed", "authed", "gone"}
Frames == {"hello", "auth-ok", "unknown-token", "revoked", "closed"}
ConnRecords == [at : Ats, device : Nat, counted : BOOLEAN, open : BOOLEAN]
AskedRecords == [replacing : Nat, at : {"none", "sent", "made"}, code : Nat, wanted : BOOLEAN]
SectionRecords == [shown : Nat, ready : BOOLEAN, asked : AskedRecords, copied : SUBSET (Nat \ {0})]
PhoneRecords == [code : Nat, socket : Pairings!Sockets \cup {0},
                 link : {"off", "dialling", "on", "refused"}]

RowTypes ==
  /\ codes \in Nat
  /\ devices \in [DOMAIN devices -> BOOLEAN] /\ DOMAIN devices \subseteq 1..codes
  /\ file \in [DOMAIN file -> BOOLEAN] /\ DOMAIN file \subseteq 1..codes

SocketTypes ==
  /\ conns \in [Pairings!Sockets -> ConnRecords]
  /\ tell \in [Pairings!Sockets -> Seq(Frames)]
  /\ mail \in [Pairings!Sockets -> Seq(Nat \cup {"hello"})]

PairTypes ==
  /\ RowTypes /\ SocketTypes /\ https \in BOOLEAN
  /\ section \in SectionRecords
  /\ phone \in [Phones -> PhoneRecords]

\* What is in a sequence.
Of(q) == {q[i] : i \in 1..Len(q)}

\* The row of c is there and heard from, in memory and on disk.
RowKept(c) == c \in DOMAIN devices /\ devices[c] /\ c \in DOMAIN file /\ file[c]

\* Whom the Mac let in, or is about to tell so, has a row, unless the builder revoked it.
LetInKept ==
  /\ \A c \in told : c \in revoked \/ RowKept(c)
  /\ \A s \in Pairings!Sockets : "auth-ok" \in Of(tell[s]) =>
       /\ conns[s].at \in {"authed", "gone"}
       /\ conns[s].device \in revoked \/ RowKept(conns[s].device)

\* A counted socket is of a row there is, or of one whose removal was not saved.
ServedHasRow ==
  \A s \in Pairings!Sockets : conns[s].counted /\ conns[s].at = "authed" =>
    conns[s].device \in DOMAIN devices \cup unsaved

\* Until the hello a socket is nobody's, nothing but a close is said on it and nothing but a
\* hello is sent; and after it nothing but codes.
HelloFirst ==
  \A s \in Pairings!Sockets :
    /\ conns[s].at \in {"none", "new"} => conns[s].device = 0 /\ Of(tell[s]) \subseteq {"closed"}
    /\ conns[s].at = "new" => mail[s] \in {<<>>, <<"hello">>}
    /\ conns[s].at # "new" => mail[s] \in Seq(Nat)

\* A phone is alone on its socket, and what it sent there since the hello is its code.
HeldAlone ==
  \A p \in Phones : phone[p].socket # 0 =>
    /\ phone[p].code # 0
    /\ conns[phone[p].socket].at \notin {"none", "gone"}
    /\ conns[phone[p].socket].at # "new" => Of(mail[phone[p].socket]) \subseteq {phone[p].code}
    /\ conns[phone[p].socket].at = "authed" => conns[phone[p].socket].device = phone[p].code
    /\ \A q \in Phones \ {p} : phone[q].socket # phone[p].socket

\* The code shown has a row, and so has the one about to be, unless it was revoked; one no
\* longer wanted is about to be none.
ShownHasRow ==
  /\ section.asked.at # "made" /\ section.shown # 0 /\ section.shown \notin revoked \cup unsaved =>
       section.shown \in DOMAIN devices
  /\ section.asked.at = "sent" => section.asked.code = 0
  /\ section.asked.at = "made" /\ section.asked.wanted /\ section.asked.code # 0
     /\ section.asked.code \notin revoked \cup unsaved => section.asked.code \in DOMAIN devices
  /\ section.asked.at # "none" /\ ~section.asked.wanted => section.shown = 0
  /\ section.asked.at = "sent" /\ section.asked.wanted => section.asked.replacing = section.shown

PairInv == PairTypes /\ LetInKept /\ ServedHasRow /\ HelloFirst /\ HeldAlone /\ ShownHasRow

(* At first there are no phones, no codes and no sockets.                  *)
LEMMA PairStarts == ASSUME Pairings!Init PROVE PairInv
<1> USE DEF Pairings!Init, Pairings!None
<1>1. PairTypes
  BY DEF PairTypes, RowTypes, SocketTypes, ConnRecords, Ats, SectionRecords, AskedRecords, PhoneRecords,
         Pairings!Unheard, Pairings!Undialled, Pairings!NoRequest, Pairings!NothingShown, Pairings!Unpaired
<1>2. LetInKept BY DEF LetInKept, Of
<1>3. ServedHasRow BY DEF ServedHasRow, Pairings!Undialled
<1>4. HelloFirst BY DEF HelloFirst, Of, Pairings!Undialled
<1>5. HeldAlone BY DEF HeldAlone, Pairings!Unpaired
<1>6. ShownHasRow BY DEF ShownHasRow, Pairings!NothingShown, Pairings!NoRequest
<1> QED BY <1>1, <1>2, <1>3, <1>4, <1>5, <1>6 DEF PairInv

(* What is in a sequence, longer by one or by two, or without its head.    *)
LEMMA OfLonger ==
  ASSUME NEW S, NEW q \in Seq(S), NEW x \in S
  PROVE  Of(Append(q, x)) = Of(q) \cup {x} /\ Append(q, x) \in Seq(S)
BY DEF Of
LEMMA OfTwoLonger ==
  ASSUME NEW S, NEW q \in Seq(S), NEW x \in S, NEW y \in S
  PROVE  Of(q \o <<x, y>>) = Of(q) \cup {x, y} /\ q \o <<x, y>> \in Seq(S)
BY DEF Of
LEMMA OfOneMore ==
  ASSUME NEW S, NEW q \in Seq(S), NEW x \in S
  PROVE  Of(q \o <<x>>) = Of(q) \cup {x} /\ q \o <<x>> \in Seq(S)
BY DEF Of
LEMMA OfShorter ==
  ASSUME NEW S, NEW q \in Seq(S), q # <<>>
  PROVE  Head(q) \in Of(q) /\ Head(q) \in S /\ Tail(q) \in Seq(S) /\ Of(Tail(q)) \subseteq Of(q)
BY DEF Of

-----------------------------------------------------------------------------
(* The Mac's end of the sockets, hanging up on some of them: what else was *)
(* to be told is a close, or on one past its hello that it was revoked.     *)
Calmer ==
  \A s \in Pairings!Sockets :
    /\ conns'[s].at = conns[s].at /\ conns'[s].device = conns[s].device
    /\ conns'[s].counted => conns[s].counted
    /\ Of(tell'[s]) \subseteq Of(tell[s]) \cup {"closed", "revoked"}
    /\ "revoked" \in Of(tell'[s]) => "revoked" \in Of(tell[s]) \/ conns[s].device # 0

(* No mail is lost, or all of it is.                                       *)
MailKept == mail' = mail \/ mail' = [s \in Pairings!Sockets |-> <<>>]

LEMMA CalmHello ==
  ASSUME SocketTypes, HelloFirst, Calmer, MailKept PROVE HelloFirst'
<1> SUFFICES ASSUME NEW s \in Pairings!Sockets
             PROVE  /\ conns'[s].at \in {"none", "new"} => conns'[s].device = 0 /\ Of(tell'[s]) \subseteq {"closed"}
                    /\ conns'[s].at = "new" => mail'[s] \in {<<>>, <<"hello">>}
                    /\ conns'[s].at # "new" => mail'[s] \in Seq(Nat)
  BY DEF HelloFirst
<1>1. mail'[s] \in {mail[s], <<>>} BY DEF MailKept
<1>2. conns'[s].at = conns[s].at /\ conns'[s].device = conns[s].device BY DEF Calmer
<1>3. conns[s].at \in {"none", "new"} => Of(tell'[s]) \subseteq {"closed"}
  BY DEF Calmer, HelloFirst
<1>4. conns[s].at = "new" => mail[s] \in {<<>>, <<"hello">>} BY DEF HelloFirst
<1>5. conns[s].at # "new" => mail[s] \in Seq(Nat) BY DEF HelloFirst
<1>6. conns[s].at \in {"none", "new"} => conns[s].device = 0 BY DEF HelloFirst
<1>7. <<>> \in Seq(Nat) OBVIOUS
<1> QED BY <1>1, <1>2, <1>3, <1>4, <1>5, <1>6, <1>7

LEMMA CalmHeld ==
  ASSUME PairTypes, HeldAlone, Calmer, MailKept, phone' = phone PROVE HeldAlone'
<1> SUFFICES ASSUME NEW p \in Phones, phone[p].socket # 0
             PROVE  (/\ phone[p].code # 0
                     /\ conns[phone[p].socket].at \notin {"none", "gone"}
                     /\ conns[phone[p].socket].at # "new" => Of(mail[phone[p].socket]) \subseteq {phone[p].code}
                     /\ conns[phone[p].socket].at = "authed" => conns[phone[p].socket].device = phone[p].code
                     /\ \A q \in Phones \ {p} : phone[q].socket # phone[p].socket)'
  BY DEF HeldAlone
<1>1. phone[p].socket \in Pairings!Sockets BY DEF PairTypes, PhoneRecords
<1>2. PICK s \in Pairings!Sockets : s = phone[p].socket BY <1>1
<1>3. mail'[s] \in {mail[s], <<>>} BY DEF MailKept
<1>4. Of(mail'[s]) \subseteq Of(mail[s]) BY <1>3 DEF Of
<1>5. conns'[s].at = conns[s].at /\ conns'[s].device = conns[s].device BY DEF Calmer
<1> QED BY <1>2, <1>4, <1>5 DEF HeldAlone

LEMMA CalmLetIn ==
  ASSUME LetInKept, Calmer, told' = told, revoked \subseteq revoked',
         \A c : RowKept(c) => RowKept(c)' \/ c \in revoked'
  PROVE  LetInKept'
<1>1. \A c \in told' : c \in revoked' \/ RowKept(c)' BY DEF LetInKept
<1>2. ASSUME NEW s \in Pairings!Sockets, "auth-ok" \in Of(tell'[s])
      PROVE  /\ conns'[s].at \in {"authed", "gone"}
             /\ conns'[s].device \in revoked' \/ RowKept(conns[s].device)'
  <2>1. "auth-ok" \in Of(tell[s]) BY <1>2 DEF Calmer
  <2>2. conns'[s].at = conns[s].at /\ conns'[s].device = conns[s].device BY DEF Calmer
  <2>3. conns[s].device \in revoked \/ RowKept(conns[s].device) BY <2>1 DEF LetInKept
  <2> QED BY <2>1, <2>2, <2>3 DEF LetInKept
<1> QED BY <1>1, <1>2 DEF LetInKept

(* A row's sockets are hung up on: none that counts is its any more.       *)
LEMMA Disconnecting ==
  ASSUME SocketTypes, NEW c, c # 0, Pairings!Disconnect(c)
  PROVE  /\ Calmer
         /\ conns' \in [Pairings!Sockets -> ConnRecords] /\ tell' \in [Pairings!Sockets -> Seq(Frames)]
         /\ \A s \in Pairings!Sockets : conns'[s].counted => conns'[s].device # c
<1> USE DEF SocketTypes
<1>1. conns' = [s \in Pairings!Sockets |->
                  IF s \in Pairings!Dead(c) THEN [conns[s] EXCEPT !.counted = FALSE, !.open = FALSE] ELSE conns[s]]
  BY DEF Pairings!Disconnect
<1>2. tell' = [s \in Pairings!Sockets |->
                 IF s \in Pairings!Dead(c) /\ conns[s].open THEN tell[s] \o <<"revoked", "closed">> ELSE tell[s]]
  BY DEF Pairings!Disconnect
<1>3. ASSUME NEW s \in Pairings!Sockets
      PROVE  /\ tell'[s] \in Seq(Frames)
             /\ Of(tell'[s]) \subseteq Of(tell[s]) \cup {"closed", "revoked"}
             /\ "revoked" \in Of(tell'[s]) => "revoked" \in Of(tell[s]) \/ conns[s].device # 0
  <2>1. tell[s] \in Seq(Frames) /\ "revoked" \in Frames /\ "closed" \in Frames BY DEF Frames
  <2>2. Of(tell[s] \o <<"revoked", "closed">>) = Of(tell[s]) \cup {"revoked", "closed"}
        /\ tell[s] \o <<"revoked", "closed">> \in Seq(Frames)
    BY <2>1, OfTwoLonger
  <2>3. tell'[s] = IF s \in Pairings!Dead(c) /\ conns[s].open THEN tell[s] \o <<"revoked", "closed">> ELSE tell[s]
    BY <1>2
  <2> QED BY <2>1, <2>2, <2>3 DEF Pairings!Dead
<1>4. ASSUME NEW s \in Pairings!Sockets
      PROVE  /\ conns'[s] \in ConnRecords
             /\ conns'[s].at = conns[s].at /\ conns'[s].device = conns[s].device
             /\ conns'[s].counted => conns[s].counted /\ conns[s].device # c
  BY <1>1 DEF Pairings!Dead, ConnRecords
<1> QED BY <1>1, <1>2, <1>3, <1>4 DEF Calmer

(* Everyone is hung up on.                                                 *)
LEMMA HangingUp ==
  ASSUME SocketTypes, Pairings!HungUp
  PROVE  /\ Calmer
         /\ conns' \in [Pairings!Sockets -> ConnRecords] /\ tell' \in [Pairings!Sockets -> Seq(Frames)]
         /\ \A s \in Pairings!Sockets : ~conns'[s].counted
<1> USE DEF SocketTypes
<1>1. conns' = [s \in Pairings!Sockets |-> [conns[s] EXCEPT !.counted = FALSE, !.open = FALSE]]
      /\ tell' = [s \in Pairings!Sockets |-> IF conns[s].open THEN Append(tell[s], "closed") ELSE tell[s]]
  BY DEF Pairings!HungUp
<1>2. ASSUME NEW s \in Pairings!Sockets
      PROVE  tell'[s] \in Seq(Frames) /\ Of(tell'[s]) \subseteq Of(tell[s]) \cup {"closed"}
  <2>1. tell[s] \in Seq(Frames) /\ "closed" \in Frames BY DEF Frames
  <2>2. Of(Append(tell[s], "closed")) = Of(tell[s]) \cup {"closed"} /\ Append(tell[s], "closed") \in Seq(Frames)
    BY <2>1, OfLonger
  <2> QED BY <1>1, <2>1, <2>2
<1>3. ASSUME NEW s \in Pairings!Sockets
      PROVE  /\ conns'[s] \in ConnRecords /\ ~conns'[s].counted
             /\ conns'[s].at = conns[s].at /\ conns'[s].device = conns[s].device
  BY <1>1 DEF ConnRecords
<1> QED BY <1>1, <1>2, <1>3 DEF Calmer

(* The rows grow by one for a new code, and lose the replaced one if unused. *)
LEMMA NewRows ==
  ASSUME RowTypes, NEW old, NEW rows, codes' = codes + 1,
         rows = [d \in DOMAIN devices \cup {codes + 1} |-> d \in DOMAIN devices /\ devices[d]]
  PROVE  /\ codes' \in Nat \ {0}
         /\ rows \in [DOMAIN rows -> BOOLEAN] /\ DOMAIN rows = DOMAIN devices \cup {codes + 1}
         /\ DOMAIN rows \subseteq 1..codes' /\ DOMAIN devices \subseteq 1..codes' /\ DOMAIN file \subseteq 1..codes'
         /\ \A d \in DOMAIN devices : rows[d] = devices[d]
         /\ Pairings!Without(rows, old) \in [DOMAIN Pairings!Without(rows, old) -> BOOLEAN]
         /\ DOMAIN Pairings!Without(rows, old) = DOMAIN rows \ {old}
         /\ \A d \in DOMAIN rows \ {old} : Pairings!Without(rows, old)[d] = rows[d]
<1>1. codes' \in Nat \ {0} /\ DOMAIN devices \subseteq 1..codes' /\ DOMAIN file \subseteq 1..codes'
      /\ codes + 1 \in 1..codes'
  BY DEF RowTypes
<1>2. rows \in [DOMAIN rows -> BOOLEAN] /\ DOMAIN rows = DOMAIN devices \cup {codes + 1}
  OBVIOUS
<1>3. \A d \in DOMAIN devices : devices[d] \in BOOLEAN BY DEF RowTypes
<1>4. \A d \in DOMAIN devices : rows[d] = devices[d] BY <1>3
<1>5. \A d \in DOMAIN rows : rows[d] \in BOOLEAN BY <1>2
<1>6. /\ Pairings!Without(rows, old) \in [DOMAIN Pairings!Without(rows, old) -> BOOLEAN]
      /\ DOMAIN Pairings!Without(rows, old) = DOMAIN rows \ {old}
      /\ \A d \in DOMAIN rows \ {old} : Pairings!Without(rows, old)[d] = rows[d]
  BY <1>5 DEF Pairings!Without
<1> QED BY <1>1, <1>2, <1>4, <1>6

(* remote-create-pairing.                                                  *)
LEMMA MakingCode == ASSUME PairInv, Pairings!createPairing PROVE PairInv'
<1> DEFINE old == section.asked.replacing
           rows0 == [d \in DOMAIN devices \cup {codes + 1} |-> d \in DOMAIN devices /\ devices[d]]
<1> USE DEF PairInv
<1>0. /\ section.asked.at = "sent" /\ mail' = mail /\ phone' = phone /\ https' = https
      /\ told' = told /\ revoked' = revoked /\ unsaved' = unsaved
  BY DEF Pairings!createPairing, Pairings!noted
<1>s. section \in SectionRecords /\ section.asked \in AskedRecords /\ phone \in [Phones -> PhoneRecords]
      /\ SocketTypes /\ RowTypes
  BY DEF PairTypes, SectionRecords
<1>1. CASE ~up \/ ~https
  <2>1. section' = [section EXCEPT !.asked.at = "made"] /\ UNCHANGED <<devices, file, conns, codes, tell>>
    BY <1>1 DEF Pairings!createPairing, Pairings!server
  <2>2. section' \in SectionRecords /\ section'.asked.code = 0 /\ section'.shown = section.shown
        /\ section'.asked.at = "made" /\ section'.asked.wanted = section.asked.wanted
    BY <2>1, <1>s, <1>0 DEF ShownHasRow, SectionRecords, AskedRecords
  <2>3. PairTypes' BY <2>1, <2>2, <1>0, <1>s DEF PairTypes, RowTypes, SocketTypes
  <2>4. ShownHasRow' BY <2>2, <1>0, <1>s DEF ShownHasRow
  <2>5. LetInKept' BY <2>1, <1>0 DEF LetInKept, RowKept
  <2>6. ServedHasRow' BY <2>1, <1>0 DEF ServedHasRow
  <2>7. HelloFirst' /\ HeldAlone' BY <2>1, <1>0 DEF HelloFirst, HeldAlone
  <2> QED BY <2>3, <2>4, <2>5, <2>6, <2>7
<1>2. CASE up /\ https
  <2> PICK rows : rows = rows0 OBVIOUS
  <2>0. /\ codes' = codes + 1
        /\ section' = [section EXCEPT !.asked.at = "made", !.asked.code = codes + 1]
        /\ Pairings!Saved(IF Pairings!revokeUnusedDevice(devices, old) THEN Pairings!Without(rows, old) ELSE rows)
        /\ IF Pairings!revokeUnusedDevice(devices, old) THEN Pairings!Disconnect(old) ELSE UNCHANGED <<conns, tell>>
    BY <1>2 DEF Pairings!createPairing
  <2>1. /\ codes' \in Nat \ {0}
        /\ rows \in [DOMAIN rows -> BOOLEAN] /\ DOMAIN rows = DOMAIN devices \cup {codes + 1}
        /\ DOMAIN rows \subseteq 1..codes'
        /\ \A d \in DOMAIN devices : rows[d] = devices[d]
        /\ Pairings!Without(rows, old) \in [DOMAIN Pairings!Without(rows, old) -> BOOLEAN]
        /\ DOMAIN Pairings!Without(rows, old) = DOMAIN rows \ {old}
        /\ \A d \in DOMAIN rows \ {old} : Pairings!Without(rows, old)[d] = rows[d]
    <3>1. rows = [d \in DOMAIN devices \cup {codes + 1} |-> d \in DOMAIN devices /\ devices[d]] OBVIOUS
    <3> HIDE DEF rows0
    <3> QED BY <3>1, <2>0, <1>s, NewRows, ZenonT(40)
  <2>2. section' \in SectionRecords /\ section'.asked.code = codes + 1 /\ section'.shown = section.shown
        /\ section'.asked.at = "made" /\ section'.asked.wanted = section.asked.wanted
    BY <2>0, <2>1, <1>s DEF SectionRecords, AskedRecords
  <2>3. CASE Pairings!revokeUnusedDevice(devices, old)
    <3>1. devices' = Pairings!Without(rows, old) /\ file' = devices' /\ Pairings!Disconnect(old)
      BY <2>0, <2>3 DEF Pairings!Saved
    <3>2. old \in DOMAIN devices /\ ~devices[old]
          /\ \A s \in Pairings!Sockets : ~(conns[s].counted /\ conns[s].at = "authed" /\ conns[s].device = old)
      BY <2>3 DEF Pairings!revokeUnusedDevice, Pairings!Used
    <3>3. old \in 1..codes BY <3>2, <1>s DEF RowTypes
    <3>4. old # 0 /\ old # codes + 1 BY <3>3, <1>s DEF RowTypes
    <3>5. /\ Calmer /\ conns' \in [Pairings!Sockets -> ConnRecords] /\ tell' \in [Pairings!Sockets -> Seq(Frames)]
          /\ \A s \in Pairings!Sockets : conns'[s].counted => conns'[s].device # old
      BY <3>1, <3>4, <1>s, Disconnecting
    <3>6. RowTypes' BY <3>1, <2>1 DEF RowTypes
    <3>7. PairTypes' BY <3>5, <3>6, <2>2, <1>0, <1>s DEF PairTypes, SocketTypes
    <3>8. \A c : RowKept(c) => RowKept(c)'
      BY <3>1, <3>2, <2>1 DEF RowKept
    <3>9. LetInKept' BY <3>5, <3>8, <1>0, CalmLetIn
    <3>10. ServedHasRow' BY <3>1, <3>5, <2>1, <1>0 DEF ServedHasRow, Calmer
    <3>11. HelloFirst' /\ HeldAlone' BY <3>5, <1>0, <1>s, CalmHello, CalmHeld DEF MailKept
    <3>12. ShownHasRow' BY <3>1, <3>4, <2>1, <2>2, <1>0, <1>s DEF ShownHasRow
    <3> QED BY <3>7, <3>9, <3>10, <3>11, <3>12
  <2>4. CASE ~Pairings!revokeUnusedDevice(devices, old)
    <3>1. devices' = rows /\ file' = rows /\ UNCHANGED <<conns, tell>>
      BY <2>0, <2>4 DEF Pairings!Saved
    <3>6. RowTypes' BY <3>1, <2>1 DEF RowTypes
    <3>7. PairTypes' BY <3>1, <3>6, <2>2, <1>0, <1>s DEF PairTypes, SocketTypes
    <3>8. \A c : RowKept(c) => RowKept(c)' BY <3>1, <2>1 DEF RowKept
    <3>9. LetInKept' BY <3>1, <3>8, <1>0 DEF LetInKept
    <3>10. ServedHasRow' BY <3>1, <2>1, <1>0 DEF ServedHasRow
    <3>11. HelloFirst' /\ HeldAlone' BY <3>1, <1>0 DEF HelloFirst, HeldAlone
    <3>12. ShownHasRow' BY <3>1, <2>1, <2>2, <1>0, <1>s DEF ShownHasRow
    <3> QED BY <3>7, <3>9, <3>10, <3>11, <3>12
  <2> QED BY <2>3, <2>4
<1> QED BY <1>1, <1>2

(* The same, when a save throws.                                           *)
LEMMA MakingUnsaved == ASSUME PairInv, Pairings!createPairingUnsaved PROVE PairInv'
<1> DEFINE old == section.asked.replacing
           rows0 == [d \in DOMAIN devices \cup {codes + 1} |-> d \in DOMAIN devices /\ devices[d]]
<1> USE DEF PairInv
<1> PICK rows : rows = rows0 OBVIOUS
<1>0. /\ section.asked.at = "sent" /\ codes' = codes + 1
      /\ \/ Pairings!Unsaved(rows) /\ UNCHANGED unsaved
         \/ /\ Pairings!revokeUnusedDevice(devices, old)
            /\ devices' = Pairings!Without(rows, old) /\ file' = rows /\ unsaved' = unsaved \cup {old}
      /\ section' = [section EXCEPT !.asked = Pairings!NoRequest]
      /\ UNCHANGED <<conns, mail, tell, https, phone, told, revoked>>
  BY DEF Pairings!createPairingUnsaved, Pairings!wires
<1>s. section \in SectionRecords /\ section.asked \in AskedRecords /\ phone \in [Phones -> PhoneRecords]
      /\ SocketTypes /\ RowTypes
  BY DEF PairTypes, SectionRecords
<1>1. /\ codes' \in Nat \ {0}
      /\ rows \in [DOMAIN rows -> BOOLEAN] /\ DOMAIN rows = DOMAIN devices \cup {codes + 1}
      /\ DOMAIN rows \subseteq 1..codes' /\ DOMAIN file \subseteq 1..codes'
      /\ \A d \in DOMAIN devices : rows[d] = devices[d]
      /\ Pairings!Without(rows, old) \in [DOMAIN Pairings!Without(rows, old) -> BOOLEAN]
      /\ DOMAIN Pairings!Without(rows, old) = DOMAIN rows \ {old}
      /\ \A d \in DOMAIN rows \ {old} : Pairings!Without(rows, old)[d] = rows[d]
  <2>1. rows = [d \in DOMAIN devices \cup {codes + 1} |-> d \in DOMAIN devices /\ devices[d]] OBVIOUS
  <2> HIDE DEF rows0
  <2> QED BY <2>1, <1>0, <1>s, NewRows, ZenonT(40)
<1>2. /\ unsaved \subseteq unsaved' /\ RowTypes'
      /\ DOMAIN devices \subseteq DOMAIN devices' \cup unsaved'
      /\ \A c : RowKept(c) => RowKept(c)'
  <2>1. CASE Pairings!Unsaved(rows) /\ UNCHANGED unsaved
    <3>1. devices' = rows /\ file' = file BY <2>1 DEF Pairings!Unsaved
    <3> QED BY <3>1, <2>1, <1>1, <1>s DEF RowTypes, RowKept
  <2>2. CASE /\ Pairings!revokeUnusedDevice(devices, old)
             /\ devices' = Pairings!Without(rows, old) /\ file' = rows /\ unsaved' = unsaved \cup {old}
    <3>1. old \in DOMAIN devices /\ ~devices[old] BY <2>2 DEF Pairings!revokeUnusedDevice, Pairings!Used
    <3>2. RowTypes' BY <2>2, <1>1 DEF RowTypes
    <3>3. \A c : RowKept(c) => RowKept(c)' BY <2>2, <3>1, <1>1 DEF RowKept
    <3> QED BY <3>1, <3>2, <3>3, <2>2, <1>1
  <2> QED BY <2>1, <2>2, <1>0
<1>3. section' \in SectionRecords /\ section'.shown = section.shown /\ section'.asked = Pairings!NoRequest
      /\ section'.asked.at = "none"
  BY <1>0, <1>s DEF SectionRecords, AskedRecords, Pairings!NoRequest, Pairings!None
<1>4. PairTypes' BY <1>0, <1>2, <1>3, <1>s DEF PairTypes, SocketTypes
<1>5. LetInKept' BY <1>0, <1>2 DEF LetInKept
<1>6. ServedHasRow' BY <1>0, <1>2 DEF ServedHasRow
<1>7. HelloFirst' /\ HeldAlone' BY <1>0 DEF HelloFirst, HeldAlone
<1>8. ShownHasRow' BY <1>0, <1>2, <1>3 DEF ShownHasRow
<1> QED BY <1>4, <1>5, <1>6, <1>7, <1>8

(* The section's Revoke.                                                   *)
LEMMA Revoking == ASSUME PairInv, NEW c, Pairings!revokeDevice(c) PROVE PairInv'
<1> USE DEF PairInv
<1>0. /\ c \in DOMAIN devices /\ devices' = Pairings!Without(devices, c) /\ revoked' = revoked \cup {c}
      /\ \/ Pairings!Disconnect(c) /\ file' = devices' /\ unsaved' = unsaved
         \/ unsaved' = unsaved \cup {c} /\ UNCHANGED <<file, conns, tell>>
      /\ UNCHANGED <<codes, https, mail, section, phone, told>>
  BY DEF Pairings!revokeDevice
<1>s. phone \in [Phones -> PhoneRecords] /\ SocketTypes /\ RowTypes
  BY DEF PairTypes
<1>1. c \in 1..codes BY <1>0, <1>s DEF RowTypes
<1>2. c # 0 BY <1>1, <1>s DEF RowTypes
<1>3. /\ devices' \in [DOMAIN devices' -> BOOLEAN] /\ DOMAIN devices' = DOMAIN devices \ {c}
      /\ \A d \in DOMAIN devices' : devices'[d] = devices[d]
  BY <1>0, <1>s DEF Pairings!Without, RowTypes
<1>4. RowTypes' BY <1>0, <1>3, <1>s DEF RowTypes
<1>5. \A d : RowKept(d) => RowKept(d)' \/ d \in revoked' BY <1>0, <1>3 DEF RowKept
<1>6. /\ conns' \in [Pairings!Sockets -> ConnRecords] /\ tell' \in [Pairings!Sockets -> Seq(Frames)]
      /\ Calmer
      /\ \A s \in Pairings!Sockets : conns'[s].counted => conns'[s].device # c \/ c \in unsaved'
  <2>1. CASE Pairings!Disconnect(c) BY <2>1, <1>2, <1>s, Disconnecting
  <2>2. CASE unsaved' = unsaved \cup {c} /\ UNCHANGED <<file, conns, tell>>
    BY <2>2, <1>s DEF SocketTypes, Calmer
  <2> QED BY <2>1, <2>2, <1>0
<1>7. PairTypes' BY <1>0, <1>4, <1>6 DEF PairTypes, SocketTypes
<1>8. LetInKept' BY <1>0, <1>5, <1>6, CalmLetIn
<1>9. ServedHasRow' BY <1>0, <1>3, <1>6 DEF ServedHasRow, Calmer
<1>10. HelloFirst' /\ HeldAlone' BY <1>0, <1>6, <1>s, CalmHello, CalmHeld DEF MailKept
<1>11. unsaved \subseteq unsaved' BY <1>0
<1>12. ShownHasRow' BY <1>0, <1>3, <1>11 DEF ShownHasRow
<1> QED BY <1>7, <1>8, <1>9, <1>10, <1>12

(* Silence, the link switched off, and the Mac's app started again.        *)
LEMMA Silence == ASSUME PairInv, NEW s \in Pairings!Sockets, Pairings!dropSilent(s) PROVE PairInv'
<1> USE DEF PairInv
<1>0. /\ conns' = [conns EXCEPT ![s].counted = FALSE, ![s].open = FALSE]
      /\ tell' = [tell EXCEPT ![s] = Append(@, "closed")]
      /\ UNCHANGED <<devices, file, codes, https, mail, section, phone, told, revoked, unsaved>>
  BY DEF Pairings!dropSilent, Pairings!noted
<1>s. PairTypes /\ SocketTypes /\ conns[s] \in ConnRecords /\ tell[s] \in Seq(Frames) /\ "closed" \in Frames
  BY DEF PairTypes, SocketTypes, Frames
<1>1. Of(Append(tell[s], "closed")) = Of(tell[s]) \cup {"closed"} /\ Append(tell[s], "closed") \in Seq(Frames)
  BY <1>s, OfLonger
<1>2. /\ conns' \in [Pairings!Sockets -> ConnRecords] /\ tell' \in [Pairings!Sockets -> Seq(Frames)]
      /\ Calmer
  BY <1>0, <1>1, <1>s DEF SocketTypes, ConnRecords, Calmer
<1>3. PairTypes' BY <1>0, <1>2, <1>s DEF PairTypes, SocketTypes, RowTypes
<1>4. LetInKept'
  <2>1. \A c : RowKept(c) => RowKept(c)' BY <1>0 DEF RowKept
  <2> QED BY <2>1, <1>0, <1>2, CalmLetIn
<1>5. ServedHasRow' BY <1>0, <1>2 DEF ServedHasRow, Calmer
<1>6. HelloFirst' /\ HeldAlone' BY <1>0, <1>2, <1>s, CalmHello, CalmHeld DEF MailKept
<1>7. ShownHasRow' BY <1>0 DEF ShownHasRow
<1> QED BY <1>3, <1>4, <1>5, <1>6, <1>7

LEMMA SwitchedOff == ASSUME PairInv, Pairings!stop PROVE PairInv'
<1> USE DEF PairInv
<1>0. Pairings!HungUp /\ UNCHANGED <<devices, file, codes, https, mail, section, phone, told, revoked, unsaved>>
  BY DEF Pairings!stop, Pairings!noted
<1>s. PairTypes /\ SocketTypes BY DEF PairTypes
<1>2. /\ conns' \in [Pairings!Sockets -> ConnRecords] /\ tell' \in [Pairings!Sockets -> Seq(Frames)]
      /\ Calmer
  BY <1>0, <1>s, HangingUp
<1>3. PairTypes' BY <1>0, <1>2, <1>s DEF PairTypes, SocketTypes, RowTypes
<1>4. LetInKept'
  <2>1. \A c : RowKept(c) => RowKept(c)' BY <1>0 DEF RowKept
  <2> QED BY <2>1, <1>0, <1>2, CalmLetIn
<1>5. ServedHasRow' BY <1>0, <1>2 DEF ServedHasRow, Calmer
<1>6. HelloFirst' /\ HeldAlone' BY <1>0, <1>2, <1>s, CalmHello, CalmHeld DEF MailKept
<1>7. ShownHasRow' BY <1>0 DEF ShownHasRow
<1> QED BY <1>3, <1>4, <1>5, <1>6, <1>7

LEMMA StartedAgain == ASSUME PairInv, Pairings!Restart PROVE PairInv'
<1> USE DEF PairInv
<1>0. /\ Pairings!HungUp /\ devices' = file /\ mail' = [s \in Pairings!Sockets |-> <<>>]
      /\ section' = [section EXCEPT !.shown = 0, !.asked = Pairings!NoRequest, !.ready = https]
      /\ UNCHANGED <<file, codes, https, phone, told, revoked>>
  BY DEF Pairings!Restart, Pairings!None
<1>s. PairTypes /\ SocketTypes /\ RowTypes /\ section \in SectionRecords BY DEF PairTypes
<1>1. /\ conns' \in [Pairings!Sockets -> ConnRecords] /\ tell' \in [Pairings!Sockets -> Seq(Frames)]
      /\ Calmer /\ \A s \in Pairings!Sockets : ~conns'[s].counted
  BY <1>0, <1>s, HangingUp
<1>2. SocketTypes'
  <2>1. mail' \in [Pairings!Sockets -> Seq(Nat \cup {"hello"})] BY <1>0
  <2> QED BY <2>1, <1>1 DEF SocketTypes
<1>3. RowTypes' BY <1>0, <1>s DEF RowTypes
<1>4. /\ section' \in SectionRecords /\ section'.shown = 0 /\ section'.asked = Pairings!NoRequest
      /\ section'.asked.at = "none"
  BY <1>0, <1>s DEF PairTypes, SectionRecords, AskedRecords, Pairings!NoRequest, Pairings!None
<1>5. PairTypes' BY <1>0, <1>2, <1>3, <1>4 DEF PairTypes
<1>6. LetInKept'
  <2>1. \A c : RowKept(c) => RowKept(c)' BY <1>0 DEF RowKept
  <2> QED BY <2>1, <1>0, <1>1, CalmLetIn
<1>7. ServedHasRow' BY <1>1 DEF ServedHasRow
<1>8. HelloFirst' /\ HeldAlone' BY <1>0, <1>1, <1>s, CalmHello, CalmHeld DEF MailKept
<1>9. ShownHasRow' BY <1>4 DEF ShownHasRow
<1> QED BY <1>5, <1>6, <1>7, <1>8, <1>9

(* What changes neither a row nor a socket: the server listens again, HTTPS *)
(* comes and goes, and the section is pressed and answered.                 *)
LEMMA Pressing ==
  ASSUME PairInv,
         \/ Pairings!start \/ Pairings!HttpsChanges \/ Pairings!SectionHears
         \/ Pairings!pairNew \/ Pairings!pairingMade \/ Pairings!Done
  PROVE  PairInv'
<1> USE DEF PairInv
<1>0. UNCHANGED <<devices, file, conns, codes, mail, tell, phone, told, revoked, unsaved>>
  BY DEF Pairings!start, Pairings!HttpsChanges, Pairings!SectionHears, Pairings!pairNew, Pairings!pairingMade,
         Pairings!Done, Pairings!server, Pairings!wires, Pairings!noted
<1>s. PairTypes /\ section \in SectionRecords /\ section.asked \in AskedRecords /\ https \in BOOLEAN
  BY DEF PairTypes, SectionRecords
<1>1. LetInKept' /\ ServedHasRow' /\ HelloFirst' /\ HeldAlone'
  BY <1>0 DEF LetInKept, RowKept, ServedHasRow, HelloFirst, HeldAlone
<1>2. https' \in BOOLEAN
  BY <1>s DEF Pairings!start, Pairings!HttpsChanges, Pairings!SectionHears, Pairings!pairNew,
              Pairings!pairingMade, Pairings!Done
<1>3. section' \in SectionRecords /\ ShownHasRow'
  <2> USE DEF SectionRecords, AskedRecords, Pairings!NoRequest, Pairings!None
  <2>1. CASE Pairings!start \/ Pairings!HttpsChanges
    BY <1>0, <1>s, <2>1 DEF Pairings!start, Pairings!HttpsChanges, ShownHasRow
  <2>2. CASE Pairings!SectionHears
    <3>1. section' = [section EXCEPT !.ready = ~section.ready, !.shown = 0, !.asked.wanted = FALSE]
      BY <2>2 DEF Pairings!SectionHears
    <3>2. /\ section' \in SectionRecords /\ section'.shown = 0
          /\ section'.asked = [section.asked EXCEPT !.wanted = FALSE]
      BY <3>1, <1>s
    <3>3. /\ section'.asked.at = section.asked.at /\ section'.asked.code = section.asked.code
          /\ ~section'.asked.wanted
      BY <3>2, <1>s
    <3> QED BY <3>2, <3>3, <1>0 DEF ShownHasRow
  <2>3. CASE Pairings!pairNew
    <3>1. /\ section' = [section EXCEPT !.asked = [replacing |-> section.shown, at |-> "sent",
                                                   code |-> 0, wanted |-> TRUE]]
          /\ section.asked.at = "none"
      BY <2>3 DEF Pairings!pairNew
    <3>2. /\ section' \in SectionRecords /\ section'.shown = section.shown
          /\ section'.asked = [replacing |-> section.shown, at |-> "sent", code |-> 0, wanted |-> TRUE]
      BY <3>1, <1>s
    <3> QED BY <3>1, <3>2, <1>0 DEF ShownHasRow
  <2>4. CASE Pairings!pairingMade
    <3> DEFINE s0 == IF section.asked.wanted THEN section.asked.code ELSE section.shown
    <3> PICK s : s = s0 OBVIOUS
    <3>1. section' = [section EXCEPT !.asked = Pairings!NoRequest, !.shown = s, !.copied = @ \cup ({s} \ {0})]
      BY <2>4 DEF Pairings!pairingMade
    <3>2. s \in Nat BY <1>s
    <3>3. section' \in SectionRecords /\ section'.shown = s /\ section'.asked = Pairings!NoRequest
      BY <3>1, <3>2, <1>s
    <3>4. s # 0 /\ s \notin revoked \cup unsaved => s \in DOMAIN devices
      BY <2>4 DEF ShownHasRow, Pairings!pairingMade
    <3> QED BY <3>3, <3>4, <1>0 DEF ShownHasRow
  <2>5. CASE Pairings!Done
    <3>1. section' = [section EXCEPT !.shown = 0, !.asked.wanted = FALSE]
      BY <2>5 DEF Pairings!Done
    <3>2. /\ section' \in SectionRecords /\ section'.shown = 0
          /\ section'.asked = [section.asked EXCEPT !.wanted = FALSE]
      BY <3>1, <1>s
    <3>3. /\ section'.asked.at = section.asked.at /\ section'.asked.code = section.asked.code
          /\ ~section'.asked.wanted
      BY <3>2, <1>s
    <3> QED BY <3>2, <3>3, <1>0 DEF ShownHasRow
  <2> QED BY <2>1, <2>2, <2>3, <2>4, <2>5
<1>4. PairTypes' BY <1>0, <1>2, <1>3, <1>s DEF PairTypes, RowTypes, SocketTypes
<1> QED BY <1>1, <1>3, <1>4

(* The steps of one socket: what was held is held still.                   *)
LEMMA HeldStays ==
  ASSUME PairTypes, HeldAlone, phone' = phone, NEW s \in Pairings!Sockets,
         \A t \in Pairings!Sockets \ {s} : conns'[t] = conns[t] /\ mail'[t] = mail[t],
         \A p \in Phones : phone[p].socket = s /\ phone[p].socket # 0 =>
           /\ conns'[s].at \notin {"none", "gone"}
           /\ conns'[s].at # "new" => Of(mail'[s]) \subseteq {phone[p].code}
           /\ conns'[s].at = "authed" => conns'[s].device = phone[p].code
  PROVE  HeldAlone'
<1> SUFFICES ASSUME NEW p \in Phones, phone[p].socket # 0
             PROVE  (/\ phone[p].code # 0
                     /\ conns[phone[p].socket].at \notin {"none", "gone"}
                     /\ conns[phone[p].socket].at # "new" => Of(mail[phone[p].socket]) \subseteq {phone[p].code}
                     /\ conns[phone[p].socket].at = "authed" => conns[phone[p].socket].device = phone[p].code
                     /\ \A q \in Phones \ {p} : phone[q].socket # phone[p].socket)'
  BY DEF HeldAlone
<1>1. phone[p].socket \in Pairings!Sockets BY DEF PairTypes, PhoneRecords
<1>2. PICK t \in Pairings!Sockets : t = phone[p].socket BY <1>1
<1>3. CASE t = s BY ZenonT(40), <1>2, <1>3 DEF HeldAlone
<1>4. CASE t # s BY <1>2, <1>4 DEF HeldAlone
<1> QED BY <1>3, <1>4

(* And whom it let in, it let in.                                          *)
LEMMA LetInStays ==
  ASSUME LetInKept, told' = told, revoked' = revoked, \A c : RowKept(c) => RowKept(c)',
         \A s \in Pairings!Sockets : "auth-ok" \in Of(tell'[s]) =>
           /\ "auth-ok" \in Of(tell[s]) /\ conns'[s].device = conns[s].device
           /\ conns[s].at \in {"authed", "gone"} => conns'[s].at \in {"authed", "gone"}
  PROVE  LetInKept'
<1>1. \A c \in told' : c \in revoked' \/ RowKept(c)' BY DEF LetInKept
<1>2. ASSUME NEW s \in Pairings!Sockets, "auth-ok" \in Of(tell'[s])
      PROVE  /\ conns'[s].at \in {"authed", "gone"}
             /\ conns'[s].device \in revoked' \/ RowKept(conns[s].device)'
  <2>1. conns'[s].device = conns[s].device BY <1>2
  <2>2. conns[s].at \in {"authed", "gone"} /\ (conns[s].device \in revoked \/ RowKept(conns[s].device))
    BY <1>2 DEF LetInKept
  <2>3. RowKept(conns[s].device) => RowKept(conns[s].device)' BY <2>1 DEF RowKept
  <2> QED BY <1>2, <2>1, <2>2, <2>3
<1> QED BY <1>1, <1>2 DEF LetInKept

(* The hello seals a socket.                                               *)
LEMMA Sealing == ASSUME PairInv, NEW s \in Pairings!Sockets, Pairings!hello(s) PROVE PairInv'
<1> USE DEF PairInv
<1>0. /\ conns[s].at = "new" /\ mail[s] # <<>>
      /\ conns' = [conns EXCEPT ![s].at = "sealed"]
      /\ tell' = [tell EXCEPT ![s] = IF conns[s].open THEN @ \o <<"hello">> ELSE @]
      /\ mail' = [mail EXCEPT ![s] = Tail(@)]
      /\ UNCHANGED <<devices, file, codes, https, section, phone, told, revoked, unsaved>>
  BY DEF Pairings!hello, Pairings!Answer, Pairings!noted
<1>s. PairTypes /\ SocketTypes /\ conns[s] \in ConnRecords /\ tell[s] \in Seq(Frames) /\ "hello" \in Frames
  BY DEF PairTypes, SocketTypes, Frames
<1>1. mail[s] = <<"hello">> BY <1>0 DEF HelloFirst
<1>2. Tail(mail[s]) = <<>> BY <1>1
<1>3. mail'[s] = <<>> /\ \A t \in Pairings!Sockets \ {s} : mail'[t] = mail[t] /\ conns'[t] = conns[t] /\ tell'[t] = tell[t]
  BY <1>0, <1>2, <1>s DEF SocketTypes
<1>4. conns'[s].at = "sealed" /\ conns'[s].device = conns[s].device /\ conns'[s].counted = conns[s].counted
      /\ conns'[s] \in ConnRecords
  BY <1>0, <1>s DEF SocketTypes, ConnRecords, Ats
<1>5. Of(tell[s] \o <<"hello">>) = Of(tell[s]) \cup {"hello"} /\ tell[s] \o <<"hello">> \in Seq(Frames)
  BY <1>s, OfOneMore
<1>6. tell'[s] \in Seq(Frames) /\ Of(tell'[s]) \subseteq Of(tell[s]) \cup {"hello"}
  BY <1>0, <1>5, <1>s DEF SocketTypes
<1>7. Of(tell[s]) \subseteq {"closed"} BY <1>0 DEF HelloFirst
<1>8. SocketTypes' BY <1>0, <1>2, <1>3, <1>4, <1>6, <1>s DEF SocketTypes
<1>9. PairTypes' BY <1>0, <1>8, <1>s DEF PairTypes, RowTypes
<1>10. LetInKept'
  <2>1. \A c : RowKept(c) => RowKept(c)' BY <1>0 DEF RowKept
  <2>2. "auth-ok" \notin Of(tell'[s]) BY <1>6, <1>7
  <2> QED BY <2>1, <2>2, <1>0, <1>3, LetInStays
<1>11. ServedHasRow' BY <1>0, <1>3, <1>4 DEF ServedHasRow
<1>12. <<>> \in Seq(Nat) OBVIOUS
<1>13. HelloFirst' BY <1>3, <1>4, <1>12 DEF HelloFirst
<1>14. HeldAlone'
  <2>1. Of(mail'[s]) = {} BY <1>3 DEF Of
  <2> QED BY <2>1, <1>0, <1>3, <1>4, <1>s, HeldStays
<1>15. ShownHasRow' BY <1>0 DEF ShownHasRow
<1> QED BY <1>9, <1>10, <1>11, <1>13, <1>14, <1>15

(* A code lets its phone in, unless it has no row.                         *)
LEMMA Authenticating == ASSUME PairInv, NEW s \in Pairings!Sockets, Pairings!authenticate(s) PROVE PairInv'
<1> USE DEF PairInv
<1> PICK c : c = Head(mail[s]) OBVIOUS
<1> DEFINE authed == [conns EXCEPT ![s].at = "authed", ![s].device = c]
           rows == [devices EXCEPT ![c] = TRUE]
<1>0. /\ conns[s].at = "sealed" /\ mail[s] # <<>>
      /\ mail' = [mail EXCEPT ![s] = Tail(@)]
      /\ \/ /\ c \notin DOMAIN devices
            /\ conns' = [conns EXCEPT ![s].open = FALSE]
            /\ tell' = [tell EXCEPT ![s] = IF conns[s].open THEN @ \o <<"unknown-token", "closed">> ELSE @]
            /\ UNCHANGED <<devices, file>>
         \/ /\ c \in DOMAIN devices /\ devices' = rows /\ file' = rows /\ conns' = authed
            /\ tell' = [tell EXCEPT ![s] = IF conns[s].open THEN @ \o <<"auth-ok">> ELSE @]
         \/ /\ c \in DOMAIN devices /\ devices' = rows /\ file' = file
            /\ conns' = [authed EXCEPT ![s].open = FALSE]
            /\ tell' = [tell EXCEPT ![s] = IF conns[s].open THEN @ \o <<"closed">> ELSE @]
      /\ UNCHANGED <<codes, https, section, phone, told, revoked, unsaved>>
  BY DEF Pairings!authenticate, Pairings!Answer, Pairings!noted, Pairings!Saved, Pairings!Unsaved
<1>s. /\ PairTypes /\ SocketTypes /\ RowTypes /\ conns[s] \in ConnRecords /\ tell[s] \in Seq(Frames)
      /\ {"unknown-token", "closed", "auth-ok"} \subseteq Frames /\ mail[s] \in Seq(Nat)
      /\ \A t \in Pairings!Sockets : mail[t] \in Seq(Nat \cup {"hello"})
  BY <1>0 DEF PairTypes, SocketTypes, Frames, HelloFirst
<1>1. c \in Of(mail[s]) /\ c \in Nat /\ Tail(mail[s]) \in Seq(Nat) /\ Of(Tail(mail[s])) \subseteq Of(mail[s])
  BY <1>0, <1>s, OfShorter
<1>2. Tail(mail[s]) \in Seq(Nat \cup {"hello"}) BY <1>0, <1>s
<1>3. mail'[s] = Tail(mail[s]) /\ \A t \in Pairings!Sockets \ {s} : mail'[t] = mail[t] /\ conns'[t] = conns[t] /\ tell'[t] = tell[t]
  BY <1>0, <1>s DEF SocketTypes
<1>4. /\ conns'[s] \in ConnRecords /\ conns'[s].at \in {"sealed", "authed"}
      /\ conns'[s].at = "authed" => conns'[s].device = c /\ c \in DOMAIN devices
      /\ c \in DOMAIN devices => conns'[s].at = "authed"
      /\ conns'[s].counted = conns[s].counted
      /\ conns' \in [Pairings!Sockets -> ConnRecords]
  <2>1. CASE conns' = [conns EXCEPT ![s].open = FALSE] /\ c \notin DOMAIN devices
    BY <2>1, <1>0, <1>s DEF SocketTypes, ConnRecords
  <2>2. CASE conns' = authed /\ c \in DOMAIN devices
    BY <2>2, <1>1, <1>s DEF SocketTypes, ConnRecords, Ats
  <2>3. CASE conns' = [authed EXCEPT ![s].open = FALSE] /\ c \in DOMAIN devices
    BY <2>3, <1>1, <1>s DEF SocketTypes, ConnRecords, Ats
  <2> QED BY <2>1, <2>2, <2>3, <1>0
<1>5. /\ tell'[s] \in Seq(Frames) /\ tell' \in [Pairings!Sockets -> Seq(Frames)]
      /\ "auth-ok" \in Of(tell'[s]) => "auth-ok" \in Of(tell[s]) \/ (c \in DOMAIN devices /\ file' = rows /\ devices' = rows)
  <2>1. /\ Of(tell[s] \o <<"unknown-token", "closed">>) = Of(tell[s]) \cup {"unknown-token", "closed"}
        /\ tell[s] \o <<"unknown-token", "closed">> \in Seq(Frames)
    BY <1>s, OfTwoLonger
  <2>2. Of(tell[s] \o <<"auth-ok">>) = Of(tell[s]) \cup {"auth-ok"} /\ tell[s] \o <<"auth-ok">> \in Seq(Frames)
    BY <1>s, OfOneMore
  <2>3. Of(tell[s] \o <<"closed">>) = Of(tell[s]) \cup {"closed"} /\ tell[s] \o <<"closed">> \in Seq(Frames)
    BY <1>s, OfOneMore
  <2> HIDE DEF authed, rows
  <2>4. CASE tell' = [tell EXCEPT ![s] = IF conns[s].open THEN @ \o <<"unknown-token", "closed">> ELSE @]
    BY <2>1, <2>4, <1>s DEF SocketTypes
  <2>5. CASE /\ tell' = [tell EXCEPT ![s] = IF conns[s].open THEN @ \o <<"auth-ok">> ELSE @]
             /\ c \in DOMAIN devices /\ file' = rows /\ devices' = rows
    BY <2>2, <2>5, <1>s DEF SocketTypes
  <2>6. CASE tell' = [tell EXCEPT ![s] = IF conns[s].open THEN @ \o <<"closed">> ELSE @]
    BY <2>3, <2>6, <1>s DEF SocketTypes
  <2> QED BY <2>4, <2>5, <2>6, <1>0
<1>6. "auth-ok" \notin Of(tell[s]) BY <1>0 DEF LetInKept
<1>7. /\ DOMAIN devices' = DOMAIN devices /\ RowTypes' /\ \A d : RowKept(d) => RowKept(d)'
      /\ c \in DOMAIN devices /\ file' = rows /\ devices' = rows => RowKept(c)'
  <2>1. /\ DOMAIN rows = DOMAIN devices /\ rows \in [DOMAIN devices -> BOOLEAN]
        /\ \A d \in DOMAIN rows : devices[d] => rows[d]
        /\ c \in DOMAIN devices => rows[c]
    BY <1>s DEF RowTypes
  <2> HIDE DEF authed, rows
  <2>2. (devices' = devices /\ file' = file) \/ (devices' = rows /\ file' = rows) \/ (devices' = rows /\ file' = file)
    BY <1>0
  <2>3. RowTypes' BY <2>1, <2>2, <1>0, <1>s DEF RowTypes
  <2>4. \A d : RowKept(d) => RowKept(d)' BY <2>1, <2>2 DEF RowKept
  <2> QED BY <2>1, <2>2, <2>3, <2>4 DEF RowKept
<1> HIDE DEF rows, authed
<1>8. SocketTypes'
  <2>1. mail' \in [Pairings!Sockets -> Seq(Nat \cup {"hello"})] BY <1>0, <1>2, <1>s DEF SocketTypes
  <2> QED BY <2>1, <1>4, <1>5 DEF SocketTypes
<1>9. PairTypes' BY <1>0, <1>7, <1>8, <1>s DEF PairTypes
<1>10. LetInKept'
  <2>1. \A d \in told' : d \in revoked' \/ RowKept(d)' BY <1>0, <1>7 DEF LetInKept
  <2>2. ASSUME NEW t \in Pairings!Sockets, "auth-ok" \in Of(tell'[t])
        PROVE  /\ conns'[t].at \in {"authed", "gone"}
               /\ conns'[t].device \in revoked' \/ RowKept(conns[t].device)'
    <3>1. CASE t = s
      <4>1. RowKept(c)' /\ c \in DOMAIN devices BY <2>2, <3>1, <1>5, <1>6, <1>7
      <4>2. conns'[s].at = "authed" /\ conns'[s].device = c BY <4>1, <1>4
      <4> QED BY <4>1, <4>2, <3>1 DEF RowKept
    <3>2. CASE t # s
      <4>1. tell'[t] = tell[t] /\ conns'[t] = conns[t] BY <1>3, <3>2
      <4>2. conns[t].at \in {"authed", "gone"} /\ (conns[t].device \in revoked \/ RowKept(conns[t].device))
        BY <4>1, <2>2 DEF LetInKept
      <4>3. RowKept(conns[t].device) => RowKept(conns[t].device)'
        BY <4>1, <1>7 DEF RowKept
      <4> QED BY <4>1, <4>2, <4>3, <1>0
    <3> QED BY <3>1, <3>2
  <2> QED BY <2>1, <2>2 DEF LetInKept
<1>11. ServedHasRow' BY <1>0, <1>3, <1>4, <1>7 DEF ServedHasRow
<1>12. HelloFirst' BY <1>1, <1>3, <1>4 DEF HelloFirst
<1>13. HeldAlone'
  <2>1. ASSUME NEW p \in Phones, phone[p].socket = s, phone[p].socket # 0
        PROVE  Of(mail'[s]) \subseteq {phone[p].code} /\ c = phone[p].code
    BY <2>1, <1>0, <1>1, <1>3 DEF HeldAlone
  <2> QED BY <2>1, <1>0, <1>3, <1>4, <1>s, HeldStays
<1>14. ShownHasRow' BY <1>0, <1>7 DEF ShownHasRow
<1> QED BY <1>9, <1>10, <1>11, <1>12, <1>13, <1>14

(* A socket nobody holds goes.                                             *)
LEMMA Closing == ASSUME PairInv, NEW s \in Pairings!Sockets, Pairings!SocketCloses(s) PROVE PairInv'
<1> USE DEF PairInv
<1>0. /\ conns[s].at \notin {"none", "gone"} /\ \A p \in Phones : phone[p].socket # s
      /\ conns' = [conns EXCEPT ![s] = [conns[s] EXCEPT !.at = "gone", !.counted = FALSE, !.open = FALSE]]
      /\ file' \in {devices, file}
      /\ mail' = [mail EXCEPT ![s] = <<>>]
      /\ UNCHANGED <<devices, codes, https, tell, section, phone, told, revoked, unsaved>>
  BY DEF Pairings!SocketCloses, Pairings!noted
<1>s. PairTypes /\ SocketTypes /\ RowTypes /\ conns[s] \in ConnRecords
      /\ \A p \in Phones : phone[p].socket \in Pairings!Sockets \cup {0}
  BY DEF PairTypes, SocketTypes, PhoneRecords
<1>1. conns'[s].at = "gone" /\ conns'[s].device = conns[s].device /\ ~conns'[s].counted /\ conns'[s] \in ConnRecords
  BY <1>0, <1>s DEF SocketTypes, ConnRecords, Ats
<1>2. mail'[s] = <<>> /\ \A t \in Pairings!Sockets \ {s} : mail'[t] = mail[t] /\ conns'[t] = conns[t]
  BY <1>0, <1>s DEF SocketTypes
<1>3. <<>> \in Seq(Nat) /\ <<>> \in Seq(Nat \cup {"hello"}) OBVIOUS
<1>4. SocketTypes' BY <1>0, <1>1, <1>2, <1>3, <1>s DEF SocketTypes
<1>5. RowTypes' BY <1>0, <1>s DEF RowTypes
<1>6. PairTypes' BY <1>0, <1>4, <1>5, <1>s DEF PairTypes
<1>7. LetInKept'
  <2>1. \A d : RowKept(d) => RowKept(d)' BY <1>0 DEF RowKept
  <2> QED BY <2>1, <1>0, <1>1, <1>2, LetInStays
<1>8. ServedHasRow' BY <1>0, <1>1, <1>2 DEF ServedHasRow
<1>9. HelloFirst' BY <1>0, <1>1, <1>2, <1>3, ZenonT(60) DEF HelloFirst
<1>10. HeldAlone'
  BY <1>0, <1>2, <1>s, HeldStays
<1>11. ShownHasRow' BY <1>0 DEF ShownHasRow
<1> QED BY <1>6, <1>7, <1>8, <1>9, <1>10, <1>11

(* What is told to no one is less, or none; a phone that lets go of its    *)
(* socket holds none.                                                      *)
LEMMA LettingGo ==
  ASSUME PairInv, NEW p \in Phones,
         phone' \in [Phones -> PhoneRecords], phone'[p].socket = 0, \A q \in Phones \ {p} : phone'[q] = phone[q],
         \A s \in Pairings!Sockets : tell'[s] \in {tell[s], <<>>},
         tell' = [s \in Pairings!Sockets |-> tell'[s]],
         UNCHANGED <<devices, file, conns, codes, https, mail, section, told, revoked, unsaved>>
  PROVE  PairInv'
<1> USE DEF PairInv
<1>s. PairTypes /\ SocketTypes BY DEF PairTypes
<1>2. <<>> \in Seq(Frames) /\ Of(<<>>) = {} BY DEF Of
<1>3. SocketTypes' BY <1>2, <1>s DEF SocketTypes
<1>4. PairTypes' BY <1>3, <1>s DEF PairTypes, RowTypes
<1>5. LetInKept'
  <2>1. \A c : RowKept(c) => RowKept(c)' BY DEF RowKept
  <2>2. \A s \in Pairings!Sockets : "auth-ok" \in Of(tell'[s]) => "auth-ok" \in Of(tell[s]) BY <1>2
  <2> QED BY <2>1, <2>2, LetInStays
<1>6. ServedHasRow' BY DEF ServedHasRow
<1>7. HelloFirst' BY <1>2 DEF HelloFirst
<1>8. HeldAlone' BY DEF HeldAlone
<1>9. ShownHasRow' BY DEF ShownHasRow
<1> QED BY <1>4, <1>5, <1>6, <1>7, <1>8, <1>9

LEMMA PairingAnew ==
  ASSUME PairInv, NEW p \in Phones, NEW c, Pairings!pair(p, c) \/ Pairings!lost(p) PROVE PairInv'
<1> USE DEF Pairings!None
<1>1. /\ \A s \in Pairings!Sockets : tell'[s] \in {tell[s], <<>>}
      /\ tell' = [s \in Pairings!Sockets |-> tell'[s]]
      /\ UNCHANGED <<devices, file, conns, codes, https, mail, section, told, revoked, unsaved>>
  BY DEF Pairings!pair, Pairings!lost, Pairings!Unheld, Pairings!server, Pairings!noted
<1>2. phone \in [Phones -> PhoneRecords] BY DEF PairInv, PairTypes
<1>3. /\ phone' \in [Phones -> PhoneRecords] /\ phone'[p].socket = 0
      /\ \A q \in Phones \ {p} : phone'[q] = phone[q]
  <2>1. CASE Pairings!pair(p, c)
    <3>1. c \in Nat BY <2>1 DEF Pairings!pair, PairInv, PairTypes, SectionRecords
    <3> QED BY <3>1, <2>1, <1>2 DEF Pairings!pair, PhoneRecords
  <2>2. CASE Pairings!lost(p) BY <2>2, <1>2 DEF Pairings!lost, PhoneRecords
  <2> QED BY <2>1, <2>2
<1> QED BY <1>1, <1>3, LettingGo

(* A phone dials.                                                          *)
LEMMA Dialling == ASSUME PairInv, NEW p \in Phones, Pairings!connect(p) PROVE PairInv'
<1> USE DEF PairInv
<1> PICK s \in Pairings!Sockets :
           /\ conns[s].at = "none"
           /\ conns' = [conns EXCEPT ![s] = [at |-> "new", device |-> 0, counted |-> TRUE, open |-> TRUE]]
           /\ mail' = [mail EXCEPT ![s] = <<"hello">>]
           /\ phone' = [phone EXCEPT ![p].socket = s, ![p].link = "dialling"]
  BY DEF Pairings!connect, Pairings!Fresh, Pairings!None
<1>0. /\ phone[p].code # 0
      /\ UNCHANGED <<devices, file, codes, https, tell, section, told, revoked, unsaved>>
  BY DEF Pairings!connect, Pairings!noted, Pairings!None
<1>s. PairTypes /\ SocketTypes /\ phone \in [Phones -> PhoneRecords] BY DEF PairTypes
<1>1. /\ phone' \in [Phones -> PhoneRecords] /\ phone'[p].socket = s /\ phone'[p].code = phone[p].code
      /\ \A q \in Phones \ {p} : phone'[q] = phone[q]
  BY <1>s DEF PhoneRecords
<1>2. <<"hello">> \in Seq(Nat \cup {"hello"})
  <2>1. "hello" \in Nat \cup {"hello"} OBVIOUS
  <2> QED BY <2>1
<1>3. /\ conns'[s].at = "new" /\ conns'[s].device = 0 /\ conns'[s] \in ConnRecords /\ mail'[s] = <<"hello">>
      /\ \A t \in Pairings!Sockets \ {s} : conns'[t] = conns[t] /\ mail'[t] = mail[t]
  BY <1>s DEF SocketTypes, ConnRecords, Ats
<1>4. SocketTypes' BY <1>0, <1>2, <1>3, <1>s DEF SocketTypes
<1>5. PairTypes' BY <1>0, <1>1, <1>4, <1>s DEF PairTypes, RowTypes
<1>6. Of(tell[s]) \subseteq {"closed"} BY DEF HelloFirst
<1>7. LetInKept'
  <2>1. \A c : RowKept(c) => RowKept(c)' BY <1>0 DEF RowKept
  <2> QED BY <2>1, <1>0, <1>3, <1>6, LetInStays
<1>8. ServedHasRow' BY <1>0, <1>3 DEF ServedHasRow
<1>9. HelloFirst' BY <1>0, <1>3, <1>6 DEF HelloFirst
<1>10. \A q \in Phones : phone[q].socket # s
  <2>1. s # 0 BY DEF Pairings!Sockets
  <2> QED BY <2>1 DEF HeldAlone
<1>11. HeldAlone'
  <2> SUFFICES ASSUME NEW q \in Phones, phone'[q].socket # 0
               PROVE  (/\ phone[q].code # 0
                       /\ conns[phone[q].socket].at \notin {"none", "gone"}
                       /\ conns[phone[q].socket].at # "new" => Of(mail[phone[q].socket]) \subseteq {phone[q].code}
                       /\ conns[phone[q].socket].at = "authed" => conns[phone[q].socket].device = phone[q].code
                       /\ \A r \in Phones \ {q} : phone[r].socket # phone[q].socket)'
    BY DEF HeldAlone
  <2>1. CASE q = p BY <2>1, <1>0, <1>1, <1>3, <1>10
  <2>2. CASE q # p
    <3>1. phone'[q] = phone[q] /\ phone[q].socket \in Pairings!Sockets \ {s}
      BY <2>2, <1>1, <1>10, <1>s DEF PhoneRecords
    <3>2. PICK t \in Pairings!Sockets \ {s} : t = phone[q].socket BY <3>1
    <3>3. \A r \in Phones \ {q} : phone'[r].socket # t BY <3>1, <3>2, <1>1 DEF HeldAlone
    <3>4. /\ phone[q].code # 0 /\ conns[t].at \notin {"none", "gone"}
          /\ conns[t].at # "new" => Of(mail[t]) \subseteq {phone[q].code}
          /\ conns[t].at = "authed" => conns[t].device = phone[q].code
      BY <2>2, <3>1, <3>2 DEF HeldAlone
    <3> QED BY <3>1, <3>2, <3>3, <3>4, <1>3, ZenonT(60)
  <2> QED BY <2>1, <2>2
<1>12. ShownHasRow' BY <1>0 DEF ShownHasRow
<1> QED BY <1>5, <1>7, <1>8, <1>9, <1>11, <1>12

(* A phone is told something on the socket it holds.                       *)
LEMMA Receiving == ASSUME PairInv, NEW p \in Phones, Pairings!receive(p) PROVE PairInv'
<1> USE DEF PairInv
<1> PICK s : s = phone[p].socket OBVIOUS
<1> PICK frame : frame = Head(tell[s]) OBVIOUS
<1> PICK code : code = phone[p].code OBVIOUS
<1> DEFINE Linked(now) == phone' = [phone EXCEPT ![p].link = now,
                                    ![p].socket = IF now \in {"off", "refused"} THEN 0 ELSE s]
<1>0. /\ s # 0 /\ tell[s] # <<>>
      /\ mail' = [mail EXCEPT ![s] = IF frame = "hello" THEN Append(@, code) ELSE @]
      /\ told' = IF frame = "auth-ok" THEN told \cup {code} ELSE told
      /\ CASE frame = "hello" -> UNCHANGED phone
           [] frame = "auth-ok" -> Linked("on")
           [] frame = "unknown-token" -> Linked("refused")
           [] frame = "revoked" -> IF phone[p].link = "on" THEN UNCHANGED phone ELSE Linked("refused")
           [] frame = "closed" -> Linked("off")
      /\ tell' = [tell EXCEPT ![s] = IF phone'[p].socket = 0 THEN <<>> ELSE Tail(@)]
      /\ UNCHANGED <<devices, file, codes, conns, https, section, revoked, unsaved>>
  BY DEF Pairings!receive, Pairings!None, Pairings!server
<1>s. /\ PairTypes /\ SocketTypes /\ phone \in [Phones -> PhoneRecords] /\ phone[p] \in PhoneRecords
      /\ s \in Pairings!Sockets /\ code \in Nat /\ tell[s] \in Seq(Frames)
      /\ mail[s] \in Seq(Nat \cup {"hello"})
  BY <1>0 DEF PairTypes, SocketTypes, PhoneRecords
<1>1. frame \in Of(tell[s]) /\ frame \in Frames /\ Tail(tell[s]) \in Seq(Frames)
      /\ Of(Tail(tell[s])) \subseteq Of(tell[s])
  BY <1>0, <1>s, OfShorter
<1>2. <<>> \in Seq(Frames) /\ Of(<<>>) = {} BY DEF Of
<1>3. /\ tell' \in [Pairings!Sockets -> Seq(Frames)]
      /\ \A t \in Pairings!Sockets : Of(tell'[t]) \subseteq Of(tell[t])
      /\ \A t \in Pairings!Sockets \ {s} : tell'[t] = tell[t] /\ mail'[t] = mail[t]
  BY <1>0, <1>1, <1>2, <1>s DEF SocketTypes
<1>4. CASE frame \in {"unknown-token", "closed"} \/ (frame = "revoked" /\ phone[p].link # "on")
  <2>1. PICK now \in {"off", "refused"} : Linked(now) BY <1>0, <1>4
  <2>2. /\ phone' \in [Phones -> PhoneRecords] /\ phone'[p].socket = 0
        /\ \A q \in Phones \ {p} : phone'[q] = phone[q]
    BY <2>1, <1>s DEF PhoneRecords
  <2>3. /\ \A t \in Pairings!Sockets : tell'[t] \in {tell[t], <<>>}
        /\ tell' = [t \in Pairings!Sockets |-> tell'[t]]
    BY <2>2, <1>0, <1>s DEF SocketTypes
  <2>4. told' = told /\ mail' = mail BY <1>0, <1>4, <1>s DEF SocketTypes
  <2> HIDE DEF Linked
  <2> QED BY <2>2, <2>3, <2>4, <1>0, LettingGo
<1>5. CASE frame \in {"hello", "auth-ok"} \/ (frame = "revoked" /\ phone[p].link = "on")
  <2>1. /\ phone' \in [Phones -> PhoneRecords]
        /\ \A q \in Phones : phone'[q].socket = phone[q].socket /\ phone'[q].code = phone[q].code
    <3>1. CASE phone' = phone BY <3>1, <1>s
    <3>2. CASE Linked("on") BY <3>2, <1>s DEF PhoneRecords
    <3> QED BY <3>1, <3>2, <1>0, <1>5
  <2>2. frame = "hello" => conns[s].at \notin {"none", "new"} /\ mail[s] \in Seq(Nat)
    BY <1>1, <1>s DEF HelloFirst
  <2>3. Append(mail[s], code) \in Seq(Nat \cup {"hello"}) /\ Of(Append(mail[s], code)) = Of(mail[s]) \cup {code}
    BY <1>s, OfLonger
  <2>4. frame = "hello" => Append(mail[s], code) \in Seq(Nat) BY <2>2, <1>s
  <2>5. mail'[s] = IF frame = "hello" THEN Append(mail[s], code) ELSE mail[s]
    BY <1>0, <1>s DEF SocketTypes
  <2>6. mail' \in [Pairings!Sockets -> Seq(Nat \cup {"hello"})]
    BY <1>0, <2>3, <1>s DEF SocketTypes
  <2>7. PairTypes' BY <2>1, <2>6, <1>0, <1>3, <1>s DEF PairTypes, SocketTypes, RowTypes
  <2>8. HelloFirst' BY ZenonT(40), <2>2, <2>4, <2>5, <1>0, <1>3 DEF HelloFirst
  <2>9. frame = "auth-ok" => code \in revoked \/ RowKept(code)
    <3> SUFFICES ASSUME frame = "auth-ok" PROVE code \in revoked \/ RowKept(code) OBVIOUS
    <3>1. conns[s].at \in {"authed", "gone"} /\ (conns[s].device \in revoked \/ RowKept(conns[s].device))
      BY <1>1, <1>s DEF LetInKept
    <3>2. conns[s].device = code BY <3>1, <1>0 DEF HeldAlone
    <3> QED BY <3>1, <3>2
  <2>10. LetInKept'
    <3>1. \A c : RowKept(c)' = RowKept(c) BY <1>0 DEF RowKept
    <3>2. \A c \in told' : c \in revoked' \/ RowKept(c)' BY <3>1, <2>9, <1>0 DEF LetInKept
    <3>3. ASSUME NEW t \in Pairings!Sockets, "auth-ok" \in Of(tell'[t])
          PROVE  /\ conns'[t].at \in {"authed", "gone"}
                 /\ conns'[t].device \in revoked' \/ RowKept(conns[t].device)'
      <4>1. "auth-ok" \in Of(tell[t]) BY <3>3, <1>3
      <4> QED BY <4>1, <1>0 DEF LetInKept, RowKept
    <3> QED BY <3>2, <3>3 DEF LetInKept
  <2>11. ServedHasRow' BY <1>0 DEF ServedHasRow
  <2>12. HeldAlone'
    <3> SUFFICES ASSUME NEW q \in Phones, phone'[q].socket # 0
                 PROVE  (/\ phone[q].code # 0
                         /\ conns[phone[q].socket].at \notin {"none", "gone"}
                         /\ conns[phone[q].socket].at # "new" => Of(mail[phone[q].socket]) \subseteq {phone[q].code}
                         /\ conns[phone[q].socket].at = "authed" => conns[phone[q].socket].device = phone[q].code
                         /\ \A r \in Phones \ {q} : phone[r].socket # phone[q].socket)'
      BY DEF HeldAlone
    <3>1. phone[q].socket \in Pairings!Sockets BY <2>1, <1>s DEF PhoneRecords
    <3>2. PICK t \in Pairings!Sockets : t = phone[q].socket BY <3>1
    <3>3. /\ phone[q].code # 0 /\ conns[t].at \notin {"none", "gone"}
          /\ conns[t].at # "new" => Of(mail[t]) \subseteq {phone[q].code}
          /\ conns[t].at = "authed" => conns[t].device = phone[q].code
          /\ \A r \in Phones \ {q} : phone[r].socket # t
      BY <2>1, <3>2 DEF HeldAlone
    <3>4. conns[t].at # "new" => Of(mail'[t]) \subseteq {phone[q].code}
      <4>1. CASE t = s
        <5>1. q = p BY <4>1, <3>3
        <5> QED BY <5>1, <4>1, <3>3, <2>3, <2>5
      <4>2. CASE t # s BY <4>2, <3>3, <1>3
      <4> QED BY <4>1, <4>2
    <3> QED BY <2>1, <3>2, <3>3, <3>4, <1>0
  <2>13. ShownHasRow' BY <1>0 DEF ShownHasRow
  <2> QED BY <2>7, <2>8, <2>10, <2>11, <2>12, <2>13
<1> QED BY <1>1, <1>4, <1>5 DEF Frames

(* The invariant is kept, and says of the pairings what was to be shown.   *)
LEMMA PairKept == ASSUME PairInv, Pairings!Next PROVE PairInv'
<1>1. CASE \E c \in Pairings!Codes : Pairings!revokeDevice(c) BY <1>1, Revoking
<1>2. CASE \E s \in Pairings!Sockets : \/ Pairings!hello(s) \/ Pairings!authenticate(s)
                                       \/ Pairings!SocketCloses(s) \/ Pairings!dropSilent(s)
  BY <1>2, Sealing, Authenticating, Closing, Silence
<1>3. CASE \E p \in Phones : \/ Pairings!connect(p) \/ Pairings!receive(p) \/ Pairings!lost(p)
                             \/ \E c \in Pairings!Codes : Pairings!pair(p, c)
  BY <1>3, Dialling, Receiving, PairingAnew
<1>4. CASE \/ Pairings!createPairing \/ Pairings!createPairingUnsaved \/ Pairings!stop \/ Pairings!Restart
  BY <1>4, MakingCode, MakingUnsaved, SwitchedOff, StartedAgain
<1>5. CASE \/ Pairings!start \/ Pairings!HttpsChanges \/ Pairings!SectionHears \/ Pairings!pairNew
           \/ Pairings!pairingMade \/ Pairings!Done
  BY <1>5, Pressing
<1> QED BY <1>1, <1>2, <1>3, <1>4, <1>5 DEF Pairings!Next
LEMMA PairTrue == ASSUME PairInv PROVE Pairings!PairingsHold
BY DEF PairInv, LetInKept, RowKept, ServedHasRow, ShownHasRow, Pairings!PairingsHold, Pairings!None
LEMMA PairStill == ASSUME PairInv, UNCHANGED Pairings!vars PROVE PairInv'
<1> UNCHANGED <<devices, file, conns, codes, https, mail, tell, section, phone, told, revoked, unsaved>>
  BY DEF Pairings!vars, Pairings!server, Pairings!wires, Pairings!noted
<1> QED BY DEF PairInv, PairTypes, RowTypes, SocketTypes, LetInKept, RowKept, ServedHasRow, HelloFirst,
               HeldAlone, ShownHasRow

(* Whatever phones, codes, sockets, failed saves and restarts come: a       *)
(* phone that was let in keeps its row until the builder revokes it, a      *)
(* socket that counts is of a row there is, and the code shown has one      *)
(* (createPairing, revokeDevice, handleHello's authenticate, saveDevices).  *)
THEOREM PairingsAlwaysHold == Pairings!Spec => []Pairings!PairingsHold
<1>1. PairInv /\ [Pairings!Next]_Pairings!vars => PairInv' BY PairKept, PairStill
<1> QED BY <1>1, PairStarts, PairTrue, PTL DEF Pairings!Spec

-----------------------------------------------------------------------------
(* Cloning a project (CloneRepo) *)

CONSTANTS Paths, Requests, MaxOthers
VARIABLES at, makers, running, clone, stuck, removals, quit, others

Clone == INSTANCE CloneRepo

(* No request is called what stands for none, or for another program.      *)
CloneAssumption == Clone!Idle \notin Requests /\ Clone!Other \notin Requests /\ Clone!Nothing \notin Paths

CloneSteps == {"unasked", "claiming", "env", "git", "removing",
          "done", "failed", "cancelled", "refused"}
HasFolder == {"env", "git", "removing", "done", "failed", "cancelled"}
Claiming == {"claiming", "env", "git", "removing"}

Makers == Requests \cup {Clone!Other}
Clones == [step : CloneSteps, path : Paths \cup {Clone!Nothing}, cancelled : BOOLEAN,
           identity : {Clone!Nothing} \cup Clone!folders, removed : BOOLEAN]

CloneTypes ==
  /\ makers \in Seq(Makers)
  /\ at \in [Paths -> {Clone!Nothing} \cup Clone!folders]
  /\ running \in Requests \cup {Clone!Idle}
  /\ clone \in [Requests -> Clones]
  /\ removals \subseteq Requests \X Clone!folders

(* The one that runs is the one underway. *)
OneUnderway == \A r \in Requests : running = r <=> clone[r].step \in Claiming

(* A clone has a path once it holds the claim, and a folder of its own making once mkdir is done. *)
OwnFolder ==
  \A r \in Requests :
    /\ clone[r].step \in {"unasked", "claiming"} => clone[r].identity = Clone!Nothing
    /\ clone[r].step \in HasFolder => clone[r].identity # Clone!Nothing
    /\ clone[r].step \in HasFolder \cup {"claiming"} => clone[r].path \in Paths
    /\ clone[r].identity # Clone!Nothing => makers[clone[r].identity] = r

(* What was removed was its remover's own, and that one will not be done. *)
RemovedOwn ==
  \A x \in removals :
    /\ makers[x[2]] = x[1]
    /\ \/ clone[x[1]].step \in {"failed", "cancelled"}
       \/ clone[x[1]].step \in {"env", "git", "removing"} /\ clone[x[1]].cancelled

(* A folder left behind is one the disk refused to remove, and is not said removed. *)
LeftBehind ==
  \A r \in Requests :
    clone[r].step \in {"failed", "cancelled"} /\ at[clone[r].path] = clone[r].identity =>
      ~clone[r].removed /\ r \in stuck

CloneInv == CloneTypes /\ OneUnderway /\ OwnFolder /\ RemovedOwn /\ LeftBehind

(* At first nobody has asked for anything. *)
LEMMA CloneStarts == ASSUME CloneAssumption, Clone!Init PROVE CloneInv
BY DEF CloneAssumption, Clone!Init, CloneInv, CloneTypes, OneUnderway, OwnFolder, RemovedOwn, LeftBehind,
       Clone!Unasked, Claiming, HasFolder, Clones, CloneSteps, Clone!folders, Makers, Clone!Nothing, Clone!Idle, Clone!Other

(* A folder made is a new one, of its maker. *)
LEMMA Making ==
  ASSUME makers \in Seq(Makers), NEW m \in Makers, makers' = Append(makers, m)
  PROVE  /\ makers' \in Seq(Makers)
         /\ Clone!folders' = Clone!folders \cup {Len(makers')}
         /\ Len(makers') \notin Clone!folders /\ Len(makers') # Clone!Nothing
         /\ makers'[Len(makers')] = m
         /\ \A f \in Clone!folders : makers'[f] = makers[f]
BY DEF Clone!folders, Clone!Nothing

(* Every step keeps the types. *)
LEMMA CloneTypesStep ==
  ASSUME CloneAssumption, CloneInv, Clone!Next PROVE CloneTypes'
<1> USE DEF CloneAssumption, CloneInv, CloneTypes, Clones, CloneSteps, Clone!Nothing, Makers
<1>1. ASSUME NEW r \in Requests, NEW p \in Paths, Clone!cloneRepo(r, p) PROVE CloneTypes'
  BY SMTT(30), <1>1 DEF Clone!cloneRepo, Clone!folders
<1>2. ASSUME NEW r \in Requests, Clone!claimTarget(r) PROVE CloneTypes'
  <2>1. /\ makers' \in Seq(Makers) /\ Clone!folders' = Clone!folders \cup {Len(makers')}
    BY <1>2, Making DEF Clone!claimTarget
  <2>2. Len(makers') \in Clone!folders'
    BY <2>1
  <2>3. at' \in [Paths -> {Clone!Nothing} \cup Clone!folders']
    BY <1>2, <2>1, <2>2 DEF Clone!claimTarget
  <2>4. clone' \in [Requests -> Clones']
    <3>1. \A q \in Requests : clone[q] \in Clones'
      BY <2>1
    <3>2. [[clone[r] EXCEPT !.step = "env"] EXCEPT !.identity = Len(makers')] \in Clones'
      BY <2>2
    <3>3. QED BY <1>2, <3>1, <3>2 DEF Clone!claimTarget
  <2>5. QED BY <1>2, <2>1, <2>3, <2>4 DEF Clone!claimTarget
<1>3. ASSUME NEW r \in Requests, Clone!refuse(r) PROVE CloneTypes'
  BY SMTT(30), <1>3 DEF Clone!refuse, Clone!folders
<1>4. ASSUME NEW r \in Requests, NEW starts \in BOOLEAN, Clone!spawn(r, starts) PROVE CloneTypes'
  <2>1. PICK step : /\ step \in {"git", "removing"}
                    /\ clone' = [clone EXCEPT ![r].step = step]
    BY <1>4 DEF Clone!spawn
  <2>2. clone' \in [Requests -> Clones]
    BY SMTT(30), <2>1
  <2>3. QED BY <1>4, <2>2 DEF Clone!spawn, Clone!folders
<1>5. ASSUME NEW r \in Requests, NEW code \in {0, 1}, NEW swept \in BOOLEAN,
             Clone!finish(r, code, swept)
      PROVE  CloneTypes'
  <2>1. clone[r].path \in Paths
    BY <1>5 DEF Clone!finish, OwnFolder, HasFolder
  <2>2. at' \in [Paths -> {Clone!Nothing} \cup Clone!folders']
    BY <1>5, <2>1 DEF Clone!finish, Clone!folders
  <2>3. clone' \in [Requests -> Clones'] /\ running' \in Requests \cup {Clone!Idle}
    BY SMTT(30), <1>5 DEF Clone!finish, Clone!folders
  <2>4. QED BY <1>5, <2>2, <2>3 DEF Clone!finish, Clone!folders
<1>6. ASSUME NEW r \in Requests, NEW refused \in BOOLEAN, Clone!removeOwnFolder(r, refused)
      PROVE  CloneTypes'
  <2>1. clone[r].path \in Paths
    BY <1>6 DEF Clone!removeOwnFolder, OwnFolder, HasFolder
  <2>2. Clone!folders' = Clone!folders
    BY <1>6 DEF Clone!removeOwnFolder, Clone!folders
  <2>3. clone' \in [Requests -> Clones'] /\ running' \in Requests \cup {Clone!Idle}
    <3>1. Clones' = Clones
      BY <2>2
    <3> DEFINE step == IF clone[r].cancelled THEN "cancelled" ELSE "failed"
               removed == at[clone[r].path] = Clone!Nothing \/ (Clone!IsOwn(r) /\ ~refused)
    <3>2. step \in CloneSteps /\ removed \in BOOLEAN
      OBVIOUS
    <3> DEFINE settled == [clone[r] EXCEPT !.step = step, !.removed = removed]
    <3>3. settled \in Clones
      <4> HIDE DEF step, removed
      <4> QED BY <3>2
    <3>4. clone' = [clone EXCEPT ![r] = settled] /\ running' = Clone!Idle
      BY <1>6 DEF Clone!removeOwnFolder
    <3> HIDE DEF settled, Clones
    <3>5. QED BY <3>1, <3>3, <3>4
  <2>4. CASE at[clone[r].path] # Clone!Nothing /\ Clone!IsOwn(r)
    <3>1. at' \in [Paths -> {Clone!Nothing} \cup Clone!folders'] /\ removals' \subseteq Requests \X Clone!folders'
      BY <1>6, <2>1, <2>2, <2>4 DEF Clone!removeOwnFolder, Clone!TakeAway
    <3>2. QED BY <1>6, <2>2, <2>3, <3>1 DEF Clone!removeOwnFolder
  <2>5. CASE ~(at[clone[r].path] # Clone!Nothing /\ Clone!IsOwn(r))
    BY <1>6, <2>2, <2>3, <2>5 DEF Clone!removeOwnFolder
  <2>6. QED BY <2>4, <2>5
<1>7. ASSUME Clone!cancelClone PROVE CloneTypes'
  BY ZenonT(40), <1>7 DEF Clone!cancelClone, Clone!folders
<1>8. ASSUME NEW refused \in BOOLEAN, Clone!abortCloneForQuit(refused) PROVE CloneTypes'
  <2>1. ASSUME running # Clone!Idle PROVE clone[running].path \in Paths
    BY <2>1 DEF OneUnderway, OwnFolder, HasFolder, Claiming
  <2>2. Clone!folders' = Clone!folders
    BY <1>8 DEF Clone!abortCloneForQuit, Clone!folders
  <2>3. clone' \in [Requests -> Clones']
    <3>1. Clones' = Clones
      BY <2>2
    <3> DEFINE stopped == [clone[running] EXCEPT !.cancelled = TRUE]
    <3>2. running \in Requests => stopped \in Clones
      OBVIOUS
    <3>3. clone' = clone \/ (running \in Requests /\ clone' = [clone EXCEPT ![running] = stopped])
      BY <1>8 DEF Clone!abortCloneForQuit
    <3> HIDE DEF stopped, Clones
    <3>4. QED BY <3>1, <3>2, <3>3
  <2>4. CASE running # Clone!Idle /\ clone[running].identity # Clone!Nothing /\ Clone!IsOwn(running)
    <3>1. at[clone[running].path] \in Clone!folders
      BY <2>1, <2>4 DEF Clone!IsOwn
    <3>2. at' \in [Paths -> {Clone!Nothing} \cup Clone!folders'] /\ removals' \subseteq Requests \X Clone!folders'
      BY <1>8, <2>2, <2>4, <3>1 DEF Clone!abortCloneForQuit, Clone!TakeAway
    <3>3. QED BY <1>8, <2>2, <2>3, <3>2 DEF Clone!abortCloneForQuit
  <2>5. CASE ~(running # Clone!Idle /\ clone[running].identity # Clone!Nothing /\ Clone!IsOwn(running))
    BY <1>8, <2>2, <2>3, <2>5 DEF Clone!abortCloneForQuit
  <2>6. QED BY <2>4, <2>5
<1>9. ASSUME NEW p \in Paths, Clone!Elsewhere(p) PROVE CloneTypes'
  <2>1. CASE at[p] = Clone!Nothing
    <3>1. /\ makers' \in Seq(Makers) /\ Clone!folders' = Clone!folders \cup {Len(makers')}
      BY <1>9, <2>1, Making DEF Clone!Elsewhere
    <3>2. QED BY <1>9, <2>1, <3>1 DEF Clone!Elsewhere
  <2>2. CASE at[p] # Clone!Nothing
    BY <1>9, <2>2 DEF Clone!Elsewhere, Clone!folders
  <2>3. QED BY <2>1, <2>2
<1>10. QED BY <1>1, <1>2, <1>3, <1>4, <1>5, <1>6, <1>7, <1>8, <1>9 DEF Clone!Next

(* Every step keeps one clone at a time underway. *)
LEMMA OneUnderwayStep ==
  ASSUME CloneAssumption, CloneInv, Clone!Next PROVE OneUnderway'
<1> USE DEF CloneAssumption, CloneInv, CloneTypes, Clones, CloneSteps, Clone!Nothing, Makers, OneUnderway, Claiming
<1>1. ASSUME NEW r \in Requests, NEW p \in Paths, Clone!cloneRepo(r, p) PROVE OneUnderway'
  BY <1>1 DEF Clone!cloneRepo
<1>2. ASSUME NEW r \in Requests, Clone!claimTarget(r) PROVE OneUnderway'
  BY <1>2, Making DEF Clone!claimTarget
<1>3. ASSUME NEW r \in Requests, Clone!refuse(r) PROVE OneUnderway'
  BY <1>3 DEF Clone!refuse
<1>4. ASSUME NEW r \in Requests, NEW starts \in BOOLEAN, Clone!spawn(r, starts) PROVE OneUnderway'
  BY <1>4 DEF Clone!spawn
<1>5. ASSUME NEW r \in Requests, NEW code \in {0, 1}, NEW swept \in BOOLEAN, Clone!finish(r, code, swept) PROVE OneUnderway'
  BY <1>5 DEF Clone!finish
<1>6. ASSUME NEW r \in Requests, NEW refused \in BOOLEAN, Clone!removeOwnFolder(r, refused) PROVE OneUnderway'
  BY <1>6 DEF Clone!removeOwnFolder, Clone!TakeAway, Clone!IsOwn
<1>7. ASSUME Clone!cancelClone PROVE OneUnderway'
  BY <1>7 DEF Clone!cancelClone
<1>8. ASSUME NEW refused \in BOOLEAN, Clone!abortCloneForQuit(refused) PROVE OneUnderway'
  BY <1>8 DEF Clone!abortCloneForQuit, Clone!TakeAway, Clone!IsOwn
<1>9. ASSUME NEW p \in Paths, Clone!Elsewhere(p) PROVE OneUnderway'
  BY <1>9, Making DEF Clone!Elsewhere
<1>10. QED BY <1>1, <1>2, <1>3, <1>4, <1>5, <1>6, <1>7, <1>8, <1>9 DEF Clone!Next

(* Every step leaves each clone the folder it made. *)
LEMMA OwnFolderStep ==
  ASSUME CloneAssumption, CloneInv, Clone!Next PROVE OwnFolder'
<1> USE DEF CloneAssumption, CloneInv, CloneTypes, Clones, CloneSteps, Clone!Nothing, Makers, OwnFolder, OneUnderway, HasFolder, Claiming, Clone!folders
<1>1. ASSUME NEW r \in Requests, NEW p \in Paths, Clone!cloneRepo(r, p) PROVE OwnFolder'
  <2>1. /\ clone'[r].step \in {"refused", "claiming"} /\ clone'[r].identity = clone[r].identity
        /\ clone'[r].step = "claiming" => clone'[r].path = p
        /\ \A q \in Requests \ {r} : clone'[q] = clone[q]
    BY <1>1 DEF Clone!cloneRepo
  <2>2. QED BY <1>1, <2>1 DEF Clone!cloneRepo
<1>2. ASSUME NEW r \in Requests, Clone!claimTarget(r) PROVE OwnFolder'
  BY <1>2, Making DEF Clone!claimTarget
<1>3. ASSUME NEW r \in Requests, Clone!refuse(r) PROVE OwnFolder'
  BY <1>3 DEF Clone!refuse
<1>4. ASSUME NEW r \in Requests, NEW starts \in BOOLEAN, Clone!spawn(r, starts) PROVE OwnFolder'
  BY <1>4 DEF Clone!spawn
<1>5. ASSUME NEW r \in Requests, NEW code \in {0, 1}, NEW swept \in BOOLEAN, Clone!finish(r, code, swept) PROVE OwnFolder'
  BY <1>5 DEF Clone!finish
<1>6. ASSUME NEW r \in Requests, NEW refused \in BOOLEAN, Clone!removeOwnFolder(r, refused) PROVE OwnFolder'
  BY <1>6 DEF Clone!removeOwnFolder, Clone!TakeAway, Clone!IsOwn
<1>7. ASSUME Clone!cancelClone PROVE OwnFolder'
  BY <1>7 DEF Clone!cancelClone
<1>8. ASSUME NEW refused \in BOOLEAN, Clone!abortCloneForQuit(refused) PROVE OwnFolder'
  BY <1>8 DEF Clone!abortCloneForQuit, Clone!TakeAway, Clone!IsOwn
<1>9. ASSUME NEW p \in Paths, Clone!Elsewhere(p) PROVE OwnFolder'
  BY <1>9, Making DEF Clone!Elsewhere
<1>10. QED BY <1>1, <1>2, <1>3, <1>4, <1>5, <1>6, <1>7, <1>8, <1>9 DEF Clone!Next

(* Every step removes its own. *)
LEMMA RemovedOwnStep ==
  ASSUME CloneAssumption, CloneInv, Clone!Next PROVE RemovedOwn'
<1> USE DEF CloneAssumption, CloneInv, CloneTypes, Clones, CloneSteps, Clone!Nothing, Makers, RemovedOwn, OneUnderway, OwnFolder, HasFolder, Claiming, Clone!folders
<1>1. ASSUME NEW r \in Requests, NEW p \in Paths, Clone!cloneRepo(r, p) PROVE RemovedOwn'
  <2>1. /\ clone'[r].step \in {"refused", "claiming"} /\ clone'[r].identity = clone[r].identity
        /\ clone'[r].step = "claiming" => clone'[r].path = p
        /\ \A q \in Requests \ {r} : clone'[q] = clone[q]
    BY <1>1 DEF Clone!cloneRepo
  <2>2. QED BY <1>1, <2>1 DEF Clone!cloneRepo
<1>2. ASSUME NEW r \in Requests, Clone!claimTarget(r) PROVE RemovedOwn'
  BY <1>2, Making DEF Clone!claimTarget
<1>3. ASSUME NEW r \in Requests, Clone!refuse(r) PROVE RemovedOwn'
  BY <1>3 DEF Clone!refuse
<1>4. ASSUME NEW r \in Requests, NEW starts \in BOOLEAN, Clone!spawn(r, starts) PROVE RemovedOwn'
  BY <1>4 DEF Clone!spawn
<1>5. ASSUME NEW r \in Requests, NEW code \in {0, 1}, NEW swept \in BOOLEAN, Clone!finish(r, code, swept) PROVE RemovedOwn'
  BY <1>5, SMTT(30) DEF Clone!finish
<1>6. ASSUME NEW r \in Requests, NEW refused \in BOOLEAN, Clone!removeOwnFolder(r, refused) PROVE RemovedOwn'
  BY <1>6 DEF Clone!removeOwnFolder, Clone!TakeAway, Clone!IsOwn
<1>7. ASSUME Clone!cancelClone PROVE RemovedOwn'
  BY <1>7 DEF Clone!cancelClone
<1>8. ASSUME NEW refused \in BOOLEAN, Clone!abortCloneForQuit(refused) PROVE RemovedOwn'
  BY <1>8 DEF Clone!abortCloneForQuit, Clone!TakeAway, Clone!IsOwn
<1>9. ASSUME NEW p \in Paths, Clone!Elsewhere(p) PROVE RemovedOwn'
  BY <1>9, Making DEF Clone!Elsewhere
<1>10. QED BY <1>1, <1>2, <1>3, <1>4, <1>5, <1>6, <1>7, <1>8, <1>9 DEF Clone!Next

(* Every step that leaves a folder behind says so. *)
LEMMA LeftBehindStep ==
  ASSUME CloneAssumption, CloneInv, Clone!Next PROVE LeftBehind'
<1> USE DEF CloneAssumption, CloneInv, CloneTypes, Clones, CloneSteps, Clone!Nothing, Makers, LeftBehind, OwnFolder, OneUnderway, HasFolder, Claiming, Clone!folders
<1>1. ASSUME NEW r \in Requests, NEW p \in Paths, Clone!cloneRepo(r, p) PROVE LeftBehind'
  BY <1>1 DEF Clone!cloneRepo
<1>2. ASSUME NEW r \in Requests, Clone!claimTarget(r) PROVE LeftBehind'
  BY <1>2, Making DEF Clone!claimTarget
<1>3. ASSUME NEW r \in Requests, Clone!refuse(r) PROVE LeftBehind'
  BY <1>3 DEF Clone!refuse
<1>4. ASSUME NEW r \in Requests, NEW starts \in BOOLEAN, Clone!spawn(r, starts) PROVE LeftBehind'
  BY <1>4 DEF Clone!spawn
<1>5. ASSUME NEW r \in Requests, NEW code \in {0, 1}, NEW swept \in BOOLEAN, Clone!finish(r, code, swept) PROVE LeftBehind'
  BY <1>5 DEF Clone!finish
<1>6. ASSUME NEW r \in Requests, NEW refused \in BOOLEAN, Clone!removeOwnFolder(r, refused) PROVE LeftBehind'
  BY <1>6 DEF Clone!removeOwnFolder, Clone!TakeAway, Clone!IsOwn
<1>7. ASSUME Clone!cancelClone PROVE LeftBehind'
  BY <1>7 DEF Clone!cancelClone
<1>8. ASSUME NEW refused \in BOOLEAN, Clone!abortCloneForQuit(refused) PROVE LeftBehind'
  BY <1>8 DEF Clone!abortCloneForQuit, Clone!TakeAway, Clone!IsOwn
<1>9. ASSUME NEW p \in Paths, Clone!Elsewhere(p) PROVE LeftBehind'
  BY <1>9, Making DEF Clone!Elsewhere
<1>10. QED BY <1>1, <1>2, <1>3, <1>4, <1>5, <1>6, <1>7, <1>8, <1>9 DEF Clone!Next

(* Every step keeps the invariant. *)
LEMMA CloneKept == ASSUME CloneAssumption, CloneInv, Clone!Next PROVE CloneInv'
BY CloneTypesStep, OneUnderwayStep, OwnFolderStep, RemovedOwnStep, LeftBehindStep DEF CloneInv
LEMMA CloneStill == ASSUME CloneInv, UNCHANGED Clone!vars PROVE CloneInv'
BY DEF CloneInv, CloneTypes, OneUnderway, OwnFolder, RemovedOwn, LeftBehind, Clones, Clone!folders, Clone!vars

(* With the invariant the folders of others are kept, and what is said of one's own is so. *)
LEMMA CloneTrue == ASSUME CloneAssumption, CloneInv PROVE Clone!FoldersKept
<1>1. Clone!CloneTypeOK
  BY DEF CloneInv, CloneTypes, Clone!CloneTypeOK, Clones, CloneSteps
<1>2. \A x \in removals : makers[x[2]] = x[1] /\ clone[x[1]].step # "done"
  BY DEF CloneInv, RemovedOwn
<1>3. Clone!Underway = {running} \ {Clone!Idle}
  BY DEF CloneInv, CloneTypes, OneUnderway, Clone!Underway, Claiming, CloneAssumption
<1>4. QED BY <1>1, <1>2, <1>3 DEF Clone!FoldersKept, CloneInv, LeftBehind

(* Every reachable state has the inductive invariant, whatever other programs do. *)
THEOREM CloneInvariant == ASSUME CloneAssumption PROVE Clone!Spec => []CloneInv
<1>1. Clone!Init => CloneInv
  BY CloneStarts
<1>2. CloneInv /\ [Clone!Next]_Clone!vars => CloneInv'
  BY CloneKept, CloneStill
<1>3. QED BY <1>1, <1>2, PTL DEF Clone!Spec

(* The program removes no folder but one its clone made, and says "removed" only of a folder  *)
(* that is gone (new-project.ts: claimTarget, removeOwnFolder, abortCloneForQuit).            *)
THEOREM FoldersAreKept == ASSUME CloneAssumption PROVE Clone!Spec => []Clone!FoldersKept
<1>1. CloneInv => Clone!FoldersKept
  BY CloneTrue
<1>2. QED BY <1>1, CloneInvariant, PTL

-----------------------------------------------------------------------------
(* Secretary Mode and the speech server's settings (SpeechSettings)        *)

CONSTANTS Addresses, Nowhere, ServerBudgets
VARIABLES settings, key, secretary, claude, page, asked, answers, test, sent, lost, ahead, speechLeft

Speech == INSTANCE SpeechSettings WITH file <- settings, Budgets <- ServerBudgets, left <- speechLeft

Origins == {url.origin : url \in Addresses} \cup {Nowhere}
Forms == {url.form : url \in Addresses} \cup {"plain"}
Engines == {url.engine : url \in Addresses} \cup {"none"}
Urls == {url \in [origin : Origins, form : Forms, engine : Engines] :
           url.origin = Nowhere => Speech!NoEngine(url)}

\* What has no origin is no web address, and no engine speaks from it.
SpeechAssumption == Addresses \subseteq Urls

Whys == {"open", "again", "mode", "save", "test", "clear"}
Shown == [read : BOOLEAN, url : Urls, mode : BOOLEAN, hasKey : BOOLEAN, found : BOOLEAN]
Calls == [call : {"get"}, why : {"open", "again"}] \cup [call : {"mode"}, mode : BOOLEAN]
         \cup [call : {"server"}, why : {"save", "test", "clear"}, url : Urls,
               change : {"unchanged", "clear", "good", "bad"}]
         \cup [call : {"test"}]
SettingsAnswers == [type : {"settings"}, why : Whys, now : Shown]
RejectedAnswers == [type : {"rejected"}, why : {"mode", "save", "test", "clear"}]
Lines == {"none", "address", "ok", "health", "speech"}
TestAnswers == [type : {"test"}, why : {"test"}, result : Lines, url : Urls]
ModeEvent == [type |-> "mode-event"]
SpeechAnswers == SettingsAnswers \cup RejectedAnswers \cup TestAnswers \cup {ModeEvent}
Sections == [open : BOOLEAN, saved : Shown, url : Urls, key : Speech!Typed, modeBusy : BOOLEAN,
             busy : {"none", "save", "test", "clear"}, line : [result : Lines, url : Urls]]

U == Speech!loadSettings(settings).url

SpeechTypes ==
  /\ Speech!loadSettings(settings) \in [url : Urls, mode : BOOLEAN]
  /\ key \in Origins \cup {Speech!NoKey} /\ claude \in BOOLEAN /\ lost \in BOOLEAN /\ ahead \in BOOLEAN
  /\ secretary \in [saved : BOOLEAN, on : BOOLEAN, found : BOOLEAN]
  /\ page \in Sections
  /\ asked \in Seq(Calls) /\ answers \in Seq(SpeechAnswers)
  /\ test \in [step : {"none", "health", "speech"}, url : Urls, key : Origins \cup {Speech!NoKey}]

-----------------------------------------------------------------------------
(* What is in the calls and the answers on their way.                      *)

\* A job of the section: a save or a test, from its call to its answer.
Work(call) == call.call \in {"server", "test"}
Ends(a) == a.type = "test" \/ (a.type \in {"settings", "rejected"} /\ a.why \in {"save", "test", "clear"})
\* The answer to a save.
Moved(a) == a.type = "settings" /\ a.why \in {"save", "test", "clear"}
View(now) == now.mode /\ now.found

FewWork(q) == \A i, j \in 1..Len(q) : Work(q[i]) /\ Work(q[j]) => i = j
NoWork(q) == \A i \in 1..Len(q) : ~Work(q[i])
NoTests(q) == \A i \in 1..Len(q) : q[i].call # "test"
NoGets(q) == \A i \in 1..Len(q) : q[i].call # "get"
FewEnds(s) == \A i, j \in 1..Len(s) : Ends(s[i]) /\ Ends(s[j]) => i = j
NoEnds(s) == \A i \in 1..Len(s) : ~Ends(s[i])
NoMoved(s) == \A i \in 1..Len(s) : ~Moved(s[i])
NoEvents(s) == \A i \in 1..Len(s) : s[i].type # "mode-event"
NoSettings(s) == \A i \in 1..Len(s) : s[i].type # "settings"
NoResults(s) == \A i \in 1..Len(s) : s[i].type # "test"
ResultsOf(s, u) == \A i \in 1..Len(s) : s[i].type = "test" => s[i].url = u
\* All settings tell of the address u; those do that are no older than a save's.
AllTell(s, u) == \A i \in 1..Len(s) : s[i].type = "settings" => s[i].now.url = u
SinceMoved(s, u) ==
  \A i, j \in 1..Len(s) : Moved(s[i]) /\ s[j].type = "settings" /\ i <= j => s[j].now.url = u
\* The last settings say whether the secretary is on.
LastSays(s, yes) ==
  \A i \in 1..Len(s) :
    s[i].type = "settings" /\ (\A j \in (i+1)..Len(s) : s[j].type # "settings") => View(s[i].now) = yes

-----------------------------------------------------------------------------
(* The invariant.                                                          *)

\* One job at a time, and while it lasts the section is busy.
OneJob ==
  /\ FewWork(asked) /\ FewEnds(answers)
  /\ NoWork(asked) \/ (test = Speech!NoTest /\ NoEnds(answers))
  /\ test = Speech!NoTest \/ NoEnds(answers)
  /\ page.busy = "none" => test = Speech!NoTest /\ NoWork(asked) /\ NoEnds(answers)

\* The key is of the origin that is saved, or nothing can be asked there.
KeyAtHome ==
  /\ key = Speech!NoKey \/ key = U.origin \/ U.origin = Nowhere
  /\ test.key \in {Speech!NoKey, test.url.origin}
  /\ \A request \in sent : request.key \in {Speech!NoKey, request.to}

\* The secretary's mode is what is saved, and it is on when `claude` was there for it.
ModeKept ==
  /\ secretary.on = (secretary.saved /\ secretary.found)
  /\ ~lost => secretary.saved = Speech!loadSettings(settings).mode
  /\ settings = Speech!Torn => lost

\* Unless the open section is about to ask, the last it heard or will hear is so.
ModeTold ==
  ~lost /\ page.open /\ NoGets(asked) /\ NoEvents(answers) =>
    /\ LastSays(answers, secretary.on)
    /\ page.saved.read /\ NoSettings(answers) => View(page.saved) = secretary.on

\* And so is the address: from the answer to a save on, or always when none is on its way.
UrlTold ==
  ~(lost \/ ahead) =>
    /\ SinceMoved(answers, U)
    /\ NoMoved(answers) => AllTell(answers, U) /\ (page.saved.read => page.saved.url = U)

\* What is tested, and said of it, is what is saved and what the fields read.
TestTrue ==
  /\ page.line # Speech!NoLine => page.busy = "none"
  /\ ~(lost \/ ahead) =>
       /\ ~NoTests(asked) \/ test # Speech!NoTest \/ ~NoResults(answers) \/ page.line # Speech!NoLine =>
            page.key = "none" /\ page.url = U
       /\ test # Speech!NoTest => test.url = U
       /\ ResultsOf(answers, U)
       /\ page.line # Speech!NoLine => page.line.url = U

SpeechInv == SpeechTypes /\ OneJob /\ KeyAtHome /\ ModeKept /\ ModeTold /\ UrlTold /\ TestTrue


(* Calls: one more, or the first one gone.                                 *)
LEMMA CallAdded ==
  ASSUME NEW q \in Seq(Calls), NEW c \in Calls, NEW r, r = Append(q, c)
  PROVE  /\ r \in Seq(Calls)
         /\ FewWork(q) /\ (NoWork(q) \/ ~Work(c)) => FewWork(r)
         /\ NoWork(r) = (NoWork(q) /\ ~Work(c))
         /\ NoTests(r) = (NoTests(q) /\ c.call # "test")
         /\ NoGets(r) = (NoGets(q) /\ c.call # "get")
<1>1. Len(r) = Len(q) + 1 /\ r \in Seq(Calls) /\ r[Len(q) + 1] = c /\ \A i \in 1..Len(q) : r[i] = q[i]
  OBVIOUS
<1>2. Len(q) \in Nat OBVIOUS
<1>3. \A i \in 1..Len(r) : i \in 1..Len(q) \/ i = Len(q) + 1 BY <1>1, <1>2
<1>4. 1..Len(q) \subseteq 1..Len(r) /\ Len(q) + 1 \in 1..Len(r) BY <1>1, <1>2
<1>5. FewWork(q) /\ (NoWork(q) \/ ~Work(c)) => FewWork(r)
  <2> SUFFICES ASSUME FewWork(q), NoWork(q) \/ ~Work(c), NEW i \in 1..Len(r), NEW j \in 1..Len(r), Work(r[i]), Work(r[j])
               PROVE  i = j
    BY DEF FewWork
  <2> QED BY <1>1, <1>3 DEF FewWork, NoWork
<1>6. NoWork(r) = (NoWork(q) /\ ~Work(c)) BY <1>1, <1>3, <1>4 DEF NoWork
<1>7. NoTests(r) = (NoTests(q) /\ c.call # "test") BY <1>1, <1>3, <1>4 DEF NoTests
<1>8. NoGets(r) = (NoGets(q) /\ c.call # "get") BY <1>1, <1>3, <1>4 DEF NoGets
<1> QED BY <1>1, <1>5, <1>6, <1>7, <1>8

LEMMA CallTaken ==
  ASSUME NEW q \in Seq(Calls), q # <<>>, NEW r, r = Tail(q), NEW c, c = Head(q)
  PROVE  /\ r \in Seq(Calls) /\ c \in Calls
         /\ FewWork(q) => FewWork(r) /\ (Work(c) => NoWork(r))
         /\ NoWork(q) = (NoWork(r) /\ ~Work(c))
         /\ NoTests(q) = (NoTests(r) /\ c.call # "test")
         /\ NoGets(q) = (NoGets(r) /\ c.call # "get")
<1>1. Len(q) \in Nat /\ Len(q) > 0 /\ Len(r) = Len(q) - 1 /\ r \in Seq(Calls) /\ c = q[1] /\ c \in Calls
  OBVIOUS
<1>2. \A i \in 1..Len(r) : r[i] = q[i + 1] /\ i + 1 \in 1..Len(q) BY <1>1
<1>3. \A i \in 1..Len(q) : i = 1 \/ (i - 1 \in 1..Len(r) /\ q[i] = r[i - 1]) BY <1>1
<1>4. 1 \in 1..Len(q) BY <1>1
<1>5. FewWork(q) => FewWork(r) /\ (Work(c) => NoWork(r))
  <2>1. ASSUME FewWork(q), NEW i \in 1..Len(r), NEW j \in 1..Len(r), Work(r[i]), Work(r[j]) PROVE i = j
    <3>1. i + 1 = j + 1 BY <2>1, <1>2 DEF FewWork
    <3> QED BY <3>1
  <2>2. ASSUME FewWork(q), Work(c), NEW i \in 1..Len(r), Work(r[i]) PROVE FALSE
    <3>1. i + 1 = 1 BY <2>2, <1>1, <1>2, <1>4 DEF FewWork
    <3> QED BY <3>1
  <2> QED BY <2>1, <2>2 DEF FewWork, NoWork
<1>6. NoWork(q) = (NoWork(r) /\ ~Work(c))
  <2>1. NoWork(q) => NoWork(r) /\ ~Work(c) BY <1>1, <1>2, <1>4 DEF NoWork
  <2>2. ASSUME NoWork(r), ~Work(c), NEW i \in 1..Len(q) PROVE ~Work(q[i])
    BY <2>2, <1>1, <1>3 DEF NoWork
  <2> QED BY <2>1, <2>2 DEF NoWork
<1>7. NoTests(q) = (NoTests(r) /\ c.call # "test")
  <2>1. NoTests(q) => NoTests(r) /\ c.call # "test" BY <1>1, <1>2, <1>4 DEF NoTests
  <2>2. ASSUME NoTests(r), c.call # "test", NEW i \in 1..Len(q) PROVE q[i].call # "test"
    BY <2>2, <1>1, <1>3 DEF NoTests
  <2> QED BY <2>1, <2>2 DEF NoTests
<1>8. NoGets(q) = (NoGets(r) /\ c.call # "get")
  <2>1. NoGets(q) => NoGets(r) /\ c.call # "get" BY <1>1, <1>2, <1>4 DEF NoGets
  <2>2. ASSUME NoGets(r), c.call # "get", NEW i \in 1..Len(q) PROVE q[i].call # "get"
    BY <2>2, <1>1, <1>3 DEF NoGets
  <2> QED BY <2>1, <2>2 DEF NoGets
<1> QED BY <1>1, <1>5, <1>6, <1>7, <1>8

(* Answers: one more, maybe after an event.                                *)
Grown(s, t, a) ==
  /\ t \in Seq(SpeechAnswers) /\ Len(t) > Len(s) /\ t[Len(t)] = a
  /\ \A i \in 1..Len(s) : t[i] = s[i]
  /\ \A i \in (Len(s)+1)..(Len(t)-1) : t[i] = ModeEvent

LEMMA GrownSays ==
  ASSUME NEW s \in Seq(SpeechAnswers), NEW a \in SpeechAnswers, NEW t, Grown(s, t, a), NEW yes, NEW u
  PROVE  /\ t \in Seq(SpeechAnswers)
         /\ FewEnds(s) /\ (NoEnds(s) \/ ~Ends(a)) => FewEnds(t)
         /\ NoEnds(t) = (NoEnds(s) /\ ~Ends(a))
         /\ NoMoved(t) = (NoMoved(s) /\ ~Moved(a))
         /\ NoEvents(t) => NoEvents(s)
         /\ NoResults(t) = (NoResults(s) /\ a.type # "test")
         /\ NoSettings(t) = (NoSettings(s) /\ a.type # "settings")
         /\ ResultsOf(s, u) /\ (a.type = "test" => a.url = u) => ResultsOf(t, u)
         /\ AllTell(s, u) /\ (a.type = "settings" => a.now.url = u) => AllTell(t, u)
         /\ SinceMoved(s, u) /\ (a.type = "settings" => a.now.url = u) => SinceMoved(t, u)
         /\ NoMoved(s) /\ (a.type = "settings" => a.now.url = u) => SinceMoved(t, u)
         /\ a.type # "settings" /\ LastSays(s, yes) => LastSays(t, yes)
         /\ a.type = "settings" /\ View(a.now) = yes => LastSays(t, yes)
<1>1. /\ t \in Seq(SpeechAnswers) /\ Len(s) \in Nat /\ Len(t) \in Nat /\ Len(t) > Len(s) /\ t[Len(t)] = a
      /\ \A i \in 1..Len(s) : t[i] = s[i]
      /\ \A i \in (Len(s)+1)..(Len(t)-1) : t[i] = ModeEvent
  BY DEF Grown
<1>2. \A i \in 1..Len(t) : i \in 1..Len(s) \/ i \in (Len(s)+1)..(Len(t)-1) \/ i = Len(t) BY <1>1
<1>3. 1..Len(s) \subseteq 1..Len(t) /\ Len(t) \in 1..Len(t) BY <1>1
<1>4. ModeEvent.type = "mode-event" /\ ~Ends(ModeEvent) /\ ~Moved(ModeEvent) BY DEF ModeEvent, Ends, Moved
<1>5. FewEnds(s) /\ (NoEnds(s) \/ ~Ends(a)) => FewEnds(t)
  <2> SUFFICES ASSUME FewEnds(s), NoEnds(s) \/ ~Ends(a), NEW i \in 1..Len(t), NEW j \in 1..Len(t), Ends(t[i]), Ends(t[j])
               PROVE  i = j
    BY DEF FewEnds
  <2>1. (i \in 1..Len(s) \/ i = Len(t)) /\ (j \in 1..Len(s) \/ j = Len(t)) BY <1>1, <1>2, <1>4
  <2> QED BY <2>1, <1>1 DEF FewEnds, NoEnds
<1>6. NoEnds(t) = (NoEnds(s) /\ ~Ends(a)) BY <1>1, <1>2, <1>3, <1>4 DEF NoEnds
<1>7. NoMoved(t) = (NoMoved(s) /\ ~Moved(a)) BY <1>1, <1>2, <1>3, <1>4 DEF NoMoved
<1>8. NoEvents(t) => NoEvents(s) BY <1>1, <1>3 DEF NoEvents
<1>9. NoResults(t) = (NoResults(s) /\ a.type # "test") BY <1>1, <1>2, <1>3, <1>4 DEF NoResults
<1>10. NoSettings(t) = (NoSettings(s) /\ a.type # "settings") BY <1>1, <1>2, <1>3, <1>4 DEF NoSettings
<1>11. ResultsOf(s, u) /\ (a.type = "test" => a.url = u) => ResultsOf(t, u)
  BY <1>1, <1>2, <1>4 DEF ResultsOf
<1>12. AllTell(s, u) /\ (a.type = "settings" => a.now.url = u) => AllTell(t, u)
  BY <1>1, <1>2, <1>4 DEF AllTell
<1>13. (SinceMoved(s, u) \/ NoMoved(s)) /\ (a.type = "settings" => a.now.url = u) => SinceMoved(t, u)
  <2> SUFFICES ASSUME SinceMoved(s, u) \/ NoMoved(s), a.type = "settings" => a.now.url = u,
                      NEW i \in 1..Len(t), NEW j \in 1..Len(t), Moved(t[i]), t[j].type = "settings", i <= j
               PROVE  t[j].now.url = u
    BY DEF SinceMoved
  <2>1. CASE j = Len(t) BY <2>1, <1>1
  <2>2. CASE j # Len(t)
    <3>1. j \in 1..Len(s) BY <2>2, <1>1, <1>2, <1>4
    <3>2. i \in 1..Len(s) BY <3>1, <1>1
    <3> QED BY <3>1, <3>2, <1>1 DEF SinceMoved, NoMoved
  <2> QED BY <2>1, <2>2
<1>14. a.type # "settings" /\ LastSays(s, yes) => LastSays(t, yes)
  <2> SUFFICES ASSUME a.type # "settings", LastSays(s, yes), NEW i \in 1..Len(t), t[i].type = "settings",
                      \A j \in (i+1)..Len(t) : t[j].type # "settings"
               PROVE  View(t[i].now) = yes
    BY DEF LastSays
  <2>1. i \in 1..Len(s) BY <1>1, <1>2, <1>4
  <2>2. \A j \in (i+1)..Len(s) : s[j].type # "settings" BY <2>1, <1>1
  <2> QED BY <2>1, <2>2, <1>1 DEF LastSays
<1>15. a.type = "settings" /\ View(a.now) = yes => LastSays(t, yes)
  <2> SUFFICES ASSUME a.type = "settings", View(a.now) = yes, NEW i \in 1..Len(t), t[i].type = "settings",
                      \A j \in (i+1)..Len(t) : t[j].type # "settings"
               PROVE  View(t[i].now) = yes
    BY DEF LastSays
  <2>1. i = Len(t) BY <1>1
  <2> QED BY <2>1, <1>1
<1> QED BY <1>1, <1>5, <1>6, <1>7, <1>8, <1>9, <1>10, <1>11, <1>12, <1>13, <1>14, <1>15

LEMMA AnswerTaken ==
  ASSUME NEW s \in Seq(SpeechAnswers), s # <<>>, NEW t, t = Tail(s), NEW a, a = Head(s), NEW yes, NEW u
  PROVE  /\ t \in Seq(SpeechAnswers) /\ a \in SpeechAnswers
         /\ FewEnds(s) => FewEnds(t) /\ (Ends(a) => NoEnds(t))
         /\ NoEnds(s) = (NoEnds(t) /\ ~Ends(a))
         /\ NoMoved(s) = (NoMoved(t) /\ ~Moved(a))
         /\ NoEvents(s) = (NoEvents(t) /\ a.type # "mode-event")
         /\ NoResults(s) = (NoResults(t) /\ a.type # "test")
         /\ NoSettings(s) = (NoSettings(t) /\ a.type # "settings")
         /\ ResultsOf(s, u) => ResultsOf(t, u) /\ (a.type = "test" => a.url = u)
         /\ AllTell(s, u) => AllTell(t, u) /\ (a.type = "settings" => a.now.url = u)
         /\ SinceMoved(s, u) => SinceMoved(t, u) /\ (Moved(a) => AllTell(t, u) /\ a.now.url = u)
         /\ LastSays(s, yes) => LastSays(t, yes) /\ (a.type = "settings" /\ NoSettings(t) => View(a.now) = yes)
<1>1. Len(s) \in Nat /\ Len(s) > 0 /\ Len(t) = Len(s) - 1 /\ t \in Seq(SpeechAnswers) /\ a = s[1] /\ a \in SpeechAnswers
  OBVIOUS
<1>2. \A i \in 1..Len(t) : t[i] = s[i + 1] /\ i + 1 \in 1..Len(s) BY <1>1
<1>3. \A i \in 1..Len(s) : i = 1 \/ (i - 1 \in 1..Len(t) /\ s[i] = t[i - 1]) BY <1>1
<1>4. 1 \in 1..Len(s) BY <1>1
<1>5. FewEnds(s) => FewEnds(t) /\ (Ends(a) => NoEnds(t))
  <2>1. ASSUME FewEnds(s), NEW i \in 1..Len(t), NEW j \in 1..Len(t), Ends(t[i]), Ends(t[j]) PROVE i = j
    <3>1. i + 1 = j + 1 BY <2>1, <1>2 DEF FewEnds
    <3> QED BY <3>1
  <2>2. ASSUME FewEnds(s), Ends(a), NEW i \in 1..Len(t), Ends(t[i]) PROVE FALSE
    <3>1. i + 1 = 1 BY <2>2, <1>1, <1>2, <1>4 DEF FewEnds
    <3> QED BY <3>1
  <2> QED BY <2>1, <2>2 DEF FewEnds, NoEnds
<1>6. NoEnds(s) = (NoEnds(t) /\ ~Ends(a))
  <2>1. NoEnds(s) => NoEnds(t) /\ ~Ends(a) BY <1>1, <1>2, <1>4 DEF NoEnds
  <2>2. ASSUME NoEnds(t), ~Ends(a), NEW i \in 1..Len(s) PROVE ~Ends(s[i])
    BY <2>2, <1>1, <1>3 DEF NoEnds
  <2> QED BY <2>1, <2>2 DEF NoEnds
<1>7. NoMoved(s) = (NoMoved(t) /\ ~Moved(a))
  <2>1. NoMoved(s) => NoMoved(t) /\ ~Moved(a) BY <1>1, <1>2, <1>4 DEF NoMoved
  <2>2. ASSUME NoMoved(t), ~Moved(a), NEW i \in 1..Len(s) PROVE ~Moved(s[i])
    BY <2>2, <1>1, <1>3 DEF NoMoved
  <2> QED BY <2>1, <2>2 DEF NoMoved
<1>8. NoEvents(s) = (NoEvents(t) /\ a.type # "mode-event")
  <2>1. NoEvents(s) => NoEvents(t) /\ a.type # "mode-event" BY <1>1, <1>2, <1>4 DEF NoEvents
  <2>2. ASSUME NoEvents(t), a.type # "mode-event", NEW i \in 1..Len(s) PROVE s[i].type # "mode-event"
    BY <2>2, <1>1, <1>3 DEF NoEvents
  <2> QED BY <2>1, <2>2 DEF NoEvents
<1>9. NoResults(s) = (NoResults(t) /\ a.type # "test")
  <2>1. NoResults(s) => NoResults(t) /\ a.type # "test" BY <1>1, <1>2, <1>4 DEF NoResults
  <2>2. ASSUME NoResults(t), a.type # "test", NEW i \in 1..Len(s) PROVE s[i].type # "test"
    BY <2>2, <1>1, <1>3 DEF NoResults
  <2> QED BY <2>1, <2>2 DEF NoResults
<1>10. NoSettings(s) = (NoSettings(t) /\ a.type # "settings")
  <2>1. NoSettings(s) => NoSettings(t) /\ a.type # "settings" BY <1>1, <1>2, <1>4 DEF NoSettings
  <2>2. ASSUME NoSettings(t), a.type # "settings", NEW i \in 1..Len(s) PROVE s[i].type # "settings"
    BY <2>2, <1>1, <1>3 DEF NoSettings
  <2> QED BY <2>1, <2>2 DEF NoSettings
<1>11. ResultsOf(s, u) => ResultsOf(t, u) /\ (a.type = "test" => a.url = u) BY <1>1, <1>2, <1>4 DEF ResultsOf
<1>12. AllTell(s, u) => AllTell(t, u) /\ (a.type = "settings" => a.now.url = u) BY <1>1, <1>2, <1>4 DEF AllTell
<1>13. SinceMoved(s, u) => SinceMoved(t, u) /\ (Moved(a) => AllTell(t, u) /\ a.now.url = u)
  <2>1. ASSUME SinceMoved(s, u), NEW i \in 1..Len(t), NEW j \in 1..Len(t), Moved(t[i]), t[j].type = "settings", i <= j
        PROVE  t[j].now.url = u
    <3>1. i + 1 <= j + 1 BY <2>1
    <3> QED BY <2>1, <3>1, <1>2 DEF SinceMoved
  <2>2. ASSUME SinceMoved(s, u), Moved(a), NEW j \in 1..Len(t), t[j].type = "settings" PROVE t[j].now.url = u
    <3>1. 1 <= j + 1 BY <2>2
    <3> QED BY <2>2, <3>1, <1>1, <1>2, <1>4 DEF SinceMoved
  <2>3. ASSUME SinceMoved(s, u), Moved(a) PROVE a.now.url = u
    BY <2>3, <1>1, <1>4 DEF SinceMoved, Moved
  <2> QED BY <2>1, <2>2, <2>3 DEF SinceMoved, AllTell
<1>14. LastSays(s, yes) => LastSays(t, yes) /\ (a.type = "settings" /\ NoSettings(t) => View(a.now) = yes)
  <2>1. ASSUME LastSays(s, yes), NEW i \in 1..Len(t), t[i].type = "settings", \A j \in (i+1)..Len(t) : t[j].type # "settings"
        PROVE  View(t[i].now) = yes
    <3>1. \A j \in (i+1+1)..Len(s) : s[j].type # "settings"
      <4> SUFFICES ASSUME NEW j \in (i+1+1)..Len(s) PROVE s[j].type # "settings" OBVIOUS
      <4>1. j - 1 \in (i+1)..Len(t) /\ s[j] = t[j - 1] BY <1>1, <1>3
      <4> QED BY <4>1, <2>1
    <3> QED BY <3>1, <2>1, <1>2 DEF LastSays
  <2>2. ASSUME LastSays(s, yes), a.type = "settings", NoSettings(t) PROVE View(a.now) = yes
    <3>1. \A j \in (1+1)..Len(s) : s[j].type # "settings"
      <4> SUFFICES ASSUME NEW j \in (1+1)..Len(s) PROVE s[j].type # "settings" OBVIOUS
      <4>1. j - 1 \in 1..Len(t) /\ s[j] = t[j - 1] BY <1>1, <1>3
      <4> QED BY <4>1, <2>2 DEF NoSettings
    <3> QED BY <3>1, <2>2, <1>1, <1>4 DEF LastSays
  <2> QED BY <2>1, <2>2 DEF LastSays
<1> QED BY <1>1, <1>5, <1>6, <1>7, <1>8, <1>9, <1>10, <1>11, <1>12, <1>13, <1>14


(* Every answer is of one kind.                                            *)
LEMMA AnswerKinds ==
  ASSUME NEW a \in SpeechAnswers
  PROVE  /\ a.type \in {"settings", "rejected", "test", "mode-event"}
         /\ a.type = "settings" => a \in SettingsAnswers /\ a.why \in Whys /\ a.now \in Shown
         /\ a.type = "rejected" => a \in RejectedAnswers /\ a.why \in {"mode", "save", "test", "clear"}
         /\ a.type = "test" => a \in TestAnswers /\ a.why = "test" /\ a.result \in Lines /\ a.url \in Urls
         /\ Moved(a) => Ends(a)
BY DEF SpeechAnswers, SettingsAnswers, RejectedAnswers, TestAnswers, ModeEvent, Moved, Ends

LEMMA NoneMoved == ASSUME NEW s \in Seq(SpeechAnswers), NoEnds(s) PROVE NoMoved(s) /\ NoResults(s)
BY DEF NoEnds, NoMoved, NoResults, Ends, Moved

LEMMA NoneAsked == ASSUME NEW q \in Seq(Calls), NoWork(q) PROVE NoTests(q)
BY DEF NoWork, NoTests, Work

(* An event goes ahead when the secretary goes on or off.                  *)
LEMMA TwoMore ==
  ASSUME NEW s \in Seq(SpeechAnswers), NEW e \in SpeechAnswers, NEW a \in SpeechAnswers, NEW t, t = s \o <<e>> \o <<a>>
  PROVE  /\ t \in Seq(SpeechAnswers) /\ Len(t) = Len(s) + 2 /\ t[Len(s) + 1] = e /\ t[Len(s) + 2] = a
         /\ \A i \in 1..Len(s) : t[i] = s[i]
<1>1. /\ s \o <<e>> \in Seq(SpeechAnswers) /\ Len(s \o <<e>>) = Len(s) + 1 /\ (s \o <<e>>)[Len(s) + 1] = e
      /\ \A i \in 1..Len(s) : (s \o <<e>>)[i] = s[i]
  OBVIOUS
<1>2. t \in Seq(SpeechAnswers) /\ Len(t) = Len(s) + 2 /\ t[Len(s) + 2] = a BY <1>1
<1>3. \A i \in 1..Len(s)+1 : t[i] = (s \o <<e>>)[i] BY <1>1
<1> QED BY <1>1, <1>2, <1>3

LEMMA OneMore ==
  ASSUME NEW s \in Seq(SpeechAnswers), NEW a \in SpeechAnswers, NEW t, t = s \o <<a>>
  PROVE  Grown(s, t, a)
<1>1. t \in Seq(SpeechAnswers) /\ Len(t) = Len(s) + 1 /\ Len(s) \in Nat OBVIOUS
<1>2. t[Len(t)] = a /\ \A i \in 1..Len(s) : t[i] = s[i] OBVIOUS
<1> QED BY <1>1, <1>2 DEF Grown

LEMMA EventAhead ==
  ASSUME answers \in Seq(SpeechAnswers), NEW a \in SpeechAnswers,
         answers' = answers \o Speech!Event(secretary') \o <<a>>
  PROVE  Grown(answers, answers', a) /\ (secretary'.on # secretary.on => ~NoEvents(answers'))
<1>0. ModeEvent \in SpeechAnswers /\ ModeEvent.type = "mode-event" BY DEF SpeechAnswers, ModeEvent
<1>1. CASE secretary'.on = secretary.on
  <2>1. answers' = answers \o <<>> \o <<a>> BY <1>1 DEF Speech!Event
  <2>2. answers \o <<>> = answers OBVIOUS
  <2>3. answers' = answers \o <<a>> BY <2>1, <2>2
  <2> QED BY <1>1, <2>3, OneMore
<1>2. CASE secretary'.on # secretary.on
  <2>1. answers' = answers \o <<ModeEvent>> \o <<a>> BY <1>2 DEF Speech!Event, ModeEvent
  <2>2. /\ answers' \in Seq(SpeechAnswers) /\ Len(answers') = Len(answers) + 2
        /\ answers'[Len(answers) + 1] = ModeEvent /\ answers'[Len(answers) + 2] = a
        /\ \A i \in 1..Len(answers) : answers'[i] = answers[i]
    <3> DEFINE t == answers \o <<ModeEvent>> \o <<a>>
    <3>1. /\ t \in Seq(SpeechAnswers) /\ Len(t) = Len(answers) + 2 /\ t[Len(answers) + 1] = ModeEvent
          /\ t[Len(answers) + 2] = a /\ \A i \in 1..Len(answers) : t[i] = answers[i]
      <4> HIDE <2>1
      <4> QED BY <1>0, TwoMore
    <3> QED BY <2>1, <3>1
  <2>3. Len(answers) \in Nat OBVIOUS
  <2>4. Len(answers) + 1 \in 1..Len(answers') BY <2>2, <2>3
  <2>5. ~NoEvents(answers') BY <2>2, <2>4, <1>0 DEF NoEvents
  <2>6. \A i \in (Len(answers)+1)..(Len(answers')-1) : answers'[i] = ModeEvent BY <2>2, <2>3
  <2> QED BY <2>2, <2>3, <2>5, <2>6 DEF Grown
<1> QED BY <1>1, <1>2

LEMMA EventAlone ==
  ASSUME answers \in Seq(SpeechAnswers), answers' = answers \o Speech!Event(secretary')
  PROVE  \/ answers' = answers /\ secretary'.on = secretary.on
         \/ Grown(answers, answers', ModeEvent) /\ ~NoEvents(answers')
<1>0. ModeEvent \in SpeechAnswers /\ ModeEvent.type = "mode-event" BY DEF SpeechAnswers, ModeEvent
<1>1. CASE secretary'.on = secretary.on
  <2>1. answers' = answers \o <<>> BY <1>1 DEF Speech!Event
  <2> QED BY <1>1, <2>1
<1>2. CASE secretary'.on # secretary.on
  <2>1. answers' = answers \o <<ModeEvent>> BY <1>2 DEF Speech!Event, ModeEvent
  <2>2. Grown(answers, answers', ModeEvent) BY <2>1, <1>0, OneMore
  <2>3. Len(answers') \in 1..Len(answers') /\ answers'[Len(answers')] = ModeEvent BY <2>2 DEF Grown
  <2> QED BY <2>2, <2>3, <1>0 DEF NoEvents
<1> QED BY <1>1, <1>2

(* A settings file that can be read is not a torn one.                     *)
LEMMA NotTorn ==
  ASSUME NEW f \in [url : Urls, mode : BOOLEAN]
  PROVE  f # Speech!Torn /\ Speech!loadSettings(f) = f
<1>1. DOMAIN f = {"url", "mode"} OBVIOUS
<1>2. DOMAIN Speech!Torn = {"url", "mode", "torn"} BY DEF Speech!Torn
<1>3. f # Speech!Torn BY <1>1, <1>2
<1> QED BY <1>3 DEF Speech!loadSettings

LEMMA TornReads ==
  /\ Speech!Blank \in Urls /\ Speech!Blank.origin = Nowhere /\ Speech!NoEngine(Speech!Blank)
  /\ Speech!Defaults \in [url : Urls, mode : BOOLEAN] /\ Speech!Defaults # Speech!Torn
  /\ Speech!loadSettings(Speech!Torn) = Speech!Defaults
<1>1. Speech!Blank \in Urls /\ Speech!Blank.origin = Nowhere /\ Speech!NoEngine(Speech!Blank)
  BY DEF Urls, Origins, Forms, Engines, Speech!Blank, Speech!NoEngine
<1>2. Speech!Defaults \in [url : Urls, mode : BOOLEAN] BY <1>1 DEF Speech!Defaults
<1> QED BY <1>1, <1>2, NotTorn DEF Speech!loadSettings

LEMMA Normalized ==
  ASSUME NEW u \in Urls
  PROVE  Speech!normalizeServerUrl(u) \in Urls /\ Speech!normalizeServerUrl(u).origin = u.origin
<1> DEFINE n == Speech!normalizeServerUrl(u)
<1>1. u \in [origin : Origins, form : Forms, engine : Engines] /\ n = [u EXCEPT !.form = "plain"]
  BY DEF Urls, Speech!normalizeServerUrl
<1>0. "plain" \in Forms BY DEF Forms
<1>2. n \in [origin : Origins, form : Forms, engine : Engines] /\ n.origin = u.origin /\ n.engine = u.engine
  BY <1>0, <1>1
<1>3. n.origin = Nowhere => Speech!NoEngine(n) BY <1>2 DEF Urls, Speech!NoEngine
<1> QED BY <1>2, <1>3 DEF Urls

-----------------------------------------------------------------------------
(* The main process answers a call: with settings that are so, or with a   *)
(* refusal that changed nothing the section knows of.                      *)
LEMMA Answered ==
  ASSUME SpeechInv, asked # <<>>, NEW call, call = Head(asked), asked' = Tail(asked),
         page' = page, test' = test,
         NEW a \in SpeechAnswers, Grown(answers, answers', a),
         lost => lost', ahead => ahead', call.call # "test", a.type \in {"settings", "rejected"},
         Ends(a) => Work(call),
         a.type = "settings" => (~lost' => View(a.now) = secretary'.on) /\ a.now.url = U',
         ~(lost' \/ ahead') /\ ~Moved(a) => U' = U,
         a.type = "rejected" => secretary'.on = secretary.on /\ call.call # "get",
         secretary'.on # secretary.on => ~NoEvents(answers')
  PROVE  OneJob' /\ ModeTold' /\ UrlTold' /\ TestTrue'
<1>1. asked \in Seq(Calls) /\ answers \in Seq(SpeechAnswers) BY DEF SpeechInv, SpeechTypes
<1>2. /\ FewWork(asked) => FewWork(asked') /\ (Work(call) => NoWork(asked'))
      /\ NoWork(asked) = (NoWork(asked') /\ ~Work(call))
      /\ NoTests(asked) <=> NoTests(asked')
      /\ NoGets(asked) = (NoGets(asked') /\ call.call # "get")
      /\ asked' \in Seq(Calls)
  BY <1>1, CallTaken
<1>3. /\ FewEnds(answers) /\ (NoEnds(answers) \/ ~Ends(a)) => FewEnds(answers')
      /\ NoEnds(answers') = (NoEnds(answers) /\ ~Ends(a))
      /\ NoMoved(answers') = (NoMoved(answers) /\ ~Moved(a))
      /\ NoEvents(answers') => NoEvents(answers)
      /\ NoResults(answers') <=> NoResults(answers)
      /\ NoSettings(answers') = (NoSettings(answers) /\ a.type # "settings")
      /\ ResultsOf(answers, U') => ResultsOf(answers', U')
      /\ AllTell(answers, U') /\ (a.type = "settings" => a.now.url = U') => AllTell(answers', U')
      /\ SinceMoved(answers, U') /\ (a.type = "settings" => a.now.url = U') => SinceMoved(answers', U')
      /\ NoMoved(answers) /\ (a.type = "settings" => a.now.url = U') => SinceMoved(answers', U')
      /\ a.type # "settings" /\ LastSays(answers, secretary'.on) => LastSays(answers', secretary'.on)
      /\ a.type = "settings" /\ View(a.now) = secretary'.on => LastSays(answers', secretary'.on)
  BY <1>1, GrownSays
<1>4. Moved(a) => Ends(a) BY AnswerKinds
<1>5. Work(call) => test = Speech!NoTest /\ NoEnds(answers) /\ NoMoved(answers) /\ NoResults(answers)
                    /\ page.busy # "none" /\ NoWork(asked')
  BY <1>1, <1>2, NoneMoved DEF SpeechInv, OneJob
<1>6. OneJob' BY <1>2, <1>3, <1>5 DEF SpeechInv, OneJob
<1>7. ModeTold'
  <2> SUFFICES ASSUME ~lost', page.open, NoGets(asked'), NoEvents(answers')
               PROVE  /\ LastSays(answers', secretary'.on)
                      /\ page.saved.read /\ NoSettings(answers') => View(page.saved) = secretary'.on
    BY DEF ModeTold
  <2>1. secretary'.on = secretary.on /\ NoEvents(answers) BY <1>3
  <2>2. CASE a.type = "settings" BY <2>2, <1>3
  <2>3. CASE a.type = "rejected"
    <3>1. NoGets(asked) BY <2>3, <1>2
    <3>2. /\ LastSays(answers, secretary.on)
          /\ page.saved.read /\ NoSettings(answers) => View(page.saved) = secretary.on
      BY <3>1, <2>1 DEF SpeechInv, ModeTold
    <3> QED BY <3>2, <2>1, <2>3, <1>3
  <2> QED BY <2>2, <2>3
<1>8. UrlTold'
  <2> SUFFICES ASSUME ~(lost' \/ ahead')
               PROVE  /\ SinceMoved(answers', U')
                      /\ NoMoved(answers') => AllTell(answers', U') /\ (page.saved.read => page.saved.url = U')
    BY DEF UrlTold
  <2>1. CASE Moved(a) BY <2>1, <1>3, <1>4, <1>5
  <2>2. CASE ~Moved(a)
    <3>1. U' = U BY <2>2
    <3>2. /\ SinceMoved(answers, U)
          /\ NoMoved(answers) => AllTell(answers, U) /\ (page.saved.read => page.saved.url = U)
      BY DEF SpeechInv, UrlTold
    <3> QED BY <3>1, <3>2, <1>3
  <2> QED BY <2>1, <2>2
<1>9. TestTrue'
  <2>1. page.line # Speech!NoLine => page.busy = "none" BY DEF SpeechInv, TestTrue
  <2> SUFFICES ASSUME ~(lost' \/ ahead')
               PROVE  /\ ~NoTests(asked') \/ test # Speech!NoTest \/ ~NoResults(answers') \/ page.line # Speech!NoLine =>
                            page.key = "none" /\ page.url = U'
                      /\ test # Speech!NoTest => test.url = U'
                      /\ ResultsOf(answers', U')
                      /\ page.line # Speech!NoLine => page.line.url = U'
    BY <2>1 DEF TestTrue
  <2>2. CASE Moved(a)
    <3>1. NoTests(asked') BY <2>2, <1>2, <1>4, <1>5, NoneAsked
    <3>2. test = Speech!NoTest /\ NoResults(answers') /\ page.line = Speech!NoLine BY <2>1, <2>2, <1>3, <1>4, <1>5
    <3>3. ResultsOf(answers', U') BY <3>2 DEF NoResults, ResultsOf
    <3> QED BY <3>1, <3>2, <3>3
  <2>3. CASE ~Moved(a)
    <3>1. U' = U BY <2>3
    <3> QED BY <3>1, <1>2, <1>3 DEF SpeechInv, TestTrue
  <2> QED BY <2>2, <2>3
<1> QED BY <1>6, <1>7, <1>8, <1>9


LEMMA ShownNow ==
  ASSUME NEW f, Speech!loadSettings(f) \in [url : Urls, mode : BOOLEAN], NEW k,
         NEW s \in [saved : BOOLEAN, on : BOOLEAN, found : BOOLEAN],
         NEW now, now = Speech!loadSecretarySettings(f, k, s)
  PROVE  /\ now \in Shown /\ now.url = Speech!loadSettings(f).url /\ now.read
         /\ View(now) = (Speech!loadSettings(f).mode /\ s.found)
BY DEF Speech!loadSecretarySettings, Shown, View

(* A call is answered with the settings as they are now.                   *)
LEMMA SettingsAnswered ==
  ASSUME SpeechInv, asked # <<>>, NEW call, call = Head(asked), asked' = Tail(asked),
         page' = page, test' = test, lost => lost', ahead => ahead', call.call # "test", NEW w \in Whys,
         Speech!loadSettings(settings') \in [url : Urls, mode : BOOLEAN],
         secretary' \in [saved : BOOLEAN, on : BOOLEAN, found : BOOLEAN],
         answers' = answers \o Speech!Event(secretary')
                    \o <<[type |-> "settings", why |-> w,
                          now |-> Speech!loadSecretarySettings(settings', key', secretary')]>>,
         w \in {"save", "test", "clear"} => Work(call),
         w \notin {"save", "test", "clear"} /\ ~(lost' \/ ahead') => U' = U,
         ModeKept'
  PROVE  OneJob' /\ ModeTold' /\ UrlTold' /\ TestTrue' /\ asked' \in Seq(Calls) /\ answers' \in Seq(SpeechAnswers)
<1> DEFINE now == Speech!loadSecretarySettings(settings', key', secretary')
           a == [type |-> "settings", why |-> w, now |-> now]
<1>1. /\ now \in Shown /\ now.url = Speech!loadSettings(settings').url
      /\ View(now) = (Speech!loadSettings(settings').mode /\ secretary'.found)
  BY ShownNow
<1>2. now.url = U' BY <1>1 DEF U
<1>3. ~lost' => View(now) = secretary'.on BY <1>1 DEF ModeKept
<1> HIDE DEF now
<1>4. a \in SpeechAnswers /\ a.type = "settings" /\ a.why = w /\ a.now = now
  BY <1>1 DEF SpeechAnswers, SettingsAnswers
<1>5. Ends(a) = (w \in {"save", "test", "clear"}) /\ Moved(a) = (w \in {"save", "test", "clear"})
  BY <1>4 DEF Ends, Moved
<1>6. answers \in Seq(SpeechAnswers) /\ asked \in Seq(Calls) BY DEF SpeechInv, SpeechTypes
<1>7. answers' = answers \o Speech!Event(secretary') \o <<a>> BY DEF now
<1> HIDE DEF a
<1>8. Grown(answers, answers', a) /\ (secretary'.on # secretary.on => ~NoEvents(answers')) BY <1>4, <1>6, <1>7, EventAhead
<1>9. answers' \in Seq(SpeechAnswers) BY <1>8 DEF Grown
<1>10. asked' \in Seq(Calls) BY <1>6
<1>11. OneJob' /\ ModeTold' /\ UrlTold' /\ TestTrue'
  BY <1>2, <1>3, <1>4, <1>5, <1>8, Answered
<1> QED BY <1>9, <1>10, <1>11

(* A call is refused, nothing changed that the section does not know of.   *)
LEMMA Refused ==
  ASSUME SpeechInv, asked # <<>>, NEW call, call = Head(asked), asked' = Tail(asked),
         page' = page, test' = test, lost => lost', ahead => ahead', call.call \in {"mode", "server"},
         NEW w \in {"mode", "save", "test", "clear"}, secretary' = secretary,
         answers' = answers \o Speech!Event(secretary') \o <<[type |-> "rejected", why |-> w]>>,
         w # "mode" => Work(call),
         ~(lost' \/ ahead') => U' = U
  PROVE  OneJob' /\ ModeTold' /\ UrlTold' /\ TestTrue' /\ asked' \in Seq(Calls) /\ answers' \in Seq(SpeechAnswers)
<1> DEFINE a == [type |-> "rejected", why |-> w]
<1>4. a \in SpeechAnswers /\ a.type = "rejected" /\ a.why = w BY DEF SpeechAnswers, RejectedAnswers
<1>5. Ends(a) = (w # "mode") /\ ~Moved(a) BY <1>4 DEF Ends, Moved
<1>6. answers \in Seq(SpeechAnswers) /\ asked \in Seq(Calls) BY DEF SpeechInv, SpeechTypes
<1> HIDE DEF a
<1>7. answers' = answers \o Speech!Event(secretary') \o <<a>> BY DEF a
<1>8. Grown(answers, answers', a) /\ (secretary'.on # secretary.on => ~NoEvents(answers')) BY <1>4, <1>6, <1>7, EventAhead
<1>9. answers' \in Seq(SpeechAnswers) BY <1>8 DEF Grown
<1>10. asked' \in Seq(Calls) BY <1>6
<1>11. OneJob' /\ ModeTold' /\ UrlTold' /\ TestTrue'
  BY <1>4, <1>5, <1>8, Answered
<1> QED BY <1>9, <1>10, <1>11

(* An event of the secretary's alone.                                      *)
LEMMA EventTold ==
  ASSUME SpeechInv, UNCHANGED <<asked, page, test, lost, ahead>>,
         answers' = answers \o Speech!Event(secretary'), ~lost => U' = U
  PROVE  OneJob' /\ ModeTold' /\ UrlTold' /\ TestTrue' /\ answers' \in Seq(SpeechAnswers)
<1>1. answers \in Seq(SpeechAnswers) BY DEF SpeechInv, SpeechTypes
<1>2. ModeEvent \in SpeechAnswers /\ ModeEvent.type = "mode-event" /\ ~Ends(ModeEvent) /\ ~Moved(ModeEvent)
  BY DEF SpeechAnswers, ModeEvent, Ends, Moved
<1>3. CASE answers' = answers /\ secretary'.on = secretary.on
  BY <1>1, <1>3 DEF SpeechInv, OneJob, ModeTold, UrlTold, TestTrue
<1>4. CASE Grown(answers, answers', ModeEvent) /\ ~NoEvents(answers')
  <2>1. /\ answers' \in Seq(SpeechAnswers)
        /\ FewEnds(answers) => FewEnds(answers')
        /\ NoEnds(answers') <=> NoEnds(answers)
        /\ NoMoved(answers') <=> NoMoved(answers)
        /\ NoResults(answers') <=> NoResults(answers)
        /\ ResultsOf(answers, U) => ResultsOf(answers', U)
        /\ AllTell(answers, U) => AllTell(answers', U)
        /\ SinceMoved(answers, U) => SinceMoved(answers', U)
    BY <1>1, <1>2, <1>4, GrownSays
  <2>2. OneJob' BY <2>1 DEF SpeechInv, OneJob
  <2>3. ModeTold' BY <1>4 DEF ModeTold
  <2>4. UrlTold' BY <2>1 DEF SpeechInv, UrlTold
  <2>5. TestTrue' BY <2>1 DEF SpeechInv, TestTrue
  <2> QED BY <2>1, <2>2, <2>3, <2>4, <2>5
<1> QED BY <1>1, <1>3, <1>4, EventAlone

-----------------------------------------------------------------------------
(* The main process.                                                       *)

LEMMA ModeLooked ==
  ASSUME secretary \in [saved : BOOLEAN, on : BOOLEAN, found : BOOLEAN], claude \in BOOLEAN, NEW mode \in BOOLEAN,
         NEW s, s = Speech!checkClaude(mode)
  PROVE  /\ s \in [saved : BOOLEAN, on : BOOLEAN, found : BOOLEAN]
         /\ s.saved = mode /\ s.on = (s.saved /\ s.found)
BY DEF Speech!checkClaude

LEMMA Getting ==
  ASSUME SpeechInv, asked # <<>>, Head(asked).call = "get", asked' = Tail(asked),
         Speech!getSettings(Head(asked).why), UNCHANGED <<test, sent, claude, page>>
  PROVE  SpeechInv'
<1> DEFINE call == Head(asked)
           w == call.why
<1>1. asked \in Seq(Calls) /\ SpeechTypes BY DEF SpeechInv, SpeechTypes
<1>2. call \in Calls BY <1>1
<1>3. w \in {"open", "again"} BY <1>2 DEF Calls
<1>4. UNCHANGED <<settings, key, lost, ahead>> /\ secretary' = Speech!checkClaude(secretary.saved)
  BY DEF Speech!getSettings, Speech!Looked
<1>5. secretary' \in [saved : BOOLEAN, on : BOOLEAN, found : BOOLEAN] /\ secretary'.saved = secretary.saved
      /\ secretary'.on = (secretary'.saved /\ secretary'.found)
  BY <1>1, <1>4, ModeLooked DEF SpeechTypes
<1>6. answers' = answers \o Speech!Event(secretary')
                 \o <<[type |-> "settings", why |-> w,
                       now |-> Speech!loadSecretarySettings(settings', key', secretary')]>>
  BY DEF Speech!getSettings, Speech!Answer, Speech!Saved
<1>7. ModeKept' BY <1>4, <1>5 DEF SpeechInv, ModeKept
<1>8. U' = U BY <1>4 DEF U
<1>9. Speech!loadSettings(settings') \in [url : Urls, mode : BOOLEAN] BY <1>1, <1>4 DEF SpeechTypes
<1> HIDE DEF call, w
<1>10. call = Head(asked) /\ call.call = "get" /\ w \in Whys BY <1>3 DEF call, Whys
<1>11. OneJob' /\ ModeTold' /\ UrlTold' /\ TestTrue' /\ asked' \in Seq(Calls) /\ answers' \in Seq(SpeechAnswers)
  BY <1>3, <1>4, <1>5, <1>6, <1>7, <1>8, <1>9, <1>10, SettingsAnswered
<1>12. KeyAtHome' BY <1>4, <1>8 DEF SpeechInv, KeyAtHome
<1>13. SpeechTypes' BY <1>1, <1>4, <1>5, <1>11 DEF SpeechTypes
<1> QED BY <1>7, <1>11, <1>12, <1>13 DEF SpeechInv

(* A file with another mode or another address reads so.                   *)
LEMMA Resaved ==
  ASSUME NEW f, Speech!loadSettings(f) \in [url : Urls, mode : BOOLEAN], NEW m \in BOOLEAN, NEW u \in Urls
  PROVE  /\ Speech!loadSettings([Speech!loadSettings(f) EXCEPT !.mode = m]) = [Speech!loadSettings(f) EXCEPT !.mode = m]
         /\ [Speech!loadSettings(f) EXCEPT !.mode = m] \in [url : Urls, mode : BOOLEAN]
         /\ [Speech!loadSettings(f) EXCEPT !.mode = m] # Speech!Torn
         /\ Speech!loadSettings([Speech!loadSettings(f) EXCEPT !.url = u]) = [Speech!loadSettings(f) EXCEPT !.url = u]
         /\ [Speech!loadSettings(f) EXCEPT !.url = u] \in [url : Urls, mode : BOOLEAN]
         /\ [Speech!loadSettings(f) EXCEPT !.url = u] # Speech!Torn
<1> DEFINE g == Speech!loadSettings(f)
<1>1. [g EXCEPT !.mode = m] \in [url : Urls, mode : BOOLEAN] /\ [g EXCEPT !.url = u] \in [url : Urls, mode : BOOLEAN]
  OBVIOUS
<1> QED BY <1>1, NotTorn

LEMMA SwitchingMode ==
  ASSUME SpeechInv, asked # <<>>, Head(asked).call = "mode", asked' = Tail(asked),
         Speech!switchMode(Head(asked).mode, "mode"), UNCHANGED <<test, sent, claude, page>>
  PROVE  SpeechInv'
<1> DEFINE call == Head(asked)
           m == call.mode
<1>1. asked \in Seq(Calls) /\ SpeechTypes BY DEF SpeechInv, SpeechTypes
<1>2. call \in Calls BY <1>1
<1>3. m \in BOOLEAN BY <1>2 DEF Calls
<1> HIDE DEF call, m
<1>4. call = Head(asked) /\ call.call = "mode" /\ m = Head(asked).mode BY DEF call, m
<1>5. Speech!loadSettings(settings) \in [url : Urls, mode : BOOLEAN] BY <1>1 DEF SpeechTypes
<1>6. CASE settings' = [Speech!loadSettings(settings) EXCEPT !.mode = m] /\ secretary' = Speech!checkClaude(m)
           /\ UNCHANGED <<key, lost, ahead, speechLeft>> /\ Speech!Answer([Speech!Saved EXCEPT !.why = "mode"])
  <2>1. /\ Speech!loadSettings(settings') = [Speech!loadSettings(settings) EXCEPT !.mode = m]
        /\ Speech!loadSettings(settings') \in [url : Urls, mode : BOOLEAN] /\ settings' # Speech!Torn
    BY <1>3, <1>5, <1>6, Resaved, TornReads
  <2>2. U' = U BY <1>5, <2>1 DEF U
  <2>3. secretary' \in [saved : BOOLEAN, on : BOOLEAN, found : BOOLEAN] /\ secretary'.saved = m
        /\ secretary'.on = (secretary'.saved /\ secretary'.found)
    BY <1>1, <1>3, <1>6, ModeLooked DEF SpeechTypes
  <2>4. Speech!loadSettings(settings').mode = m BY <1>5, <2>1
  <2>5. ModeKept' BY <2>1, <2>3, <2>4 DEF ModeKept
  <2>6. answers' = answers \o Speech!Event(secretary')
                   \o <<[type |-> "settings", why |-> "mode",
                         now |-> Speech!loadSecretarySettings(settings', key', secretary')]>>
    <3>1. [Speech!Saved EXCEPT !.why = "mode"] =
            [type |-> "settings", why |-> "mode", now |-> Speech!loadSecretarySettings(settings', key', secretary')]
      BY DEF Speech!Saved
    <3> QED BY <1>6, <3>1 DEF Speech!Answer
  <2>7. "mode" \in Whys BY DEF Whys
  <2>8. OneJob' /\ ModeTold' /\ UrlTold' /\ TestTrue' /\ asked' \in Seq(Calls) /\ answers' \in Seq(SpeechAnswers)
    BY <1>4, <1>6, <2>1, <2>2, <2>3, <2>5, <2>6, <2>7, SettingsAnswered
  <2>9. KeyAtHome' BY <1>6, <2>2 DEF SpeechInv, KeyAtHome
  <2>10. SpeechTypes' BY <1>1, <1>6, <2>1, <2>3, <2>8 DEF SpeechTypes
  <2> QED BY <2>5, <2>8, <2>9, <2>10 DEF SpeechInv
<1>7. CASE settings' \in Speech!NotSaved(settings) /\ lost' = (lost \/ settings' = Speech!Torn)
           /\ UNCHANGED <<key, secretary, ahead>> /\ Speech!Answer(Speech!Rejected("mode"))
  <2>1. settings' = settings \/ (settings' = Speech!Torn /\ lost') BY <1>7 DEF Speech!NotSaved
  <2>2. ~lost' => settings' = settings BY <2>1
  <2>3. Speech!loadSettings(settings') \in [url : Urls, mode : BOOLEAN] BY <1>5, <2>1, TornReads
  <2>4. ~(lost' \/ ahead') => U' = U BY <2>2 DEF U
  <2>5. ModeKept' BY <1>7, <2>1, <2>2 DEF SpeechInv, ModeKept
  <2>6. answers' = answers \o Speech!Event(secretary') \o <<[type |-> "rejected", why |-> "mode"]>>
    BY <1>7 DEF Speech!Answer, Speech!Rejected
  <2>7. OneJob' /\ ModeTold' /\ UrlTold' /\ TestTrue' /\ asked' \in Seq(Calls) /\ answers' \in Seq(SpeechAnswers)
    BY <1>4, <1>7, <2>4, <2>6, Refused
  <2>8. U' = U \/ U'.origin = Nowhere BY <2>1, TornReads DEF U, Speech!Defaults
  <2>9. KeyAtHome' BY <1>7, <2>8 DEF SpeechInv, KeyAtHome
  <2>10. SpeechTypes' BY <1>1, <1>7, <2>3, <2>7 DEF SpeechTypes
  <2> QED BY <2>5, <2>7, <2>9, <2>10 DEF SpeechInv
<1> QED BY <1>4, <1>6, <1>7 DEF Speech!switchMode


(* Where a save of the server ends, the key is of the address.             *)
LEMMA ServerSaved ==
  ASSUME SpeechTypes, KeyAtHome, NEW url \in Urls, NEW change \in {"unchanged", "clear", "good"},
         NEW end \in Speech!Ends, end = "write" => change = "good", Speech!setSpeechServer(url, change, end)
  PROVE  /\ Speech!loadSettings(settings') \in [url : Urls, mode : BOOLEAN]
         /\ key' \in Origins \cup {Speech!NoKey}
         /\ key' = Speech!NoKey \/ key' = U'.origin \/ U'.origin = Nowhere
         /\ settings' = Speech!Torn
            \/ (settings' = settings)
            \/ (settings' # Speech!Torn /\ Speech!loadSettings(settings').mode = Speech!loadSettings(settings).mode)
         /\ end = "done" => settings' # Speech!Torn
<1> DEFINE g == Speech!loadSettings(settings)
           n == Speech!normalizeServerUrl(url)
<1>1. g \in [url : Urls, mode : BOOLEAN] /\ n \in Urls /\ n.origin = url.origin BY Normalized DEF SpeechTypes
<1>2. url.origin \in Origins BY DEF Urls
<1>3. key' = IF end = "done" /\ change = "good" THEN url.origin
             ELSE IF (change = "clear" \/ url.origin # U.origin) /\ end # "remove" THEN Speech!NoKey ELSE key
  BY DEF Speech!setSpeechServer, Speech!serverOrigin, Speech!movesOrigin, U
<1>4. key' \in Origins \cup {Speech!NoKey} BY <1>2, <1>3 DEF SpeechTypes
<1> HIDE DEF g, n
<1>5. CASE end = "remove"
  <2>1. settings' = settings BY <1>5 DEF Speech!setSpeechServer, Speech!Ends
  <2>2. U' = U /\ key' = key BY <1>3, <1>5, <2>1 DEF U
  <2> QED BY <1>1, <1>4, <1>5, <2>1, <2>2 DEF KeyAtHome, SpeechTypes
<1>6. CASE end = "save"
  <2>1. settings' = settings \/ settings' = Speech!Torn BY <1>6 DEF Speech!setSpeechServer, Speech!Ends, Speech!NotSaved
  <2>2. key' = Speech!NoKey \/ key' = key BY <1>3, <1>6
  <2>3. U' = U \/ U'.origin = Nowhere BY <2>1, TornReads DEF U, Speech!Defaults
  <2>4. Speech!loadSettings(settings') \in [url : Urls, mode : BOOLEAN] BY <1>1, <2>1, TornReads DEF g
  <2> QED BY <1>4, <1>6, <2>1, <2>2, <2>3, <2>4 DEF KeyAtHome
<1>7. CASE end \in {"write", "done"}
  <2>1. settings' = [Speech!loadSettings(settings) EXCEPT !.url = Speech!normalizeServerUrl(url)]
    BY <1>7 DEF Speech!setSpeechServer, Speech!Ends
  <2>2. /\ Speech!loadSettings(settings') = [Speech!loadSettings(settings) EXCEPT !.url = Speech!normalizeServerUrl(url)]
        /\ Speech!loadSettings(settings') \in [url : Urls, mode : BOOLEAN] /\ settings' # Speech!Torn
    BY <1>1, <2>1, Resaved DEF g, n
  <2>3. Speech!loadSettings(settings').mode = Speech!loadSettings(settings).mode
        /\ Speech!loadSettings(settings').url = Speech!normalizeServerUrl(url)
    BY <1>1, <2>2 DEF g
  <2>4. U'.origin = url.origin BY <1>1, <2>3 DEF U, n
  <2>5. key' = Speech!NoKey \/ key' = url.origin \/ (key' = key /\ url.origin = U.origin)
    BY <1>3, <1>7
  <2>6. key' = Speech!NoKey \/ key' = U'.origin \/ U'.origin = Nowhere BY <2>4, <2>5 DEF KeyAtHome
  <2> QED BY <1>4, <2>2, <2>3, <2>6
<1> QED BY <1>5, <1>6, <1>7 DEF Speech!Ends

LEMMA SettingServer ==
  ASSUME SpeechInv, asked # <<>>, Head(asked).call = "server", asked' = Tail(asked),
         Speech!setServer(Head(asked)), UNCHANGED <<test, sent, claude, page>>
  PROVE  SpeechInv'
<1> DEFINE call == Head(asked)
           w == call.why
<1>1. asked \in Seq(Calls) /\ SpeechTypes BY DEF SpeechInv, SpeechTypes
<1>2. call \in Calls BY <1>1
<1>3. w \in {"save", "test", "clear"} /\ call.url \in Urls /\ call.change \in {"unchanged", "clear", "good", "bad"}
  BY <1>2 DEF Calls
<1> HIDE DEF call, w
<1>4. call = Head(asked) /\ call.call = "server" /\ w = call.why /\ Work(call) BY DEF call, w, Work
<1>5. Speech!loadSettings(settings) \in [url : Urls, mode : BOOLEAN] BY <1>1 DEF SpeechTypes
<1>6. PICK end \in Speech!Ends :
        /\ end = "write" => call.change = "good"
        /\ IF call.change = "bad" THEN end = "remove" /\ UNCHANGED <<settings, key>>
           ELSE Speech!setSpeechServer(call.url, call.change, end)
        /\ lost' = (lost \/ settings' = Speech!Torn)
        /\ ahead' = (ahead \/ (~(end = "done") /\ Speech!loadSettings(settings').url # Speech!loadSettings(settings).url))
        /\ secretary' = IF end = "done" THEN Speech!Looked ELSE secretary
        /\ Speech!Answer(IF end = "done" THEN [Speech!Saved EXCEPT !.why = call.why] ELSE Speech!Rejected(call.why))
  BY <1>4 DEF Speech!setServer
<1>7. /\ Speech!loadSettings(settings') \in [url : Urls, mode : BOOLEAN]
      /\ key' \in Origins \cup {Speech!NoKey}
      /\ key' = Speech!NoKey \/ key' = U'.origin \/ U'.origin = Nowhere
      /\ settings' = Speech!Torn
         \/ (settings' = settings)
         \/ (settings' # Speech!Torn /\ Speech!loadSettings(settings').mode = Speech!loadSettings(settings).mode)
      /\ end = "done" => settings' # Speech!Torn
  <2>1. CASE call.change = "bad"
    <3>1. end = "remove" /\ settings' = settings /\ key' = key BY <1>6, <2>1
    <3>2. U' = U BY <3>1 DEF U
    <3> QED BY <1>1, <1>5, <3>1, <3>2 DEF SpeechInv, KeyAtHome, SpeechTypes
  <2>2. CASE call.change # "bad"
    <3>1. Speech!setSpeechServer(call.url, call.change, end) BY <1>6, <2>2
    <3>2. call.change \in {"unchanged", "clear", "good"} BY <1>3, <2>2
    <3>3. KeyAtHome /\ SpeechTypes BY DEF SpeechInv
    <3>4. end = "write" => call.change = "good" BY <1>6
    <3> QED BY <1>3, <3>1, <3>2, <3>3, <3>4, ServerSaved
  <2> QED BY <2>1, <2>2
<1>8. KeyAtHome' BY <1>7 DEF SpeechInv, KeyAtHome
<1>9. (lost => lost') /\ (ahead => ahead') /\ (settings' = Speech!Torn => lost') /\ lost' \in BOOLEAN /\ ahead' \in BOOLEAN
  BY <1>1, <1>6 DEF SpeechTypes
<1>10. ~lost' => Speech!loadSettings(settings').mode = Speech!loadSettings(settings).mode BY <1>7, <1>9
<1>11. CASE end = "done"
  <2>1. secretary' = Speech!checkClaude(secretary.saved) BY <1>6, <1>11 DEF Speech!Looked
  <2>2. secretary' \in [saved : BOOLEAN, on : BOOLEAN, found : BOOLEAN] /\ secretary'.saved = secretary.saved
        /\ secretary'.on = (secretary'.saved /\ secretary'.found)
    BY <1>1, <2>1, ModeLooked DEF SpeechTypes
  <2>3. ModeKept' BY <1>9, <1>10, <2>2 DEF SpeechInv, ModeKept
  <2>4. answers' = answers \o Speech!Event(secretary')
                   \o <<[type |-> "settings", why |-> w,
                         now |-> Speech!loadSecretarySettings(settings', key', secretary')]>>
    <3>1. [Speech!Saved EXCEPT !.why = call.why] =
            [type |-> "settings", why |-> w, now |-> Speech!loadSecretarySettings(settings', key', secretary')]
      BY <1>4 DEF Speech!Saved
    <3>2. Speech!Answer([Speech!Saved EXCEPT !.why = call.why]) BY <1>6, <1>11
    <3> QED BY <3>1, <3>2 DEF Speech!Answer
  <2>5. w \in Whys BY <1>3 DEF Whys
  <2>6. OneJob' /\ ModeTold' /\ UrlTold' /\ TestTrue' /\ asked' \in Seq(Calls) /\ answers' \in Seq(SpeechAnswers)
    BY <1>3, <1>4, <1>7, <1>9, <2>2, <2>3, <2>4, <2>5, SettingsAnswered
  <2>7. SpeechTypes' BY <1>1, <1>7, <1>9, <2>2, <2>6 DEF SpeechTypes
  <2> QED BY <1>8, <2>3, <2>6, <2>7 DEF SpeechInv
<1>12. CASE end # "done"
  <2>1. secretary' = secretary BY <1>6, <1>12
  <2>2. ModeKept' BY <1>9, <1>10, <2>1 DEF SpeechInv, ModeKept
  <2>3. ~(lost' \/ ahead') => U' = U BY <1>6, <1>12 DEF U
  <2>4. answers' = answers \o Speech!Event(secretary') \o <<[type |-> "rejected", why |-> w]>>
    BY <1>4, <1>6, <1>12 DEF Speech!Answer, Speech!Rejected
  <2>5. w \in {"mode", "save", "test", "clear"} BY <1>3
  <2>6. OneJob' /\ ModeTold' /\ UrlTold' /\ TestTrue' /\ asked' \in Seq(Calls) /\ answers' \in Seq(SpeechAnswers)
    BY <1>4, <1>9, <2>1, <2>3, <2>4, <2>5, Refused
  <2>7. SpeechTypes' BY <1>1, <1>7, <1>9, <2>1, <2>6 DEF SpeechTypes
  <2> QED BY <1>8, <2>2, <2>6, <2>7 DEF SpeechInv
<1> QED BY <1>11, <1>12

LEMMA Appended ==
  ASSUME NEW s \in Seq(SpeechAnswers), NEW a \in SpeechAnswers, NEW t, t = Append(s, a)
  PROVE  Grown(s, t, a)
<1>1. t \in Seq(SpeechAnswers) /\ Len(t) = Len(s) + 1 /\ Len(s) \in Nat OBVIOUS
<1>2. t[Len(t)] = a /\ \A i \in 1..Len(s) : t[i] = s[i] OBVIOUS
<1> QED BY <1>1, <1>2 DEF Grown

(* A test's result is about what is saved.                                 *)
LEMMA ResultSaid ==
  ASSUME NEW what \in Lines, NEW url \in Urls
  PROVE  LET a == Speech!Result(what, url)
         IN  a \in SpeechAnswers /\ a.type = "test" /\ a.url = url /\ Ends(a) /\ ~Moved(a)
BY DEF Speech!Result, SpeechAnswers, TestAnswers, Ends, Moved

LEMMA TestAsked ==
  ASSUME SpeechInv, asked # <<>>, Head(asked).call = "test", asked' = Tail(asked),
         Speech!testServer, UNCHANGED <<settings, key, secretary, lost, ahead, claude, page>>
  PROVE  SpeechInv'
<1> DEFINE call == Head(asked)
<1>1. SpeechTypes /\ asked \in Seq(Calls) /\ answers \in Seq(SpeechAnswers) BY DEF SpeechInv, SpeechTypes
<1> HIDE DEF call
<1>2. /\ FewWork(asked) => FewWork(asked') /\ (Work(call) => NoWork(asked'))
      /\ NoWork(asked) <=> NoWork(asked') /\ ~Work(call)
      /\ NoTests(asked) <=> NoTests(asked') /\ call.call # "test"
      /\ NoGets(asked) <=> NoGets(asked') /\ call.call # "get"
      /\ asked' \in Seq(Calls)
  BY <1>1, CallTaken DEF call
<1>3. call.call = "test" /\ Work(call) BY DEF call, Work
<1>4. /\ FewEnds(answers) /\ NoEnds(answers) /\ test = Speech!NoTest /\ page.busy # "none"
      /\ NoWork(asked') /\ FewWork(asked') /\ ~NoTests(asked) /\ (NoGets(asked') => NoGets(asked))
  BY <1>2, <1>3 DEF SpeechInv, OneJob
<1>5. NoMoved(answers) /\ NoResults(answers) /\ NoTests(asked') BY <1>1, <1>2, <1>4, NoneMoved, NoneAsked
<1>6. U \in Urls /\ U' = U BY <1>1 DEF U, SpeechTypes
<1>7. ModeKept' BY DEF SpeechInv, ModeKept
<1>8. page.line = Speech!NoLine BY <1>4 DEF SpeechInv, TestTrue
<1>9. ~(lost \/ ahead) => page.key = "none" /\ page.url = U BY <1>4 DEF SpeechInv, TestTrue
<1>10. CASE Speech!NoEngine(U) /\ answers' = Append(answers, Speech!Result("address", U)) /\ UNCHANGED <<test, sent>>
  <2> DEFINE a == Speech!Result("address", U)
  <2>1. a \in SpeechAnswers /\ a.type = "test" /\ a.url = U /\ Ends(a) /\ ~Moved(a) BY <1>6, ResultSaid DEF Lines
  <2> HIDE DEF a
  <2>2. Grown(answers, answers', a) BY <1>1, <1>10, <2>1, Appended DEF a
  <2>3. /\ answers' \in Seq(SpeechAnswers)
        /\ FewEnds(answers') /\ (NoMoved(answers') <=> NoMoved(answers))
        /\ NoEvents(answers') => NoEvents(answers)
        /\ NoSettings(answers') <=> NoSettings(answers)
        /\ ResultsOf(answers, U) => ResultsOf(answers', U)
        /\ AllTell(answers, U) => AllTell(answers', U)
        /\ SinceMoved(answers, U) => SinceMoved(answers', U)
        /\ LastSays(answers, secretary.on) => LastSays(answers', secretary.on)
    BY <1>1, <1>4, <2>1, <2>2, GrownSays
  <2>4. OneJob' BY <1>4, <1>10, <2>3 DEF OneJob
  <2>5. ModeTold' BY <1>4, <2>3 DEF SpeechInv, ModeTold
  <2>6. UrlTold' BY <1>5, <1>6, <2>3 DEF SpeechInv, UrlTold
  <2>7. TestTrue' BY <1>4, <1>6, <1>8, <1>9, <1>10, <2>3 DEF SpeechInv, TestTrue
  <2>8. KeyAtHome' BY <1>6, <1>10 DEF SpeechInv, KeyAtHome
  <2>9. SpeechTypes' BY <1>1, <1>2, <1>10, <2>3 DEF SpeechTypes
  <2> QED BY <1>7, <2>4, <2>5, <2>6, <2>7, <2>8, <2>9 DEF SpeechInv
<1>11. CASE /\ ~Speech!NoEngine(U) /\ answers' = answers
            /\ test' = [step |-> IF U.engine = "openai" THEN "health" ELSE "speech", url |-> U, key |-> key]
            /\ Speech!Request(U, IF U.engine = "openai" THEN Speech!NoKey ELSE key)
  <2>1. key \in {Speech!NoKey, U.origin} BY <1>6, <1>11 DEF SpeechInv, KeyAtHome, Urls
  <2>2. test'.url = U /\ test'.key = key BY <1>11
  <2>3. test' \in [step : {"none", "health", "speech"}, url : Urls, key : Origins \cup {Speech!NoKey}]
    BY <1>1, <1>6, <1>11 DEF SpeechTypes
  <2>4. sent' = sent \cup {[to |-> U.origin, key |-> IF U.engine = "openai" THEN Speech!NoKey ELSE key]}
    BY <1>11 DEF Speech!Request
  <2>5. KeyAtHome' BY <1>6, <2>1, <2>2, <2>4 DEF SpeechInv, KeyAtHome
  <2>6. OneJob' BY <1>4, <1>11 DEF OneJob
  <2>7. ModeTold' BY <1>4, <1>11 DEF SpeechInv, ModeTold
  <2>8. UrlTold' BY <1>6, <1>11 DEF SpeechInv, UrlTold
  <2>9. TestTrue' BY <1>6, <1>8, <1>9, <1>11, <2>2 DEF SpeechInv, TestTrue
  <2>10. SpeechTypes' BY <1>1, <1>2, <1>11, <2>3 DEF SpeechTypes
  <2> QED BY <1>7, <2>5, <2>6, <2>7, <2>8, <2>9, <2>10 DEF SpeechInv
<1> QED BY <1>10, <1>11 DEF Speech!testServer, U


LEMMA HandlingCall == ASSUME SpeechInv, Speech!Handle PROVE SpeechInv'
<1>1. asked # <<>> /\ asked' = Tail(asked) /\ UNCHANGED <<claude, page>> BY DEF Speech!Handle
<1>2. Head(asked) \in Calls BY <1>1 DEF SpeechInv, SpeechTypes
<1>3. Head(asked).call \in {"get", "mode", "server", "test"} BY <1>2 DEF Calls
<1>4. CASE Head(asked).call = "get" BY <1>1, <1>4, Getting DEF Speech!Handle
<1>5. CASE Head(asked).call = "mode" BY <1>1, <1>5, SwitchingMode DEF Speech!Handle
<1>6. CASE Head(asked).call = "server" BY <1>1, <1>6, SettingServer DEF Speech!Handle
<1>7. CASE Head(asked).call = "test" BY <1>1, <1>7, TestAsked DEF Speech!Handle
<1> QED BY <1>3, <1>4, <1>5, <1>6, <1>7

(* The test goes on, or its result is said.                                *)
LEMMA TestGoesOn == ASSUME SpeechInv, Speech!TestSteps PROVE SpeechInv'
<1>1. SpeechTypes /\ answers \in Seq(SpeechAnswers) BY DEF SpeechInv, SpeechTypes
<1>2. /\ test # Speech!NoTest
      /\ UNCHANGED <<settings, key, secretary, claude, page, asked, lost, ahead>>
  BY DEF Speech!TestSteps
<1>3. PICK ok \in BOOLEAN :
        IF test.step = "health" /\ ok
        THEN /\ test' = [test EXCEPT !.step = "speech"]
             /\ Speech!Request(test.url, test.key)
             /\ UNCHANGED answers
        ELSE /\ test' = Speech!NoTest
             /\ answers' = Append(answers, Speech!Result(IF ok THEN "ok" ELSE test.step, test.url))
             /\ UNCHANGED sent
  BY DEF Speech!TestSteps
<1>4. FewEnds(answers) /\ NoEnds(answers) /\ NoWork(asked) /\ FewWork(asked) /\ page.busy # "none"
  BY <1>2 DEF SpeechInv, OneJob
<1>5. NoMoved(answers) /\ NoResults(answers) BY <1>1, <1>4, NoneMoved
<1>6. U' = U BY <1>2 DEF U
<1>7. ModeKept' BY <1>2 DEF SpeechInv, ModeKept
<1>8. page.line = Speech!NoLine BY <1>4 DEF SpeechInv, TestTrue
<1>9. ~(lost \/ ahead) => page.key = "none" /\ page.url = U /\ test.url = U BY <1>2 DEF SpeechInv, TestTrue
<1>10. test \in [step : {"none", "health", "speech"}, url : Urls, key : Origins \cup {Speech!NoKey}]
  BY <1>1 DEF SpeechTypes
<1>11. CASE test.step = "health" /\ ok
  <2>1. test' = [test EXCEPT !.step = "speech"] /\ answers' = answers BY <1>3, <1>11
  <2>2. /\ test' \in [step : {"none", "health", "speech"}, url : Urls, key : Origins \cup {Speech!NoKey}]
        /\ test'.url = test.url /\ test'.key = test.key
    BY <1>10, <2>1
  <2>3. sent' = sent \cup {[to |-> test.url.origin, key |-> test.key]} BY <1>3, <1>11 DEF Speech!Request
  <2>4. KeyAtHome' BY <1>2, <1>6, <2>2, <2>3 DEF SpeechInv, KeyAtHome
  <2>5. OneJob' BY <1>2, <1>4, <2>1 DEF OneJob
  <2>6. ModeTold' /\ UrlTold' BY <1>2, <1>6, <2>1 DEF SpeechInv, ModeTold, UrlTold
  <2>7. TestTrue' BY <1>2, <1>6, <1>8, <1>9, <2>1, <2>2 DEF SpeechInv, TestTrue
  <2>8. SpeechTypes' BY <1>1, <1>2, <2>1, <2>2 DEF SpeechTypes
  <2> QED BY <1>7, <2>4, <2>5, <2>6, <2>7, <2>8 DEF SpeechInv
<1>12. CASE ~(test.step = "health" /\ ok)
  <2> DEFINE what == IF ok THEN "ok" ELSE test.step
             a == Speech!Result(what, test.url)
  <2>1. what \in Lines BY <1>10 DEF Lines
  <2>2. a \in SpeechAnswers /\ a.type = "test" /\ a.url = test.url /\ Ends(a) /\ ~Moved(a)
    BY <1>10, <2>1, ResultSaid
  <2>3. test' = Speech!NoTest /\ answers' = Append(answers, a) /\ sent' = sent BY <1>3, <1>12
  <2> HIDE DEF a
  <2>4. Grown(answers, answers', a) BY <1>1, <2>2, <2>3, Appended
  <2>5. /\ answers' \in Seq(SpeechAnswers)
        /\ FewEnds(answers') /\ (NoMoved(answers') <=> NoMoved(answers))
        /\ NoEvents(answers') => NoEvents(answers)
        /\ NoSettings(answers') <=> NoSettings(answers)
        /\ ResultsOf(answers, U) /\ a.url = U => ResultsOf(answers', U)
        /\ AllTell(answers, U) => AllTell(answers', U)
        /\ SinceMoved(answers, U) => SinceMoved(answers', U)
        /\ LastSays(answers, secretary.on) => LastSays(answers', secretary.on)
    BY <1>1, <1>4, <2>2, <2>4, GrownSays
  <2>6. Speech!NoTest.key = Speech!NoKey /\ Speech!NoTest \in [step : {"none", "health", "speech"}, url : Urls,
                                                               key : Origins \cup {Speech!NoKey}]
    BY TornReads DEF Speech!NoTest
  <2>7. KeyAtHome' BY <1>2, <1>6, <2>3, <2>6 DEF SpeechInv, KeyAtHome
  <2>8. OneJob' BY <1>2, <1>4, <2>3, <2>5 DEF OneJob
  <2>9. ModeTold' /\ UrlTold' BY <1>2, <1>6, <2>5 DEF SpeechInv, ModeTold, UrlTold
  <2>10. TestTrue' BY <1>2, <1>6, <1>8, <1>9, <2>2, <2>3, <2>5 DEF SpeechInv, TestTrue
  <2>11. SpeechTypes' BY <1>1, <1>2, <2>3, <2>5, <2>6 DEF SpeechTypes
  <2> QED BY <1>7, <2>7, <2>8, <2>9, <2>10, <2>11 DEF SpeechInv
<1> QED BY <1>11, <1>12

(* A brief is spoken.                                                      *)
LEMMA Speaking == ASSUME SpeechInv, Speech!synthesize PROVE SpeechInv'
<1>1. /\ UNCHANGED <<settings, key, secretary, claude, page, asked, answers, test, lost, ahead>>
      /\ ~Speech!NoEngine(U) /\ sent' = sent \cup {[to |-> U.origin, key |-> key]}
  BY DEF Speech!synthesize, Speech!Request, U
<1>2. U' = U /\ U \in Urls BY <1>1 DEF U, SpeechInv, SpeechTypes
<1>3. key \in {Speech!NoKey, U.origin} BY <1>1, <1>2 DEF SpeechInv, KeyAtHome, Urls
<1>4. KeyAtHome' BY <1>1, <1>2, <1>3 DEF SpeechInv, KeyAtHome
<1>5. OneJob' /\ ModeKept' /\ ModeTold' BY <1>1 DEF SpeechInv, OneJob, ModeKept, ModeTold
<1>6. UrlTold' /\ TestTrue' BY <1>1, <1>2 DEF SpeechInv, UrlTold, TestTrue
<1>7. SpeechTypes' BY <1>1 DEF SpeechInv, SpeechTypes
<1> QED BY <1>4, <1>5, <1>6, <1>7 DEF SpeechInv

LEMMA PhoneSwitching == ASSUME SpeechInv, Speech!PhoneSwitches PROVE SpeechInv'
<1>1. UNCHANGED <<key, claude, page, asked, test, sent, lost, ahead>> /\ SpeechTypes BY DEF Speech!PhoneSwitches, SpeechInv
<1>2. PICK mode \in BOOLEAN :
        /\ IF mode /\ ~claude THEN secretary' = Speech!Looked /\ UNCHANGED settings
           ELSE /\ settings' = [Speech!loadSettings(settings) EXCEPT !.mode = mode]
                /\ secretary' = IF mode THEN Speech!checkClaude(TRUE) ELSE Speech!Off(secretary)
        /\ answers' = answers \o Speech!Event(secretary')
  BY DEF Speech!PhoneSwitches
<1>3. Speech!loadSettings(settings) \in [url : Urls, mode : BOOLEAN] BY <1>1 DEF SpeechTypes
<1>4. /\ Speech!loadSettings(settings') \in [url : Urls, mode : BOOLEAN] /\ U' = U
      /\ secretary' \in [saved : BOOLEAN, on : BOOLEAN, found : BOOLEAN]
      /\ ModeKept'
  <2>1. CASE mode /\ ~claude
    <3>1. secretary' = Speech!checkClaude(secretary.saved) /\ settings' = settings BY <1>2, <2>1 DEF Speech!Looked
    <3>2. secretary' \in [saved : BOOLEAN, on : BOOLEAN, found : BOOLEAN] /\ secretary'.saved = secretary.saved
          /\ secretary'.on = (secretary'.saved /\ secretary'.found)
      BY <1>1, <3>1, ModeLooked DEF SpeechTypes
    <3> QED BY <1>1, <1>3, <3>1, <3>2 DEF SpeechInv, ModeKept, U
  <2>2. CASE ~(mode /\ ~claude)
    <3>1. settings' = [Speech!loadSettings(settings) EXCEPT !.mode = mode] BY <1>2, <2>2
    <3>2. /\ Speech!loadSettings(settings') = [Speech!loadSettings(settings) EXCEPT !.mode = mode]
          /\ Speech!loadSettings(settings') \in [url : Urls, mode : BOOLEAN] /\ settings' # Speech!Torn
      BY <1>3, <3>1, Resaved, TornReads
    <3>3. Speech!loadSettings(settings').mode = mode /\ U' = U BY <1>3, <3>2 DEF U
    <3>4. CASE mode
      <4>1. secretary' = Speech!checkClaude(TRUE) BY <1>2, <2>2, <3>4
      <4>2. secretary' \in [saved : BOOLEAN, on : BOOLEAN, found : BOOLEAN] /\ secretary'.saved = TRUE
            /\ secretary'.on = (secretary'.saved /\ secretary'.found)
        BY <1>1, <4>1, ModeLooked DEF SpeechTypes
      <4> QED BY <3>2, <3>3, <3>4, <4>2 DEF ModeKept
    <3>5. CASE ~mode
      <4>1. secretary' = Speech!Off(secretary) BY <1>2, <2>2, <3>5
      <4>2. secretary' \in [saved : BOOLEAN, on : BOOLEAN, found : BOOLEAN] /\ secretary'.saved = FALSE
            /\ secretary'.on = FALSE
        BY <1>1, <4>1 DEF SpeechTypes, Speech!Off
      <4> QED BY <3>2, <3>3, <3>5, <4>2 DEF ModeKept
    <3> QED BY <3>4, <3>5
  <2> QED BY <2>1, <2>2
<1>5. OneJob' /\ ModeTold' /\ UrlTold' /\ TestTrue' /\ answers' \in Seq(SpeechAnswers)
  BY <1>1, <1>2, <1>4, EventTold
<1>6. KeyAtHome' BY <1>1, <1>4 DEF SpeechInv, KeyAtHome
<1>7. SpeechTypes' BY <1>1, <1>4, <1>5 DEF SpeechTypes
<1> QED BY <1>4, <1>5, <1>6, <1>7 DEF SpeechInv

LEMMA BriefLooking == ASSUME SpeechInv, Speech!BriefLooks PROVE SpeechInv'
<1>1. /\ UNCHANGED <<settings, key, claude, page, asked, test, sent, lost, ahead>> /\ SpeechTypes
      /\ secretary.saved /\ secretary' = Speech!checkClaude(TRUE) /\ answers' = answers \o Speech!Event(secretary')
  BY DEF Speech!BriefLooks, SpeechInv
<1>2. secretary' \in [saved : BOOLEAN, on : BOOLEAN, found : BOOLEAN] /\ secretary'.saved = TRUE
      /\ secretary'.on = (secretary'.saved /\ secretary'.found)
  BY <1>1, ModeLooked DEF SpeechTypes
<1>3. U' = U BY <1>1 DEF U
<1>4. secretary.saved \in BOOLEAN BY <1>1 DEF SpeechTypes
<1>5. ModeKept' BY <1>1, <1>2, <1>4 DEF SpeechInv, ModeKept
<1>6. OneJob' /\ ModeTold' /\ UrlTold' /\ TestTrue' /\ answers' \in Seq(SpeechAnswers)
  BY <1>1, <1>3, EventTold
<1>7. KeyAtHome' BY <1>1, <1>3 DEF SpeechInv, KeyAtHome
<1>8. SpeechTypes' BY <1>1, <1>2, <1>6 DEF SpeechTypes
<1> QED BY <1>5, <1>6, <1>7, <1>8 DEF SpeechInv

LEMMA ClaudeMoves == ASSUME SpeechInv, Speech!ClaudeComesOrGoes PROVE SpeechInv'
<1>1. /\ UNCHANGED <<settings, key, secretary, page, asked, answers, test, sent, lost, ahead>>
      /\ claude' \in BOOLEAN
  BY DEF Speech!ClaudeComesOrGoes
<1>2. U' = U BY <1>1 DEF U
<1>3. OneJob' /\ ModeKept' /\ ModeTold' BY <1>1 DEF SpeechInv, OneJob, ModeKept, ModeTold
<1>4. UrlTold' /\ TestTrue' /\ KeyAtHome' BY <1>1, <1>2 DEF SpeechInv, UrlTold, TestTrue, KeyAtHome
<1>5. SpeechTypes' BY <1>1 DEF SpeechInv, SpeechTypes
<1> QED BY <1>3, <1>4, <1>5 DEF SpeechInv

-----------------------------------------------------------------------------
(* The section.                                                            *)

\* What the section does changes nothing in the main process, and nothing of what it was told.
LEMMA SectionActs ==
  ASSUME SpeechInv, UNCHANGED <<settings, key, secretary, claude, answers, test, sent, lost, ahead>>,
         page' \in Sections, page'.saved = page.saved,
         asked' = asked \/ \E c \in Calls : asked' = Append(asked, c) /\ (Work(c) => page.busy = "none" /\ page'.busy # "none"),
         page'.busy = "none" => page.busy = "none",
         page'.open /\ ~page.open => ~NoGets(asked'),
         page'.line # Speech!NoLine => page'.line = page.line /\ page'.busy = "none",
         page'.key # page.key \/ page'.url # page.url => page'.line = Speech!NoLine /\ page.busy = "none" /\ asked' = asked,
         ~(lost \/ ahead) /\ ~NoTests(asked') => ~NoTests(asked) \/ (page'.key = "none" /\ page'.url = U)
  PROVE  SpeechInv'
<1>1. SpeechTypes /\ asked \in Seq(Calls) BY DEF SpeechInv, SpeechTypes
<1>2. U' = U BY DEF U
<1>3. asked' \in Seq(Calls) BY <1>1, CallAdded
<1>4. NoGets(asked') => NoGets(asked) BY <1>1, CallAdded
<1>5. KeyAtHome' /\ ModeKept' BY <1>2 DEF SpeechInv, KeyAtHome, ModeKept
<1>6. OneJob'
  <2>1. CASE asked' = asked BY <2>1 DEF SpeechInv, OneJob
  <2>2. ASSUME NEW c \in Calls, asked' = Append(asked, c), Work(c) => page.busy = "none" /\ page'.busy # "none"
        PROVE  OneJob'
    <3>1. /\ FewWork(asked) /\ (NoWork(asked) \/ ~Work(c)) => FewWork(asked')
          /\ NoWork(asked') <=> NoWork(asked) /\ ~Work(c)
      BY <1>1, <2>2, CallAdded
    <3>2. CASE Work(c)
      <4>1. test = Speech!NoTest /\ NoWork(asked) /\ NoEnds(answers) BY <2>2, <3>2 DEF SpeechInv, OneJob
      <4> QED BY <2>2, <3>1, <3>2, <4>1 DEF SpeechInv, OneJob
    <3>3. CASE ~Work(c) BY <3>1, <3>3 DEF SpeechInv, OneJob
    <3> QED BY <3>2, <3>3
  <2> QED BY <2>1, <2>2
<1>7. ModeTold' BY <1>4 DEF SpeechInv, ModeTold
<1>8. UrlTold' BY <1>2 DEF SpeechInv, UrlTold
<1>9. TestTrue'
  <2>1. page'.line # Speech!NoLine => page'.busy = "none" OBVIOUS
  <2> SUFFICES ASSUME ~(lost \/ ahead)
               PROVE  /\ ~NoTests(asked') \/ test # Speech!NoTest \/ ~NoResults(answers) \/ page'.line # Speech!NoLine =>
                            page'.key = "none" /\ page'.url = U
                      /\ test # Speech!NoTest => test.url = U
                      /\ ResultsOf(answers, U)
                      /\ page'.line # Speech!NoLine => page'.line.url = U
    BY <1>2, <2>1 DEF TestTrue
  <2>2. CASE page'.key # page.key \/ page'.url # page.url
    <3>1. page.busy = "none" /\ page'.line = Speech!NoLine /\ asked' = asked BY <2>2
    <3>2. test = Speech!NoTest /\ NoWork(asked) /\ NoEnds(answers) BY <3>1 DEF SpeechInv, OneJob
    <3>3. answers \in Seq(SpeechAnswers) BY <1>1 DEF SpeechTypes
    <3>4. NoTests(asked) /\ NoResults(answers) BY <1>1, <3>2, <3>3, NoneAsked, NoneMoved
    <3> QED BY <3>1, <3>2, <3>4 DEF SpeechInv, TestTrue
  <2>3. CASE page'.key = page.key /\ page'.url = page.url
    BY <2>3 DEF SpeechInv, TestTrue
  <2> QED BY <2>2, <2>3
<1>10. SpeechTypes' BY <1>1, <1>3 DEF SpeechTypes
<1> QED BY <1>5, <1>6, <1>7, <1>8, <1>9, <1>10 DEF SpeechInv


LEMMA NoLineIs == Speech!NoLine \in [result : Lines, url : Urls]
BY TornReads DEF Speech!NoLine, Lines

LEMMA Toggling == ASSUME SpeechInv, Speech!Toggle PROVE SpeechInv'
<1>1. page \in Sections /\ UNCHANGED <<settings, key, secretary, claude, answers, test, sent, lost, ahead>>
  BY DEF SpeechInv, SpeechTypes, Speech!Toggle, Speech!Page
<1>2. page' = [page EXCEPT !.open = ~@] BY DEF Speech!Toggle
<1>3. /\ page' \in Sections /\ page'.saved = page.saved /\ page'.busy = page.busy /\ page'.line = page.line
      /\ page'.key = page.key /\ page'.url = page.url /\ page'.open = ~page.open
  BY <1>1, <1>2 DEF Sections
<1>4. page.line # Speech!NoLine => page.busy = "none" BY DEF SpeechInv, TestTrue
<1>5. asked \in Seq(Calls) BY DEF SpeechInv, SpeechTypes
<1>6. CASE page.open
  <2>1. asked' = asked BY <1>6 DEF Speech!Toggle
  <2> QED BY <1>1, <1>3, <1>4, <1>6, <2>1, SectionActs
<1>7. CASE ~page.open
  <2> DEFINE c == Speech!Get("open")
  <2>1. asked' = Append(asked, c) BY <1>7 DEF Speech!Toggle, Speech!Ask
  <2>2. c \in Calls /\ c.call = "get" /\ ~Work(c) BY DEF Speech!Get, Calls, Work
  <2> HIDE DEF c
  <2>3. ~NoGets(asked') /\ (NoTests(asked') <=> NoTests(asked)) BY <1>5, <2>1, <2>2, CallAdded
  <2> QED BY <1>1, <1>3, <1>4, <2>1, <2>2, <2>3, SectionActs
<1> QED BY <1>6, <1>7

LEMMA LookingAnew == ASSUME SpeechInv, Speech!LookAgain PROVE SpeechInv'
<1>1. /\ page \in Sections /\ UNCHANGED <<settings, key, secretary, claude, answers, test, sent, lost, ahead>>
      /\ page' = page
  BY DEF SpeechInv, SpeechTypes, Speech!LookAgain, Speech!Page
<1>2. page.line # Speech!NoLine => page.busy = "none" BY DEF SpeechInv, TestTrue
<1>3. asked \in Seq(Calls) BY DEF SpeechInv, SpeechTypes
<1> DEFINE c == Speech!Get("again")
<1>4. asked' = Append(asked, c) BY DEF Speech!LookAgain, Speech!Ask
<1>5. c \in Calls /\ c.call = "get" /\ ~Work(c) BY DEF Speech!Get, Calls, Work
<1> HIDE DEF c
<1>6. NoTests(asked') <=> NoTests(asked) BY <1>3, <1>4, <1>5, CallAdded
<1> QED BY <1>1, <1>2, <1>4, <1>5, <1>6, SectionActs

LEMMA Editing == ASSUME SpeechAssumption, SpeechInv, Speech!Edit PROVE SpeechInv'
<1>1. /\ page \in Sections /\ UNCHANGED <<settings, key, secretary, claude, answers, test, sent, lost, ahead>>
      /\ asked' = asked /\ page.busy = "none"
  BY DEF SpeechInv, SpeechTypes, Speech!Edit, Speech!Page, Speech!Enabled
<1>2. \/ \E u \in Urls : page' = [page EXCEPT !.url = u, !.line = Speech!NoLine]
      \/ \E k \in Speech!Typed : page' = [page EXCEPT !.key = k, !.line = Speech!NoLine]
  BY TornReads DEF Speech!Edit, SpeechAssumption
<1>3. /\ page' \in Sections /\ page'.saved = page.saved /\ page'.busy = page.busy /\ page'.line = Speech!NoLine
      /\ page'.open = page.open
  BY <1>1, <1>2, NoLineIs DEF Sections
<1> QED BY <1>1, <1>3, SectionActs

(* A job is begun: the line goes, and the section is busy.                 *)
LEMMA Beginning ==
  ASSUME SpeechInv, Speech!Enabled, NEW what \in {"save", "test", "clear"}, Speech!Start(what), Speech!Page,
         NEW c \in Calls, asked' = Append(asked, c),
         ~(lost \/ ahead) /\ c.call = "test" => page.key = "none" /\ page.url = U
  PROVE  SpeechInv'
<1>1. /\ page \in Sections /\ UNCHANGED <<settings, key, secretary, claude, answers, test, sent, lost, ahead>>
      /\ page.busy = "none" /\ asked \in Seq(Calls)
  BY DEF SpeechInv, SpeechTypes, Speech!Page, Speech!Enabled
<1>2. page' = [page EXCEPT !.busy = what, !.line = Speech!NoLine] BY DEF Speech!Start
<1>3. /\ page' \in Sections /\ page'.saved = page.saved /\ page'.busy = what /\ page'.line = Speech!NoLine
      /\ page'.key = page.key /\ page'.url = page.url /\ page'.open = page.open
  BY <1>1, <1>2, NoLineIs DEF Sections
<1>4. ~NoTests(asked') => ~NoTests(asked) \/ c.call = "test" BY <1>1, CallAdded
<1> QED BY <1>1, <1>3, <1>4, SectionActs

LEMMA ServerCall ==
  ASSUME page \in Sections, NEW w \in {"save", "test"}
  PROVE  Speech!saveServer(w) \in Calls /\ Speech!saveServer(w).call = "server"
<1>1. page.url \in Urls /\ page.key \in {"none", "good", "bad"} BY DEF Sections, Speech!Typed
<1>2. (IF page.key = "none" THEN "unchanged" ELSE page.key) \in {"unchanged", "clear", "good", "bad"} BY <1>1
<1> QED BY <1>1, <1>2 DEF Speech!saveServer, Calls

LEMMA Saving == ASSUME SpeechInv, Speech!save PROVE SpeechInv'
<1> DEFINE c == Speech!saveServer("save")
<1>1. page \in Sections BY DEF SpeechInv, SpeechTypes
<1>2. c \in Calls /\ c.call = "server" BY <1>1, ServerCall
<1>3. Speech!Enabled /\ Speech!Start("save") /\ Speech!Page /\ asked' = Append(asked, c) BY DEF Speech!save, Speech!Ask
<1> HIDE DEF c
<1> QED BY <1>2, <1>3, Beginning

(* What is tested without a save reads as it is saved.                     *)
LEMMA Clean ==
  ASSUME SpeechInv, Speech!Enabled, ~Speech!dirty, ~(lost \/ ahead) PROVE page.key = "none" /\ page.url = U
<1>1. page.saved.read /\ page.busy = "none" BY DEF Speech!Enabled
<1>2. page.key = "none" /\ page.url = page.saved.url BY <1>1 DEF Speech!dirty
<1>3. NoEnds(answers) /\ answers \in Seq(SpeechAnswers) BY <1>1 DEF SpeechInv, OneJob, SpeechTypes
<1>4. NoMoved(answers) BY <1>3, NoneMoved
<1> QED BY <1>1, <1>2, <1>4 DEF SpeechInv, UrlTold

LEMMA PressingTest == ASSUME SpeechInv, Speech!PressTest PROVE SpeechInv'
<1>1. page \in Sections BY DEF SpeechInv, SpeechTypes
<1>2. Speech!Enabled /\ Speech!Start("test") /\ Speech!Page /\ Speech!TestSaved BY DEF Speech!PressTest
<1>3. CASE Speech!dirty
  <2> DEFINE c == Speech!saveServer("test")
  <2>1. c \in Calls /\ c.call = "server" BY <1>1, ServerCall
  <2>2. asked' = Append(asked, c) BY <1>2, <1>3 DEF Speech!TestSaved, Speech!Ask
  <2> HIDE DEF c
  <2> QED BY <1>2, <2>1, <2>2, Beginning
<1>4. CASE ~Speech!dirty
  <2> DEFINE c == [call |-> "test"]
  <2>1. c \in Calls /\ c.call = "test" BY DEF Calls
  <2>2. asked' = Append(asked, c) BY <1>2, <1>4 DEF Speech!TestSaved, Speech!Ask
  <2>3. ~(lost \/ ahead) => page.key = "none" /\ page.url = U BY <1>2, <1>4, Clean
  <2> HIDE DEF c
  <2> QED BY <1>2, <2>1, <2>2, <2>3, Beginning
<1> QED BY <1>3, <1>4

LEMMA ClearingKey == ASSUME SpeechInv, Speech!clearKey PROVE SpeechInv'
<1> DEFINE c == [call |-> "server", why |-> "clear", url |-> page.saved.url, change |-> "clear"]
<1>1. page.saved.url \in Urls BY DEF SpeechInv, SpeechTypes, Sections, Shown
<1>2. c \in Calls /\ c.call = "server" BY <1>1 DEF Calls
<1>3. Speech!Enabled /\ Speech!Start("clear") /\ Speech!Page /\ asked' = Append(asked, c)
  BY DEF Speech!clearKey, Speech!Ask
<1> HIDE DEF c
<1> QED BY <1>2, <1>3, Beginning

LEMMA TogglingMode == ASSUME SpeechInv, Speech!toggleMode PROVE SpeechInv'
<1> DEFINE c == [call |-> "mode", mode |-> ~page.saved.mode]
<1>1. /\ page \in Sections /\ UNCHANGED <<settings, key, secretary, claude, answers, test, sent, lost, ahead>>
      /\ asked \in Seq(Calls)
  BY DEF SpeechInv, SpeechTypes, Speech!toggleMode, Speech!Page
<1>2. page' = [page EXCEPT !.modeBusy = TRUE] /\ asked' = Append(asked, c) BY DEF Speech!toggleMode, Speech!Ask
<1>3. /\ page' \in Sections /\ page'.saved = page.saved /\ page'.busy = page.busy /\ page'.line = page.line
      /\ page'.key = page.key /\ page'.url = page.url /\ page'.open = page.open
  BY <1>1, <1>2 DEF Sections
<1>4. page.line # Speech!NoLine => page.busy = "none" BY DEF SpeechInv, TestTrue
<1>5. c \in Calls /\ c.call = "mode" /\ ~Work(c) BY <1>1 DEF Calls, Work, Sections, Shown
<1> HIDE DEF c
<1>6. NoTests(asked') <=> NoTests(asked) BY <1>1, <1>2, <1>5, CallAdded
<1> QED BY <1>1, <1>2, <1>3, <1>4, <1>5, <1>6, SectionActs

LEMMA Launching == ASSUME SpeechInv, Speech!Launch PROVE SpeechInv'
<1>1. /\ page' = Speech!Closed /\ asked' = <<>> /\ answers' = <<>> /\ test' = Speech!NoTest
      /\ lost' = (settings = Speech!Torn) /\ ahead' = FALSE /\ UNCHANGED <<settings, key, claude, sent>>
      /\ secretary' = IF Speech!loadSettings(settings).mode THEN Speech!checkClaude(TRUE) ELSE Speech!Unstarted
  BY DEF Speech!Launch
<1>2. /\ Speech!Closed \in Sections /\ ~Speech!Closed.open /\ ~Speech!Closed.saved.read
      /\ Speech!Closed.busy = "none" /\ Speech!Closed.line = Speech!NoLine
  BY TornReads, NoLineIs DEF Speech!Closed, Speech!Unread, Sections, Shown, Speech!Typed
<1>3. Speech!NoTest.key = Speech!NoKey /\ Speech!NoTest \in [step : {"none", "health", "speech"}, url : Urls,
                                                             key : Origins \cup {Speech!NoKey}]
  BY TornReads DEF Speech!NoTest
<1>4. SpeechTypes /\ Speech!loadSettings(settings).mode \in BOOLEAN BY DEF SpeechInv, SpeechTypes
<1>5. /\ secretary' \in [saved : BOOLEAN, on : BOOLEAN, found : BOOLEAN]
      /\ secretary'.saved = Speech!loadSettings(settings).mode
      /\ secretary'.on = (secretary'.saved /\ secretary'.found)
  <2>1. CASE Speech!loadSettings(settings).mode
    BY <1>1, <1>4, <2>1, ModeLooked DEF SpeechTypes
  <2>2. CASE ~Speech!loadSettings(settings).mode
    BY <1>1, <1>4, <2>2 DEF Speech!Unstarted
  <2> QED BY <2>1, <2>2
<1>6. Len(asked') = 0 /\ Len(answers') = 0 BY <1>1
<1>7. NoWork(asked') /\ FewWork(asked') /\ NoTests(asked') BY <1>6 DEF NoWork, FewWork, NoTests
<1>8. NoEnds(answers') /\ FewEnds(answers') /\ NoResults(answers') /\ ResultsOf(answers', U') /\ SinceMoved(answers', U')
      /\ AllTell(answers', U')
  BY <1>6 DEF NoEnds, FewEnds, NoResults, ResultsOf, SinceMoved, AllTell
<1>9. OneJob' BY <1>1, <1>2, <1>7, <1>8 DEF OneJob
<1>10. KeyAtHome' BY <1>1, <1>3 DEF SpeechInv, KeyAtHome, U
<1>11. ModeKept' BY <1>1, <1>5 DEF ModeKept
<1>12. ModeTold' BY <1>1, <1>2 DEF ModeTold
<1>13. UrlTold' BY <1>1, <1>2, <1>8 DEF UrlTold
<1>14. TestTrue' BY <1>1, <1>2, <1>7, <1>8 DEF TestTrue
<1>15. asked' \in Seq(Calls) /\ answers' \in Seq(SpeechAnswers) BY <1>1
<1>16. SpeechTypes' BY <1>1, <1>2, <1>3, <1>4, <1>5, <1>15 DEF SpeechTypes
<1> QED BY <1>9, <1>10, <1>11, <1>12, <1>13, <1>14, <1>16 DEF SpeechInv

LEMMA SpeechStarts == ASSUME Speech!Init PROVE SpeechInv
<1>1. /\ page = Speech!Closed /\ asked = <<>> /\ answers = <<>> /\ test = Speech!NoTest /\ lost = FALSE /\ ahead = FALSE
      /\ settings = Speech!Defaults /\ key = Speech!NoKey /\ claude = TRUE /\ secretary = Speech!Unstarted /\ sent = {}
  BY DEF Speech!Init
<1>2. /\ Speech!Closed \in Sections /\ ~Speech!Closed.open /\ ~Speech!Closed.saved.read
      /\ Speech!Closed.busy = "none" /\ Speech!Closed.line = Speech!NoLine
  BY TornReads, NoLineIs DEF Speech!Closed, Speech!Unread, Sections, Shown, Speech!Typed
<1>3. Speech!NoTest.key = Speech!NoKey /\ Speech!NoTest \in [step : {"none", "health", "speech"}, url : Urls,
                                                             key : Origins \cup {Speech!NoKey}]
  BY TornReads DEF Speech!NoTest
<1>4. Speech!loadSettings(settings) = Speech!Defaults /\ settings # Speech!Torn
      /\ Speech!Defaults \in [url : Urls, mode : BOOLEAN] /\ Speech!Defaults.mode = FALSE
  BY <1>1, TornReads, NotTorn DEF Speech!Defaults
<1>5. /\ secretary \in [saved : BOOLEAN, on : BOOLEAN, found : BOOLEAN]
      /\ secretary.saved = FALSE /\ secretary.on = FALSE
  BY <1>1 DEF Speech!Unstarted
<1>6. Len(asked) = 0 /\ Len(answers) = 0 BY <1>1
<1>7. NoWork(asked) /\ FewWork(asked) /\ NoTests(asked) BY <1>6 DEF NoWork, FewWork, NoTests
<1>8. NoEnds(answers) /\ FewEnds(answers) /\ NoResults(answers) /\ ResultsOf(answers, U) /\ SinceMoved(answers, U)
      /\ AllTell(answers, U)
  BY <1>6 DEF NoEnds, FewEnds, NoResults, ResultsOf, SinceMoved, AllTell
<1>9. OneJob BY <1>1, <1>2, <1>7, <1>8 DEF OneJob
<1>10. KeyAtHome BY <1>1, <1>3 DEF KeyAtHome
<1>11. ModeKept BY <1>1, <1>4, <1>5 DEF ModeKept
<1>12. ModeTold BY <1>1, <1>2 DEF ModeTold
<1>13. UrlTold BY <1>1, <1>2, <1>8 DEF UrlTold
<1>14. TestTrue BY <1>1, <1>2, <1>7, <1>8 DEF TestTrue
<1>15. asked \in Seq(Calls) /\ answers \in Seq(SpeechAnswers) BY <1>1
<1>16. "none" \in {"none", "health", "speech"} /\ key \in Origins \cup {Speech!NoKey} BY <1>1
<1>17. SpeechTypes BY <1>1, <1>2, <1>3, <1>4, <1>5, <1>15, <1>16 DEF SpeechTypes
<1> QED BY <1>9, <1>10, <1>11, <1>12, <1>13, <1>14, <1>17 DEF SpeechInv


(* A result on its way is the only end there is.                           *)
LEMMA ResultAlone ==
  ASSUME NEW s \in Seq(SpeechAnswers), FewEnds(s), ~NoResults(s) PROVE NoMoved(s)
<1>1. PICK i \in 1..Len(s) : s[i].type = "test" BY DEF NoResults
<1>2. Ends(s[i]) BY <1>1 DEF Ends
<1>3. ASSUME NEW j \in 1..Len(s), Moved(s[j]) PROVE FALSE
  <2>1. Ends(s[j]) /\ s[j].type = "settings" BY <1>3 DEF Moved, Ends
  <2>2. i = j BY <1>2, <2>1 DEF FewEnds
  <2> QED BY <1>1, <2>1, <2>2
<1> QED BY <1>3 DEF NoMoved

LEMMA ReceivingOther ==
  ASSUME SpeechInv, Speech!Receives, NEW answer, answer = Head(answers), answer.type # "settings"
  PROVE  SpeechInv'
<1>1. SpeechTypes /\ page \in Sections /\ asked \in Seq(Calls) /\ answers \in Seq(SpeechAnswers) /\ answers # <<>>
  BY DEF SpeechInv, SpeechTypes, Speech!Receives
<1>2. /\ page' = Speech!Settled(answer) /\ answers' = Tail(answers)
      /\ UNCHANGED <<settings, key, secretary, claude, test, sent, lost, ahead>>
      /\ IF Speech!GoesOn(answer)
         THEN asked' = Append(asked, IF answer.type = "settings" THEN [call |-> "test"] ELSE Speech!Get("again"))
         ELSE asked' = asked
  BY DEF Speech!Receives, Speech!Ask
<1>3. /\ answers' \in Seq(SpeechAnswers) /\ answer \in SpeechAnswers
      /\ FewEnds(answers) => FewEnds(answers') /\ (Ends(answer) => NoEnds(answers'))
      /\ NoEnds(answers) <=> NoEnds(answers') /\ ~Ends(answer)
      /\ NoMoved(answers) <=> NoMoved(answers') /\ ~Moved(answer)
      /\ NoEvents(answers) <=> NoEvents(answers') /\ answer.type # "mode-event"
      /\ NoResults(answers) <=> NoResults(answers') /\ answer.type # "test"
      /\ NoSettings(answers) <=> NoSettings(answers')
      /\ ResultsOf(answers, U) => ResultsOf(answers', U) /\ (answer.type = "test" => answer.url = U)
      /\ AllTell(answers, U) => AllTell(answers', U)
      /\ SinceMoved(answers, U) => SinceMoved(answers', U)
      /\ LastSays(answers, secretary.on) => LastSays(answers', secretary.on)
  BY <1>1, <1>2, AnswerTaken
<1>4. U' = U BY <1>2 DEF U
<1>5. KeyAtHome' /\ ModeKept' BY <1>2, <1>4 DEF SpeechInv, KeyAtHome, ModeKept
<1>6. ~Moved(answer) BY DEF Moved
<1>7. FewEnds(answers) /\ FewWork(asked) BY DEF SpeechInv, OneJob
<1>8. Ends(answer) => NoWork(asked) /\ test = Speech!NoTest /\ page.busy # "none" /\ page.line = Speech!NoLine
                      /\ NoEnds(answers') /\ NoTests(asked) /\ NoResults(answers')
  BY <1>1, <1>3, <1>7, NoneAsked, NoneMoved DEF SpeechInv, OneJob, TestTrue
<1>9. CASE answer.type = "mode-event"
  <2>1. page' = page BY <1>2, <1>9 DEF Speech!Settled
  <2>2. ~Ends(answer) BY <1>9 DEF Ends
  <2>3. CASE page.open
    <3> DEFINE c == Speech!Get("again")
    <3>1. asked' = Append(asked, c) BY <1>2, <1>9, <2>3 DEF Speech!GoesOn
    <3>2. c \in Calls /\ c.call = "get" /\ ~Work(c) BY DEF Speech!Get, Calls, Work
    <3> HIDE DEF c
    <3>3. /\ asked' \in Seq(Calls) /\ FewWork(asked') /\ (NoWork(asked') <=> NoWork(asked))
          /\ (NoTests(asked') <=> NoTests(asked)) /\ ~NoGets(asked')
      BY <1>1, <1>7, <3>1, <3>2, CallAdded
    <3>4. OneJob' BY <1>2, <1>3, <2>1, <2>2, <3>3 DEF SpeechInv, OneJob
    <3>5. ModeTold' BY <3>3 DEF ModeTold
    <3>6. UrlTold' BY <1>2, <1>3, <1>4, <1>6, <2>1 DEF SpeechInv, UrlTold
    <3>7. TestTrue' BY <1>2, <1>3, <1>4, <1>9, <2>1, <3>3 DEF SpeechInv, TestTrue
    <3>8. SpeechTypes' BY <1>1, <1>2, <1>3, <2>1, <3>3 DEF SpeechTypes
    <3> QED BY <1>5, <3>4, <3>5, <3>6, <3>7, <3>8 DEF SpeechInv
  <2>4. CASE ~page.open
    <3>1. asked' = asked BY <1>2, <1>9, <2>4 DEF Speech!GoesOn
    <3>4. OneJob' BY <1>2, <1>3, <2>1, <2>2, <3>1 DEF SpeechInv, OneJob
    <3>5. ModeTold' BY <2>1, <2>4 DEF ModeTold
    <3>6. UrlTold' BY <1>2, <1>3, <1>4, <1>6, <2>1 DEF SpeechInv, UrlTold
    <3>7. TestTrue' BY <1>2, <1>3, <1>4, <1>9, <2>1, <3>1 DEF SpeechInv, TestTrue
    <3>8. SpeechTypes' BY <1>1, <1>2, <1>3, <2>1, <3>1 DEF SpeechTypes
    <3> QED BY <1>5, <3>4, <3>5, <3>6, <3>7, <3>8 DEF SpeechInv
  <2> QED BY <2>3, <2>4
<1>10. CASE answer.type \in {"rejected", "test"}
  <2>1. asked' = asked BY <1>2, <1>10 DEF Speech!GoesOn
  <2>2. CASE answer.type = "rejected" /\ answer.why = "mode"
    <3>1. page' = [page EXCEPT !.modeBusy = FALSE] BY <1>2, <2>2 DEF Speech!Settled
    <3>2. /\ page' \in Sections /\ page'.saved = page.saved /\ page'.busy = page.busy /\ page'.line = page.line
          /\ page'.key = page.key /\ page'.url = page.url /\ page'.open = page.open
      BY <1>1, <3>1 DEF Sections
    <3>3. ~Ends(answer) BY <2>2 DEF Ends
    <3>4. OneJob' BY <1>2, <1>3, <2>1, <3>2, <3>3 DEF SpeechInv, OneJob
    <3>5. ModeTold' BY <1>2, <1>3, <2>1, <2>2, <3>2 DEF SpeechInv, ModeTold
    <3>6. UrlTold' BY <1>2, <1>3, <1>4, <1>6, <3>2 DEF SpeechInv, UrlTold
    <3>7. TestTrue' BY <1>2, <1>3, <1>4, <2>1, <2>2, <3>2 DEF SpeechInv, TestTrue
    <3>8. SpeechTypes' BY <1>1, <1>2, <1>3, <2>1, <3>2 DEF SpeechTypes
    <3> QED BY <1>5, <3>4, <3>5, <3>6, <3>7, <3>8 DEF SpeechInv
  <2>3. CASE answer.type = "rejected" /\ answer.why # "mode"
    <3>1. page' = [page EXCEPT !.busy = "none"] BY <1>2, <2>3 DEF Speech!Settled
    <3>2. /\ page' \in Sections /\ page'.saved = page.saved /\ page'.busy = "none" /\ page'.line = page.line
          /\ page'.key = page.key /\ page'.url = page.url /\ page'.open = page.open
      BY <1>1, <3>1 DEF Sections
    <3>3. Ends(answer) BY <1>3, <2>3, AnswerKinds DEF Ends
    <3>4. OneJob' BY <1>2, <1>3, <1>7, <1>8, <2>1, <3>2, <3>3 DEF OneJob
    <3>5. ModeTold' BY <1>2, <1>3, <2>1, <2>3, <3>2 DEF SpeechInv, ModeTold
    <3>6. UrlTold' BY <1>2, <1>3, <1>4, <1>6, <3>2 DEF SpeechInv, UrlTold
    <3>7. TestTrue' BY <1>2, <1>3, <1>4, <1>8, <2>1, <3>2, <3>3 DEF SpeechInv, TestTrue
    <3>8. SpeechTypes' BY <1>1, <1>2, <1>3, <2>1, <3>2 DEF SpeechTypes
    <3> QED BY <1>5, <3>4, <3>5, <3>6, <3>7, <3>8 DEF SpeechInv
  <2>4. CASE answer.type = "test"
    <3> DEFINE l == [result |-> answer.result, url |-> answer.url]
    <3>1. page' = [page EXCEPT !.busy = "none", !.line = l] BY <1>2, <2>4 DEF Speech!Settled
    <3>2. l \in [result : Lines, url : Urls] /\ l.url = answer.url BY <1>3, <2>4, AnswerKinds
    <3> HIDE DEF l
    <3>3. /\ page' \in Sections /\ page'.saved = page.saved /\ page'.busy = "none" /\ page'.line = l
          /\ page'.key = page.key /\ page'.url = page.url /\ page'.open = page.open
      BY <1>1, <3>1, <3>2 DEF Sections
    <3>4. Ends(answer) BY <2>4 DEF Ends
    <3>5. OneJob' BY <1>2, <1>3, <1>7, <1>8, <2>1, <3>3, <3>4 DEF OneJob
    <3>6. ModeTold' BY <1>2, <1>3, <2>1, <2>4, <3>3 DEF SpeechInv, ModeTold
    <3>7. UrlTold' BY <1>2, <1>3, <1>4, <1>6, <3>3 DEF SpeechInv, UrlTold
    <3>8. ~(lost \/ ahead) => page.key = "none" /\ page.url = U /\ answer.url = U BY <1>3, <2>4 DEF SpeechInv, TestTrue
    <3>9. TestTrue' BY <1>2, <1>3, <1>4, <1>8, <2>1, <3>2, <3>3, <3>4, <3>8 DEF SpeechInv, TestTrue
    <3>10. SpeechTypes' BY <1>1, <1>2, <1>3, <2>1, <3>3 DEF SpeechTypes
    <3> QED BY <1>5, <3>5, <3>6, <3>7, <3>9, <3>10 DEF SpeechInv
  <2> QED BY <1>10, <2>2, <2>3, <2>4
<1> QED BY <1>3, <1>9, <1>10, AnswerKinds

LEMMA ReceivingSettings ==
  ASSUME SpeechInv, Speech!Receives, NEW answer, answer = Head(answers), answer.type = "settings"
  PROVE  SpeechInv'
<1>1. SpeechTypes /\ page \in Sections /\ asked \in Seq(Calls) /\ answers \in Seq(SpeechAnswers) /\ answers # <<>>
  BY DEF SpeechInv, SpeechTypes, Speech!Receives
<1>2. /\ page' = Speech!Settled(answer) /\ answers' = Tail(answers)
      /\ UNCHANGED <<settings, key, secretary, claude, test, sent, lost, ahead>>
      /\ IF answer.why = "test" THEN asked' = Append(asked, [call |-> "test"]) ELSE asked' = asked
  BY DEF Speech!Receives, Speech!Ask, Speech!GoesOn
<1>3. /\ answers' \in Seq(SpeechAnswers) /\ answer \in SpeechAnswers
      /\ FewEnds(answers) => FewEnds(answers') /\ (Ends(answer) => NoEnds(answers'))
      /\ NoEnds(answers) <=> NoEnds(answers') /\ ~Ends(answer)
      /\ NoMoved(answers) <=> NoMoved(answers') /\ ~Moved(answer)
      /\ NoEvents(answers) <=> NoEvents(answers')
      /\ NoResults(answers) <=> NoResults(answers')
      /\ ResultsOf(answers, U) => ResultsOf(answers', U)
      /\ AllTell(answers, U) => AllTell(answers', U) /\ answer.now.url = U
      /\ SinceMoved(answers, U) => SinceMoved(answers', U) /\ (Moved(answer) => AllTell(answers', U) /\ answer.now.url = U)
      /\ LastSays(answers, secretary.on) => LastSays(answers', secretary.on)
                                            /\ (NoSettings(answers') => View(answer.now) = secretary.on)
  <2> DEFINE s == answers
             t == answers'
             a == answer
             u == U
             yes == secretary.on
  <2>1. /\ t \in Seq(SpeechAnswers) /\ a \in SpeechAnswers
        /\ FewEnds(s) => FewEnds(t) /\ (Ends(a) => NoEnds(t))
        /\ NoEnds(s) <=> (NoEnds(t) /\ ~Ends(a))
    BY <1>1, <1>2, AnswerTaken
  <2>2. /\ NoMoved(s) <=> (NoMoved(t) /\ ~Moved(a))
        /\ NoEvents(s) <=> (NoEvents(t) /\ a.type # "mode-event")
        /\ NoResults(s) <=> (NoResults(t) /\ a.type # "test")
    BY <1>1, <1>2, AnswerTaken
  <2>3. ResultsOf(s, u) => ResultsOf(t, u) /\ (a.type = "test" => a.url = u) BY <1>1, <1>2, AnswerTaken
  <2>4. AllTell(s, u) => AllTell(t, u) /\ (a.type = "settings" => a.now.url = u) BY <1>1, <1>2, AnswerTaken
  <2>5. SinceMoved(s, u) => SinceMoved(t, u) /\ (Moved(a) => AllTell(t, u) /\ a.now.url = u) BY <1>1, <1>2, AnswerTaken
  <2>6. LastSays(s, yes) => LastSays(t, yes) /\ (a.type = "settings" /\ NoSettings(t) => View(a.now) = yes)
    <3>1. \A x : LastSays(s, x) => LastSays(t, x) BY <1>1, <1>2, AnswerTaken
    <3>2. ASSUME NEW x, LastSays(s, x), a.type = "settings", NoSettings(t) PROVE View(a.now) = x
      BY <1>1, <1>2, <3>2, AnswerTaken
    <3> HIDE DEF yes
    <3> QED BY <3>1, <3>2
  <2> HIDE DEF u, yes
  <2>7. a.type = "settings" OBVIOUS
  <2> QED BY <2>1, <2>2, <2>3, <2>4, <2>5, <2>6, <2>7 DEF u, yes
<1>4. U' = U BY <1>2 DEF U
<1>5. KeyAtHome' /\ ModeKept' BY <1>2, <1>4 DEF SpeechInv, KeyAtHome, ModeKept
<1>6. FewEnds(answers) /\ FewWork(asked) BY DEF SpeechInv, OneJob
<1>7. Ends(answer) => NoWork(asked) /\ test = Speech!NoTest /\ page.busy # "none" /\ page.line = Speech!NoLine
                      /\ NoEnds(answers') /\ NoTests(asked) /\ NoResults(answers')
  BY <1>1, <1>3, <1>6, NoneAsked, NoneMoved DEF SpeechInv, OneJob, TestTrue
<1>8. answer.why \in Whys /\ answer.now \in Shown BY <1>3, AnswerKinds
<1>9. Ends(answer) = (answer.why \in {"save", "test", "clear"}) /\ Moved(answer) = (answer.why \in {"save", "test", "clear"})
  BY DEF Ends, Moved
<1>10. asked' \in Seq(Calls) /\ (NoGets(asked') <=> NoGets(asked)) /\ (answer.why # "test" => asked' = asked)
       /\ (answer.why = "test" => FewWork(asked'))
  <2>1. [call |-> "test"] \in Calls BY DEF Calls
  <2>2. CASE answer.why = "test"
    <3> DEFINE c == [call |-> "test"]
    <3>1. c.call = "test" /\ asked' = Append(asked, c) BY <1>2, <2>2
    <3>2. NoWork(asked) BY <1>7, <1>9, <2>2
    <3>3. c \in Calls /\ c.call # "get" BY <2>1, <3>1
    <3> HIDE DEF c
    <3>4. asked' \in Seq(Calls) /\ FewWork(asked') /\ (NoGets(asked') <=> NoGets(asked))
      BY <1>1, <1>6, <3>1, <3>2, <3>3, CallAdded
    <3> QED BY <2>2, <3>4
  <2>3. CASE answer.why # "test" BY <1>1, <1>2, <2>3
  <2> QED BY <2>2, <2>3
(* What the fields show of it. *)
<1>11. /\ page' \in Sections /\ page'.saved = answer.now /\ page'.open = page.open /\ page'.line = page.line
       /\ answer.why \in {"again", "mode"} => page'.url = page.url /\ page'.key = page.key /\ page'.busy = page.busy
       /\ answer.why \in {"open", "test"} => page'.url = answer.now.url /\ page'.key = "none" /\ page'.busy = page.busy
       /\ answer.why \in {"save", "clear"} => page'.busy = "none"
  <2>1. answer.now.url \in Urls /\ "none" \in Speech!Typed BY <1>8 DEF Shown, Speech!Typed
  <2>2. CASE answer.why \in {"again", "mode"}
    <3>1. page' = [page EXCEPT !.saved = answer.now] \/ page' = [page EXCEPT !.saved = answer.now, !.modeBusy = FALSE]
      BY <1>2, <2>2 DEF Speech!Settled, Speech!Applied
    <3> QED BY <1>1, <1>8, <2>2, <3>1 DEF Sections
  <2>3. CASE answer.why \in {"open", "test"}
    <3>1. page' = [page EXCEPT !.saved = answer.now, !.url = answer.now.url, !.key = "none"]
      BY <1>2, <2>3 DEF Speech!Settled, Speech!Applied, Speech!applySaved
    <3> QED BY <1>1, <1>8, <2>1, <2>3, <3>1 DEF Sections
  <2>4. CASE answer.why = "save"
    <3>1. page' = [[page EXCEPT !.saved = answer.now, !.url = answer.now.url, !.key = "none"] EXCEPT !.busy = "none"]
      BY <1>2, <2>4 DEF Speech!Settled, Speech!Applied, Speech!applySaved
    <3> QED BY <1>1, <1>8, <2>1, <2>4, <3>1 DEF Sections
  <2>5. CASE answer.why = "clear"
    <3>1. page' = [page EXCEPT !.saved = answer.now, !.key = "none", !.busy = "none"]
      BY <1>2, <2>5 DEF Speech!Settled, Speech!Applied
    <3> QED BY <1>1, <1>8, <2>1, <2>5, <3>1 DEF Sections
  <2> QED BY <1>8, <2>2, <2>3, <2>4, <2>5 DEF Whys
<1>12. OneJob'
  <2>1. CASE ~Ends(answer)
    <3>1. asked' = asked /\ page'.busy = page.busy BY <1>8, <1>9, <1>10, <1>11, <2>1 DEF Whys
    <3> QED BY <1>2, <1>3, <2>1, <3>1 DEF SpeechInv, OneJob
  <2>2. CASE Ends(answer)
    <3>1. FewWork(asked') BY <1>6, <1>10
    <3>2. page'.busy = "none" => NoWork(asked') BY <1>7, <1>8, <1>9, <1>10, <1>11, <2>2 DEF Whys
    <3> QED BY <1>2, <1>3, <1>6, <1>7, <2>2, <3>1, <3>2 DEF OneJob
  <2> QED BY <2>1, <2>2
<1>13. ModeTold' BY <1>2, <1>3, <1>10, <1>11 DEF SpeechInv, ModeTold
<1>14. UrlTold' BY <1>2, <1>3, <1>4, <1>11 DEF SpeechInv, UrlTold
<1>15. TestTrue'
  <2>1. page'.line # Speech!NoLine => page'.busy = "none"
    BY <1>7, <1>8, <1>9, <1>11 DEF SpeechInv, TestTrue, Whys
  <2> SUFFICES ASSUME ~(lost \/ ahead)
               PROVE  /\ ~NoTests(asked') \/ test # Speech!NoTest \/ ~NoResults(answers') \/ page'.line # Speech!NoLine =>
                            page'.key = "none" /\ page'.url = U
                      /\ test # Speech!NoTest => test.url = U
                      /\ ResultsOf(answers', U)
                      /\ page'.line # Speech!NoLine => page'.line.url = U
    BY <1>2, <1>4, <2>1 DEF TestTrue
  <2>2. ResultsOf(answers', U) /\ (test # Speech!NoTest => test.url = U)
        /\ (page'.line # Speech!NoLine => page'.line.url = U)
    BY <1>3, <1>11 DEF SpeechInv, TestTrue
  <2>3. CASE answer.why \in {"again", "mode"}
    <3>1. asked' = asked /\ page'.key = page.key /\ page'.url = page.url BY <1>10, <1>11, <2>3
    <3> QED BY <1>3, <1>11, <2>2, <3>1 DEF SpeechInv, TestTrue
  <2>4. CASE answer.why = "open"
    <3>1. asked' = asked /\ page'.key = "none" /\ page'.url = answer.now.url /\ ~Moved(answer) BY <1>9, <1>10, <1>11, <2>4
    <3>2. ASSUME ~NoTests(asked) \/ test # Speech!NoTest \/ ~NoResults(answers) \/ page.line # Speech!NoLine
          PROVE  NoMoved(answers)
      <4>1. ~NoTests(asked) \/ test # Speech!NoTest \/ page.line # Speech!NoLine => NoEnds(answers)
        BY <1>1, NoneAsked DEF SpeechInv, OneJob, TestTrue
      <4> QED BY <1>1, <1>6, <3>2, <4>1, NoneMoved, ResultAlone
    <3>3. NoMoved(answers) => answer.now.url = U BY <1>3 DEF SpeechInv, UrlTold
    <3> QED BY <1>3, <1>11, <2>2, <3>1, <3>2, <3>3
  <2>5. CASE answer.why \in {"save", "clear"}
    <3>1. /\ asked' = asked /\ NoTests(asked) /\ test = Speech!NoTest /\ NoResults(answers')
          /\ page'.line = Speech!NoLine
      BY <1>7, <1>9, <1>10, <1>11, <2>5
    <3> QED BY <2>2, <3>1
  <2>6. CASE answer.why = "test"
    <3>1. page'.key = "none" /\ page'.url = answer.now.url /\ Moved(answer) BY <1>9, <1>11, <2>6
    <3>2. answer.now.url = U BY <1>3, <3>1 DEF SpeechInv, UrlTold
    <3> QED BY <2>2, <3>1, <3>2
  <2> QED BY <1>8, <2>3, <2>4, <2>5, <2>6 DEF Whys
<1>16. SpeechTypes' BY <1>1, <1>2, <1>3, <1>10, <1>11 DEF SpeechTypes
<1> QED BY <1>5, <1>12, <1>13, <1>14, <1>15, <1>16 DEF SpeechInv

-----------------------------------------------------------------------------

LEMMA SpeechKept == ASSUME SpeechAssumption, SpeechInv, Speech!Next PROVE SpeechInv'
<1>1. ASSUME Speech!Receives PROVE SpeechInv'
  BY <1>1, ReceivingSettings, ReceivingOther
<1> QED BY <1>1, HandlingCall, TestGoesOn, Speaking, PhoneSwitching, BriefLooking, ClaudeMoves, Toggling, LookingAnew,
           Editing, Saving, PressingTest, ClearingKey, TogglingMode, Launching DEF Speech!Next

LEMMA SpeechStill == ASSUME SpeechInv, UNCHANGED Speech!vars PROVE SpeechInv'
<1>1. UNCHANGED <<settings, key, secretary, claude, page, asked, answers, test, sent, lost, ahead>> BY DEF Speech!vars
<1> QED BY <1>1 DEF SpeechInv, SpeechTypes, OneJob, KeyAtHome, ModeKept, ModeTold, UrlTold, TestTrue, U

LEMMA SpeechTrue == ASSUME SpeechInv PROVE Speech!KeyStaysHome
<1>1. \A request \in sent : request.key \in {Speech!NoKey, request.to} BY DEF SpeechInv, KeyAtHome
<1>2. ASSUME page.line # Speech!NoLine, ~(lost \/ ahead)
      PROVE  page.key = "none" /\ Speech!normalizeServerUrl(page.url) = Speech!normalizeServerUrl(page.line.url)
  BY <1>2 DEF SpeechInv, TestTrue
<1>3. ASSUME page.open, page.saved.read, asked = <<>>, answers = <<>>, ~lost PROVE Speech!modeOn = secretary.on
  <2>1. Len(asked) = 0 /\ Len(answers) = 0 BY <1>3
  <2>2. NoGets(asked) /\ NoEvents(answers) /\ NoSettings(answers) BY <2>1 DEF NoGets, NoEvents, NoSettings
  <2>3. View(page.saved) = secretary.on BY <1>3, <2>2 DEF SpeechInv, ModeTold
  <2> QED BY <1>3, <2>3 DEF View, Speech!modeOn, Speech!claudeMissing
<1> QED BY <1>1, <1>2, <1>3 DEF Speech!KeyStaysHome

(* A key goes to no server but the one it was typed for, whatever save failed or was cut off;    *)
(* and the section says what is so, unless a save left the file unreadable (`lost`) or, for a    *)
(* test's result, one that failed had moved the address, `ahead` (setSpeechServer, saveSettings; *)
(* SecretarySection.tsx: test, save, toggleMode; speech.ts: testServer, synthesize).             *)
THEOREM KeysStayHome == ASSUME SpeechAssumption PROVE Speech!Spec => []Speech!KeyStaysHome
<1>1. Speech!Init => SpeechInv BY SpeechStarts
<1>2. SpeechInv /\ [Speech!Next]_Speech!vars => SpeechInv' BY SpeechKept, SpeechStill
<1>3. SpeechInv => Speech!KeyStaysHome BY SpeechTrue
<1> QED BY <1>1, <1>2, <1>3, PTL DEF Speech!Spec

-----------------------------------------------------------------------------
(* A drop on the window, from its release to the end of its copy (DropFlow) *)

CONSTANTS Contacts, First, Folders, NoFolder, MAX_NOTICES, MaxDrops
VARIABLES selected, default, gone, busy, keys, holds, prompt, drawn, drops, notices, copies, slipped, stolen

DropBox == INSTANCE DropFlow WITH None <- NoFolder

\* The contact shown at the start is one.
FlowAssumption == First \in Contacts /\ MAX_NOTICES \in Nat

Awaiting == {"focus", "folder", "items", "picker"}
Ended == {"default", "copy", "settled", "cancelled", "given-up"}
Stages == Awaiting \cup {"prompt", "picking"} \cup Ended
Sayings == {"none", "copying", "copied", "error", "past-limit", "only-finder"}
Places == Folders \cup {NoFolder}
Released == [stage : Stages, kind : DropBox!Kinds, on : Contacts, focusing : BOOLEAN, past : BOOLEAN,
             folder : Places, asDefault : BOOLEAN, slow : BOOLEAN, said : Sayings]
Messages == [drop : Nat, report : Sayings]

FlowTypes ==
  /\ selected \in Contacts /\ default \in [Contacts -> Places]
  /\ prompt \in [drop : Nat, folder : Places, picking : BOOLEAN]

\* While no drop slipped in: the keyboard is held for the one drop that asks; the next is
\* ignored while it is looked up or picked for, and its dialog is the one there is.
OneAsks ==
  ~slipped =>
    /\ holds = {n \in DOMAIN drops : drops[n].stage \in DropBox!Asks} /\ holds \subseteq {keys}
    /\ \A n \in DOMAIN drops :
         /\ drops[n].stage \in Awaiting => busy
         /\ drops[n].stage \in {"prompt", "picking"} => prompt.drop = n

\* The dialog is that of a drop that waits for it, or for the picker in front of it.
PromptOK ==
  prompt # DropBox!NoPrompt =>
    /\ prompt.drop \in DOMAIN drops
    /\ drops[prompt.drop].stage = IF prompt.picking THEN "picking" ELSE "prompt"

\* What is said of a drop follows from where it is; and it was given up after its deadline.
WellSaid(d) ==
  /\ d.stage \in DropBox!Asks => d.said = "none"
  /\ d.slow => d.stage \in DropBox!Copying
  /\ d.stage \in {"settled", "given-up"} => d.said \notin {"none", "copying"}
  /\ d.stage = "cancelled" => d.said = "none"
  /\ d.stage = "given-up" => d.past
SaidOK == drops \in Seq(Released) /\ \A n \in DOMAIN drops : WellSaid(drops[n])

\* Only a drop that got that far was copied, once, to where it was dropped.
CopiesOK ==
  \A x \in copies :
    /\ x.drop \in DOMAIN drops
    /\ x.contact = drops[x.drop].on /\ drops[x.drop].stage \in {"copy", "settled"}
    /\ \A y \in copies : y.drop = x.drop => y = x

\* A message is what is said of a drop, and there are no two of one.
SaysOf(ms, ds) ==
  /\ ms \in Seq(Messages)
  /\ \A i \in DOMAIN ms :
       /\ ms[i].drop \in DOMAIN ds /\ ms[i].report = ds[ms[i].drop].said
       /\ \A j \in DOMAIN ms : ms[j].drop = ms[i].drop => j = i

FlowInv ==
  /\ FlowTypes /\ OneAsks /\ PromptOK /\ SaidOK /\ CopiesOK /\ SaysOf(notices, drops) /\ ~stolen

LEMMA FlowStarts == ASSUME FlowAssumption, DropBox!Init PROVE FlowInv
<1>1. /\ selected = First /\ prompt = DropBox!NoPrompt /\ drops = <<>> /\ notices = <<>> /\ copies = {}
      /\ ~slipped /\ ~stolen /\ holds = {}
  BY DEF DropBox!Init
<1>2. default \in [Contacts -> Places] BY DEF DropBox!Init, Places
<1>3. FlowTypes BY <1>1, <1>2 DEF FlowAssumption, FlowTypes, DropBox!NoPrompt, Places
<1>4. DOMAIN drops = {} /\ drops \in Seq(Released) /\ notices \in Seq(Messages) /\ DOMAIN notices = {} BY <1>1
<1> QED BY <1>1, <1>3, <1>4 DEF FlowInv, OneAsks, PromptOK, SaidOK, CopiesOK, SaysOf

(* A drop moves on, and no other.                                          *)
LEMMA DropMoves ==
  ASSUME drops \in Seq(Released), NEW n \in DOMAIN drops, NEW r \in Released, NEW ds,
         ds = [drops EXCEPT ![n] = r]
  PROVE  /\ ds \in Seq(Released) /\ DOMAIN ds = DOMAIN drops /\ ds[n] = r
         /\ \A m \in DOMAIN drops : m # n => ds[m] = drops[m]
OBVIOUS

(* One message fewer.                                                      *)
LEMMA OneDismissed ==
  ASSUME SaysOf(notices, drops), NEW i \in DOMAIN notices
  PROVE  SaysOf(DropBox!RemoveAt(notices, i), drops)
<1> DEFINE N == Len(notices)
           a == SubSeq(notices, 1, i - 1)
           b == SubSeq(notices, i + 1, N)
           ms == DropBox!RemoveAt(notices, i)
<1>1. notices \in Seq(Messages) /\ N \in Nat /\ i \in 1..N BY DEF SaysOf
<1>2. a \in Seq(Messages) /\ Len(a) = i - 1 /\ \A k \in 1..(i - 1) : a[k] = notices[k]
  BY <1>1, SubSeqProperties
<1>3. b \in Seq(Messages) /\ Len(b) = N - i /\ \A k \in 1..(N - i) : b[k] = notices[i + k]
  BY <1>1, SubSeqProperties
<1>4. ms = a \o b BY DEF DropBox!RemoveAt
<1> HIDE DEF a, b, ms
<1>5. ms \in Seq(Messages) /\ Len(ms) = N - 1 BY <1>1, <1>2, <1>3, <1>4
<1>6. \A k \in 1..(N - 1) : ms[k] = IF k < i THEN notices[k] ELSE notices[k + 1]
  BY <1>1, <1>2, <1>3, <1>4
<1> DEFINE At(k) == IF k < i THEN k ELSE k + 1
<1>7. \A k \in DOMAIN ms : At(k) \in DOMAIN notices /\ ms[k] = notices[At(k)] BY <1>1, <1>5, <1>6
<1>8. \A k, m \in DOMAIN ms : At(k) = At(m) => k = m BY <1>1, <1>5
<1> HIDE DEF At
<1> QED BY <1>5, <1>7, <1>8 DEF SaysOf, ms

(* What is said of a drop takes the place of what was said of it, or of the oldest.  *)
LEMMA OneSaid ==
  ASSUME FlowAssumption, SaysOf(notices, drops), NEW n \in Nat, NEW report \in Sayings, NEW ds,
         n \in DOMAIN ds, ds[n].said = report,
         \A m \in DOMAIN drops : m \in DOMAIN ds /\ (m # n => ds[m].said = drops[m].said)
  PROVE  SaysOf(DropBox!withDropReport(n, report), ds)
<1> DEFINE new == [drop |-> n, report |-> report]
           ms == DropBox!withDropReport(n, report)
<1>1. notices \in Seq(Messages) /\ new \in Messages /\ new.drop = n /\ new.report = report
  BY DEF SaysOf, Messages
<1> HIDE DEF new
<1>2. CASE \E i \in DOMAIN notices : notices[i].drop = n
  <2>1. ms = [i \in DOMAIN notices |-> IF notices[i].drop = n THEN new ELSE notices[i]]
    BY <1>2 DEF DropBox!withDropReport, new
  <2> HIDE DEF ms
  <2>2. DOMAIN ms = DOMAIN notices
        /\ \A i \in DOMAIN ms : ms[i] = (IF notices[i].drop = n THEN new ELSE notices[i])
    BY <2>1
  <2>3. ms \in Seq(Messages) BY <1>1, <2>1
  <2>4. \A i \in DOMAIN ms : ms[i].drop = notices[i].drop BY <1>1, <2>2
  <2>5. ASSUME NEW i \in DOMAIN ms PROVE ms[i].drop \in DOMAIN ds /\ ms[i].report = ds[ms[i].drop].said
    BY <1>1, <2>2 DEF SaysOf
  <2> QED BY <2>2, <2>3, <2>4, <2>5 DEF SaysOf, ms
<1>3. CASE \A i \in DOMAIN notices : notices[i].drop # n
  <2> DEFINE all == Append(notices, new)
             M == Len(all)
             a == IF M > MAX_NOTICES THEN M - MAX_NOTICES + 1 ELSE 1
  <2>1. ms = SubSeq(all, a, M) BY <1>3 DEF DropBox!withDropReport, new
  <2>2. all \in Seq(Messages) /\ M = Len(notices) + 1 /\ M \in Nat /\ all[M] = new
        /\ \A k \in 1..(M - 1) : all[k] = notices[k]
    BY <1>1
  <2> HIDE DEF all
  <2>3. a \in Nat /\ a >= 1 /\ a <= M + 1 BY <2>2 DEF FlowAssumption
  <2> HIDE DEF M, a, ms
  <2>4. /\ ms \in Seq(Messages) /\ DOMAIN ms = 1..(M + 1 - a)
        /\ \A k \in DOMAIN ms : ms[k] = all[a + k - 1] /\ a + k - 1 \in 1..M
    <3>1. \A k \in a..M : all[k] \in Messages BY <2>2, <2>3 DEF M
    <3>2. ms \in Seq(Messages) /\ Len(ms) = (IF a <= M THEN M - a + 1 ELSE 0)
          /\ \A k \in 1..(M - a + 1) : ms[k] = all[a + k - 1]
      BY <2>1, <2>2, <2>3, <3>1, SubSeqProperties
    <3> QED BY <2>2, <2>3, <3>2
  <2>5. \A k \in 1..M : /\ all[k].drop \in DOMAIN ds /\ all[k].report = ds[all[k].drop].said
                        /\ \A m \in 1..M : all[m].drop = all[k].drop => m = k
    <3>1. \A k \in 1..(M - 1) : k \in DOMAIN notices BY <1>1, <2>2
    <3>2. \A k \in 1..M : k = M \/ k \in 1..(M - 1) BY <2>2
    <3>3. \A k \in 1..(M - 1) : /\ all[k].drop \in DOMAIN ds /\ all[k].report = ds[all[k].drop].said /\ all[k].drop # n
                                /\ \A m \in 1..(M - 1) : all[m].drop = all[k].drop => m = k
      BY <1>3, <2>2, <3>1 DEF SaysOf
    <3>4. all[M].drop = n /\ all[M].report = report BY <1>1, <2>2
    <3> QED BY <3>2, <3>3, <3>4
  <2>6. \A k, m \in DOMAIN ms : a + k - 1 = a + m - 1 => k = m BY <2>2, <2>3, <2>4
  <2> QED BY <2>4, <2>5, <2>6 DEF SaysOf, ms
<1> QED BY <1>2, <1>3

(* The drop n has moved on, to r. *)
MovesOn(n, r) == r \in Released /\ r.on = drops[n].on /\ drops' = [drops EXCEPT ![n] = r]

\* What was said and copied of it goes with that.
Follows(n, r) ==
  /\ WellSaid(r)
  /\ \/ notices' = notices /\ r.said = drops[n].said
     \/ notices' = DropBox!withDropReport(n, r.said)
  /\ \/ copies' = copies /\ (drops[n].stage \in {"copy", "settled"} => r.stage \in {"copy", "settled"})
     \/ /\ drops[n].stage \notin {"copy", "settled"} /\ r.stage = "copy"
        /\ \E folder \in Places :
             copies' = copies \cup {[drop |-> n, contact |-> drops[n].on, folder |-> folder]}

LEMMA AllFollows ==
  ASSUME FlowAssumption, FlowInv, NEW n \in DOMAIN drops, NEW r, MovesOn(n, r), Follows(n, r)
  PROVE  SaidOK' /\ CopiesOK' /\ SaysOf(notices, drops)'
<1>1. /\ drops' \in Seq(Released) /\ DOMAIN drops' = DOMAIN drops /\ drops'[n] = r
      /\ \A m \in DOMAIN drops : m # n => drops'[m] = drops[m]
  BY DropMoves DEF FlowInv, SaidOK, MovesOn
<1>2. n \in Nat /\ r.said \in Sayings BY DEF FlowInv, SaidOK, MovesOn, Released
<1>3. SaidOK' BY <1>1 DEF FlowInv, SaidOK, Follows
<1>4. \A x \in copies : x.drop = n => drops[n].stage \in {"copy", "settled"} BY DEF FlowInv, CopiesOK
<1>5. \A m \in DOMAIN drops : drops'[m].on = drops[m].on BY <1>1 DEF MovesOn
<1>6. CopiesOK'
  <2>1. CASE copies' = copies /\ (drops[n].stage \in {"copy", "settled"} => r.stage \in {"copy", "settled"})
    BY <1>1, <1>5, <2>1 DEF FlowInv, CopiesOK
  <2>2. ASSUME NEW folder, copies' = copies \cup {[drop |-> n, contact |-> drops[n].on, folder |-> folder]},
               drops[n].stage \notin {"copy", "settled"}, r.stage = "copy"
        PROVE  CopiesOK'
    <3> DEFINE z == [drop |-> n, contact |-> drops[n].on, folder |-> folder]
    <3>1. z.drop = n /\ z.contact = drops[n].on /\ copies' = copies \cup {z} BY <2>2
    <3> HIDE DEF z
    <3> QED BY <1>1, <1>4, <1>5, <2>2, <3>1 DEF FlowInv, CopiesOK
  <2> QED BY <2>1, <2>2 DEF Follows
<1>7. SaysOf(notices', drops')
  <2>1. CASE notices' = notices /\ r.said = drops[n].said
    <3>1. \A m \in DOMAIN drops : drops'[m].said = drops[m].said BY <1>1, <2>1
    <3> QED BY <1>1, <2>1, <3>1 DEF FlowInv, SaysOf
  <2>2. CASE notices' = DropBox!withDropReport(n, r.said)
    BY <1>1, <1>2, <2>2, OneSaid DEF FlowInv
  <2> QED BY <2>1, <2>2 DEF Follows
<1> QED BY <1>3, <1>6, <1>7

(* It asks as before, or it asked for nothing.                             *)
LEMMA AsksOn ==
  ASSUME FlowInv, NEW n \in DOMAIN drops, NEW r, MovesOn(n, r), UNCHANGED <<busy, keys, holds, prompt, slipped>>,
         \/ r.stage = drops[n].stage
         \/ r.stage \in Awaiting /\ drops[n].stage \in Awaiting
         \/ r.stage \in Ended /\ drops[n].stage \in Ended
  PROVE  OneAsks' /\ PromptOK'
<1>1. /\ DOMAIN drops' = DOMAIN drops /\ drops'[n] = r
      /\ \A m \in DOMAIN drops : m # n => drops'[m] = drops[m]
  BY DropMoves DEF FlowInv, SaidOK, MovesOn
<1>2. \A m \in DOMAIN drops : drops'[m].stage \in DropBox!Asks <=> drops[m].stage \in DropBox!Asks
  BY <1>1 DEF Awaiting, Ended, DropBox!Asks, DropBox!Lookups
<1>3. {m \in DOMAIN drops' : drops'[m].stage \in DropBox!Asks} = {m \in DOMAIN drops : drops[m].stage \in DropBox!Asks}
  BY <1>1, <1>2
<1>4. \A m \in DOMAIN drops : /\ drops'[m].stage \in Awaiting <=> drops[m].stage \in Awaiting
                              /\ drops'[m].stage \in {"prompt", "picking"} => drops'[m].stage = drops[m].stage
                              /\ drops[m].stage \in {"prompt", "picking"} => drops'[m].stage = drops[m].stage
  BY <1>1 DEF Awaiting, Ended
<1>5. OneAsks' BY <1>1, <1>3, <1>4 DEF FlowInv, OneAsks
<1>6. PromptOK' BY <1>1, <1>4 DEF FlowInv, PromptOK, DropBox!NoPrompt
<1> QED BY <1>5, <1>6

(* It asks no more.                                                        *)
LEMMA AsksNoMore ==
  ASSUME FlowInv, NEW n \in DOMAIN drops, NEW r, MovesOn(n, r), r.stage \in Ended, drops[n].stage \in DropBox!Asks,
         DropBox!returnDropKeys, slipped' = slipped,
         (drops[n].stage \in Awaiting /\ prompt' = prompt) \/ prompt' = DropBox!NoPrompt
  PROVE  OneAsks' /\ PromptOK'
<1>1. /\ DOMAIN drops' = DOMAIN drops /\ drops'[n] = r
      /\ \A m \in DOMAIN drops : m # n => drops'[m] = drops[m]
  BY DropMoves DEF FlowInv, SaidOK, MovesOn
<1>2. OneAsks'
  <2> SUFFICES ASSUME ~slipped PROVE OneAsks' BY DEF OneAsks
  <2>1. n = keys /\ \A m \in DOMAIN drops : drops[m].stage \in DropBox!Asks => m = n
    BY DEF FlowInv, OneAsks
  <2>2. holds' = {} BY <2>1 DEF FlowInv, OneAsks, DropBox!returnDropKeys
  <2>3. \A m \in DOMAIN drops' : drops'[m].stage \notin DropBox!Asks
    BY <1>1, <2>1 DEF Ended, DropBox!Asks, DropBox!Lookups
  <2>4. \A m \in DOMAIN drops' : drops'[m].stage \notin Awaiting \cup {"prompt", "picking"}
    BY <2>3 DEF Awaiting, DropBox!Asks, DropBox!Lookups
  <2> QED BY <2>2, <2>3, <2>4 DEF OneAsks
<1>3. PromptOK'
  <2>1. CASE prompt' = DropBox!NoPrompt BY <2>1 DEF PromptOK, DropBox!NoPrompt
  <2>2. CASE drops[n].stage \in Awaiting /\ prompt' = prompt
    BY <1>1, <2>2 DEF FlowInv, PromptOK, Awaiting, DropBox!NoPrompt
  <2> QED BY <2>1, <2>2
<1> QED BY <1>2, <1>3

(* The ways it moves on.                                                   *)
LEMMA GoesTo ==
  ASSUME FlowInv, NEW n \in DOMAIN drops, NEW stage \in Stages, DropBox!To(n, stage)
  PROVE  \E r : /\ MovesOn(n, r) /\ r = [drops[n] EXCEPT !.stage = stage] /\ notices' = notices
                /\ r.stage = stage /\ r.said = drops[n].said /\ r.slow = drops[n].slow /\ r.past = drops[n].past
<1> DEFINE r == [drops[n] EXCEPT !.stage = stage]
<1>1. drops \in Seq(Released) /\ drops[n] \in Released BY DEF FlowInv, SaidOK
<1>2. r \in Released BY <1>1 DEF Released
<1>3. r.stage = stage /\ r.said = drops[n].said /\ r.slow = drops[n].slow /\ r.past = drops[n].past /\ r.on = drops[n].on
  BY <1>1 DEF Released
<1>4. drops' = [drops EXCEPT ![n] = r] /\ notices' = notices BY DEF DropBox!To
<1> HIDE DEF r
<1> QED BY <1>2, <1>3, <1>4 DEF MovesOn, r

ReportedAs(n, r, stage, report) ==
  /\ MovesOn(n, r) /\ notices' = DropBox!withDropReport(n, r.said)
  /\ r.stage = stage /\ r.said = report /\ ~r.slow /\ r.past = drops[n].past
LEMMA SaysSo ==
  ASSUME FlowInv, NEW n \in DOMAIN drops, NEW stage \in Stages, NEW report \in Sayings,
         DropBox!reportDrop(n, stage, report)
  PROVE  \E r : ReportedAs(n, r, stage, report)
<1> DEFINE r == [drops[n] EXCEPT !.stage = stage, !.said = report, !.slow = FALSE]
<1>1. drops \in Seq(Released) /\ drops[n] \in Released BY DEF FlowInv, SaidOK
<1>2. r \in Released BY <1>1 DEF Released
<1>3. r.stage = stage /\ r.said = report /\ r.slow = FALSE /\ r.past = drops[n].past /\ r.on = drops[n].on
  BY <1>1 DEF Released
<1>4. drops' = [drops EXCEPT ![n] = r] /\ notices' = DropBox!withDropReport(n, report)
  BY DEF DropBox!reportDrop
<1> HIDE DEF r
<1> QED BY <1>2, <1>3, <1>4 DEF MovesOn, ReportedAs

LEMMA AsksCopy ==
  ASSUME FlowInv, NEW n \in DOMAIN drops, NEW folder \in Places, NEW asDefault \in BOOLEAN,
         DropBox!copyDrop(n, folder, asDefault), drops[n].stage \in DropBox!Asks
  PROVE  \E r : MovesOn(n, r) /\ Follows(n, r) /\ r.stage \in Ended
<1> DEFINE s == IF asDefault THEN "default" ELSE "copy"
           r == [drops[n] EXCEPT !.stage = s, !.folder = folder, !.asDefault = asDefault, !.slow = TRUE]
<1>1. drops \in Seq(Released) /\ drops[n] \in Released /\ WellSaid(drops[n]) BY DEF FlowInv, SaidOK
<1>2. s \in {"default", "copy"} /\ s \in Stages /\ s \in Ended BY DEF Stages, Ended
<1>3. notices' = notices
      /\ \/ s = "default" /\ copies' = copies
         \/ s = "copy" /\ copies' = copies \cup {[drop |-> n, contact |-> drops[n].on, folder |-> folder]}
  BY DEF DropBox!copyDrop, DropBox!copyDropped, DropBox!Target
<1>4. drops' = [drops EXCEPT ![n].stage = s, ![n].folder = folder, ![n].asDefault = asDefault, ![n].slow = TRUE]
  BY DEF DropBox!copyDrop
<1>5. drops' = [drops EXCEPT ![n] = r] BY <1>4
<1> HIDE DEF s
<1>6. r \in Released BY <1>1, <1>2 DEF Released
<1>7. r.stage = s /\ r.said = drops[n].said /\ r.slow = TRUE /\ r.past = drops[n].past /\ r.on = drops[n].on
  BY <1>1 DEF Released
<1> HIDE DEF r
<1>8. drops[n].stage \notin {"copy", "settled"} /\ drops[n].said = "none"
  BY <1>1 DEF WellSaid, DropBox!Asks, DropBox!Lookups
<1>9. WellSaid(r) BY <1>2, <1>7, <1>8 DEF WellSaid, DropBox!Asks, DropBox!Lookups, DropBox!Copying
<1>10. Follows(n, r) BY <1>3, <1>7, <1>8, <1>9 DEF Follows
<1> QED BY <1>2, <1>5, <1>6, <1>7, <1>10 DEF MovesOn

(* The steps of a drop that leave what it asks for, or that end it.        *)
LEMMA FlowStaysFor ==
  ASSUME FlowAssumption, FlowInv, NEW n \in DOMAIN drops, NEW r, MovesOn(n, r), Follows(n, r),
         UNCHANGED <<selected, busy, keys, holds, prompt, slipped>>, stolen' = stolen \/ ~stolen',
         default' \in [Contacts -> Places],
         \/ r.stage = drops[n].stage
         \/ r.stage \in Awaiting /\ drops[n].stage \in Awaiting
         \/ r.stage \in Ended /\ drops[n].stage \in Ended
  PROVE  FlowInv'
<1>1. SaidOK' /\ CopiesOK' /\ SaysOf(notices, drops)' BY AllFollows
<1>2. OneAsks' /\ PromptOK' BY AsksOn
<1>3. FlowTypes' BY DEF FlowInv, FlowTypes
<1> QED BY <1>1, <1>2, <1>3 DEF FlowInv

LEMMA FlowEndsFor ==
  ASSUME FlowAssumption, FlowInv, NEW n \in DOMAIN drops, NEW r, MovesOn(n, r), Follows(n, r),
         UNCHANGED <<selected, default, slipped, stolen>>, r.stage \in Ended, drops[n].stage \in DropBox!Asks,
         DropBox!returnDropKeys, (drops[n].stage \in Awaiting /\ prompt' = prompt) \/ prompt' = DropBox!NoPrompt
  PROVE  FlowInv'
<1>1. SaidOK' /\ CopiesOK' /\ SaysOf(notices, drops)' BY AllFollows
<1>2. OneAsks' /\ PromptOK' BY AsksNoMore
<1>3. DropBox!NoPrompt \in [drop : Nat, folder : Places, picking : BOOLEAN] BY DEF DropBox!NoPrompt, Places
<1>4. FlowTypes' BY <1>3 DEF FlowInv, FlowTypes
<1> QED BY <1>1, <1>2, <1>4 DEF FlowInv

(* The copy, and what is said of it. *)
LEMMA SavingDefault ==
  ASSUME FlowAssumption, FlowInv, NEW n \in DOMAIN drops, NEW ok \in BOOLEAN, DropBox!DefaultSaved(n, ok)
  PROVE  FlowInv'
<1>1. drops[n] \in Released /\ drops[n].stage = "default" /\ WellSaid(drops[n])
      /\ drops[n].on \in Contacts /\ drops[n].folder \in Places
  <2>1. drops[n] \in Released /\ WellSaid(drops[n]) BY DEF FlowInv, SaidOK
  <2> QED BY <2>1 DEF DropBox!DefaultSaved, Released
<1>2. UNCHANGED <<selected, busy, keys, holds, prompt, slipped, stolen>>
  BY DEF DropBox!DefaultSaved, DropBox!asking
<1>3. "copy" \in Stages /\ "settled" \in Stages /\ "error" \in Sayings BY DEF Stages, Ended, Sayings
<1>4. CASE ok
  <2>1. default' = [default EXCEPT ![drops[n].on] = drops[n].folder] /\ DropBox!To(n, "copy")
        /\ copies' = copies \cup {[drop |-> n, contact |-> drops[n].on, folder |-> drops[n].folder]}
    BY <1>4 DEF DropBox!DefaultSaved, DropBox!Target, DropBox!copyDropped
  <2>2. default' \in [Contacts -> Places] BY <1>1, <2>1 DEF FlowInv, FlowTypes
  <2>3. PICK r : /\ MovesOn(n, r) /\ notices' = notices /\ r.stage = "copy" /\ r.said = drops[n].said
                 /\ r.slow = drops[n].slow /\ r.past = drops[n].past
    BY <1>3, <2>1, GoesTo
  <2>4. WellSaid(r) BY <2>3 DEF WellSaid, DropBox!Asks, DropBox!Lookups, DropBox!Copying
  <2>5. Follows(n, r) BY <1>1, <2>1, <2>3, <2>4 DEF Follows
  <2> QED BY <1>1, <1>2, <2>2, <2>3, <2>5, FlowStaysFor DEF Ended
<1>5. CASE ~ok
  <2>1. DropBox!reportDrop(n, "settled", "error") /\ UNCHANGED <<default, copies>>
    BY <1>5 DEF DropBox!DefaultSaved
  <2>2. PICK r : ReportedAs(n, r, "settled", "error") BY <1>3, <2>1, SaysSo
  <2>3. WellSaid(r) BY <2>2 DEF ReportedAs, WellSaid, DropBox!Asks, DropBox!Lookups
  <2>4. MovesOn(n, r) /\ r.stage = "settled" /\ Follows(n, r) BY <2>1, <2>2, <2>3 DEF ReportedAs, Follows
  <2>5. default' \in [Contacts -> Places] BY <2>1 DEF FlowInv, FlowTypes
  <2> QED BY <1>1, <1>2, <2>2, <2>4, <2>5, FlowStaysFor DEF Ended
<1> QED BY <1>4, <1>5

LEMMA CopyEnding ==
  ASSUME FlowAssumption, FlowInv, NEW n \in DOMAIN drops, NEW ok \in BOOLEAN, DropBox!Copied(n, ok)
  PROVE  FlowInv'
<1> DEFINE report == IF ok THEN "copied" ELSE "error"
<1>1. drops[n].stage = "copy" /\ DropBox!reportDrop(n, "settled", report)
      /\ UNCHANGED <<selected, default, busy, keys, holds, prompt, copies, slipped, stolen>>
  BY DEF DropBox!Copied, DropBox!asking
<1>2. "settled" \in Stages /\ report \in Sayings /\ report \notin {"none", "copying"}
  BY DEF Stages, Ended, Sayings
<1> HIDE DEF report
<1>3. PICK r : ReportedAs(n, r, "settled", report) BY <1>1, <1>2, SaysSo
<1>4. WellSaid(r) BY <1>2, <1>3 DEF ReportedAs, WellSaid, DropBox!Asks, DropBox!Lookups
<1>5. MovesOn(n, r) /\ r.stage = "settled" /\ Follows(n, r) BY <1>1, <1>3, <1>4 DEF ReportedAs, Follows
<1>6. default' \in [Contacts -> Places] BY <1>1 DEF FlowInv, FlowTypes
<1> QED BY <1>1, <1>3, <1>5, <1>6, FlowStaysFor DEF Ended

LEMMA SlowCopying ==
  ASSUME FlowAssumption, FlowInv, NEW n \in DOMAIN drops, DropBox!Slow(n)
  PROVE  FlowInv'
<1> DEFINE r == [drops[n] EXCEPT !.said = "copying", !.slow = FALSE]
<1>1. drops[n] \in Released /\ WellSaid(drops[n]) /\ drops[n].stage \in DropBox!Copying
  BY DEF FlowInv, SaidOK, WellSaid, DropBox!Slow
<1>2. /\ drops' = [drops EXCEPT ![n] = r] /\ notices' = DropBox!withDropReport(n, "copying")
      /\ UNCHANGED <<selected, default, busy, keys, holds, prompt, copies, slipped, stolen>>
  BY DEF DropBox!Slow, DropBox!asking
<1>3. r \in Released /\ r.stage = drops[n].stage /\ r.said = "copying" /\ r.slow = FALSE /\ r.on = drops[n].on
  BY <1>1 DEF Released, Sayings
<1> HIDE DEF r
<1>4. WellSaid(r) BY <1>1, <1>3 DEF WellSaid, DropBox!Copying, DropBox!Asks, DropBox!Lookups
<1>5. MovesOn(n, r) /\ Follows(n, r) BY <1>2, <1>3, <1>4 DEF MovesOn, Follows
<1>6. default' \in [Contacts -> Places] BY <1>2 DEF FlowInv, FlowTypes
<1> QED BY <1>2, <1>3, <1>5, <1>6, FlowStaysFor

(* The deadline, and the window brought forward. *)
LEMMA Passing ==
  ASSUME FlowAssumption, FlowInv, NEW n \in DOMAIN drops, DropBox!Past(n)
  PROVE  FlowInv'
<1> DEFINE r == [drops[n] EXCEPT !.past = TRUE]
<1>1. drops[n] \in Released /\ WellSaid(drops[n]) BY DEF FlowInv, SaidOK
<1>2. /\ drops' = [drops EXCEPT ![n] = r]
      /\ UNCHANGED <<selected, default, busy, keys, holds, prompt, notices, copies, slipped, stolen>>
  BY DEF DropBox!Past, DropBox!asking
<1>3. r \in Released /\ r.stage = drops[n].stage /\ r.said = drops[n].said /\ r.slow = drops[n].slow
      /\ r.on = drops[n].on /\ r.past
  BY <1>1 DEF Released
<1> HIDE DEF r
<1>4. WellSaid(r) BY <1>1, <1>3 DEF WellSaid
<1>5. MovesOn(n, r) /\ Follows(n, r) BY <1>2, <1>3, <1>4 DEF MovesOn, Follows
<1>6. default' \in [Contacts -> Places] BY <1>2 DEF FlowInv, FlowTypes
<1> QED BY <1>2, <1>3, <1>5, <1>6, FlowStaysFor

LEMMA Focusing ==
  ASSUME FlowAssumption, FlowInv, NEW n \in DOMAIN drops, DropBox!focusDropWindow(n)
  PROVE  FlowInv'
<1> DEFINE s == IF drops[n].stage = "focus" THEN "folder" ELSE drops[n].stage
           r == [drops[n] EXCEPT !.focusing = FALSE, !.stage = s]
<1>1. drops[n] \in Released /\ WellSaid(drops[n]) BY DEF FlowInv, SaidOK
<1>2. /\ drops' = [drops EXCEPT ![n].focusing = FALSE, ![n].stage = s]
      /\ UNCHANGED <<selected, default, busy, keys, holds, prompt, notices, copies, slipped>>
      /\ stolen' = (stolen \/ (~drops[n].past /\ drops[n].stage = "given-up"))
  BY DEF DropBox!focusDropWindow, DropBox!asking, DropBox!dropStillWaiting
<1>3. drops' = [drops EXCEPT ![n] = r] BY <1>2
<1>4. s \in Stages /\ (s = drops[n].stage \/ (s = "folder" /\ drops[n].stage = "focus"))
  BY <1>1 DEF Released, Stages, Awaiting
<1> HIDE DEF s
<1>5. r \in Released /\ r.stage = s /\ r.said = drops[n].said /\ r.slow = drops[n].slow
      /\ r.on = drops[n].on /\ r.past = drops[n].past
  BY <1>1, <1>4 DEF Released
<1> HIDE DEF r
<1>6. WellSaid(r)
  <2>1. CASE s = drops[n].stage BY <1>1, <1>5, <2>1 DEF WellSaid
  <2>2. CASE s = "folder" /\ drops[n].stage = "focus"
    BY <1>1, <1>5, <2>2 DEF WellSaid, DropBox!Asks, DropBox!Lookups, DropBox!Copying
  <2> QED BY <1>4, <2>1, <2>2
<1>7. MovesOn(n, r) /\ Follows(n, r) BY <1>2, <1>3, <1>4, <1>5, <1>6 DEF MovesOn, Follows
<1>8. ~stolen' BY <1>1, <1>2 DEF FlowInv, WellSaid
<1>9. default' \in [Contacts -> Places] BY <1>2 DEF FlowInv, FlowTypes
<1>10. r.stage = drops[n].stage \/ (r.stage \in Awaiting /\ drops[n].stage \in Awaiting) BY <1>4, <1>5 DEF Awaiting
<1> QED BY <1>2, <1>7, <1>8, <1>9, <1>10, FlowStaysFor

(* A drop ends: with a message, without one, or with its copy.              *)
LEMMA EndsSaid ==
  ASSUME FlowAssumption, FlowInv, NEW n \in DOMAIN drops, NEW stage \in {"settled", "given-up"},
         NEW report \in Sayings \ {"none", "copying"}, DropBox!reportDrop(n, stage, report),
         UNCHANGED <<selected, default, copies, slipped, stolen>>, drops[n].stage \in DropBox!Asks,
         stage = "given-up" => drops[n].past,
         DropBox!returnDropKeys, (drops[n].stage \in Awaiting /\ prompt' = prompt) \/ prompt' = DropBox!NoPrompt
  PROVE  FlowInv'
<1>1. stage \in Stages /\ stage \in Ended /\ report \in Sayings BY DEF Stages, Ended
<1>2. PICK r : ReportedAs(n, r, stage, report) BY <1>1, SaysSo
<1>3. WellSaid(r) BY <1>2 DEF ReportedAs, WellSaid, DropBox!Asks, DropBox!Lookups
<1>4. drops[n].stage \notin {"copy", "settled"} BY DEF DropBox!Asks, DropBox!Lookups
<1>5. MovesOn(n, r) /\ r.stage \in Ended /\ Follows(n, r) BY <1>1, <1>2, <1>3, <1>4 DEF ReportedAs, Follows
<1> QED BY <1>5, FlowEndsFor

LEMMA EndsUnsaid ==
  ASSUME FlowAssumption, FlowInv, NEW n \in DOMAIN drops, DropBox!To(n, "cancelled"),
         UNCHANGED <<selected, default, copies, slipped, stolen>>, drops[n].stage \in DropBox!Asks,
         DropBox!returnDropKeys, (drops[n].stage \in Awaiting /\ prompt' = prompt) \/ prompt' = DropBox!NoPrompt
  PROVE  FlowInv'
<1>1. "cancelled" \in Stages BY DEF Stages, Ended
<1>2. PICK r : /\ MovesOn(n, r) /\ r = [drops[n] EXCEPT !.stage = "cancelled"] /\ notices' = notices
               /\ r.stage = "cancelled" /\ r.said = drops[n].said /\ r.slow = drops[n].slow /\ r.past = drops[n].past
  BY <1>1, GoesTo
<1>3. WellSaid(drops[n]) BY DEF FlowInv, SaidOK
<1>4. drops[n].stage \notin {"copy", "settled", "default"} BY DEF DropBox!Asks, DropBox!Lookups
<1>5. WellSaid(r) BY <1>2, <1>3, <1>4 DEF WellSaid, DropBox!Asks, DropBox!Lookups, DropBox!Copying
<1>6. Follows(n, r) /\ r.stage \in Ended BY <1>2, <1>4, <1>5 DEF Follows, Ended
<1> QED BY <1>2, <1>6, FlowEndsFor

LEMMA EndsCopying ==
  ASSUME FlowAssumption, FlowInv, NEW n \in DOMAIN drops, NEW folder \in Places, NEW asDefault \in BOOLEAN,
         DropBox!copyDrop(n, folder, asDefault),
         UNCHANGED <<selected, default, slipped, stolen>>, drops[n].stage \in DropBox!Asks,
         DropBox!returnDropKeys, (drops[n].stage \in Awaiting /\ prompt' = prompt) \/ prompt' = DropBox!NoPrompt
  PROVE  FlowInv'
<1>1. PICK r : MovesOn(n, r) /\ Follows(n, r) /\ r.stage \in Ended BY AsksCopy
<1> QED BY <1>1, FlowEndsFor

(* From the lookups to a message, the picker or the dialog. *)
LEMMA LookedUp ==
  ASSUME FlowAssumption, FlowInv, NEW n \in DOMAIN drops, NEW folder \in Places,
         drops[n].stage \in {"folder", "items"}, DropBox!dropStep(n, folder),
         UNCHANGED <<selected, default, copies, slipped, stolen>>
  PROVE  FlowInv'
<1>1. /\ drops \in Seq(Released) /\ drops[n] \in Released /\ WellSaid(drops[n])
      /\ drops[n].stage \in DropBox!Asks /\ drops[n].stage \in Awaiting
      /\ drops[n].stage \notin {"copy", "settled", "default", "given-up"} /\ drops[n].stage \in DropBox!Lookups
  BY DEF FlowInv, SaidOK, Awaiting, DropBox!Asks, DropBox!Lookups
<1>2. CASE DropBox!returnDropKeys /\ DropBox!reportDrop(n, "settled", "past-limit") /\ prompt' = prompt
  <2>1. "past-limit" \in Sayings \ {"none", "copying"} BY DEF Sayings
  <2> QED BY <1>1, <1>2, <2>1, EndsSaid
<1>3. CASE DropBox!To(n, "picker") /\ UNCHANGED DropBox!asking
  <2>1. "picker" \in Stages /\ "picker" \in Awaiting BY DEF Stages, Awaiting
  <2>2. PICK r : /\ MovesOn(n, r) /\ r = [drops[n] EXCEPT !.stage = "picker"] /\ notices' = notices
                 /\ r.stage = "picker" /\ r.said = drops[n].said /\ r.slow = drops[n].slow /\ r.past = drops[n].past
    BY <1>3, <2>1, GoesTo
  <2>3. WellSaid(r) BY <1>1, <2>2 DEF WellSaid, DropBox!Asks, DropBox!Lookups, DropBox!Copying
  <2>4. Follows(n, r) BY <1>1, <2>2, <2>3 DEF Follows
  <2>5. UNCHANGED <<busy, keys, holds, prompt>> BY <1>3 DEF DropBox!asking
  <2>6. default' \in [Contacts -> Places] BY DEF FlowInv, FlowTypes
  <2> QED BY <1>1, <2>1, <2>2, <2>4, <2>5, <2>6, FlowStaysFor
<1>4. CASE /\ prompt' = [drop |-> n, folder |-> folder, picking |-> FALSE]
           /\ DropBox!To(n, "prompt") /\ UNCHANGED <<keys, holds>>
  <2>1. "prompt" \in Stages BY DEF Stages
  <2>2. PICK r : /\ MovesOn(n, r) /\ r = [drops[n] EXCEPT !.stage = "prompt"] /\ notices' = notices
                 /\ r.stage = "prompt" /\ r.said = drops[n].said /\ r.slow = drops[n].slow /\ r.past = drops[n].past
    BY <1>4, <2>1, GoesTo
  <2>3. WellSaid(r) BY <1>1, <2>2 DEF WellSaid, DropBox!Asks, DropBox!Lookups, DropBox!Copying
  <2>4. Follows(n, r) BY <1>1, <2>2, <2>3 DEF Follows
  <2>5. SaidOK' /\ CopiesOK' /\ SaysOf(notices, drops)' BY <2>2, <2>4, AllFollows
  <2>6. /\ DOMAIN drops' = DOMAIN drops /\ drops'[n] = r
        /\ \A m \in DOMAIN drops : m # n => drops'[m] = drops[m]
    BY <1>1, <2>2, DropMoves DEF MovesOn
  <2>7. prompt'.drop = n /\ prompt'.picking = FALSE /\ n \in Nat BY <1>1, <1>4
  <2>8. OneAsks'
    <3> SUFFICES ASSUME ~slipped PROVE OneAsks' BY DEF OneAsks
    <3>1. \A m \in DOMAIN drops : drops[m].stage \in DropBox!Asks => m = n
      BY <1>1 DEF FlowInv, OneAsks
    <3>2. {m \in DOMAIN drops' : drops'[m].stage \in DropBox!Asks} = {m \in DOMAIN drops : drops[m].stage \in DropBox!Asks}
      BY <1>1, <2>2, <2>6 DEF DropBox!Asks, DropBox!Lookups
    <3>3. \A m \in DOMAIN drops' : drops'[m].stage \in Awaiting => FALSE
      BY <2>2, <2>6, <3>1 DEF Awaiting, DropBox!Asks, DropBox!Lookups
    <3>4. \A m \in DOMAIN drops' : drops'[m].stage \in {"prompt", "picking"} => prompt'.drop = m
      BY <2>2, <2>6, <2>7, <3>1 DEF DropBox!Asks, DropBox!Lookups
    <3> QED BY <1>4, <3>2, <3>3, <3>4 DEF FlowInv, OneAsks
  <2>9. PromptOK' BY <2>2, <2>6, <2>7 DEF PromptOK
  <2>10. FlowTypes' BY <1>4, <2>7 DEF FlowInv, FlowTypes
  <2> QED BY <2>5, <2>8, <2>9, <2>10 DEF FlowInv
<1> QED BY <1>2, <1>3, <1>4 DEF DropBox!dropStep

LEMMA AskingFolder ==
  ASSUME FlowAssumption, FlowInv, NEW n \in DOMAIN drops, DropBox!getDropFolder(n)
  PROVE  FlowInv'
<1> DEFINE f == default[drops[n].on]
           r == [drops[n] EXCEPT !.stage = "items", !.folder = f]
<1>1. drops[n] \in Released /\ WellSaid(drops[n]) BY DEF FlowInv, SaidOK
<1>2. f \in Places /\ drops[n].stage = "folder" BY <1>1 DEF FlowInv, FlowTypes, Released, DropBox!getDropFolder, DropBox!Waits
<1>3. /\ UNCHANGED <<selected, default, copies, slipped, stolen>>
      /\ \/ DropBox!dropStep(n, f)
         \/ drops' = [drops EXCEPT ![n] = r] /\ UNCHANGED <<busy, keys, holds, prompt, notices>>
  BY DEF DropBox!getDropFolder, DropBox!asking, DropBox!Target
<1> HIDE DEF f
<1>4. CASE DropBox!dropStep(n, f) BY <1>2, <1>3, <1>4, LookedUp
<1>5. CASE drops' = [drops EXCEPT ![n] = r] /\ UNCHANGED <<busy, keys, holds, prompt, notices>>
  <2>1. r \in Released /\ r.stage = "items" /\ r.said = drops[n].said /\ r.slow = drops[n].slow
        /\ r.on = drops[n].on /\ r.past = drops[n].past
    BY <1>1, <1>2 DEF Released, Stages, Awaiting
  <2> HIDE DEF r
  <2>2. WellSaid(r) BY <1>1, <1>2, <2>1 DEF WellSaid, DropBox!Asks, DropBox!Lookups, DropBox!Copying
  <2>3. MovesOn(n, r) /\ Follows(n, r) BY <1>2, <1>3, <1>5, <2>1, <2>2 DEF MovesOn, Follows
  <2>4. default' \in [Contacts -> Places] BY <1>3 DEF FlowInv, FlowTypes
  <2>5. r.stage \in Awaiting /\ drops[n].stage \in Awaiting BY <1>2, <2>1 DEF Awaiting
  <2> QED BY <1>3, <1>5, <2>3, <2>4, <2>5, FlowStaysFor
<1> QED BY <1>3, <1>4, <1>5

LEMMA Describing ==
  ASSUME FlowAssumption, FlowInv, NEW n \in DOMAIN drops, DropBox!describeDropped(n)
  PROVE  FlowInv'
<1>1. drops[n] \in Released BY DEF FlowInv, SaidOK
<1>2. drops[n].folder \in Places BY <1>1 DEF Released
<1> QED BY <1>2, LookedUp DEF DropBox!describeDropped, DropBox!Waits

LEMMA GivingUp ==
  ASSUME FlowAssumption, FlowInv, NEW n \in DOMAIN drops, NEW stage \in {"settled", "given-up"},
         stage = "given-up" => drops[n].past, DropBox!GiveUp(n, stage)
  PROVE  FlowInv'
<1>1. /\ DropBox!returnDropKeys /\ DropBox!reportDrop(n, stage, "error")
      /\ UNCHANGED <<selected, default, prompt, copies, slipped, stolen>> /\ drops[n].stage \in DropBox!Lookups
  BY DEF DropBox!GiveUp
<1>2. drops[n].stage \in DropBox!Asks /\ drops[n].stage \in Awaiting BY <1>1 DEF DropBox!Asks, DropBox!Lookups, Awaiting
<1>3. "error" \in Sayings \ {"none", "copying"} BY DEF Sayings
<1> QED BY <1>1, <1>2, <1>3, EndsSaid

(* What is picked, in the picker that opened at once or in front of the dialog. *)
LEMMA PickingAtOnce ==
  ASSUME FlowAssumption, FlowInv, NEW n \in DOMAIN drops, NEW picked \in Places, NEW fails \in BOOLEAN,
         DropBox!pickDropFolder(n, picked, fails)
  PROVE  FlowInv'
<1>1. /\ DropBox!returnDropKeys /\ UNCHANGED <<selected, default, prompt, slipped, stolen>> /\ drops[n].stage = "picker"
      /\ \/ DropBox!reportDrop(n, "settled", "error") /\ UNCHANGED copies
         \/ DropBox!To(n, "cancelled") /\ UNCHANGED copies
         \/ DropBox!copyDrop(n, picked, TRUE)
  BY DEF DropBox!pickDropFolder
<1>2. drops[n].stage \in DropBox!Asks /\ drops[n].stage \in Awaiting BY <1>1 DEF DropBox!Asks, Awaiting
<1>3. "error" \in Sayings \ {"none", "copying"} BY DEF Sayings
<1>4. CASE DropBox!reportDrop(n, "settled", "error") /\ UNCHANGED copies BY <1>1, <1>2, <1>3, <1>4, EndsSaid
<1>5. CASE DropBox!To(n, "cancelled") /\ UNCHANGED copies BY <1>1, <1>2, <1>5, EndsUnsaid
<1>6. CASE DropBox!copyDrop(n, picked, TRUE) BY <1>1, <1>2, <1>6, EndsCopying
<1> QED BY <1>1, <1>4, <1>5, <1>6

LEMMA PickingInFront ==
  ASSUME FlowAssumption, FlowInv, NEW n \in DOMAIN drops, NEW picked \in Places, NEW fails \in BOOLEAN,
         DropBox!PickedForDrop(n, picked, fails)
  PROVE  FlowInv'
<1>1. /\ DropBox!returnDropKeys /\ prompt' = DropBox!NoPrompt
      /\ UNCHANGED <<selected, default, slipped, stolen>> /\ drops[n].stage = "picking"
      /\ \/ DropBox!reportDrop(n, "settled", "error") /\ UNCHANGED copies
         \/ DropBox!To(n, "cancelled") /\ UNCHANGED copies
         \/ DropBox!copyDrop(n, picked, drops[n].asDefault)
  BY DEF DropBox!PickedForDrop, DropBox!closeDropPrompt
<1>2. drops[n].stage \in DropBox!Asks BY <1>1 DEF DropBox!Asks
<1>3. "error" \in Sayings \ {"none", "copying"} BY DEF Sayings
<1>4. CASE DropBox!reportDrop(n, "settled", "error") /\ UNCHANGED copies BY <1>1, <1>2, <1>3, <1>4, EndsSaid
<1>5. CASE DropBox!To(n, "cancelled") /\ UNCHANGED copies BY <1>1, <1>2, <1>5, EndsUnsaid
<1>6. CASE DropBox!copyDrop(n, picked, drops[n].asDefault)
  <2>1. drops[n] \in Released BY DEF FlowInv, SaidOK
  <2>2. drops[n].asDefault \in BOOLEAN BY <2>1 DEF Released
  <2> QED BY <1>1, <1>2, <1>6, <2>2, EndsCopying
<1> QED BY <1>1, <1>4, <1>5, <1>6

(* The dialog. *)
LEMMA ClosingDialog ==
  ASSUME FlowAssumption, FlowInv, DropBox!onClose \/ DropBox!putDropHere
  PROVE  FlowInv'
<1> DEFINE n == prompt.drop
<1>1. /\ prompt # DropBox!NoPrompt /\ ~prompt.picking /\ DropBox!returnDropKeys /\ prompt' = DropBox!NoPrompt
      /\ UNCHANGED <<selected, default, slipped, stolen>>
      /\ \/ DropBox!To(n, "cancelled") /\ UNCHANGED copies
         \/ DropBox!copyDrop(n, prompt.folder, FALSE)
  BY DEF DropBox!onClose, DropBox!putDropHere, DropBox!Clickable, DropBox!closeDropPrompt
<1>2. n \in DOMAIN drops /\ drops[n].stage = "prompt" BY <1>1 DEF FlowInv, PromptOK
<1>3. drops[n].stage \in DropBox!Asks BY <1>2 DEF DropBox!Asks
<1>4. prompt.folder \in Places BY DEF FlowInv, FlowTypes
<1> HIDE DEF n
<1>5. CASE DropBox!To(n, "cancelled") /\ UNCHANGED copies BY <1>1, <1>2, <1>3, <1>5, EndsUnsaid
<1>6. CASE DropBox!copyDrop(n, prompt.folder, FALSE) BY <1>1, <1>2, <1>3, <1>4, <1>6, EndsCopying
<1> QED BY <1>1, <1>5, <1>6

LEMMA OpeningPicker ==
  ASSUME FlowAssumption, FlowInv, NEW asDefault \in BOOLEAN, DropBox!pickForDrop(asDefault)
  PROVE  FlowInv'
<1> DEFINE n == prompt.drop
           r == [drops[n] EXCEPT !.stage = "picking", !.asDefault = asDefault]
<1>1. /\ prompt # DropBox!NoPrompt /\ ~prompt.picking /\ prompt' = [prompt EXCEPT !.picking = TRUE]
      /\ UNCHANGED <<selected, default, busy, keys, holds, notices, copies, slipped, stolen>>
  BY DEF DropBox!pickForDrop, DropBox!Clickable
<1>2. drops' = [drops EXCEPT ![n] = r] BY DEF DropBox!pickForDrop
<1>3. n \in DOMAIN drops /\ drops[n].stage = "prompt" BY <1>1 DEF FlowInv, PromptOK
<1>4. drops \in Seq(Released) /\ drops[n] \in Released /\ WellSaid(drops[n]) BY <1>3 DEF FlowInv, SaidOK
<1>5. r \in Released /\ r.stage = "picking" /\ r.said = drops[n].said /\ r.slow = drops[n].slow
      /\ r.on = drops[n].on /\ r.past = drops[n].past
  BY <1>4 DEF Released, Stages
<1>6. /\ prompt'.drop = n /\ prompt'.picking /\ prompt' \in [drop : Nat, folder : Places, picking : BOOLEAN]
  BY <1>1 DEF FlowInv, FlowTypes
<1> HIDE DEF n, r
<1>7. WellSaid(r) BY <1>3, <1>4, <1>5 DEF WellSaid, DropBox!Asks, DropBox!Lookups, DropBox!Copying
<1>8. MovesOn(n, r) /\ Follows(n, r) BY <1>1, <1>2, <1>3, <1>5, <1>7 DEF MovesOn, Follows
<1>9. SaidOK' /\ CopiesOK' /\ SaysOf(notices, drops)' BY <1>3, <1>8, AllFollows
<1>10. /\ DOMAIN drops' = DOMAIN drops /\ drops'[n] = r
       /\ \A m \in DOMAIN drops : m # n => drops'[m] = drops[m]
  BY <1>2, <1>3, <1>4, <1>5, DropMoves
<1>11. OneAsks'
  <2> SUFFICES ASSUME ~slipped PROVE OneAsks' BY <1>1 DEF OneAsks
  <2>1. {m \in DOMAIN drops' : drops'[m].stage \in DropBox!Asks} = {m \in DOMAIN drops : drops[m].stage \in DropBox!Asks}
    BY <1>3, <1>5, <1>10 DEF DropBox!Asks
  <2>2. \A m \in DOMAIN drops' : drops'[m].stage \in Awaiting => drops[m].stage \in Awaiting
    BY <1>5, <1>10 DEF Awaiting
  <2>3. \A m \in DOMAIN drops' : drops'[m].stage \in {"prompt", "picking"} => prompt'.drop = m
    BY <1>6, <1>10 DEF FlowInv, OneAsks, n
  <2> QED BY <1>1, <1>10, <2>1, <2>2, <2>3 DEF FlowInv, OneAsks
<1>12. PromptOK' BY <1>3, <1>5, <1>6, <1>10 DEF PromptOK
<1>13. FlowTypes' BY <1>1, <1>6 DEF FlowInv, FlowTypes
<1> QED BY <1>1, <1>9, <1>11, <1>12, <1>13 DEF FlowInv

(* A drop is let go on the window: it waits for its turn, or there is a message of it. *)
LEMMA DropIsLetGo ==
  ASSUME FlowAssumption, FlowInv, NEW what \in DropBox!Kinds, DropBox!handleFileDrop(what)
  PROVE  FlowInv'
<1> DEFINE n == Len(drops) + 1
           r == IF what = "promised" THEN [DropBox!Dropped("settled", what) EXCEPT !.said = "only-finder"]
                ELSE DropBox!Dropped("focus", what)
<1>1. drops \in Seq(Released) /\ selected \in Contacts BY DEF FlowInv, SaidOK, FlowTypes
<1>2. /\ drops' = Append(drops, r) /\ ~busy
      /\ UNCHANGED <<selected, default, prompt, copies, stolen>> /\ slipped' = (slipped \/ prompt # DropBox!NoPrompt)
  BY DEF DropBox!handleFileDrop
<1>3. /\ r \in Released /\ r.on = selected /\ ~r.slow /\ ~r.past
      /\ r.stage = (IF what = "promised" THEN "settled" ELSE "focus")
      /\ r.said = (IF what = "promised" THEN "only-finder" ELSE "none")
  <2>1. CASE what = "promised"
    <3>1. r = [stage |-> "settled", kind |-> what, on |-> selected, focusing |-> FALSE, past |-> FALSE,
               folder |-> NoFolder, asDefault |-> FALSE, slow |-> FALSE, said |-> "only-finder"]
      BY <2>1 DEF DropBox!Dropped
    <3> HIDE DEF r
    <3> QED BY <1>1, <2>1, <3>1 DEF Released, Stages, Ended, Sayings, Places
  <2>2. CASE what # "promised"
    <3>1. r = [stage |-> "focus", kind |-> what, on |-> selected, focusing |-> TRUE, past |-> FALSE,
               folder |-> NoFolder, asDefault |-> FALSE, slow |-> FALSE, said |-> "none"]
      BY <2>2 DEF DropBox!Dropped
    <3> HIDE DEF r
    <3> QED BY <1>1, <2>2, <3>1 DEF Released, Stages, Awaiting, Sayings, Places
  <2> QED BY <2>1, <2>2
<1> HIDE DEF r
<1>4. /\ drops' \in Seq(Released) /\ DOMAIN drops' = DOMAIN drops \cup {n} /\ drops'[n] = r
      /\ n \notin DOMAIN drops /\ n \in Nat /\ \A m \in DOMAIN drops : drops'[m] = drops[m]
  BY <1>1, <1>2, <1>3
<1>5. /\ what = "promised" => notices' = DropBox!withDropReport(n, "only-finder") /\ UNCHANGED <<busy, keys, holds>>
      /\ what # "promised" => UNCHANGED notices /\ busy' = TRUE /\ keys' = n /\ holds' = holds \cup {n}
  BY DEF DropBox!handleFileDrop, DropBox!takeDropKeys
<1> HIDE DEF n
<1>6. SaidOK'
  <2>1. WellSaid(r) BY <1>3 DEF WellSaid, DropBox!Asks, DropBox!Lookups
  <2> QED BY <1>4, <2>1 DEF FlowInv, SaidOK
<1>7. CopiesOK' BY <1>2, <1>4 DEF FlowInv, CopiesOK
<1>8. SaysOf(notices, drops)'
  <2>1. CASE what = "promised"
    <3>1. "only-finder" \in Sayings BY DEF Sayings
    <3>2. drops'[n].said = "only-finder" BY <1>3, <1>4, <2>1
    <3>3. \A m \in DOMAIN drops : m \in DOMAIN drops' /\ drops'[m].said = drops[m].said BY <1>4
    <3> QED BY <1>4, <1>5, <2>1, <3>1, <3>2, <3>3, OneSaid DEF FlowInv
  <2>2. CASE what # "promised" BY <1>4, <1>5, <2>2 DEF FlowInv, SaysOf
  <2> QED BY <2>1, <2>2
<1>9. PromptOK' BY <1>2, <1>4 DEF FlowInv, PromptOK, DropBox!NoPrompt
<1>10. OneAsks'
  <2> SUFFICES ASSUME ~slipped, prompt = DropBox!NoPrompt PROVE OneAsks' BY <1>2 DEF OneAsks
  <2>1. \A m \in DOMAIN drops : drops[m].stage \notin {"prompt", "picking"}
    <3>1. prompt.drop = 0 BY DEF DropBox!NoPrompt
    <3>2. 0 \notin DOMAIN drops BY <1>1
    <3> QED BY <3>1, <3>2 DEF FlowInv, OneAsks
  <2>2. \A m \in DOMAIN drops : drops[m].stage \notin Awaiting BY <1>2 DEF FlowInv, OneAsks
  <2>3. \A m \in DOMAIN drops : drops[m].stage \notin DropBox!Asks
    BY <2>1, <2>2 DEF Awaiting, DropBox!Asks, DropBox!Lookups
  <2>4. holds = {} BY <2>3 DEF FlowInv, OneAsks
  <2>5. CASE what = "promised"
    <3>1. r.stage = "settled" BY <1>3, <2>5
    <3>2. \A m \in DOMAIN drops' : drops'[m].stage \notin DropBox!Asks
      BY <1>4, <2>3, <3>1 DEF DropBox!Asks, DropBox!Lookups
    <3>3. \A m \in DOMAIN drops' : drops'[m].stage \notin Awaiting \cup {"prompt", "picking"}
      BY <3>2 DEF Awaiting, DropBox!Asks, DropBox!Lookups
    <3> QED BY <1>5, <2>4, <2>5, <3>2, <3>3 DEF OneAsks
  <2>6. CASE what # "promised"
    <3>1. r.stage = "focus" /\ "focus" \in DropBox!Asks BY <1>3, <2>6 DEF DropBox!Asks, DropBox!Lookups
    <3>2. {m \in DOMAIN drops' : drops'[m].stage \in DropBox!Asks} = {n} BY <1>4, <2>3, <3>1
    <3>3. \A m \in DOMAIN drops' : drops'[m].stage \notin {"prompt", "picking"} BY <1>4, <2>1, <3>1
    <3> QED BY <1>5, <2>4, <2>6, <3>2, <3>3 DEF OneAsks
  <2> QED BY <2>5, <2>6
<1>11. FlowTypes' BY <1>2 DEF FlowInv, FlowTypes
<1> QED BY <1>2, <1>6, <1>7, <1>8, <1>9, <1>10, <1>11 DEF FlowInv

LEMMA FlowUnmoved ==
  ASSUME FlowInv, UNCHANGED <<default, busy, keys, holds, prompt, drops, copies, slipped, stolen>>,
         selected' \in Contacts, SaysOf(notices', drops)
  PROVE  FlowInv'
BY DEF FlowInv, FlowTypes, OneAsks, PromptOK, SaidOK, CopiesOK, SaysOf

LEMMA FlowKept == ASSUME FlowAssumption, FlowInv, DropBox!Next PROVE FlowInv'
<1>1. ASSUME NEW n \in DOMAIN drops, NEW picked \in Folders \cup {NoFolder}, NEW fails \in BOOLEAN,
             DropBox!pickDropFolder(n, picked, fails) \/ DropBox!PickedForDrop(n, picked, fails)
      PROVE  FlowInv'
  BY <1>1, PickingAtOnce, PickingInFront DEF Places
<1>2. CASE DropBox!Draw
  <2>1. UNCHANGED <<selected, default, busy, keys, holds, prompt, drops, notices, copies, slipped, stolen>>
    BY <1>2 DEF DropBox!Draw
  <2>2. selected' \in Contacts /\ SaysOf(notices', drops) BY <2>1 DEF FlowInv, FlowTypes
  <2> QED BY <2>1, <2>2, FlowUnmoved
<1>3. CASE DropBox!Select
  <2>1. UNCHANGED <<default, busy, keys, holds, prompt, drops, notices, copies, slipped, stolen>>
        /\ selected' \in Contacts
    BY <1>3 DEF DropBox!Select, DropBox!asking
  <2>2. SaysOf(notices', drops) BY <2>1 DEF FlowInv
  <2> QED BY <2>1, <2>2, FlowUnmoved
<1>4. CASE DropBox!dismissDrop
  <2>1. PICK i \in DOMAIN notices : notices' = DropBox!RemoveAt(notices, i) BY <1>4 DEF DropBox!dismissDrop
  <2>2. UNCHANGED <<selected, default, busy, keys, holds, prompt, drops, copies, slipped, stolen>>
    BY <1>4 DEF DropBox!dismissDrop, DropBox!asking
  <2>3. SaysOf(notices', drops) BY <2>1, OneDismissed DEF FlowInv
  <2>4. selected' \in Contacts BY <2>2 DEF FlowInv, FlowTypes
  <2> QED BY <2>2, <2>3, <2>4, FlowUnmoved
<1>5. ASSUME NEW n \in DOMAIN drops, DropBox!GiveUp(n, "settled") \/ (drops[n].past /\ DropBox!GiveUp(n, "given-up"))
      PROVE  FlowInv'
  <2>1. CASE DropBox!GiveUp(n, "settled") BY <2>1, GivingUp
  <2>2. CASE drops[n].past /\ DropBox!GiveUp(n, "given-up") BY <2>2, GivingUp
  <2> QED BY <1>5, <2>1, <2>2
<1>6. ASSUME NEW n \in DOMAIN drops,
             \/ DropBox!Past(n) \/ DropBox!focusDropWindow(n) \/ DropBox!getDropFolder(n)
             \/ DropBox!describeDropped(n) \/ DropBox!Slow(n)
             \/ \E ok \in BOOLEAN : DropBox!DefaultSaved(n, ok) \/ DropBox!Copied(n, ok)
      PROVE  FlowInv'
  BY <1>6, Passing, Focusing, AskingFolder, Describing, SlowCopying, SavingDefault, CopyEnding
<1>7. CASE DropBox!onClose \/ DropBox!putDropHere BY <1>7, ClosingDialog
<1>8. CASE \E asDefault \in BOOLEAN : DropBox!pickForDrop(asDefault) BY <1>8, OpeningPicker
<1>9. CASE \E what \in DropBox!Kinds : DropBox!handleFileDrop(what) BY <1>9, DropIsLetGo
<1> QED BY <1>1, <1>2, <1>3, <1>4, <1>5, <1>6, <1>7, <1>8, <1>9 DEF DropBox!Next

LEMMA FlowStill == ASSUME FlowInv, UNCHANGED DropBox!vars PROVE FlowInv'
<1>1. UNCHANGED <<selected, default, busy, keys, holds, prompt, drops, notices, copies, slipped, stolen>>
  BY DEF DropBox!vars, DropBox!asking
<1>2. selected' \in Contacts /\ SaysOf(notices', drops) BY <1>1 DEF FlowInv, FlowTypes
<1> QED BY <1>1, <1>2, FlowUnmoved

LEMMA FlowTrue == ASSUME FlowInv PROVE DropBox!DropsEndWell
<1>1. \A n \in DOMAIN drops :
        /\ drops[n].stage \in {"settled", "given-up"} => drops[n].said \notin {"none", "copying"}
        /\ drops[n].stage = "cancelled" => drops[n].said = "none"
  BY DEF FlowInv, SaidOK, WellSaid
<1>2. \A i \in DOMAIN notices :
        /\ notices[i].report = drops[notices[i].drop].said
        /\ \A j \in DOMAIN notices : notices[j].drop = notices[i].drop => j = i
  BY DEF FlowInv, SaysOf
<1>3. \A x \in copies :
        /\ x.contact = drops[x.drop].on /\ drops[x.drop].stage \in {"copy", "settled"}
        /\ \A y \in copies : y.drop = x.drop => y = x
  BY DEF FlowInv, CopiesOK
<1>4. ~slipped => /\ holds = {n \in DOMAIN drops : drops[n].stage \in DropBox!Asks}
                  /\ holds \subseteq {keys}
  BY DEF FlowInv, OneAsks
<1>5. ~stolen BY DEF FlowInv
<1> QED BY <1>1, <1>2, <1>3, <1>4, <1>5 DEF DropBox!DropsEndWell

(* Files are copied once, to where they were dropped, and never after their drop was given up;    *)
(* what is said of a drop became of it; and while none was let go in the moment before a dialog's *)
(* state was set (~slipped), the keyboard is held for the one drop that asks                      *)
(* (App.tsx: handleFileDrop, returnDropKeys, copyDrop; dropFlow.ts: withDeadline; dropNotice.ts). *)
THEOREM DropsAllEndWell == ASSUME FlowAssumption PROVE DropBox!Spec => []DropBox!DropsEndWell
<1>1. DropBox!Init => FlowInv BY FlowStarts
<1>2. FlowInv /\ [DropBox!Next]_DropBox!vars => FlowInv' BY FlowKept, FlowStill
<1>3. FlowInv => DropBox!DropsEndWell BY FlowTrue
<1> QED BY <1>1, <1>2, <1>3, PTL DEF DropBox!Spec
=============================================================================
