-------------------------- MODULE PhoneLink_proofs --------------------------
(***************************************************************************)
(* Proofs about PhoneLink: what is typed is typed once and in order, and    *)
(* what the phone says became of a message is true. All three need          *)
(* MaxFrames <= AcksKept: while a device makes no more frames than the      *)
(* server keeps acks for it (ACKS_KEPT, 200), no ack is evicted. A frame    *)
(* whose ack was evicted would be typed again if it were resent.            *)
(***************************************************************************)
EXTENDS PhoneLink, FiniteSetTheorems, WellFoundedInduction, TLAPS

-----------------------------------------------------------------------------
(* The operators of PhoneLink, and its type correctness step by step. *)

Acks == [frame : Frames, result : {"pending", "ok", "refused"}]
Mails == [ack : Frames, ok : BOOLEAN] \cup [entries : SUBSET Entries, cli : CliSessions]
Typings == [frame : Prompts \cup Answers, device : Devices, run : Runs, cli : CliSessions]

(* The types, by what changes together. *)
OutboxOK == /\ made \in Seq(Frames) /\ status \in [Frames -> Statuses]
            /\ sentOnce \subseteq Frames /\ dropped \subseteq Frames /\ oldSession \subseteq Prompts
ScreenOK == /\ delivered \subseteq Entries /\ transcript \subseteq Entries /\ seen \subseteq Entries
            /\ knownCli \in CliSessions \cup {0}
LinkOK == /\ socket \in Sockets \cup {NoSocket} /\ device \in Devices
          /\ sockets \in 0..MaxSockets /\ open \subseteq 1..sockets
          /\ deviceOf \in [Sockets -> Devices]
WireOK == wire \in [Sockets -> Seq(Frames)]
MailOK == inbox \in Seq(Mails)
MacOK == /\ run \in Runs /\ acting \subseteq [frame : Answers, on : Sockets]
         /\ subscription \in [Devices -> Subs \cup {None}]
AckedOK == acks \in [Devices -> Seq(Acks)]
AgentOK == typed \in Seq(Typings) /\ cli \in CliSessions
ShownOK == shown \in 0..Len(typed)

(* TypeOK in parts, so that a step shows only what it disturbs. *)
LEMMA Parts == TypeOK <=> /\ OutboxOK /\ ScreenOK /\ LinkOK /\ WireOK /\ MailOK /\ MacOK /\ AckedOK
                          /\ AgentOK /\ ShownOK
BY DEF TypeOK, OutboxOK, ScreenOK, LinkOK, WireOK, MailOK, MacOK, AckedOK, AgentOK, ShownOK, Acks, Mails, Typings

(* The same after the step, where the definitions are expanded once and for all. *)
LEMMA PartsNext == TypeOK' <=> /\ OutboxOK' /\ ScreenOK' /\ LinkOK' /\ WireOK' /\ MailOK' /\ MacOK' /\ AckedOK'
                               /\ AgentOK' /\ ShownOK'
BY DEF TypeOK, OutboxOK, ScreenOK, LinkOK, WireOK, MailOK, MacOK, AckedOK, AgentOK, ShownOK, Acks, Mails, Typings

(* Each part depends on its own variables, and on how much was typed. *)
LEMMA Unchanged ==
  /\ OutboxOK /\ UNCHANGED <<made, status, sentOnce, dropped, oldSession>> => OutboxOK'
  /\ ScreenOK /\ UNCHANGED <<delivered, screen, typed>> => ScreenOK'
  /\ LinkOK /\ UNCHANGED <<socket, device, sockets, open, deviceOf>> => LinkOK'
  /\ WireOK /\ UNCHANGED wire => WireOK'
  /\ MailOK /\ UNCHANGED <<inbox, typed>> => MailOK'
  /\ MacOK /\ UNCHANGED <<run, acting, subscription>> => MacOK'
  /\ AckedOK /\ UNCHANGED acks => AckedOK'
  /\ AgentOK /\ UNCHANGED <<typed, cli>> => AgentOK'
  /\ ShownOK /\ UNCHANGED <<typed, shown>> => ShownOK'
<1>1. OutboxOK /\ UNCHANGED <<made, status, sentOnce, dropped, oldSession>> => OutboxOK'
  BY Zenon DEF OutboxOK
<1>2. ScreenOK /\ UNCHANGED <<delivered, screen, typed>> => ScreenOK'
  BY DEF ScreenOK, screen, Entries
<1>3. LinkOK /\ UNCHANGED <<socket, device, sockets, open, deviceOf>> => LinkOK'
  BY Zenon DEF LinkOK
<1>4. WireOK /\ UNCHANGED wire => WireOK'
  BY Zenon DEF WireOK
<1>5. MailOK /\ UNCHANGED <<inbox, typed>> => MailOK'
  BY DEF MailOK, Mails, Entries
<1>6. MacOK /\ UNCHANGED <<run, acting, subscription>> => MacOK'
  BY Zenon DEF MacOK
<1>7. AckedOK /\ UNCHANGED acks => AckedOK'
  BY Zenon DEF AckedOK
<1>8. AgentOK /\ UNCHANGED <<typed, cli>> => AgentOK'
  BY Zenon DEF AgentOK
<1>9. ShownOK /\ UNCHANGED <<typed, shown>> => ShownOK'
  BY Zenon DEF ShownOK
<1>10. QED BY <1>1, <1>2, <1>3, <1>4, <1>5, <1>6, <1>7, <1>8, <1>9
(* Of a non-empty set of numbers, one is the least. *)
LEMMA Least == ASSUME NEW S \in SUBSET Nat, S # {} PROVE \E x \in S : \A y \in S : x <= y
<1> DEFINE Below == {0..m : m \in S}
<1>1. IsWellFoundedOn(StrictSubsetOrdering(Nat), FiniteSubsetsOf(Nat))
  BY FS_StrictSubsetOrderingWellFounded
<1>2. Below \subseteq FiniteSubsetsOf(Nat)
  <2>1. ASSUME NEW m \in S PROVE 0..m \in SUBSET Nat /\ IsFiniteSet(0..m)
    <3>1. 0 \in Int /\ m \in Int
      OBVIOUS
    <3>2. QED BY <3>1, FS_Interval
  <2>2. QED BY <2>1, Zenon DEF FiniteSubsetsOf
<1>3. Below # {}
  OBVIOUS
<1> HIDE DEF Below
<1>4. PICK X \in Below : \A Y \in Below : <<Y, X>> \notin StrictSubsetOrdering(Nat)
  BY <1>1, <1>2, <1>3, WFMin
<1>5. PICK m \in S : X = 0..m
  BY <1>4 DEF Below
<1>6. ASSUME NEW n \in S, ~(m <= n) PROVE FALSE
  <2>1. 0..n \in Below /\ 0..n \subseteq 0..m /\ 0..n # 0..m
    BY <1>6 DEF Below
  <2>2. 0..n \in SUBSET Nat /\ 0..m \in SUBSET Nat
    OBVIOUS
  <2>3. <<0..n, 0..m>> \in StrictSubsetOrdering(Nat)
    BY <2>1, <2>2, Zenon DEF StrictSubsetOrdering
  <2>4. QED BY <1>4, <1>5, <2>1, <2>3
<1>7. QED BY <1>6

(* In a finite set of numbers there is one with exactly n up to it, for each n up to its size. *)
LEMMA Ranked ==
  ASSUME NEW S \in SUBSET Nat, IsFiniteSet(S)
  PROVE  \A n \in 1..Cardinality(S) : \E i \in S : Cardinality({j \in S : j <= i}) = n
<1> DEFINE Bad == {n \in 1..Cardinality(S) : ~\E i \in S : Cardinality({j \in S : j <= i}) = n}
<1>0. Cardinality(S) \in Nat
  BY FS_CardinalityType
<1>1. SUFFICES ASSUME Bad # {} PROVE FALSE
  OBVIOUS
<1>2. PICK n \in Bad : \A m \in Bad : n <= m
  <2>1. Bad \in SUBSET Nat
    BY <1>0
  <2> HIDE DEF Bad
  <2>2. QED BY <1>1, <2>1, Least
<1>3. n \in 1..Cardinality(S) /\ n \in Nat /\ ~\E i \in S : Cardinality({j \in S : j <= i}) = n
  BY <1>0
<1>4. ASSUME NEW T \in SUBSET S, T # {}, Cardinality(S \ T) = n - 1,
             \A i \in S \ T, j \in T : i < j
      PROVE  FALSE
  <2>1. PICK i \in T : \A j \in T : i <= j
    BY <1>4, Least
  <2>2. {j \in S : j <= i} = (S \ T) \cup {i}
    <3>1. i \in Nat /\ T \subseteq S /\ S \subseteq Nat
      OBVIOUS
    <3>2. ASSUME NEW j \in S PROVE j <= i <=> j \in (S \ T) \cup {i}
      BY <1>4, <2>1, <3>1
    <3>3. QED BY <3>1, <3>2
  <2>3. IsFiniteSet(S \ T) /\ i \notin S \ T
    BY <2>1, FS_Difference
  <2>4. Cardinality((S \ T) \cup {i}) = (n - 1) + 1
    BY <1>4, <2>3, FS_AddElement
  <2>5. (n - 1) + 1 = n
    BY <1>3
  <2>6. QED BY <1>3, <2>1, <2>2, <2>4, <2>5
<1>5. CASE n = 1
  <2>1. S \ S = {} /\ Cardinality({}) = 0
    BY FS_EmptySet
  <2>2. S # {}
    BY <1>0, <1>3, FS_EmptySet
  <2>3. Cardinality(S \ S) = n - 1
    BY <1>5, <2>1
  <2>4. \A i \in S \ S, j \in S : i < j
    OBVIOUS
  <2> HIDE DEF Bad
  <2>5. QED BY <2>2, <2>3, <2>4, <1>4
<1>6. CASE n # 1
  <2>1. n - 1 \in 1..Cardinality(S) /\ n - 1 < n
    BY <1>0, <1>3, <1>6
  <2>2. n - 1 \notin Bad
    BY <1>2, <1>3, <2>1
  <2>3. PICK i \in S : Cardinality({j \in S : j <= i}) = n - 1
    BY <2>1, <2>2
  <2> DEFINE T == {j \in S : ~(j <= i)}
  <2>4. S \ T = {j \in S : j <= i}
    OBVIOUS
  <2>5. T # {}
    <3>1. SUFFICES ASSUME T = {} PROVE FALSE
      OBVIOUS
    <3>2. {j \in S : j <= i} = S
      BY <3>1
    <3>3. Cardinality(S) = n - 1
      BY <2>3, <3>2, Zenon
    <3>4. QED BY <3>3, <1>0, <1>3
  <2>6. \A k \in S \ T, j \in T : k < j
    OBVIOUS
  <2> HIDE DEF T
  <2>7. T \in SUBSET S
    BY DEF T
  <2> HIDE DEF Bad
  <2>8. QED BY <2>3, <2>4, <2>5, <2>6, <2>7, <1>4
<1>7. QED BY <1>5, <1>6

(* Of two numbers in a finite set, the larger has more up to it. *)
LEMMA RankOrder ==
  ASSUME NEW S \in SUBSET Nat, IsFiniteSet(S)
  PROVE  /\ \A i \in S : Cardinality({k \in S : k <= i}) \in 1..Cardinality(S)
         /\ \A i, j \in S : i < j => Cardinality({k \in S : k <= i}) < Cardinality({k \in S : k <= j})
<1> DEFINE Upto(i) == {k \in S : k <= i}
<1>1. \A i : IsFiniteSet(Upto(i)) /\ Cardinality(Upto(i)) \in Nat /\ Cardinality(Upto(i)) <= Cardinality(S)
  <2>1. \A i : Upto(i) \in SUBSET S
    OBVIOUS
  <2> HIDE DEF Upto
  <2>2. QED BY <2>1, FS_Subset, FS_CardinalityType
<1>2. Cardinality(S) \in Nat
  BY FS_CardinalityType
<1>3. ASSUME NEW i \in S PROVE Cardinality(Upto(i)) \in 1..Cardinality(S)
  <2>1. Upto(i) # {}
    OBVIOUS
  <2> HIDE DEF Upto
  <2>2. Cardinality(Upto(i)) # 0
    BY <1>1, <2>1, FS_EmptySet
  <2>3. QED BY <1>1, <1>2, <2>2
<1>4. ASSUME NEW i \in S, NEW j \in S, i < j PROVE Cardinality(Upto(i)) < Cardinality(Upto(j))
  <2>0. i \in Nat /\ j \in Nat /\ \A k \in S : k \in Nat
    OBVIOUS
  <2>1. Upto(i) \in SUBSET Upto(j) /\ j \in Upto(j) /\ j \notin Upto(i)
    <3>1. \A k \in S : k <= i => k <= j
      BY <2>0, <1>4
    <3>2. j <= j /\ ~(j <= i)
      BY <2>0, <1>4
    <3>3. QED BY <3>1, <3>2
  <2> HIDE DEF Upto
  <2>2. Upto(j) # Upto(i)
    BY <2>1
  <2>3. Cardinality(Upto(i)) <= Cardinality(Upto(j)) /\ Cardinality(Upto(j)) # Cardinality(Upto(i))
    BY <1>1, <2>1, <2>2, FS_Subset
  <2>4. QED BY <1>1, <2>3
<1>5. QED BY <1>3, <1>4

(* What is sent when a socket opens: what waits, all of it, in the order it was made. *)
LEMMA ToSend ==
  ASSUME OutboxOK
  PROVE  /\ toSend \in Seq(Frames)
         /\ \A k \in DOMAIN toSend : status[toSend[k]] = "waiting"
         /\ \A k \in DOMAIN toSend : \A i \in Waiting : i < Nth(k) => \E l \in DOMAIN toSend : l < k /\ toSend[l] = made[i]
         /\ \A k \in DOMAIN toSend : Nth(k) \in Waiting /\ toSend[k] = made[Nth(k)]
         /\ \A i \in Waiting : \E k \in DOMAIN toSend : toSend[k] = made[i]
<1> DEFINE Rank(i) == Cardinality({j \in Waiting : j <= i})
           N == Cardinality(Waiting)
<1>1. Waiting \in SUBSET Nat /\ Waiting \subseteq DOMAIN made
  BY DEF Waiting, OutboxOK
<1>2. IsFiniteSet(Waiting)
  <2>1. Len(made) \in Nat /\ \A i \in Waiting : i <= Len(made)
    BY DEF Waiting, OutboxOK
  <2>2. QED BY <1>1, <2>1, FS_BoundedSetOfNaturals
<1>3. N \in Nat
  BY <1>2, FS_CardinalityType
<1>4. \A n \in 1..N : Nth(n) \in Waiting /\ Rank(Nth(n)) = n
  <2>1. \A n \in 1..N : \E i \in Waiting : Rank(i) = n
    BY <1>1, <1>2, Ranked
  <2>2. QED BY <2>1 DEF Nth
<1>5. \A i \in Waiting : Rank(i) \in 1..N
  BY <1>1, <1>2, RankOrder
<1>6. \A i, j \in Waiting : i < j => Rank(i) < Rank(j)
  BY <1>1, <1>2, RankOrder
<1>7. \A i \in Waiting : Nth(Rank(i)) = i
  <2> HIDE DEF N, Rank
  <2>1. SUFFICES ASSUME NEW i \in Waiting PROVE Nth(Rank(i)) = i
    OBVIOUS
  <2>2. Nth(Rank(i)) \in Waiting /\ Rank(Nth(Rank(i))) = Rank(i)
    BY <1>4, <1>5
  <2> DEFINE j == Nth(Rank(i))
  <2>3. j \in Waiting /\ Rank(j) = Rank(i) /\ Rank(i) \in Nat
    BY <2>2, <1>3, <1>5
  <2> HIDE DEF j
  <2>4. j = i
    BY <2>3, <1>1, <1>6
  <2>5. QED BY <2>4 DEF j
<1> HIDE DEF Rank
<1>8. DOMAIN toSend = 1..N /\ \A n \in 1..N : toSend[n] = made[Nth(n)]
  BY DEF toSend
<1> HIDE DEF N
<1>9. \A i \in Waiting : made[i] \in Frames /\ status[made[i]] = "waiting"
  BY DEF Waiting, OutboxOK
<1>10. toSend \in Seq(Frames)
  <2>1. toSend \in [1..N -> Frames]
    BY <1>4, <1>8, <1>9 DEF toSend, N
  <2>2. QED BY <1>3, <2>1
<1>11. ASSUME NEW k \in DOMAIN toSend, NEW i \in Waiting, i < Nth(k)
       PROVE  \E l \in DOMAIN toSend : l < k /\ toSend[l] = made[i]
  <2>1. Nth(k) \in Waiting /\ Rank(Nth(k)) = k
    BY <1>4, <1>8
  <2>2. Rank(i) < k /\ Rank(i) \in DOMAIN toSend
    BY <1>5, <1>6, <1>8, <1>11, <2>1
  <2>3. toSend[Rank(i)] = made[i]
    BY <1>7, <1>8, <2>2
  <2>4. QED BY <2>2, <2>3
<1>12. \A i \in Waiting : \E k \in DOMAIN toSend : toSend[k] = made[i]
  BY <1>5, <1>7, <1>8
<1>13. QED BY <1>4, <1>8, <1>9, <1>10, <1>11, <1>12

-----------------------------------------------------------------------------
(* What each step does to the outbox, and the types. *)

(* Trimming forgets only what is settled. *)
LEMMA Trimmed ==
  ASSUME NEW st \in [Frames -> Statuses], NEW order
  PROVE  /\ trim(st, order) \in [Frames -> Statuses]
         /\ \A f \in Frames : \/ trim(st, order)[f] = st[f]
                              \/ trim(st, order)[f] = "forgotten" /\ st[f] \in {"acked", "refused", "unknown"}
<1> DEFINE present == {f \in Frames : st[f] \in InOutbox}
           settled == {f \in present : st[f] \notin {"waiting", "sent"}}
           excess == {f \in settled : Cardinality({g \in settled : Before(order, g, f)}) + MaxItems
                                        < Cardinality(present)}
<1>1. trim(st, order) = [f \in Frames |-> IF f \in excess THEN "forgotten" ELSE st[f]]
  BY DEF trim
<1>2. \A f \in excess : st[f] \in {"acked", "refused", "unknown"}
  BY DEF InOutbox
<1> HIDE DEF excess
<1>3. QED BY <1>1, <1>2 DEF Statuses

(* A frame made is the last of those made, and on its way if there is a socket. *)
LEMMA Enqueued ==
  ASSUME OutboxOK, NEW f \in Frames, NEW sent \in BOOLEAN, enqueue(f, sent), status[f] = "none"
  PROVE  /\ OutboxOK /\ made' = Append(made, f) /\ made' \in Seq(Frames)
         /\ status' \in [Frames -> Statuses]
         /\ status'[f] = IF sent THEN "sent" ELSE "waiting"
         /\ \A g \in Frames \ {f} :
              \/ status'[g] = status[g]
              \/ status'[g] = "forgotten" /\ status[g] \in {"acked", "refused", "unknown"}
              \/ status'[g] = "forgotten" /\ g \in Subs /\ status[g] \in {"waiting", "sent", "unknown"}
         /\ sentOnce' = IF sent THEN sentOnce \cup {f} ELSE sentOnce
<1> DEFINE replaced == IF f \in Subs THEN {g \in Subs : status[g] \in {"waiting", "sent", "unknown"}} ELSE {}
           st == [g \in Frames |-> IF g = f THEN (IF sent THEN "sent" ELSE "waiting")
                                   ELSE IF g \in replaced THEN "forgotten" ELSE status[g]]
<1>1. made' = Append(made, f) /\ status' = trim(st, made')
      /\ sentOnce' = IF sent THEN sentOnce \cup {f} ELSE sentOnce
  BY DEF enqueue
<1>2. made' \in Seq(Frames)
  BY <1>1 DEF OutboxOK
<1>3. st \in [Frames -> Statuses]
  BY DEF OutboxOK, Statuses
<1>4. st[f] = (IF sent THEN "sent" ELSE "waiting")
      /\ \A g \in Frames \ {f} : st[g] = IF g \in replaced THEN "forgotten" ELSE status[g]
  OBVIOUS
<1>5. \A g \in replaced : g \in Subs /\ status[g] \in {"waiting", "sent", "unknown"}
  OBVIOUS
<1> HIDE DEF st, replaced
<1>6. /\ status' \in [Frames -> Statuses]
      /\ \A g \in Frames : \/ status'[g] = st[g]
                           \/ status'[g] = "forgotten" /\ st[g] \in {"acked", "refused", "unknown"}
  BY <1>1, <1>3, Trimmed
<1>7. status'[f] = IF sent THEN "sent" ELSE "waiting"
  BY <1>4, <1>6
<1>8. ASSUME NEW g \in Frames \ {f}
      PROVE  \/ status'[g] = status[g]
             \/ status'[g] = "forgotten" /\ status[g] \in {"acked", "refused", "unknown"}
             \/ status'[g] = "forgotten" /\ g \in Subs /\ status[g] \in {"waiting", "sent", "unknown"}
  BY <1>4, <1>5, <1>6
<1>9. QED BY <1>1, <1>2, <1>6, <1>7, <1>8

(* Once a socket is lost nothing counts as sent any more. *)
LEMMA Lost ==
  ASSUME OutboxOK
  PROVE  /\ SocketLost(status) \in [Frames -> Statuses]
         /\ \A f \in Frames : SocketLost(status)[f] = IF status[f] # "sent" THEN status[f]
                                                      ELSE IF isQueued(f) THEN "waiting" ELSE "unknown"
BY DEF OutboxOK, SocketLost, Statuses

(* Transcript entries deliver prompts that were acked, or nobody knows about. *)
LEMMA Settled ==
  ASSUME NEW st \in [Frames -> Statuses], NEW es \in SUBSET Entries, NEW used, settle(st, es, used)
  PROVE  /\ status' \in [Frames -> Statuses]
         /\ \A f \in Frames : \/ status'[f] = st[f]
                              \/ f \in Prompts /\ st[f] \in {"acked", "unknown"} /\ status'[f] = "delivered"
         /\ \E U \in SUBSET es : delivered' = used \cup U
<1>1. Delivered(st, es, used) \subseteq {p \in Prompts : st[p] \in {"acked", "unknown"}}
  BY DEF Delivered, Open
<1>2. Used(st, es, used) \in SUBSET es
  BY DEF Used
<1>3. QED BY <1>1, <1>2, SMT DEF settle, Statuses


(* A frame the builder makes: the last one made, on the socket if there is one. *)
LEMMA Makes ==
  ASSUME TypeOK, NEW f \in Frames, queue(f) \/ sendNow(f)
  PROVE  /\ status[f] = "none" /\ Len(made) < MaxFrames
         /\ f \in Answers => socket # NoSocket
         /\ made' = Append(made, f) /\ made' \in Seq(Frames)
         /\ status' \in [Frames -> Statuses]
         /\ status'[f] = IF socket # NoSocket THEN "sent" ELSE "waiting"
         /\ \A g \in Frames \ {f} :
              \/ status'[g] = status[g]
              \/ status'[g] = "forgotten" /\ status[g] \in {"acked", "refused", "unknown"}
              \/ status'[g] = "forgotten" /\ g \in Subs /\ status[g] \in {"waiting", "sent", "unknown"}
         /\ sentOnce' = IF socket # NoSocket THEN sentOnce \cup {f} ELSE sentOnce
         /\ wire' = IF socket \in open THEN [wire EXCEPT ![socket] = Append(@, f)] ELSE wire
         /\ UNCHANGED <<dropped, oldSession, delivered, screen, socket, device, sockets, open,
                        deviceOf, inbox, server, subscription, agent>>
<1> DEFINE sent == socket # NoSocket
<1>1. OutboxOK /\ sent \in BOOLEAN /\ WireOK /\ LinkOK
  BY Parts
<1>2. status[f] = "none" /\ Len(made) < MaxFrames /\ enqueue(f, sent)
  BY DEF queue, sendNow, Unmade
<1>3. f \in Answers => socket # NoSocket
  BY DEF queue, sendNow, isQueued
<1>4. wire' = IF socket \in open THEN [wire EXCEPT ![socket] = Append(@, f)] ELSE wire
  <2>1. \/ socket # NoSocket /\ wire' = IF socket \in open THEN [wire EXCEPT ![socket] = @ \o <<f>>] ELSE wire
        \/ socket = NoSocket /\ wire' = wire
    BY DEF queue, sendNow, Write
  <2>2. NoSocket \notin open
    BY <1>1 DEF LinkOK, NoSocket
  <2>3. socket \in open => wire[socket] \in Seq(Frames)
    <3>1. open \subseteq Sockets
      BY <1>1, LinkAssumption DEF LinkOK, Sockets
    <3>2. QED BY <1>1, <3>1 DEF WireOK
  <2>4. socket \in open => wire[socket] \o <<f>> = Append(wire[socket], f)
    BY <2>3
  <2>5. QED BY <2>1, <2>2, <2>4
<1>5. UNCHANGED <<dropped, oldSession, delivered, screen, socket, device, sockets, open,
                  deviceOf, inbox, server, subscription, agent>>
  BY DEF queue, sendNow
<1> HIDE DEF sent
<1>6. /\ made' = Append(made, f) /\ made' \in Seq(Frames)
      /\ status' \in [Frames -> Statuses]
      /\ status'[f] = IF sent THEN "sent" ELSE "waiting"
      /\ \A g \in Frames \ {f} :
              \/ status'[g] = status[g]
              \/ status'[g] = "forgotten" /\ status[g] \in {"acked", "refused", "unknown"}
              \/ status'[g] = "forgotten" /\ g \in Subs /\ status[g] \in {"waiting", "sent", "unknown"}
      /\ sentOnce' = IF sent THEN sentOnce \cup {f} ELSE sentOnce
  BY <1>1, <1>2, Enqueued
<1>7. QED BY <1>2, <1>3, <1>4, <1>5, <1>6 DEF sent

(* What is typed comes last; the rest keep their places. *)
LEMMA TypedLast ==
  ASSUME AgentOK, NEW f \in Prompts \cup Answers, NEW d \in Devices, run \in Runs, type(f, d)
  PROVE  /\ typed' \in Seq(Typings) /\ Entries \subseteq Entries' /\ Len(typed') = Len(typed) + 1
         /\ Entries' = Entries \cup {Len(typed')} /\ Len(typed') \in Nat /\ Len(typed') \notin Entries
         /\ \A i \in Entries : typed'[i] = typed[i]
         /\ typed'[Len(typed')] = [frame |-> f, device |-> d, run |-> run, cli |-> cli]
<1> DEFINE t == [frame |-> f, device |-> d, run |-> run, cli |-> cli]
<1>1. t \in Typings
  BY DEF AgentOK, Typings
<1>2. typed' = Append(typed, t) /\ typed \in Seq(Typings)
  BY DEF type, AgentOK
<1> HIDE DEF t
<1>3. /\ typed' \in Seq(Typings) /\ Entries \subseteq Entries' /\ Len(typed') = Len(typed) + 1
      /\ Entries' = Entries \cup {Len(typed')} /\ Len(typed') \in Nat /\ Len(typed') \notin Entries
      /\ \A i \in Entries : typed'[i] = typed[i]
      /\ typed'[Len(typed')] = t
  BY <1>1, <1>2 DEF Entries
<1>4. QED BY <1>3 DEF t

(* More typed makes no entry or transcript ill typed. *)
LEMMA MoreTyped ==
  ASSUME Entries \subseteq Entries'
  PROVE  /\ ScreenOK /\ UNCHANGED <<delivered, screen>> => ScreenOK'
         /\ Mails \subseteq Mails'
         /\ MailOK => inbox \in Seq(Mails')
<1>1. ScreenOK /\ UNCHANGED <<delivered, screen>> => ScreenOK'
  BY DEF ScreenOK, screen
<1>2. Mails \subseteq Mails'
  BY DEF Mails
<1>3. MailOK => inbox \in Seq(Mails')
  <2> HIDE DEF Mails
  <2>1. QED BY <1>2 DEF MailOK
<1>4. QED BY <1>1, <1>2, <1>3

(* A reply comes last, or nowhere. *)
LEMMA Replied ==
  ASSUME MailOK, NEW f \in Frames, NEW ok \in BOOLEAN, NEW s, Reply(s, f, ok), Entries \subseteq Entries'
  PROVE  /\ MailOK'
         /\ inbox' \in {inbox, Append(inbox, [ack |-> f, ok |-> ok])}
         /\ inbox' # inbox => s = socket /\ s \in open
<1> DEFINE m == [ack |-> f, ok |-> ok]
<1>1. inbox' \in {inbox, Append(inbox, m)} /\ (inbox' # inbox => s = socket /\ s \in open)
  BY DEF Reply
<1>2. m \in Mails
  BY DEF Mails
<1> HIDE DEF m
<1>3. inbox \in Seq(Mails') /\ m \in Mails'
  BY <1>2, MoreTyped
<1>4. inbox' \in Seq(Mails')
  <2> DEFINE M == Mails'
  <2> HIDE DEF M
  <2>1. inbox \in Seq(M) /\ m \in M
    BY <1>3 DEF M
  <2>2. inbox' \in Seq(M)
    BY <1>1, <2>1
  <2>3. QED BY <2>2 DEF M
<1>5. QED BY <1>1, <1>4 DEF MailOK, m


(* Every step of the phone keeps the types. *)
LEMMA PhoneTypes == ASSUME TypeOK, Phone PROVE TypeOK'
<1>1. OutboxOK /\ ScreenOK /\ LinkOK /\ WireOK /\ MailOK /\ MacOK /\ AckedOK /\ AgentOK /\ ShownOK
  BY Parts
<1>2. open \subseteq Sockets /\ NoSocket \notin open
  BY <1>1, LinkAssumption DEF LinkOK, Sockets, NoSocket
<1>3. ASSUME NEW f \in Frames, queue(f) \/ sendNow(f) PROVE TypeOK'
  <2>1. UNCHANGED <<dropped, oldSession, delivered, screen, socket, device, sockets, open,
                    deviceOf, inbox, server, subscription, agent>>
    BY <1>3, Makes
  <2>2. OutboxOK'
    <3>1. sentOnce' \subseteq Frames
      BY <1>1, <1>3, Makes DEF OutboxOK
    <3>2. made' \in Seq(Frames) /\ status' \in [Frames -> Statuses]
      BY <1>3, Makes
    <3>3. QED BY <1>1, <2>1, <3>1, <3>2 DEF OutboxOK
  <2>3. WireOK'
    <3>1. socket \in open => Append(wire[socket], f) \in Seq(Frames)
      BY <1>1, <1>2 DEF WireOK
    <3>2. wire' = IF socket \in open THEN [wire EXCEPT ![socket] = Append(@, f)] ELSE wire
      BY <1>3, Makes
    <3> DEFINE w == Append(wire[socket], f)
    <3>3. (socket \in open => w \in Seq(Frames)) /\ wire' = IF socket \in open THEN [wire EXCEPT ![socket] = w] ELSE wire
      BY <3>1, <3>2
    <3> HIDE DEF w
    <3>4. QED BY <1>1, <3>3 DEF WireOK
  <2>4. QED BY <1>1, <2>1, <2>2, <2>3, Unchanged, PartsNext DEF server, agent
<1>4. ASSUME NEW f \in Frames, Forget(f) PROVE TypeOK'
  <2>1. OutboxOK'
    BY <1>1, <1>4 DEF Forget, OutboxOK, Statuses
  <2>2. UNCHANGED <<delivered, screen, socket, device, network, inbox, server, subscription, agent>>
    BY <1>4 DEF Forget
  <2>3. QED BY <1>1, <2>1, <2>2, Unchanged, PartsNext DEF network, server, agent
<1>5. ASSUME connected PROVE TypeOK'
  <2>1. sockets + 1 \in Sockets /\ sockets + 1 \in 0..MaxSockets
    BY <1>1, <1>5, LinkAssumption DEF connected, LinkOK, Sockets
  <2>2. OutboxOK'
    <3>1. status' \in [Frames -> Statuses] /\ sentOnce' \subseteq Frames
      BY <1>1, <1>5 DEF connected, OutboxOK, Statuses
    <3>2. QED BY <1>1, <1>5, <3>1 DEF connected, OutboxOK
  <2>3. LinkOK'
    <3>1. socket' \in Sockets \cup {NoSocket} /\ device' \in Devices /\ sockets' \in 0..MaxSockets
      BY <1>1, <1>5, <2>1 DEF connected, LinkOK
    <3>2. open' \subseteq 1..sockets'
      BY <1>1, <1>5 DEF connected, LinkOK
    <3>3. deviceOf' \in [Sockets -> Devices]
      BY <1>1, <1>5 DEF connected, LinkOK
    <3>4. QED BY <3>1, <3>2, <3>3 DEF LinkOK
  <2>4. WireOK'
    <3>1. toSend \in Seq(Frames)
      BY <1>1, ToSend
    <3>2. wire' = [wire EXCEPT ![sockets'] = toSend]
      BY <1>5 DEF connected
    <3>3. QED BY <1>1, <3>1, <3>2 DEF WireOK
  <2>5. UNCHANGED <<delivered, screen, inbox, server, subscription, agent>>
    BY <1>5 DEF connected
  <2>6. QED BY <1>1, <2>2, <2>3, <2>4, <2>5, Unchanged, PartsNext DEF server, agent
<1>6. ASSUME lost \/ relaunch \/ pair PROVE TypeOK'
  <2>1. status' \in [Frames -> Statuses]
    <3>1. CASE lost
      BY <1>1, <3>1, Lost DEF lost, socketLost
    <3>2. CASE relaunch
      <4>1. PICK old \in SUBSET {f \in Frames : status[f] \in {"acked", "unknown"}} :
              status' = [f \in Frames |->
                           IF status[f] \in InOutbox /\ (~isQueued(f) \/ f \in old) THEN "forgotten"
                           ELSE SocketLost(status)[f]]
        BY <3>2 DEF relaunch
      <4>2. QED BY <1>1, <4>1, Lost DEF Statuses
    <3>3. CASE pair
      BY <1>1, <3>3, Lost DEF pair, newDevice, Statuses
    <3>4. QED BY <1>6, <3>1, <3>2, <3>3
  <2>2. OutboxOK'
    <3>1. made' = made /\ sentOnce' = sentOnce /\ oldSession' = oldSession /\ dropped' \subseteq dropped \cup Frames
      BY <1>6 DEF lost, socketLost, relaunch, pair
    <3>2. QED BY <1>1, <2>1, <3>1 DEF OutboxOK
  <2>3. ScreenOK'
    <3>1. /\ \/ UNCHANGED screen
             \/ transcript' = {} /\ knownCli' = 0 /\ UNCHANGED seen
          /\ UNCHANGED <<delivered, typed>>
      BY <1>6 DEF lost, relaunch, pair, agent
    <3>2. QED BY <1>1, <3>1, Unchanged DEF ScreenOK, Entries
  <2>4. LinkOK'
    <3>1. /\ socket' = NoSocket /\ UNCHANGED <<sockets, open, deviceOf>>
          /\ device' = device \/ (Upset /\ device' = device + 1)
      BY <1>6 DEF lost, relaunch, pair, network
    <3>2. device' \in Devices
      BY <1>1, <3>1, LinkAssumption DEF LinkOK, MacOK, AgentOK, Upset, Devices, Runs, CliSessions
    <3>3. QED BY <1>1, <3>1, <3>2 DEF LinkOK
  <2>5. inbox' = <<>> /\ MailOK'
    <3>1. inbox' = <<>>
      BY <1>6 DEF lost, relaunch, pair
    <3> DEFINE M == Mails'
    <3> HIDE DEF M
    <3>2. <<>> \in Seq(M)
      OBVIOUS
    <3>3. QED BY <3>1, <3>2 DEF MailOK, M
  <2>6. UNCHANGED <<wire, server, subscription, agent>>
    BY <1>6 DEF lost, relaunch, pair, network
  <2>7. QED BY <1>1, <2>2, <2>3, <2>4, <2>5, <2>6, Unchanged, PartsNext DEF server, agent
<1>7. ASSUME onAck PROVE TypeOK'
  <2> DEFINE m == Head(inbox)
             st == IF status[m.ack] \notin InOutbox THEN status
                   ELSE [status EXCEPT ![m.ack] = IF ~m.ok THEN "refused"
                                                  ELSE IF m.ack \in Subs \cup oldSession THEN "settled"
                                                  ELSE "acked"]
  <2>1. inbox # <<>> /\ inbox' = Tail(inbox) /\ MailOK'
    <3>1. inbox # <<>> /\ inbox' = Tail(inbox) /\ UNCHANGED typed
      BY <1>7 DEF onAck, agent
    <3>2. Mails' = Mails
      BY <3>1 DEF Mails, Entries
    <3> HIDE DEF Mails
    <3>3. QED BY <1>1, <3>1, <3>2 DEF MailOK
  <2>2. /\ \/ settle(st, transcript, delivered)
           \/ status' = st /\ UNCHANGED delivered
        /\ UNCHANGED <<made, sentOnce, dropped, oldSession, screen, socket, device, network,
                       server, subscription, agent>>
    BY <1>7 DEF onAck
  <2>3. st \in [Frames -> Statuses]
    BY <1>1 DEF OutboxOK, Statuses
  <2> HIDE DEF st
  <2>4. transcript \in SUBSET Entries
    BY <1>1 DEF ScreenOK
  <2>5. status' \in [Frames -> Statuses] /\ (delivered' \subseteq delivered \cup transcript)
    BY <2>2, <2>3, <2>4, Settled
  <2>6. OutboxOK'
    BY <1>1, <2>2, <2>5 DEF OutboxOK
  <2>7. ScreenOK'
    BY <1>1, <2>2, <2>4, <2>5 DEF ScreenOK, screen, agent, Entries
  <2>8. QED BY <1>1, <2>1, <2>2, <2>6, <2>7, Unchanged, PartsNext DEF network, server, agent
<1>8. ASSUME onTranscript PROVE TypeOK'
  <2> DEFINE m == Head(inbox)
             renewed == knownCli # 0 /\ m.cli # knownCli
             acked == {p \in Prompts : status[p] = "acked"}
             st == [f \in Frames |-> IF renewed /\ f \in acked THEN "settled" ELSE status[f]]
             used == IF renewed THEN {} ELSE delivered
  <2>1. inbox # <<>> /\ inbox' = Tail(inbox) /\ MailOK'
    <3>1. inbox # <<>> /\ inbox' = Tail(inbox) /\ UNCHANGED typed
      BY <1>8 DEF onTranscript, agent
    <3>2. Mails' = Mails
      BY <3>1 DEF Mails, Entries
    <3> HIDE DEF Mails
    <3>3. QED BY <1>1, <3>1, <3>2 DEF MailOK
  <2>2. m.entries \in SUBSET Entries /\ m.cli \in CliSessions
    <3>1. m \in Mails /\ "entries" \in DOMAIN m
      BY <1>1, <1>8 DEF onTranscript, MailOK
    <3>2. m \notin [ack : Frames, ok : BOOLEAN]
      BY <3>1
    <3>3. QED BY <3>1, <3>2 DEF Mails
  <2>3. /\ settle(st, m.entries, used)
        /\ oldSession' \subseteq oldSession \cup Prompts
        /\ transcript' = m.entries /\ knownCli' = m.cli /\ seen' = seen \cup m.entries
        /\ UNCHANGED <<made, sentOnce, dropped, socket, device, network, server, subscription, agent>>
    BY <1>8 DEF onTranscript, inFlight
  <2>4. st \in [Frames -> Statuses] /\ used \subseteq delivered
    BY <1>1 DEF OutboxOK, Statuses
  <2> HIDE DEF st, used, m
  <2>5. status' \in [Frames -> Statuses] /\ (delivered' \subseteq delivered \cup m.entries)
    BY <2>2, <2>3, <2>4, Settled
  <2>6. OutboxOK'
    BY <1>1, <2>3, <2>5 DEF OutboxOK
  <2>7. ScreenOK'
    BY <1>1, <2>2, <2>3, <2>5 DEF ScreenOK, agent, Entries
  <2>8. QED BY <1>1, <2>1, <2>3, <2>6, <2>7, Unchanged, PartsNext DEF network, server, agent
<1>9. QED BY <1>3, <1>4, <1>5, <1>6, <1>7, <1>8 DEF Phone


(* Sockets the Mac holds are sockets made, and a frame on one is a frame. *)
LEMMA OnSocket ==
  ASSUME TypeOK, NEW s \in Sockets
  PROVE  /\ wire[s] \in Seq(Frames) /\ deviceOf[s] \in Devices /\ acks[deviceOf[s]] \in Seq(Acks)
         /\ wire[s] # <<>> => Head(wire[s]) \in Frames /\ Tail(wire[s]) \in Seq(Frames)
<1>1. wire[s] \in Seq(Frames) /\ deviceOf[s] \in Devices
  BY Parts DEF WireOK, LinkOK
<1>2. acks[deviceOf[s]] \in Seq(Acks)
  BY <1>1, Parts DEF AckedOK
<1>3. QED BY <1>1, <1>2

(* What is remembered of a frame comes last; nothing is evicted while fewer than AcksKept are kept. *)
LEMMA Remembered ==
  ASSUME AckedOK, NEW d \in Devices, NEW f \in Frames, NEW r \in {"pending", "ok", "refused"}, remember(d, f, r)
  PROVE  /\ AckedOK'
         /\ Len(acks[d]) < AcksKept => /\ acks'[d] = Append(acks[d], [frame |-> f, result |-> r])
                                      /\ \A e \in Devices \ {d} : acks'[e] = acks[e]
<1> DEFINE a == [frame |-> f, result |-> r]
           kept == Append(acks[d], a)
<1>1. a \in Acks
  BY DEF Acks
<1>2. acks[d] \in Seq(Acks)
  BY DEF AckedOK
<1>3. acks' = [acks EXCEPT ![d] = IF Len(kept) > AcksKept THEN Tail(kept) ELSE kept]
  BY DEF remember
<1> HIDE DEF a
<1>4. kept \in Seq(Acks) /\ kept # <<>> /\ Len(kept) = Len(acks[d]) + 1 /\ Tail(kept) \in Seq(Acks)
  BY <1>1, <1>2
<1>5. Len(acks[d]) < AcksKept => ~(Len(kept) > AcksKept)
  BY <1>2, <1>4, LinkAssumption
<1> HIDE DEF kept
<1>6. AckedOK'
  BY <1>3, <1>4 DEF AckedOK
<1>7. Len(acks[d]) < AcksKept => acks' = [acks EXCEPT ![d] = kept]
  BY <1>3, <1>5
<1>8. QED BY <1>6, <1>7 DEF AckedOK, kept, a

(* Only answers are acted on for a while. *)
PendingOK == \A d \in Devices : \A i \in DOMAIN acks[d] : acks[d][i].result = "pending" => acks[d][i].frame \in Answers

(* Every step of the Mac keeps the types. *)
LEMMA MacTypes == ASSUME TypeOK, PendingOK, Mac PROVE TypeOK'
<1>1. OutboxOK /\ ScreenOK /\ LinkOK /\ WireOK /\ MailOK /\ MacOK /\ AckedOK /\ AgentOK /\ ShownOK
  BY Parts
<1>2. ASSUME NEW s \in Sockets, handleClientFrame(s) PROVE TypeOK'
  <2> DEFINE f == Head(wire[s])
             d == deviceOf[s]
  <2>1. /\ wire' = [wire EXCEPT ![s] = Tail(@)] /\ wire[s] # <<>>
        /\ Resent(s, f) \/ sendPrompt(s, f) \/ setPushSubscription(s, f) \/ startAnswer(s, f)
        /\ UNCHANGED <<phone, sockets, open, deviceOf, run, cli, shown>>
    BY <1>2 DEF handleClientFrame
  <2>2. f \in Frames /\ Tail(wire[s]) \in Seq(Frames) /\ d \in Devices
    BY <2>1, OnSocket
  <2> DEFINE t == Tail(wire[s])
  <2>3. WireOK'
    <3>1. wire' = [wire EXCEPT ![s] = t] /\ t \in Seq(Frames)
      BY <2>1, <2>2
    <3> HIDE DEF t
    <3>2. QED BY <1>1, <3>1 DEF WireOK
  <2> HIDE DEF f, d
  <2>4. \/ UNCHANGED typed
        \/ f \in Prompts \cup Answers /\ type(f, d)
    BY <2>1 DEF Resent, sendPrompt, setPushSubscription, startAnswer, d
  <2>5. /\ typed' \in Seq(Typings) /\ Entries \subseteq Entries' /\ Len(typed) \in Nat
        /\ UNCHANGED typed \/ Len(typed') = Len(typed) + 1
    <3>1. run \in Runs /\ Len(typed) \in Nat /\ typed \in Seq(Typings)
      BY <1>1 DEF MacOK, AgentOK
    <3>2. CASE UNCHANGED typed
      BY <3>1, <3>2 DEF Entries
    <3>3. CASE f \in Prompts \cup Answers /\ type(f, d)
      BY <1>1, <2>2, <3>1, <3>3, TypedLast
    <3>4. QED BY <2>4, <3>2, <3>3
  <2>6. AgentOK' /\ ShownOK' /\ ScreenOK' /\ OutboxOK'
    <3>1. AgentOK'
      BY <1>1, <2>1, <2>5 DEF AgentOK, Typings
    <3>2. ShownOK'
      BY <1>1, <2>1, <2>5 DEF ShownOK
    <3>3. ScreenOK'
      BY <1>1, <2>1, <2>5, MoreTyped DEF phone, outbox
    <3>4. OutboxOK'
      BY <1>1, <2>1, Unchanged DEF phone, outbox
    <3>5. QED BY <3>1, <3>2, <3>3, <3>4
  <2>7. MailOK'
    <3>1. inbox' = inbox \/ \E ok \in BOOLEAN : Reply(s, f, ok)
      BY <2>1 DEF Resent, sendPrompt, setPushSubscription, startAnswer
    <3>2. inbox' = inbox => MailOK'
      BY <1>1, <2>5, MoreTyped DEF MailOK
    <3>3. QED BY <1>1, <2>2, <2>5, <3>1, <3>2, Replied
  <2>8. AckedOK'
    <3>1. acks' = acks \/ \E r \in {"pending", "ok", "refused"} : remember(d, f, r)
      BY <2>1 DEF Resent, sendPrompt, setPushSubscription, startAnswer, d
    <3>2. acks' = acks => AckedOK'
      BY <1>1 DEF AckedOK
    <3>3. QED BY <1>1, <2>2, <3>1, <3>2, Remembered
  <2>9. MacOK'
    <3>1. acting' = acting \/ (f \in Answers /\ acting' = acting \cup {[frame |-> f, on |-> s]})
      <4>1. \/ acting' = acting \/ (f \in Answers /\ acting' = acting \cup {[frame |-> f, on |-> s]})
            \/ \E a \in AckOf(d, f) : a.result = "pending" /\ acting' = acting \cup {[frame |-> f, on |-> s]}
        BY <2>1 DEF Resent, sendPrompt, setPushSubscription, startAnswer, d
      <4>2. ASSUME NEW a \in AckOf(d, f), a.result = "pending" PROVE f \in Answers
        BY <2>2, <4>2 DEF AckOf, Range, PendingOK
      <4>3. QED BY <4>1, <4>2
    <3>2. \/ subscription' = subscription
          \/ f \in Subs /\ subscription' = [subscription EXCEPT ![d] = f]
      BY <2>1 DEF Resent, sendPrompt, setPushSubscription, startAnswer, d
    <3>3. subscription' \in [Devices -> Subs \cup {None}]
      BY <1>1, <3>2 DEF MacOK
    <3>4. acting' \subseteq [frame : Answers, on : Sockets]
      BY <1>1, <3>1 DEF MacOK
    <3>5. QED BY <1>1, <2>1, <3>3, <3>4 DEF MacOK
  <2>10. LinkOK'
    BY <1>1, <2>1, Unchanged DEF phone
  <2>11. QED BY <2>3, <2>6, <2>7, <2>8, <2>9, <2>10, PartsNext
<1>3. ASSUME NEW s \in Sockets, onClose(s) PROVE TypeOK'
  <2>1. WireOK'
    BY <1>1, <1>3 DEF onClose, WireOK
  <2>2. LinkOK'
    BY <1>1, <1>3 DEF onClose, LinkOK, phone
  <2>3. UNCHANGED <<phone, inbox, server, subscription, agent>>
    BY <1>3 DEF onClose
  <2>4. QED BY <1>1, <2>1, <2>2, <2>3, Unchanged, PartsNext DEF phone, outbox, server, agent
<1>5. ASSUME Restart PROVE TypeOK'
  <2>1. /\ run' = run + 1 /\ Upset /\ acks' = [d \in Devices |-> <<>>] /\ acting' = {} /\ open' = {}
        /\ wire' = [s \in Sockets |-> <<>>]
        /\ UNCHANGED <<phone, sockets, deviceOf, inbox, subscription, agent>>
    BY <1>5 DEF Restart
  <2>2. run' \in Runs
    BY <1>1, <2>1, LinkAssumption DEF LinkOK, MacOK, AgentOK, Upset, Devices, Runs, CliSessions
  <2>3. MacOK' /\ WireOK' /\ AckedOK' /\ LinkOK'
    <3>1. MacOK'
      BY <1>1, <2>1, <2>2 DEF MacOK
    <3>2. WireOK'
      BY <2>1 DEF WireOK
    <3>3. AckedOK'
      BY <2>1 DEF AckedOK
    <3>4. LinkOK'
      BY <1>1, <2>1 DEF LinkOK, phone
    <3>5. QED BY <3>1, <3>2, <3>3, <3>4
  <2>4. QED BY <1>1, <2>1, <2>3, Unchanged, PartsNext DEF phone, outbox, server, agent
<1>6. ASSUME sendTranscript PROVE TypeOK'
  <2> DEFINE es == {i \in Here : Cardinality({j \in Here : j <= i}) <= shown}
             m == [cli |-> cli, entries |-> es]
  <2>1. inbox' = Append(inbox, m) /\ UNCHANGED <<phone, network, server, subscription, agent>>
    BY <1>6 DEF sendTranscript
  <2>2. es \in SUBSET Entries
    BY DEF Here
  <2> HIDE DEF es
  <2>3. m \in Mails
    BY <1>1, <2>2 DEF Mails, AgentOK
  <2>4. Mails' = Mails
    BY <2>1 DEF Mails, Entries, agent
  <2> HIDE DEF m
  <2>5. MailOK'
    <3> HIDE DEF Mails
    <3>1. QED BY <1>1, <2>1, <2>3, <2>4 DEF MailOK
  <2>6. QED BY <1>1, <2>1, <2>5, Unchanged, PartsNext DEF phone, outbox, network, server, agent
<1>4. ASSUME NEW f \in Answers, finishAnswer(f) PROVE TypeOK'
  <2>1. PICK ok \in BOOLEAN, a \in acting :
          /\ acting' \subseteq acting /\ a.frame = f
          /\ acks' = [d \in Devices |-> [i \in DOMAIN acks[d] |->
                       IF acks[d][i] = [frame |-> f, result |-> "pending"]
                       THEN [frame |-> f, result |-> IF ok THEN "ok" ELSE "refused"]
                       ELSE acks[d][i]]]
          /\ Reply(a.on, f, ok)
          /\ type(f, deviceOf[a.on]) \/ UNCHANGED typed
          /\ UNCHANGED <<phone, network, run, subscription, cli, shown>>
    BY <1>4 DEF finishAnswer
  <2>2. deviceOf[a.on] \in Devices /\ f \in Frames /\ run \in Runs /\ Len(typed) \in Nat /\ typed \in Seq(Typings)
    BY <1>1 DEF MacOK, LinkOK, AgentOK, Frames
  <2>3. typed' \in Seq(Typings) /\ Entries \subseteq Entries' /\ (UNCHANGED typed \/ Len(typed') = Len(typed) + 1)
    <3>1. CASE UNCHANGED typed
      BY <2>2, <3>1 DEF Entries
    <3>2. CASE type(f, deviceOf[a.on])
      BY <1>1, <2>2, <3>2, TypedLast
    <3>3. QED BY <2>1, <3>1, <3>2
  <2>4. AgentOK' /\ ShownOK' /\ ScreenOK' /\ OutboxOK'
    <3>1. AgentOK'
      BY <1>1, <2>1, <2>3 DEF AgentOK, Typings
    <3>2. ShownOK'
      BY <1>1, <2>1, <2>2, <2>3 DEF ShownOK
    <3>3. ScreenOK'
      BY <1>1, <2>1, <2>3, MoreTyped DEF phone, outbox
    <3>4. OutboxOK'
      BY <1>1, <2>1, Unchanged DEF phone, outbox
    <3>5. QED BY <3>1, <3>2, <3>3, <3>4
  <2>5. MailOK'
    BY <1>1, <2>1, <2>2, <2>3, Replied
  <2>6. AckedOK'
    <3>1. ASSUME NEW d \in Devices PROVE acks'[d] \in Seq(Acks)
      <4> DEFINE x == [frame |-> f, result |-> "pending"]
                 y == [frame |-> f, result |-> IF ok THEN "ok" ELSE "refused"]
      <4>1. y \in Acks
        BY <2>2 DEF Acks
      <4>2. acks'[d] = [i \in DOMAIN acks[d] |-> IF acks[d][i] = x THEN y ELSE acks[d][i]]
        BY <2>1
      <4>3. acks[d] \in Seq(Acks)
        BY <1>1 DEF AckedOK
      <4> HIDE DEF x, y, Acks
      <4>4. QED BY <4>1, <4>2, <4>3
    <3>2. DOMAIN acks' = Devices /\ acks' = [d \in DOMAIN acks' |-> acks'[d]]
      BY <2>1
    <3>3. QED BY <3>1, <3>2, Zenon DEF AckedOK
  <2>7. MacOK' /\ LinkOK' /\ WireOK'
    <3>1. MacOK'
      BY <1>1, <2>1 DEF MacOK
    <3>2. LinkOK' /\ WireOK'
      BY <1>1, <2>1, Unchanged DEF phone, network
    <3>3. QED BY <3>1, <3>2
  <2>8. QED BY <2>4, <2>5, <2>6, <2>7, PartsNext
<1>7. QED BY <1>2, <1>3, <1>4, <1>5, <1>6 DEF Mac

(* As many messages show as there are at most. *)
LEMMA ContactTypes == ASSUME TypeOK, Contact PROVE TypeOK'
<1>1. OutboxOK /\ ScreenOK /\ LinkOK /\ WireOK /\ MailOK /\ MacOK /\ AckedOK /\ AgentOK /\ ShownOK
  BY Parts
<1>2. /\ UNCHANGED <<phone, network, inbox, server, subscription, typed>>
      /\ \/ shown < Cardinality(Here) /\ shown' = shown + 1 /\ cli' = cli
         \/ Upset /\ cli' = cli + 1 /\ shown' = 0
  BY DEF Contact, Show, NewSession
<1>3. Cardinality(Here) <= Len(typed) /\ Cardinality(Here) \in Nat /\ Len(typed) \in Nat
  <2>1. Len(typed) \in Nat
    BY <1>1 DEF AgentOK
  <2>2. 1 \in Int /\ Len(typed) \in Int
    BY <2>1
  <2>3. IsFiniteSet(1..Len(typed)) /\ Cardinality(1..Len(typed)) = Len(typed)
    <3>1. /\ IsFiniteSet(1..Len(typed))
          /\ Cardinality(1..Len(typed)) = IF 1 > Len(typed) THEN 0 ELSE Len(typed) - 1 + 1
      BY <2>2, FS_Interval, Zenon
    <3>2. QED BY <2>1, <3>1
  <2>4. Here \in SUBSET (1..Len(typed))
    BY DEF Here, Entries
  <2> HIDE DEF Here
  <2>5. QED BY <2>1, <2>3, <2>4, FS_Subset, FS_CardinalityType
<1>4. ShownOK'
  BY <1>1, <1>2, <1>3 DEF ShownOK
<1>5. cli' \in CliSessions
  BY <1>1, <1>2, LinkAssumption DEF LinkOK, MacOK, AgentOK, Upset, Devices, Runs, CliSessions
<1>6. AgentOK'
  BY <1>1, <1>2, <1>5 DEF AgentOK, Typings
<1>7. QED BY <1>1, <1>2, <1>4, <1>6, Unchanged, PartsNext DEF phone, outbox, network, server

(* The types hold at first. *)
LEMMA InitTypes == Init => TypeOK
<1> SUFFICES ASSUME Init PROVE TypeOK
  OBVIOUS
<1>1. 1 \in Devices /\ 1 \in Runs /\ 1 \in CliSessions /\ 0 \in 0..MaxSockets
  BY LinkAssumption DEF Devices, Runs, CliSessions
<1>2. OutboxOK
  BY DEF Init, OutboxOK, Statuses
<1>3. ScreenOK
  BY DEF Init, ScreenOK
<1>4. LinkOK
  BY <1>1 DEF Init, LinkOK
<1>5. WireOK
  BY DEF Init, WireOK
<1>6. MailOK
  <2> DEFINE M == Mails
  <2> HIDE DEF M
  <2>1. <<>> \in Seq(M)
    OBVIOUS
  <2>2. QED BY <2>1 DEF Init, MailOK, M
<1>7. MacOK
  BY <1>1 DEF Init, MacOK
<1>8. AckedOK
  BY DEF Init, AckedOK
<1>9. AgentOK /\ ShownOK
  <2> DEFINE T == Typings
  <2> HIDE DEF T
  <2>1. typed \in Seq(T) /\ Len(typed) = 0
    BY DEF Init
  <2>2. QED BY <1>1, <2>1 DEF Init, AgentOK, ShownOK, T
<1>10. QED BY <1>2, <1>3, <1>4, <1>5, <1>6, <1>7, <1>8, <1>9, Parts

(* A step that changes nothing changes no type. *)
LEMMA StutterTypes == ASSUME TypeOK, UNCHANGED vars PROVE TypeOK'
BY Parts, PartsNext, Unchanged DEF vars, phone, outbox, network, server, agent

-----------------------------------------------------------------------------
(* The inductive invariant, in the parts that a step can disturb. *)

OnWire(f, s) == \E k \in DOMAIN wire[s] : wire[s][k] = f
Held(kept, d, f, ok) ==
  \E i \in DOMAIN kept[d] : kept[d][i].frame = f /\ kept[d][i].result = IF ok THEN "ok" ELSE "refused"
AckedBy(d, f) == \E i \in DOMAIN acks[d] : acks[d][i].frame = f
Typed(f) == \E i \in Entries : typed[i].frame = f
TypedNow(f) == \E i \in Entries : typed[i].frame = f /\ typed[i].run = run
TypedFor(f, d) == \E i \in Entries : typed[i].frame = f /\ typed[i].run = run /\ typed[i].device = d
Acting(f) == \E a \in acting : a.frame = f
Moving(f) == status[f] \in {"waiting", "sent"}

\* This launch of Multi-Code has met the frame, or will, as one of this device.
Trace(f, d) ==
  \/ \E s \in Sockets : deviceOf[s] = d /\ OnWire(f, s)
  \/ AckedBy(d, f)
  \/ TypedFor(f, d)

MadeOK ==
  /\ Len(made) <= MaxFrames
  /\ \A i, j \in DOMAIN made : made[i] = made[j] => i = j
  /\ \A f \in Frames : status[f] # "none" <=> \E i \in DOMAIN made : made[i] = f

SocketOK ==
  /\ \A s \in Sockets : s \notin open => wire[s] = <<>>
  /\ socket # NoSocket => socket <= sockets /\ deviceOf[socket] = device
  /\ socket = NoSocket => inbox = <<>>
  /\ \A f \in Frames : /\ status[f] = "sent" => socket # NoSocket
                       /\ status[f] = "waiting" => socket = NoSocket /\ f \notin Answers

NoneOK ==
  \A f \in Frames : status[f] = "none" =>
    /\ ~Typed(f) /\ ~Acting(f)
    /\ \A s \in Sockets : ~OnWire(f, s)
    /\ \A d \in Devices : ~AckedBy(d, f)

AcksOK ==
  \A d \in Devices : \A i, j \in DOMAIN acks[d] : acks[d][i].frame = acks[d][j].frame => i = j

RunsOK == \A i \in Entries : typed[i].run <= run

SentOK ==
  \A p \in Prompts : \A d \in Devices :
    Trace(p, d) => p \in sentOnce /\ (Moving(p) => d = device)

OneDevice == \A p \in Prompts : \A d, e \in Devices : Trace(p, d) /\ Trace(p, e) => d = e

TypedAcked == \A p \in Prompts : \A d \in Devices : TypedFor(p, d) => AckedBy(d, p)

OneWire ==
  \A f \in Answers : \A s, t \in Sockets : \A k \in DOMAIN wire[s], l \in DOMAIN wire[t] :
    wire[s][k] = f /\ wire[t][l] = f => s = t /\ k = l

AnswersOK ==
  \A f \in Answers :
    /\ (\E s \in Sockets : OnWire(f, s)) => ~Acting(f) /\ ~Typed(f) /\ \A d \in Devices : ~AckedBy(d, f)
    /\ Acting(f) => ~Typed(f)

Once == TypeOK /\ PendingOK /\ MadeOK /\ SocketOK /\ NoneOK /\ AcksOK /\ RunsOK /\ SentOK
        /\ OneDevice /\ TypedAcked /\ OneWire /\ AnswersOK

-----------------------------------------------------------------------------
(* What the steps do to the frames on their way. *)

(* Types, as the proofs below need them. *)
LEMMA WireTypes ==
  ASSUME TypeOK
  PROVE  /\ open \subseteq Sockets /\ NoSocket \notin open
         /\ \A s \in Sockets : wire[s] \in Seq(Frames)
         /\ wire \in [Sockets -> Seq(Frames)]
         /\ socket # NoSocket => socket \in Sockets
         /\ \A s \in Sockets : deviceOf[s] \in Devices
         /\ status \in [Frames -> Statuses]
<1>1. LinkOK /\ WireOK /\ OutboxOK
  BY Parts
<1>2. QED BY <1>1, LinkAssumption DEF LinkOK, WireOK, OutboxOK, Sockets, NoSocket

(* Taking the head off a sequence moves the rest up one place. *)
LEMMA Tails ==
  ASSUME NEW S, NEW w \in Seq(S), w # <<>>
  PROVE  /\ 1 \in DOMAIN w /\ Head(w) = w[1] /\ Head(w) \in S /\ Tail(w) \in Seq(S)
         /\ \A k \in DOMAIN Tail(w) : k \in Nat /\ k + 1 \in DOMAIN w /\ Tail(w)[k] = w[k + 1]
         /\ \A k \in DOMAIN w : k \in Nat /\ (k = 1 \/ (k - 1 \in DOMAIN Tail(w) /\ Tail(w)[k - 1] = w[k]))
OBVIOUS

(* Appending to a sequence leaves the rest in place. *)
LEMMA Appends ==
  ASSUME NEW S, NEW w \in Seq(S), NEW x \in S
  PROVE  /\ Append(w, x) \in Seq(S) /\ Len(w) \in Nat /\ Len(Append(w, x)) = Len(w) + 1
         /\ DOMAIN Append(w, x) = DOMAIN w \cup {Len(w) + 1} /\ Len(w) + 1 \notin DOMAIN w
         /\ \A k \in DOMAIN w : k \in Nat /\ k < Len(w) + 1 /\ Append(w, x)[k] = w[k]
         /\ Append(w, x)[Len(w) + 1] = x
OBVIOUS

(* A frame made is on the socket too, if the Mac holds it. *)
LEMMA MakesOnWire ==
  ASSUME TypeOK, NEW f \in Frames, queue(f) \/ sendNow(f)
  PROVE  /\ \A s \in Sockets : wire'[s] = IF s = socket /\ s \in open THEN Append(wire[s], f) ELSE wire[s]
         /\ \A g \in Frames, s \in Sockets :
              OnWire(g, s)' <=> OnWire(g, s) \/ (g = f /\ s = socket /\ socket \in open)
<1>1. wire' = IF socket \in open THEN [wire EXCEPT ![socket] = Append(@, f)] ELSE wire
  BY Makes
<1>2. ASSUME NEW s \in Sockets PROVE wire'[s] = IF s = socket /\ s \in open THEN Append(wire[s], f) ELSE wire[s]
  BY <1>1, WireTypes
<1>3. ASSUME NEW g \in Frames, NEW s \in Sockets
      PROVE OnWire(g, s)' <=> OnWire(g, s) \/ (g = f /\ s = socket /\ socket \in open)
  <2>1. wire[s] \in Seq(Frames)
    BY WireTypes
  <2>2. CASE s = socket /\ s \in open
    <3>1. wire'[s] = Append(wire[s], f)
      BY <1>2, <2>2
    <3>2. QED BY <2>1, <2>2, <3>1 DEF OnWire
  <2>3. CASE ~(s = socket /\ s \in open)
    BY <1>2, <2>3 DEF OnWire
  <2>4. QED BY <2>2, <2>3
<1>4. QED BY <1>2, <1>3

(* The new socket carries what waited. *)
LEMMA ConnectsOnWire ==
  ASSUME TypeOK, MadeOK, SocketOK, connected
  PROVE  /\ socket' = sockets + 1 /\ socket' \in Sockets /\ deviceOf'[socket'] = device /\ device' = device
         /\ wire[socket'] = <<>> /\ wire'[socket'] = toSend
         /\ \A s \in Sockets : s # socket' => wire'[s] = wire[s] /\ deviceOf'[s] = deviceOf[s]
         /\ \A g \in Frames, s \in Sockets :
              OnWire(g, s)' <=> OnWire(g, s) \/ (s = socket' /\ status[g] = "waiting")
<1>1. LinkOK /\ WireOK /\ OutboxOK
  BY Parts
<1>2. socket' = sockets + 1 /\ socket' \in Sockets /\ socket' \notin open
  BY <1>1, LinkAssumption DEF connected, LinkOK, Sockets
<1>3. /\ wire' = [wire EXCEPT ![socket'] = toSend]
      /\ deviceOf' = [deviceOf EXCEPT ![socket'] = device] /\ device' = device
  BY DEF connected
<1>4. wire[socket'] = <<>>
  BY <1>2 DEF SocketOK
<1>5. wire'[socket'] = toSend /\ \A s \in Sockets : s # socket' => wire'[s] = wire[s]
  BY <1>1, <1>2, <1>3 DEF WireOK
<1>6. deviceOf'[socket'] = device /\ \A s \in Sockets : s # socket' => deviceOf'[s] = deviceOf[s]
  BY <1>1, <1>2, <1>3 DEF LinkOK
<1>7. ASSUME NEW g \in Frames
      PROVE  (\E k \in DOMAIN toSend : toSend[k] = g) <=> status[g] = "waiting"
  <2>1. ASSUME status[g] = "waiting" PROVE \E k \in DOMAIN toSend : toSend[k] = g
    <3>1. PICK i \in DOMAIN made : made[i] = g
      BY <2>1 DEF MadeOK
    <3>2. i \in Waiting
      BY <2>1, <3>1 DEF Waiting
    <3>3. QED BY <1>1, <3>1, <3>2, ToSend
  <2>2. QED BY <1>1, <2>1, ToSend
<1>8. ASSUME NEW g \in Frames, NEW s \in Sockets
      PROVE  OnWire(g, s)' <=> OnWire(g, s) \/ (s = socket' /\ status[g] = "waiting")
  <2>1. CASE s = socket'
    BY <1>4, <1>5, <1>7, <2>1 DEF OnWire
  <2>2. CASE s # socket'
    BY <1>5, <2>2 DEF OnWire
  <2>3. QED BY <2>1, <2>2
<1>9. QED BY <1>2, <1>3, <1>4, <1>5, <1>6, <1>8

(* When the phone drops its socket, what counted as sent waits again, or is not known of. *)
LEMMA Drops ==
  ASSUME TypeOK, lost \/ relaunch \/ pair
  PROVE  /\ socket' = NoSocket /\ inbox' = <<>>
         /\ UNCHANGED <<made, sentOnce, delivered, seen, network, server, subscription, agent>>
         /\ device' = device \/ device' = device + 1
         /\ \/ UNCHANGED screen
            \/ transcript' = {} /\ knownCli' = 0 /\ UNCHANGED seen
         /\ \A f \in Frames :
              /\ status'[f] # "sent"
              /\ status'[f] = "none" <=> status[f] = "none"
              /\ Moving(f)' => Moving(f)
              /\ status'[f] = "waiting" => status[f] = "waiting" \/ f \notin Answers
              /\ device' # device /\ f \in Prompts \cap sentOnce => ~Moving(f)'
         /\ \A p \in Prompts :
              \/ status'[p] = status[p]
              \/ status[p] \in {"acked", "unknown"} /\ status'[p] = "forgotten"
              \/ Moving(p) /\ Moving(p)'
              \/ Moving(p) /\ p \in sentOnce /\ status'[p] = "unknown" /\ device' = device + 1
<1> DEFINE st == SocketLost(status)
<1>1. st \in [Frames -> Statuses]
      /\ \A f \in Frames : st[f] = IF status[f] # "sent" THEN status[f]
                                   ELSE IF isQueued(f) THEN "waiting" ELSE "unknown"
  BY Parts, Lost
<1>2. \A p \in Prompts : p \in Frames /\ isQueued(p)
  BY LinkAssumption DEF Frames, isQueued
<1> HIDE DEF st
<1>3. CASE lost
  <2>1. status' = st /\ device' = device
    BY <1>3 DEF lost, socketLost, st
  <2>2. /\ socket' = NoSocket /\ inbox' = <<>>
        /\ UNCHANGED <<made, sentOnce, delivered, seen, network, server, subscription, agent>>
        /\ UNCHANGED screen
    BY <1>3 DEF lost, screen
  <2>3. QED BY <1>1, <1>2, <2>1, <2>2 DEF Moving, isQueued
<1>4. CASE relaunch
  <2>1. PICK old \in SUBSET {f \in Frames : status[f] \in {"acked", "unknown"}} :
          status' = [f \in Frames |->
                       IF status[f] \in InOutbox /\ (~isQueued(f) \/ f \in old) THEN "forgotten"
                       ELSE st[f]]
    BY <1>4 DEF relaunch, st
  <2>2. /\ socket' = NoSocket /\ inbox' = <<>> /\ device' = device
        /\ UNCHANGED <<made, sentOnce, delivered, seen, network, server, subscription, agent>>
        /\ \/ UNCHANGED screen
           \/ transcript' = {} /\ knownCli' = 0 /\ UNCHANGED seen
    BY <1>4 DEF relaunch, screen
  <2>3. \A f \in old : status[f] \in {"acked", "unknown"}
    OBVIOUS
  <2>4. \A f \in Frames : \/ status'[f] = "forgotten" /\ status[f] \in InOutbox /\ (~isQueued(f) \/ f \in old)
                          \/ status'[f] = st[f] /\ ~(status[f] \in InOutbox /\ ~isQueued(f))
    BY <2>1
  <2>5. QED BY <1>1, <1>2, <2>2, <2>3, <2>4 DEF Moving, isQueued, InOutbox
<1>5. CASE pair
  <2>1. status' = [f \in Frames |-> IF f \in Prompts \cap sentOnce /\ st[f] \in {"waiting", "sent"}
                                    THEN "unknown" ELSE st[f]]
    BY <1>5 DEF pair, newDevice, st
  <2>2. /\ socket' = NoSocket /\ inbox' = <<>> /\ device' = device + 1
        /\ UNCHANGED <<made, sentOnce, delivered, seen, network, server, subscription, agent>>
        /\ UNCHANGED screen
    BY <1>5 DEF pair, screen
  <2>3. QED BY <1>1, <1>2, <2>1, <2>2 DEF Moving, isQueued
<1>6. QED BY <1>3, <1>4, <1>5

(* What the phone reads or is told to forget sends nothing and moves nothing. *)
LEMMA Reads ==
  ASSUME TypeOK, (\E f \in Frames : Forget(f)) \/ onAck \/ onTranscript
  PROVE  /\ UNCHANGED <<made, sentOnce, socket, device, network, server, subscription, agent>>
         /\ inbox' \in {inbox, Tail(inbox)} /\ (inbox' # inbox => inbox # <<>>)
         /\ \A f \in Frames :
              /\ status'[f] = "none" <=> status[f] = "none"
              /\ Moving(f)' => Moving(f) /\ status'[f] = status[f]
<1>1. OutboxOK /\ ScreenOK /\ MailOK
  BY Parts
<1>2. CASE \E f \in Frames : Forget(f)
  <2>1. PICK f \in Frames : Forget(f)
    BY <1>2
  <2>2. /\ status' = [status EXCEPT ![f] = "forgotten"] /\ status[f] # "none"
        /\ UNCHANGED <<made, sentOnce, socket, device, network, inbox, server, subscription, agent>>
    BY <2>1 DEF Forget
  <2>3. QED BY <1>1, <2>2 DEF OutboxOK, Moving
<1>3. CASE onAck
  <2> DEFINE m == Head(inbox)
             st == IF status[m.ack] \notin InOutbox THEN status
                   ELSE [status EXCEPT ![m.ack] = IF ~m.ok THEN "refused"
                                                  ELSE IF m.ack \in Subs \cup oldSession THEN "settled"
                                                  ELSE "acked"]
  <2>1. /\ settle(st, transcript, delivered) \/ status' = st
        /\ inbox # <<>> /\ inbox' = Tail(inbox)
        /\ UNCHANGED <<made, sentOnce, socket, device, network, server, subscription, agent>>
    BY <1>3 DEF onAck
  <2>2. /\ st \in [Frames -> Statuses]
        /\ \A f \in Frames : \/ st[f] = status[f]
                             \/ status[f] \in InOutbox /\ st[f] \in {"refused", "settled", "acked"}
    BY <1>1 DEF OutboxOK, Statuses
  <2> HIDE DEF st
  <2>3. transcript \in SUBSET Entries
    BY <1>1 DEF ScreenOK
  <2>4. \A f \in Frames : \/ status'[f] = st[f]
                          \/ st[f] \in {"acked", "unknown"} /\ status'[f] = "delivered"
    BY <2>1, <2>2, <2>3, Settled
  <2>5. QED BY <2>1, <2>2, <2>4 DEF Moving, InOutbox
<1>4. CASE onTranscript
  <2> DEFINE m == Head(inbox)
             renewed == knownCli # 0 /\ m.cli # knownCli
             acked == {p \in Prompts : status[p] = "acked"}
             st == [f \in Frames |-> IF renewed /\ f \in acked THEN "settled" ELSE status[f]]
             used == IF renewed THEN {} ELSE delivered
  <2>1. /\ settle(st, m.entries, used)
        /\ inbox # <<>> /\ inbox' = Tail(inbox)
        /\ UNCHANGED <<made, sentOnce, socket, device, network, server, subscription, agent>>
    BY <1>4 DEF onTranscript
  <2>2. m.entries \in SUBSET Entries
    <3>1. m \in Mails /\ "entries" \in DOMAIN m
      BY <1>1, <1>4 DEF onTranscript, MailOK
    <3>2. m \notin [ack : Frames, ok : BOOLEAN]
      BY <3>1
    <3>3. QED BY <3>1, <3>2 DEF Mails
  <2>3. /\ st \in [Frames -> Statuses]
        /\ \A f \in Frames : st[f] = status[f] \/ (status[f] = "acked" /\ st[f] = "settled")
    BY <1>1 DEF OutboxOK, Statuses
  <2> HIDE DEF st, m, used
  <2>4. \A f \in Frames : \/ status'[f] = st[f]
                          \/ st[f] \in {"acked", "unknown"} /\ status'[f] = "delivered"
    BY <2>1, <2>2, <2>3, Settled
  <2>5. QED BY <2>1, <2>3, <2>4 DEF Moving
<1>5. QED BY <1>2, <1>3, <1>4

(* What any step of the phone does to the frames' traces. *)
LEMMA PhoneEffect ==
  ASSUME TypeOK, MadeOK, SocketOK, Phone
  PROVE  /\ UNCHANGED <<server, subscription, agent>>
         /\ \A g \in Frames, s \in Sockets : OnWire(g, s) => OnWire(g, s)' /\ deviceOf'[s] = deviceOf[s]
         /\ \A g \in Frames, s \in Sockets :
              OnWire(g, s)' => \/ OnWire(g, s)
                               \/ /\ status[g] \in {"none", "waiting"} /\ status'[g] = "sent"
                                  /\ g \in sentOnce' /\ deviceOf'[s] = device /\ device' = device
         /\ sentOnce \subseteq sentOnce'
         /\ device' = device \/ (device' = device + 1 /\ \A p \in Prompts \cap sentOnce : ~Moving(p)')
         /\ \A g \in Frames : /\ status[g] # "none" => status'[g] # "none"
                              /\ Moving(g)' => Moving(g) \/ status[g] = "none"
<1>1. CASE \E f \in Frames : queue(f) \/ sendNow(f)
  <2>1. PICK f \in Frames : queue(f) \/ sendNow(f)
    BY <1>1
  <2>2. /\ status[f] = "none"
        /\ status'[f] = IF socket # NoSocket THEN "sent" ELSE "waiting"
        /\ \A g \in Frames \ {f} :
              \/ status'[g] = status[g]
              \/ status'[g] = "forgotten" /\ status[g] \in {"acked", "refused", "unknown"}
              \/ status'[g] = "forgotten" /\ g \in Subs /\ status[g] \in {"waiting", "sent", "unknown"}
        /\ sentOnce' = IF socket # NoSocket THEN sentOnce \cup {f} ELSE sentOnce
        /\ UNCHANGED <<server, subscription, agent, device, deviceOf>>
    BY <2>1, Makes
  <2>3. \A g \in Frames, s \in Sockets :
          OnWire(g, s)' <=> OnWire(g, s) \/ (g = f /\ s = socket /\ socket \in open)
    BY <2>1, MakesOnWire
  <2>4. socket \in open => socket # NoSocket /\ deviceOf[socket] = device
    BY WireTypes DEF SocketOK
  <2>5. QED BY <2>2, <2>3, <2>4 DEF Moving
<1>2. CASE connected
  <2>1. /\ UNCHANGED <<server, subscription, agent, device>>
        /\ status' = [f \in Frames |-> IF status[f] = "waiting" THEN "sent" ELSE status[f]]
        /\ sentOnce' = sentOnce \cup {f \in Frames : status[f] = "waiting"}
    BY <1>2 DEF connected
  <2>2. \A g \in Frames, s \in Sockets :
              OnWire(g, s)' <=> OnWire(g, s) \/ (s = socket' /\ status[g] = "waiting")
    BY <1>2, ConnectsOnWire
  <2>3. /\ deviceOf'[socket'] = device /\ wire[socket'] = <<>>
        /\ \A s \in Sockets : s # socket' => deviceOf'[s] = deviceOf[s]
    BY <1>2, ConnectsOnWire
  <2>4. \A g \in Frames : ~OnWire(g, socket')
    BY <2>3 DEF OnWire
  <2>5. QED BY <2>1, <2>2, <2>3, <2>4 DEF Moving
<1>3. CASE lost \/ relaunch \/ pair
  <2>1. UNCHANGED <<wire, deviceOf, server, subscription, agent, sentOnce>>
    BY <1>3, Drops DEF network
  <2>2. \A g \in Frames, s \in Sockets : OnWire(g, s)' <=> OnWire(g, s)
    BY <2>1 DEF OnWire
  <2>3. Prompts \subseteq Frames
    BY DEF Frames
  <2>4. QED BY <1>3, <2>1, <2>2, <2>3, Drops
<1>4. CASE (\E f \in Frames : Forget(f)) \/ onAck \/ onTranscript
  <2>1. UNCHANGED <<wire, deviceOf, device, server, subscription, agent, sentOnce>>
    BY <1>4, Reads DEF network
  <2>2. \A g \in Frames, s \in Sockets : OnWire(g, s)' <=> OnWire(g, s)
    BY <2>1 DEF OnWire
  <2>3. QED BY <1>4, <2>1, <2>2, Reads
<1>5. QED BY <1>1, <1>2, <1>3, <1>4 DEF Phone

-----------------------------------------------------------------------------
(* What the Mac does to the traces. Its memory has room for an ack of every frame. *)

(* Each ack kept is of another frame made. *)
LEMMA Room ==
  ASSUME TypeOK, MadeOK, NoneOK, AcksOK, MaxFrames <= AcksKept,
         NEW d \in Devices, NEW f \in Frames, status[f] # "none", ~AckedBy(d, f)
  PROVE  Len(acks[d]) < AcksKept
<1> DEFINE n == Len(acks[d])
           frame(i) == IF i = 0 THEN f ELSE acks[d][i].frame
<1>1. acks[d] \in Seq(Acks) /\ n \in Nat /\ made \in Seq(Frames) /\ Len(made) \in Nat
  BY Parts DEF AckedOK, OutboxOK
<1>2. SUFFICES ASSUME Len(made) < n + 1 PROVE FALSE
  BY <1>1, LinkAssumption DEF MadeOK
<1>3. \A i \in 0..n : i = 0 \/ i \in DOMAIN acks[d]
  BY <1>1
<1>4. ASSUME NEW i \in 0..n PROVE \E k \in DOMAIN made : made[k] = frame(i)
  <2>1. CASE i = 0
    BY <2>1 DEF MadeOK
  <2>2. CASE i # 0
    <3>1. i \in DOMAIN acks[d] /\ acks[d][i] \in Acks
      BY <1>1, <2>2
    <3>2. AckedBy(d, frame(i)) /\ frame(i) \in Frames
      BY <2>2, <3>1 DEF AckedBy, Acks
    <3>3. status[frame(i)] # "none"
      BY <3>2 DEF NoneOK
    <3> HIDE DEF frame
    <3>4. QED BY <3>2, <3>3 DEF MadeOK
  <2>3. QED BY <2>1, <2>2
<1> DEFINE g == [i \in 0..n |-> CHOOSE k \in DOMAIN made : made[k] = frame(i)]
<1>5. g \in [0..n -> DOMAIN made] /\ \A i \in 0..n : made[g[i]] = frame(i)
  <2> HIDE DEF frame
  <2>1. QED BY <1>4
<1>6. IsFiniteSet(0..n) /\ Cardinality(0..n) = n + 1
  <2>1. 0 \in Int /\ n \in Int
    BY <1>1
  <2>2. IsFiniteSet(0..n) /\ Cardinality(0..n) = IF 0 > n THEN 0 ELSE n - 0 + 1
    BY <2>1, FS_Interval, Zenon
  <2>3. QED BY <1>1, <2>2
<1>7. IsFiniteSet(DOMAIN made) /\ Cardinality(DOMAIN made) = Len(made)
  <2>1. 1 \in Int /\ Len(made) \in Int /\ DOMAIN made = 1..Len(made)
    BY <1>1
  <2>2. IsFiniteSet(1..Len(made)) /\ Cardinality(1..Len(made)) = IF 1 > Len(made) THEN 0 ELSE Len(made) - 1 + 1
    BY <2>1, FS_Interval, Zenon
  <2>3. QED BY <1>1, <2>1, <2>2
<1>8. \E i, j \in 0..n : i # j /\ g[i] = g[j]
  <2> HIDE DEF g, n
  <2>1. Cardinality(DOMAIN made) < Cardinality(0..n)
    BY <1>2, <1>6, <1>7
  <2>2. g \in [0..n -> DOMAIN made] /\ IsFiniteSet(0..n) /\ IsFiniteSet(DOMAIN made)
    BY <1>5, <1>6, <1>7
  <2> DEFINE S == 0..n
             T == DOMAIN made
  <2>3. g \in [S -> T] /\ IsFiniteSet(S) /\ IsFiniteSet(T) /\ Cardinality(T) < Cardinality(S)
    BY <2>1, <2>2
  <2> HIDE DEF S, T
  <2>4. \E x, y \in S : x # y /\ g[x] = g[y]
    BY <2>3, FS_PigeonHole
  <2>5. QED BY <2>4 DEF S
<1>9. PICK i \in 0..n, j \in 0..n : i # j /\ frame(i) = frame(j)
  <2> HIDE DEF g, frame
  <2>1. QED BY <1>5, <1>8
<1>10. CASE i = 0
  BY <1>3, <1>9, <1>10 DEF AckedBy
<1>11. CASE j = 0
  BY <1>3, <1>9, <1>11 DEF AckedBy
<1>12. CASE i # 0 /\ j # 0
  BY <1>3, <1>9, <1>12 DEF AcksOK
<1>13. QED BY <1>10, <1>11, <1>12

(* So nothing is forgotten when another ack is remembered. *)
LEMMA HasRoom ==
  ASSUME Once, MaxFrames <= AcksKept, NEW d \in Devices, NEW f \in Frames,
         NEW r \in {"pending", "ok", "refused"}, remember(d, f, r), status[f] # "none", ~AckedBy(d, f)
  PROVE  /\ acks'[d] = Append(acks[d], [frame |-> f, result |-> r])
         /\ \A e \in Devices \ {d} : acks'[e] = acks[e]
<1>1. AckedOK /\ Len(acks[d]) < AcksKept
  BY Room, Parts DEF Once
<1>2. QED BY <1>1, Remembered

\* A frame met before is not acted on again; another is remembered, and a prompt typed or refused.
Met(d, f) ==
  \/ AckedBy(d, f) /\ UNCHANGED <<acks, typed>>
  \/ /\ ~AckedBy(d, f)
     /\ \E r \in {"pending", "ok", "refused"} :
          /\ acks'[d] = Append(acks[d], [frame |-> f, result |-> r])
          /\ \A e \in Devices \ {d} : acks'[e] = acks[e]
          /\ \/ f \in Prompts /\ r = "ok" /\ type(f, d) /\ acting' = acting
             \/ f \in Prompts /\ r = "refused" /\ typed' = typed /\ acting' = acting
             \/ f \in Subs /\ r \in {"ok", "refused"} /\ typed' = typed /\ acting' = acting
             \/ f \in Answers /\ r = "pending" /\ typed' = typed
Worked(s, f) == acting' = acting \/ (f \in Answers /\ acting' = acting \cup {[frame |-> f, on |-> s]})
Answered(s, d, f) == inbox' = inbox \/ \E ok \in BOOLEAN : Reply(s, f, ok) /\ Held(acks', d, f, ok)

(* The Mac reads a frame: one it has met is not acted on again; another is remembered, and a
   prompt is typed, an answer worked on, or neither. *)
LEMMA Handles ==
  ASSUME Once, MaxFrames <= AcksKept, NEW s \in Sockets, handleClientFrame(s),
         NEW f \in Frames, f = Head(wire[s]), NEW d \in Devices, d = deviceOf[s]
  PROVE  /\ s \in open /\ wire[s] # <<>> /\ f \in Frames /\ d \in Devices /\ OnWire(f, s)
         /\ wire' = [wire EXCEPT ![s] = Tail(wire[s])] /\ Tail(wire[s]) \in Seq(Frames)
         /\ UNCHANGED <<phone, sockets, open, deviceOf, run, cli, shown>>
         /\ Met(d, f) /\ Worked(s, f) /\ Answered(s, d, f)
<1>1. /\ s \in open /\ wire[s] # <<>>
      /\ wire' = [wire EXCEPT ![s] = Tail(wire[s])]
      /\ \/ Resent(s, f)
         \/ AckOf(d, f) = {} /\ (sendPrompt(s, f) \/ setPushSubscription(s, f) \/ startAnswer(s, f))
      /\ UNCHANGED <<phone, sockets, open, deviceOf, run, cli, shown>>
  BY DEF handleClientFrame
<1>2. f \in Frames /\ d \in Devices /\ Tail(wire[s]) \in Seq(Frames) /\ OnWire(f, s)
  BY <1>1, OnSocket DEF Once, OnWire
<1>3. AckOf(d, f) # {} <=> AckedBy(d, f)
  BY <1>2 DEF AckOf, AckedBy, Range
<1>4. status[f] # "none"
  BY <1>2 DEF Once, NoneOK
<1>5. acks[d] \in Seq(Acks)
  BY Parts DEF Once, AckedOK
<1>6. CASE Resent(s, f)
  <2>1. PICK a \in AckOf(d, f) :
          /\ IF a.result = "pending"
             THEN acting' = acting \cup {[frame |-> f, on |-> s]} /\ UNCHANGED inbox
             ELSE Reply(s, f, a.result = "ok") /\ UNCHANGED acting
          /\ UNCHANGED <<acks, typed>>
    BY <1>6 DEF Resent
  <2>2. PICK i \in DOMAIN acks[d] : acks[d][i] = a /\ a.frame = f
    BY <2>1 DEF AckOf, Range
  <2>3. a.result \in {"pending", "ok", "refused"}
    <3>1. a \in Acks
      <4> HIDE DEF Acks
      <4>1. QED BY <1>5, <2>2
    <3>2. QED BY <3>1 DEF Acks
  <2>4. a.result = "pending" => f \in Answers
    BY <1>2, <2>2 DEF Once, PendingOK
  <2>5. AckedBy(d, f)
    BY <1>3, <2>1
  <2>6. CASE a.result = "pending"
    BY <1>1, <1>2, <2>1, <2>4, <2>5, <2>6 DEF Met, Worked, Answered
  <2>7. CASE a.result # "pending"
    <3>1. Reply(s, f, a.result = "ok") /\ acting' = acting
      BY <2>1, <2>7
    <3>2. PICK ok \in BOOLEAN : ok = (a.result = "ok")
      OBVIOUS
    <3>3. Reply(s, f, ok)
      BY <3>1, <3>2, Zenon
    <3>4. acks'[d][i].frame = f /\ acks'[d][i].result = (IF ok THEN "ok" ELSE "refused") /\ i \in DOMAIN acks'[d]
      BY <2>1, <2>2, <2>3, <2>7, <3>2
    <3>5. Reply(s, f, ok) /\ Held(acks', d, f, ok)
      BY <3>3, <3>4, Zenon DEF Held
    <3>6. Answered(s, d, f)
      BY <3>5, Zenon DEF Answered
    <3>7. Met(d, f) /\ Worked(s, f)
      BY <2>1, <2>5, <3>1, Zenon DEF Met, Worked
    <3>8. QED BY <1>1, <1>2, <3>6, <3>7, Zenon
  <2>8. QED BY <2>6, <2>7
<1>7. CASE AckOf(d, f) = {} /\ (sendPrompt(s, f) \/ setPushSubscription(s, f) \/ startAnswer(s, f))
  <2>1. \E r \in {"pending", "ok", "refused"} :
           /\ remember(d, f, r)
           /\ inbox' = inbox \/ \E ok \in BOOLEAN : Reply(s, f, ok) /\ r = IF ok THEN "ok" ELSE "refused"
           /\ \/ f \in Prompts /\ r = "ok" /\ type(f, d) /\ acting' = acting
              \/ f \in Prompts /\ r = "refused" /\ typed' = typed /\ acting' = acting
              \/ f \in Subs /\ r \in {"ok", "refused"} /\ typed' = typed /\ acting' = acting
              \/ f \in Answers /\ r = "pending" /\ typed' = typed /\ acting' = acting \cup {[frame |-> f, on |-> s]}
    <3>1. CASE sendPrompt(s, f)
      BY <3>1 DEF sendPrompt
    <3>2. CASE setPushSubscription(s, f)
      BY <3>2 DEF setPushSubscription
    <3>3. CASE startAnswer(s, f)
      BY <3>3 DEF startAnswer
    <3>4. QED BY <1>7, <3>1, <3>2, <3>3, Zenon
  <2>2. AckedOK /\ ~AckedBy(d, f)
    BY <1>3, <1>7, Parts DEF Once
  <2>3. PICK r \in {"pending", "ok", "refused"} :
          /\ remember(d, f, r)
          /\ inbox' = inbox \/ \E ok \in BOOLEAN : Reply(s, f, ok) /\ r = IF ok THEN "ok" ELSE "refused"
          /\ \/ f \in Prompts /\ r = "ok" /\ type(f, d) /\ acting' = acting
             \/ f \in Prompts /\ r = "refused" /\ typed' = typed /\ acting' = acting
             \/ f \in Subs /\ r \in {"ok", "refused"} /\ typed' = typed /\ acting' = acting
             \/ f \in Answers /\ r = "pending" /\ typed' = typed /\ acting' = acting \cup {[frame |-> f, on |-> s]}
    BY <2>1, Zenon
  <2>4. /\ acks'[d] = Append(acks[d], [frame |-> f, result |-> r])
        /\ \A e \in Devices \ {d} : acks'[e] = acks[e]
    BY <1>4, <2>2, <2>3, HasRoom
  <2>5. \E i \in DOMAIN acks'[d] : acks'[d][i].frame = f /\ acks'[d][i].result = r
    <3> DEFINE a == [frame |-> f, result |-> r]
               w == acks[d]
    <3>1. a \in Acks /\ a.frame = f /\ a.result = r /\ w \in Seq(Acks) /\ acks'[d] = Append(w, a)
      BY <1>5, <2>4 DEF Acks
    <3> HIDE DEF a, w
    <3>2. Len(w) + 1 \in DOMAIN acks'[d] /\ acks'[d][Len(w) + 1] = a
      BY <3>1, Appends
    <3>3. QED BY <3>1, <3>2
  <2>6. Answered(s, d, f)
    BY <2>3, <2>5, Zenon DEF Held, Answered
  <2>7. Worked(s, f)
    BY <2>3, Zenon DEF Worked
  <2>8. Met(d, f)
    BY <2>2, <2>3, <2>4, Zenon DEF Met
  <2>9. QED BY <1>1, <1>2, <2>6, <2>7, <2>8, Zenon
<1>8. QED BY <1>1, <1>6, <1>7

(* An answer worked on is done with: at most typed, and its ack is no longer pending. *)
LEMMA Finishes ==
  ASSUME Once, NEW f \in Answers, finishAnswer(f)
  PROVE  /\ Acting(f)
         /\ UNCHANGED <<phone, network, run, subscription, cli, shown>>
         /\ acting' = {b \in acting : b.frame # f}
         /\ \A d \in Devices : /\ DOMAIN acks'[d] = DOMAIN acks[d]
                               /\ \A i \in DOMAIN acks[d] :
                                    /\ acks'[d][i].frame = acks[d][i].frame
                                    /\ \/ acks'[d][i] = acks[d][i]
                                       \/ acks[d][i].frame = f /\ acks'[d][i].result \in {"ok", "refused"}
         /\ typed' = typed \/ \E d \in Devices : type(f, d)
         /\ \E s \in Sockets, ok \in BOOLEAN : Reply(s, f, ok)
<1>1. PICK ok \in BOOLEAN, a \in acting :
        /\ acting' = acting \ {b \in acting : b.frame = f} /\ a.frame = f
        /\ acks' = [d \in Devices |-> [i \in DOMAIN acks[d] |->
                     IF acks[d][i] = [frame |-> f, result |-> "pending"]
                     THEN [frame |-> f, result |-> IF ok THEN "ok" ELSE "refused"]
                     ELSE acks[d][i]]]
        /\ Reply(a.on, f, ok)
        /\ type(f, deviceOf[a.on]) \/ UNCHANGED typed
        /\ UNCHANGED <<phone, network, run, subscription, cli, shown>>
  BY DEF finishAnswer
<1>2. a.on \in Sockets
  BY Parts DEF Once, MacOK
<1>3. deviceOf[a.on] \in Devices
  BY <1>2, WireTypes DEF Once
<1>4. \A d \in Devices : DOMAIN acks'[d] = DOMAIN acks[d]
  BY <1>1
<1>5. ASSUME NEW d \in Devices, NEW i \in DOMAIN acks[d]
      PROVE  /\ acks'[d][i].frame = acks[d][i].frame
             /\ \/ acks'[d][i] = acks[d][i]
                \/ acks[d][i].frame = f /\ acks'[d][i].result \in {"ok", "refused"}
  <2> DEFINE x == [frame |-> f, result |-> "pending"]
             y == [frame |-> f, result |-> IF ok THEN "ok" ELSE "refused"]
  <2>1. acks'[d][i] = IF acks[d][i] = x THEN y ELSE acks[d][i]
    BY <1>1
  <2>2. x.frame = f /\ y.frame = f /\ y.result \in {"ok", "refused"}
    OBVIOUS
  <2> HIDE DEF x, y
  <2>3. QED BY <2>1, <2>2
<1>6. Acting(f)
  BY <1>1 DEF Acting
<1>7. QED BY <1>1, <1>2, <1>3, <1>4, <1>5, <1>6

(* The frame read leaves the wire, and is remembered. *)
LEMMA HandleMoves ==
  ASSUME Once, MaxFrames <= AcksKept, NEW s \in Sockets, handleClientFrame(s),
         NEW f \in Frames, f = Head(wire[s]), NEW d \in Devices, d = deviceOf[s]
  PROVE  /\ OnWire(f, s) /\ AckedBy(d, f)'
         /\ \A g \in Frames, t \in Sockets :
              /\ OnWire(g, t)' => OnWire(g, t)
              /\ OnWire(g, t) => OnWire(g, t)' \/ (g = f /\ t = s)
         /\ \A g \in Frames, e \in Devices : AckedBy(e, g)' <=> AckedBy(e, g) \/ (e = d /\ g = f)
<1>1. TypeOK
  BY DEF Once
<1>2. /\ wire[s] # <<>> /\ OnWire(f, s)
      /\ wire' = [wire EXCEPT ![s] = Tail(wire[s])]
      /\ \/ AckedBy(d, f) /\ UNCHANGED acks
         \/ \E r \in {"pending", "ok", "refused"} :
              /\ acks'[d] = Append(acks[d], [frame |-> f, result |-> r])
              /\ \A e \in Devices \ {d} : acks'[e] = acks[e]
  <2>1. /\ wire[s] # <<>> /\ OnWire(f, s)
        /\ wire' = [wire EXCEPT ![s] = Tail(wire[s])] /\ Met(d, f)
    BY Handles
  <2>2. QED BY <2>1, Zenon DEF Met
<1>3. ASSUME NEW g \in Frames, NEW t \in Sockets
      PROVE  /\ OnWire(g, t)' => OnWire(g, t)
             /\ OnWire(g, t) => OnWire(g, t)' \/ (g = f /\ t = s)
  <2> DEFINE w == wire[s]
  <2>1. w \in Seq(Frames) /\ w # <<>> /\ Head(w) = f /\ wire'[t] = IF t = s THEN Tail(w) ELSE wire[t]
    BY <1>1, <1>2, WireTypes
  <2>2. CASE t = s
    <3>1. wire'[t] = Tail(w) /\ wire[t] = w
      BY <2>1, <2>2
    <3> HIDE DEF w
    <3>2. (\E k \in DOMAIN Tail(w) : Tail(w)[k] = g) => \E k \in DOMAIN w : w[k] = g
      BY <2>1, Tails
    <3>3. ASSUME NEW k \in DOMAIN w, w[k] = g PROVE (\E l \in DOMAIN Tail(w) : Tail(w)[l] = g) \/ g = f
      <4>1. k = 1 \/ (k - 1 \in DOMAIN Tail(w) /\ Tail(w)[k - 1] = w[k])
        BY <2>1, Tails
      <4>2. w[1] = f
        BY <2>1, Tails
      <4>3. QED BY <3>3, <4>1, <4>2
    <3>4. QED BY <2>2, <3>1, <3>2, <3>3 DEF OnWire
  <2>3. CASE t # s
    BY <2>1, <2>3 DEF OnWire
  <2>4. QED BY <2>2, <2>3
<1>4. ASSUME NEW g \in Frames, NEW e \in Devices
      PROVE  AckedBy(e, g)' <=> AckedBy(e, g) \/ (e = d /\ g = f)
  <2>1. CASE AckedBy(d, f) /\ UNCHANGED acks
    BY <2>1 DEF AckedBy
  <2>2. ASSUME NEW r \in {"pending", "ok", "refused"}, acks'[d] = Append(acks[d], [frame |-> f, result |-> r]),
               \A x \in Devices \ {d} : acks'[x] = acks[x]
        PROVE  AckedBy(e, g)' <=> AckedBy(e, g) \/ (e = d /\ g = f)
    <3> DEFINE a == [frame |-> f, result |-> r]
    <3>1. a \in Acks /\ a.frame = f /\ acks'[d] = Append(acks[d], a)
      BY <2>2 DEF Acks
    <3> HIDE DEF a
    <3>2. acks[d] \in Seq(Acks)
      BY <1>1, Parts DEF AckedOK
    <3>3. CASE e = d
      <4>1. DOMAIN acks'[d] = DOMAIN acks[d] \cup {Len(acks[d]) + 1}
            /\ acks'[d][Len(acks[d]) + 1] = a /\ \A i \in DOMAIN acks[d] : acks'[d][i] = acks[d][i]
        BY <3>1, <3>2
      <4>2. QED BY <3>1, <3>3, <4>1 DEF AckedBy
    <3>4. CASE e # d
      BY <2>2, <3>4 DEF AckedBy
    <3>5. QED BY <3>3, <3>4
  <2>3. QED BY <1>2, <2>1, <2>2
<1>5. AckedBy(d, f)'
  BY <1>4
<1>6. QED BY <1>2, <1>3, <1>4, <1>5

(* What a step of the Mac does to the traces. *)
LEMMA MacEffect ==
  ASSUME Once, MaxFrames <= AcksKept, Mac
  PROVE  /\ UNCHANGED <<phone, sockets, deviceOf, cli, shown>>
         /\ \A g \in Frames, s \in Sockets : OnWire(g, s)' => OnWire(g, s)
         /\ \/ run' = run
            \/ /\ run' = run + 1 /\ typed' = typed
               /\ \A g \in Frames : /\ ~Acting(g)'
                                    /\ \A s \in Sockets : ~OnWire(g, s)'
                                    /\ \A d \in Devices : ~AckedBy(d, g)'
         /\ run' = run => \A d \in Devices, g \in Frames : AckedBy(d, g) => AckedBy(d, g)'
         /\ \A d \in Devices, g \in Frames :
              AckedBy(d, g)' => AckedBy(d, g) \/ \E s \in Sockets : deviceOf[s] = d /\ OnWire(g, s)
         /\ \A g \in Frames : Acting(g)' => Acting(g) \/ (g \in Answers /\ \E s \in Sockets : OnWire(g, s))
         /\ \/ typed' = typed
            \/ \E f \in Prompts \cup Answers, d \in Devices :
                 /\ run' = run /\ type(f, d)
                 /\ \/ f \in Answers /\ Acting(f) /\ ~Acting(f)'
                    \/ /\ f \in Prompts /\ ~AckedBy(d, f) /\ AckedBy(d, f)'
                       /\ \E s \in Sockets : deviceOf[s] = d /\ OnWire(f, s)
         /\ inbox' # inbox => socket # NoSocket
         /\ \A s \in Sockets : s \notin open' => wire'[s] = <<>>
<1>1. TypeOK /\ open \subseteq Sockets /\ NoSocket \notin open
  BY WireTypes DEF Once
<1>2. \A s \in Sockets : NoSocket # s
  BY LinkAssumption DEF Sockets, NoSocket
<1>3. ASSUME NEW s \in Sockets, handleClientFrame(s)
      PROVE  /\ UNCHANGED <<phone, sockets, deviceOf, cli, shown, run>>
             /\ \A g \in Frames, t \in Sockets : OnWire(g, t)' => OnWire(g, t)
             /\ \A d \in Devices, g \in Frames :
                  /\ AckedBy(d, g) => AckedBy(d, g)'
                  /\ AckedBy(d, g)' => AckedBy(d, g) \/ \E t \in Sockets : deviceOf[t] = d /\ OnWire(g, t)
             /\ \A g \in Frames : Acting(g)' => Acting(g) \/ (g \in Answers /\ \E t \in Sockets : OnWire(g, t))
             /\ \/ typed' = typed
                \/ \E f \in Prompts, d \in Devices :
                     /\ type(f, d) /\ ~AckedBy(d, f) /\ AckedBy(d, f)'
                     /\ \E t \in Sockets : deviceOf[t] = d /\ OnWire(f, t)
             /\ inbox' # inbox => socket # NoSocket
             /\ \A t \in Sockets : t \notin open' => wire'[t] = <<>>
  <2>0. wire[s] # <<>> /\ Head(wire[s]) \in Frames /\ deviceOf[s] \in Devices
    BY <1>1, <1>3, OnSocket DEF handleClientFrame
  <2>1. PICK f \in Frames, d \in Devices : f = Head(wire[s]) /\ d = deviceOf[s]
    BY <2>0
  <2>2. /\ s \in open /\ wire[s] # <<>> /\ OnWire(f, s)
        /\ wire' = [wire EXCEPT ![s] = Tail(wire[s])]
        /\ UNCHANGED <<phone, sockets, open, deviceOf, run, cli, shown>>
    BY <1>3, <2>1, Handles
  <2>3. typed' = typed \/ (f \in Prompts /\ type(f, d) /\ ~AckedBy(d, f))
    <3>1. Met(d, f)
      BY <1>3, <2>1, Handles
    <3>2. QED BY <3>1, Zenon DEF Met
  <2>4. /\ acting' = acting \/ (f \in Answers /\ acting' = acting \cup {[frame |-> f, on |-> s]})
        /\ inbox' = inbox \/ \E ok \in BOOLEAN : Reply(s, f, ok)
    <3>1. Worked(s, f) /\ Answered(s, d, f)
      BY <1>3, <2>1, Handles
    <3>2. QED BY <3>1, Zenon DEF Worked, Answered
  <2>5. d = deviceOf[s]
    BY <2>1
  <2>6. \A g \in Frames, t \in Sockets : OnWire(g, t)' => OnWire(g, t)
    BY <1>3, <2>1, HandleMoves
  <2>7. \A g \in Frames, e \in Devices : AckedBy(e, g)' <=> AckedBy(e, g) \/ (e = d /\ g = f)
    BY <1>3, <2>1, HandleMoves
  <2>8. ASSUME NEW e \in Devices, NEW g \in Frames
        PROVE  /\ AckedBy(e, g) => AckedBy(e, g)'
               /\ AckedBy(e, g)' => AckedBy(e, g) \/ \E t \in Sockets : deviceOf[t] = e /\ OnWire(g, t)
    BY <2>2, <2>5, <2>7
  <2>9. \A g \in Frames : Acting(g)' => Acting(g) \/ (g \in Answers /\ \E t \in Sockets : OnWire(g, t))
    BY <2>2, <2>4 DEF Acting
  <2>10. \/ typed' = typed
         \/ \E g \in Prompts, e \in Devices :
              /\ type(g, e) /\ ~AckedBy(e, g) /\ AckedBy(e, g)'
              /\ \E t \in Sockets : deviceOf[t] = e /\ OnWire(g, t)
    <3>1. ASSUME typed' # typed PROVE f \in Prompts /\ type(f, d) /\ ~AckedBy(d, f)
      BY <2>3, <3>1
    <3>2. AckedBy(d, f)'
      BY <2>1, <2>7
    <3>3. QED BY <2>1, <2>2, <2>5, <3>1, <3>2
  <2>11. inbox' # inbox => socket # NoSocket
    BY <1>2, <2>4 DEF Reply
  <2>12. \A t \in Sockets : t \notin open' => wire'[t] = <<>>
    BY <1>1, <2>2, WireTypes DEF Once, SocketOK
  <2>13. QED BY <2>2, <2>6, <2>8, <2>9, <2>10, <2>11, <2>12
<1>4. ASSUME NEW f \in Answers, finishAnswer(f)
      PROVE  /\ UNCHANGED <<phone, sockets, deviceOf, cli, shown, run, wire, open>>
             /\ \A d \in Devices, g \in Frames : AckedBy(d, g)' <=> AckedBy(d, g)
             /\ \A g \in Frames : Acting(g)' => Acting(g)
             /\ \/ typed' = typed
                \/ \E d \in Devices : type(f, d) /\ Acting(f) /\ ~Acting(f)'
             /\ inbox' # inbox => socket # NoSocket
  <2>1. UNCHANGED <<phone, network, run, cli, shown>> /\ acting' = {b \in acting : b.frame # f}
    BY <1>4, Finishes
  <2>2. \A d \in Devices : /\ DOMAIN acks'[d] = DOMAIN acks[d]
                           /\ \A i \in DOMAIN acks[d] : acks'[d][i].frame = acks[d][i].frame
    BY <1>4, Finishes
  <2>3. typed' = typed \/ \E d \in Devices : type(f, d)
    BY <1>4, Finishes
  <2>4. \E s \in Sockets, ok \in BOOLEAN : Reply(s, f, ok)
    BY <1>4, Finishes
  <2>5. Acting(f)
    BY <1>4, Finishes
  <2>6. \A d \in Devices, g \in Frames : AckedBy(d, g)' <=> AckedBy(d, g)
    BY <2>2 DEF AckedBy
  <2>7. ~Acting(f)' /\ \A g \in Frames : Acting(g)' => Acting(g)
    BY <2>1 DEF Acting
  <2>8. inbox' # inbox => socket # NoSocket
    BY <1>2, <2>4 DEF Reply
  <2>9. QED BY <2>1, <2>3, <2>5, <2>6, <2>7, <2>8 DEF network
<1>5. CASE \E s \in Sockets : handleClientFrame(s)
  BY <1>3, <1>5
<1>6. CASE \E f \in Answers : finishAnswer(f)
  <2>1. PICK f \in Answers : finishAnswer(f)
    BY <1>6
  <2>2. /\ UNCHANGED <<phone, sockets, deviceOf, cli, shown, run, wire, open>>
        /\ \A d \in Devices, g \in Frames : AckedBy(d, g)' <=> AckedBy(d, g)
        /\ \A g \in Frames : Acting(g)' => Acting(g)
        /\ \/ typed' = typed
           \/ \E d \in Devices : type(f, d) /\ Acting(f) /\ ~Acting(f)'
        /\ inbox' # inbox => socket # NoSocket
    BY <1>4, <2>1
  <2>3. \A g \in Frames, s \in Sockets : OnWire(g, s)' <=> OnWire(g, s)
    BY <2>2 DEF OnWire
  <2>4. \A s \in Sockets : s \notin open' => wire'[s] = <<>>
    BY <2>2 DEF Once, SocketOK
  <2>5. QED BY <2>2, <2>3, <2>4
<1>7. CASE \E s \in Sockets : onClose(s)
  <2>1. PICK s \in Sockets : onClose(s)
    BY <1>7
  <2>2. /\ open' = open \ {s} /\ wire' = [wire EXCEPT ![s] = <<>>]
        /\ UNCHANGED <<phone, sockets, deviceOf, inbox, server, subscription, agent>>
    BY <2>1 DEF onClose
  <2>3. \A t \in Sockets : wire'[t] = <<>> \/ (t # s /\ wire'[t] = wire[t])
    BY <1>1, <2>2, WireTypes
  <2>4. \A g \in Frames, t \in Sockets : OnWire(g, t)' => OnWire(g, t)
    BY <2>3 DEF OnWire
  <2>5. \A t \in Sockets : t \notin open' => wire'[t] = <<>>
    BY <2>2, <2>3 DEF Once, SocketOK
  <2>6. /\ \A d \in Devices, g \in Frames : AckedBy(d, g)' <=> AckedBy(d, g)
        /\ \A g \in Frames : Acting(g)' <=> Acting(g)
    BY <2>2 DEF AckedBy, Acting, server
  <2>7. QED BY <2>2, <2>4, <2>5, <2>6 DEF server, agent
<1>8. CASE Restart
  <2>1. /\ run' = run + 1 /\ acks' = [d \in Devices |-> <<>>] /\ acting' = {}
        /\ open' = {} /\ wire' = [s \in Sockets |-> <<>>]
        /\ UNCHANGED <<phone, sockets, deviceOf, inbox, subscription, agent>>
    BY <1>8 DEF Restart
  <2>2. run + 1 # run
    BY <1>1, Parts DEF MacOK, Runs
  <2>3. /\ \A s \in Sockets : wire'[s] = <<>>
        /\ \A g \in Frames : /\ ~Acting(g)'
                             /\ \A s \in Sockets : ~OnWire(g, s)'
                             /\ \A d \in Devices : ~AckedBy(d, g)'
    BY <2>1 DEF Acting, OnWire, AckedBy
  <2>4. QED BY <2>1, <2>2, <2>3 DEF agent
<1>9. CASE sendTranscript
  <2>1. socket \in open /\ UNCHANGED <<phone, network, server, subscription, agent>>
    BY <1>9 DEF sendTranscript
  <2>2. /\ \A d \in Devices, g \in Frames : AckedBy(d, g)' <=> AckedBy(d, g)
        /\ \A g \in Frames : Acting(g)' <=> Acting(g)
        /\ \A g \in Frames, s \in Sockets : OnWire(g, s)' <=> OnWire(g, s)
    BY <2>1 DEF AckedBy, Acting, OnWire, server, network
  <2>3. \A s \in Sockets : s \notin open' => wire'[s] = <<>>
    BY <2>1 DEF Once, SocketOK, network
  <2>4. QED BY <1>1, <2>1, <2>2, <2>3 DEF server, agent, network
<1>10. QED BY <1>5, <1>6, <1>7, <1>8, <1>9 DEF Mac

(* Types of an entry of the terminal. *)
LEMMA EntryTypes ==
  ASSUME TypeOK, NEW i \in Entries
  PROVE  /\ i \in Nat /\ typed[i] \in Typings
         /\ typed[i].frame \in Prompts \cup Answers /\ typed[i].frame \in Frames
         /\ typed[i].device \in Devices /\ typed[i].run \in Nat /\ typed[i].cli \in Nat
<1> DEFINE T == Typings
<1> HIDE DEF T
<1>1. typed \in Seq(T)
  BY Parts DEF AgentOK, T
<1>2. typed[i] \in T /\ i \in Nat
  BY <1>1 DEF Entries
<1>3. typed[i] \in Typings
  BY <1>2 DEF T
<1>4. QED BY <1>2, <1>3 DEF Typings, Frames, Runs, CliSessions

(* One more frame is typed, or none. *)
LEMMA OneTyped ==
  ASSUME TypeOK
  PROVE  /\ typed' = typed => \A g \in Frames : (Typed(g)' <=> Typed(g)) /\ (run' = run => (TypedNow(g)' <=> TypedNow(g)))
         /\ typed' = typed /\ run' = run => \A g \in Frames, e \in Devices : TypedFor(g, e)' <=> TypedFor(g, e)
         /\ \A f \in Prompts \cup Answers, d \in Devices : type(f, d) =>
              /\ \A g \in Frames : Typed(g)' <=> Typed(g) \/ g = f
              /\ run' = run => /\ \A g \in Frames : TypedNow(g)' <=> TypedNow(g) \/ g = f
                               /\ \A g \in Frames, e \in Devices : TypedFor(g, e)' <=> TypedFor(g, e) \/ (g = f /\ e = d)
<1>1. AgentOK /\ run \in Runs
  BY Parts DEF MacOK
<1>2. typed' = typed => \A g \in Frames : (Typed(g)' <=> Typed(g)) /\ (run' = run => (TypedNow(g)' <=> TypedNow(g)))
  BY DEF Typed, TypedNow, Entries
<1>3. typed' = typed /\ run' = run => \A g \in Frames, e \in Devices : TypedFor(g, e)' <=> TypedFor(g, e)
  BY DEF TypedFor, Entries
<1>4. ASSUME NEW f \in Prompts \cup Answers, NEW d \in Devices, type(f, d)
      PROVE  /\ \A g \in Frames : Typed(g)' <=> Typed(g) \/ g = f
             /\ run' = run => /\ \A g \in Frames : TypedNow(g)' <=> TypedNow(g) \/ g = f
                              /\ \A g \in Frames, e \in Devices : TypedFor(g, e)' <=> TypedFor(g, e) \/ (g = f /\ e = d)
  <2> DEFINE t == [frame |-> f, device |-> d, run |-> run, cli |-> cli]
             n == Len(typed')
  <2>1. /\ Entries' = Entries \cup {n} /\ n \notin Entries
        /\ \A i \in Entries : typed'[i] = typed[i]
        /\ typed'[n] = t
    BY <1>1, <1>4, TypedLast
  <2>2. t.frame = f /\ t.device = d /\ t.run = run
    OBVIOUS
  <2> HIDE DEF t, n
  <2>3. \A g \in Frames : Typed(g)' <=> Typed(g) \/ g = f
    BY <2>1, <2>2 DEF Typed
  <2>4. run' = run => \A g \in Frames : TypedNow(g)' <=> TypedNow(g) \/ g = f
    BY <2>1, <2>2 DEF TypedNow
  <2>5. run' = run => \A g \in Frames, e \in Devices : TypedFor(g, e)' <=> TypedFor(g, e) \/ (g = f /\ e = d)
    BY <2>1, <2>2 DEF TypedFor
  <2>6. QED BY <2>3, <2>4, <2>5
<1>5. QED BY <1>2, <1>3, <1>4

-----------------------------------------------------------------------------
(* Each part is kept. *)

(* What is made is made once, and is what has a status. *)
LEMMA MadeKept == ASSUME Once, MaxFrames <= AcksKept, Next PROVE MadeOK'
<1>1. TypeOK /\ MadeOK /\ SocketOK
  BY DEF Once
<1>2. CASE \E f \in Frames : queue(f) \/ sendNow(f)
  <2>1. PICK f \in Frames : queue(f) \/ sendNow(f)
    BY <1>2
  <2>2. /\ status[f] = "none" /\ Len(made) < MaxFrames /\ made' = Append(made, f) /\ status'[f] # "none"
        /\ \A g \in Frames \ {f} : status'[g] = "none" <=> status[g] = "none"
    BY <1>1, <2>1, Makes
  <2>3. made \in Seq(Frames)
    BY <1>1, Parts DEF OutboxOK
  <2>4. /\ Len(made) \in Nat /\ Len(made') = Len(made) + 1
        /\ DOMAIN made' = DOMAIN made \cup {Len(made) + 1} /\ Len(made) + 1 \notin DOMAIN made
        /\ \A k \in DOMAIN made : made'[k] = made[k]
        /\ made'[Len(made) + 1] = f
    BY <2>2, <2>3, Appends
  <2>5. \A k \in DOMAIN made : made[k] \in Frames /\ made[k] # f
    BY <1>1, <2>2, <2>3 DEF MadeOK
  <2>6. Len(made') <= MaxFrames
    BY <2>2, <2>4, LinkAssumption
  <2>7. \A i, j \in DOMAIN made' : made'[i] = made'[j] => i = j
    BY <1>1, <2>4, <2>5 DEF MadeOK
  <2>8. \A g \in Frames : status'[g] # "none" <=> \E i \in DOMAIN made' : made'[i] = g
    BY <1>1, <2>2, <2>4, <2>5 DEF MadeOK
  <2>9. QED BY <2>6, <2>7, <2>8 DEF MadeOK
<1>3. ASSUME made' = made, \A g \in Frames : status'[g] = "none" <=> status[g] = "none" PROVE MadeOK'
  BY <1>1, <1>3 DEF MadeOK
<1>4. CASE connected
  <2>1. made' = made /\ status' = [f \in Frames |-> IF status[f] = "waiting" THEN "sent" ELSE status[f]]
    BY <1>4 DEF connected
  <2>2. QED BY <1>3, <2>1
<1>5. CASE lost \/ relaunch \/ pair
  BY <1>1, <1>3, <1>5, Drops
<1>6. CASE (\E f \in Frames : Forget(f)) \/ onAck \/ onTranscript
  BY <1>1, <1>3, <1>6, Reads
<1>7. CASE Mac \/ Contact
  BY <1>3, <1>7, MacEffect DEF Contact, Show, NewSession, phone, outbox
<1>8. QED BY <1>2, <1>4, <1>5, <1>6, <1>7 DEF Next, Phone

(* While there is a socket nothing waits, and while there is none nothing counts as sent. *)
LEMMA SocketKept == ASSUME Once, MaxFrames <= AcksKept, Next PROVE SocketOK'
<1>1. TypeOK /\ MadeOK /\ SocketOK
  BY DEF Once
<1>2. \A s \in Sockets : s \in Nat /\ s # NoSocket
  BY LinkAssumption DEF Sockets, NoSocket
<1>3. CASE \E f \in Frames : queue(f) \/ sendNow(f)
  <2>1. PICK f \in Frames : queue(f) \/ sendNow(f)
    BY <1>3
  <2>2. /\ f \in Answers => socket # NoSocket
        /\ status'[f] = IF socket # NoSocket THEN "sent" ELSE "waiting"
        /\ \A g \in Frames \ {f} : status'[g] = status[g] \/ status'[g] = "forgotten"
        /\ UNCHANGED <<socket, device, sockets, open, deviceOf, inbox>>
    BY <1>1, <2>1, Makes
  <2>3. \A s \in Sockets : wire'[s] = IF s = socket /\ s \in open THEN Append(wire[s], f) ELSE wire[s]
    BY <1>1, <2>1, MakesOnWire
  <2>4. QED BY <1>1, <2>2, <2>3 DEF SocketOK
<1>4. CASE connected
  <2>1. /\ socket' = sockets + 1 /\ socket' \in Sockets /\ deviceOf'[socket'] = device /\ device' = device
        /\ \A s \in Sockets : s # socket' => wire'[s] = wire[s]
    BY <1>1, <1>4, ConnectsOnWire
  <2>2. /\ socket = NoSocket /\ sockets' = sockets + 1 /\ open' = open \cup {sockets'} /\ inbox' = inbox
        /\ status' = [f \in Frames |-> IF status[f] = "waiting" THEN "sent" ELSE status[f]]
    BY <1>4 DEF connected
  <2>3. socket' <= sockets'
    BY <1>2, <2>1, <2>2
  <2>4. QED BY <1>1, <1>2, <2>1, <2>2, <2>3 DEF SocketOK
<1>5. CASE lost \/ relaunch \/ pair
  <2>1. /\ socket' = NoSocket /\ inbox' = <<>> /\ UNCHANGED network
        /\ \A f \in Frames : /\ status'[f] # "sent"
                             /\ status'[f] = "waiting" => status[f] = "waiting" \/ f \notin Answers
    BY <1>1, <1>5, Drops
  <2>2. QED BY <1>1, <2>1 DEF SocketOK, network
<1>6. CASE (\E f \in Frames : Forget(f)) \/ onAck \/ onTranscript
  <2>1. /\ UNCHANGED <<socket, device, network>>
        /\ inbox' # inbox => inbox # <<>>
        /\ \A f \in Frames : Moving(f)' => Moving(f) /\ status'[f] = status[f]
    BY <1>1, <1>6, Reads
  <2>2. QED BY <1>1, <2>1 DEF SocketOK, network, Moving
<1>7. CASE Mac
  <2>1. /\ UNCHANGED <<phone, sockets, deviceOf>>
        /\ inbox' # inbox => socket # NoSocket
        /\ \A s \in Sockets : s \notin open' => wire'[s] = <<>>
    BY <1>7, MacEffect
  <2>2. QED BY <1>1, <2>1 DEF SocketOK, phone, outbox
<1>8. CASE Contact
  BY <1>1, <1>8 DEF Contact, Show, NewSession, phone, outbox, network, SocketOK
<1>9. QED BY <1>3, <1>4, <1>5, <1>6, <1>7, <1>8 DEF Next, Phone

(* A frame not made has left no trace. *)
LEMMA NoneKept == ASSUME Once, MaxFrames <= AcksKept, Next PROVE NoneOK'
<1>1. TypeOK /\ MadeOK /\ SocketOK /\ NoneOK
  BY DEF Once
<1>2. CASE Phone
  <2>1. UNCHANGED <<server, agent>>
    BY <1>1, <1>2, PhoneEffect
  <2>2. \A g \in Frames : /\ Typed(g)' <=> Typed(g) 
                          /\ Acting(g)' <=> Acting(g)
                          /\ \A d \in Devices : AckedBy(d, g)' <=> AckedBy(d, g)
    BY <2>1 DEF server, agent, Typed, Acting, AckedBy, Entries
  <2>3. \A g \in Frames : /\ status[g] # "none" => status'[g] # "none"
                          /\ \A s \in Sockets : OnWire(g, s)' => OnWire(g, s) \/ status'[g] = "sent"
    BY <1>1, <1>2, PhoneEffect
  <2>4. QED BY <1>1, <2>2, <2>3 DEF NoneOK
<1>3. CASE Mac
  <2>1. status' = status
    BY <1>3, MacEffect DEF phone, outbox
  <2>2. /\ \A g \in Frames, s \in Sockets : OnWire(g, s)' => OnWire(g, s)
        /\ \A d \in Devices, g \in Frames :
              AckedBy(d, g)' => AckedBy(d, g) \/ \E s \in Sockets : deviceOf[s] = d /\ OnWire(g, s)
        /\ \A g \in Frames : Acting(g)' => Acting(g) \/ (g \in Answers /\ \E s \in Sockets : OnWire(g, s))
    BY <1>3, MacEffect
  <2>3. \/ typed' = typed
        \/ \E f \in Prompts \cup Answers, d \in Devices :
             type(f, d) /\ (Acting(f) \/ \E s \in Sockets : OnWire(f, s))
    BY <1>3, MacEffect
  <2>4. \A g \in Frames : Typed(g)' => Typed(g) \/ Acting(g) \/ \E s \in Sockets : OnWire(g, s)
    BY <1>1, <2>3, OneTyped
  <2>5. QED BY <1>1, <2>1, <2>2, <2>4 DEF NoneOK
<1>4. CASE Contact
  BY <1>1, <1>4 DEF Contact, Show, NewSession, phone, outbox, network, server, NoneOK, Typed, Acting, AckedBy, OnWire, Entries
<1>5. QED BY <1>2, <1>3, <1>4 DEF Next

(* Nothing is typed by a launch to come. *)
LEMMA RunsKept == ASSUME Once, MaxFrames <= AcksKept, Next PROVE RunsOK'
<1>1. TypeOK /\ RunsOK /\ AgentOK /\ run \in Nat /\ MadeOK /\ SocketOK
  BY Parts DEF Once, MacOK, Runs
<1>2. ASSUME NEW i \in Entries PROVE typed[i].run \in Nat
  BY <1>1, EntryTypes
<1>3. CASE typed' = typed /\ (run' = run \/ run' = run + 1)
  BY <1>1, <1>2, <1>3 DEF RunsOK, Entries
<1>4. ASSUME NEW f \in Prompts \cup Answers, NEW d \in Devices, run' = run, type(f, d) PROVE RunsOK'
  <2>1. run \in Runs
    BY Parts DEF Once, MacOK
  <2>2. /\ Entries' = Entries \cup {Len(typed')}
        /\ \A i \in Entries : typed'[i] = typed[i]
        /\ typed'[Len(typed')] = [frame |-> f, device |-> d, run |-> run, cli |-> cli]
    BY <1>1, <1>4, <2>1, TypedLast
  <2>3. QED BY <1>1, <1>4, <2>2 DEF RunsOK
<1>5. CASE Phone
  BY <1>1, <1>3, <1>5, PhoneEffect DEF server, agent
<1>6. CASE Mac
  <2>1. run' = run \/ (run' = run + 1 /\ typed' = typed)
    BY <1>6, MacEffect
  <2>2. typed' = typed \/ \E f \in Prompts \cup Answers, d \in Devices : run' = run /\ type(f, d)
    BY <1>6, MacEffect
  <2>3. QED BY <1>3, <1>4, <2>1, <2>2
<1>7. CASE Contact
  BY <1>3, <1>7 DEF Contact, Show, NewSession, server
<1>8. QED BY <1>5, <1>6, <1>7 DEF Next

(* A trace is new only of a prompt that leaves now, for the device in use. *)
LEMMA NewTrace ==
  ASSUME Once, MaxFrames <= AcksKept, Next, NEW p \in Prompts, NEW d \in Devices, Trace(p, d)'
  PROVE  \/ Trace(p, d)
         \/ /\ status[p] \in {"none", "waiting"} /\ p \in sentOnce'
            /\ d = device /\ device' = device
<1>1. TypeOK /\ MadeOK /\ SocketOK /\ NoneOK /\ RunsOK /\ p \in Frames /\ run \in Nat
  BY Parts DEF Once, Frames, MacOK, Runs
<1>2. \/ \E s \in Sockets : deviceOf'[s] = d /\ OnWire(p, s)'
      \/ AckedBy(d, p)'
      \/ TypedFor(p, d)'
  BY DEF Trace
<1>3. CASE Phone
  <2>1. UNCHANGED <<server, agent>>
    BY <1>1, <1>3, PhoneEffect
  <2>2. (AckedBy(d, p)' <=> AckedBy(d, p)) /\ (TypedFor(p, d)' <=> TypedFor(p, d))
    BY <2>1 DEF server, agent, TypedFor, AckedBy, Entries
  <2>3. ASSUME NEW s \in Sockets, OnWire(p, s)', deviceOf'[s] = d
        PROVE  \/ Trace(p, d)
               \/ /\ status[p] \in {"none", "waiting"} /\ p \in sentOnce'
                  /\ d = device /\ device' = device
    <3>1. CASE OnWire(p, s)
      BY <1>1, <1>3, <2>3, <3>1, PhoneEffect DEF Trace
    <3>2. CASE ~OnWire(p, s)
      BY <1>1, <1>3, <2>3, <3>2, PhoneEffect
    <3>3. QED BY <3>1, <3>2
  <2>4. QED BY <1>2, <2>2, <2>3 DEF Trace
<1>4. CASE Mac
  <2>1. deviceOf' = deviceOf /\ \A s \in Sockets : OnWire(p, s)' => OnWire(p, s)
    BY <1>1, <1>4, MacEffect
  <2>2. AckedBy(d, p)' => AckedBy(d, p) \/ \E s \in Sockets : deviceOf[s] = d /\ OnWire(p, s)
    BY <1>1, <1>4, MacEffect
  <2>3. TypedFor(p, d)' => TypedFor(p, d) \/ \E s \in Sockets : deviceOf[s] = d /\ OnWire(p, s)
    <3>1. CASE run' = run
      <4>1. \/ typed' = typed
            \/ \E f \in Prompts \cup Answers, e \in Devices :
                 /\ type(f, e)
                 /\ f \in Answers \/ \E s \in Sockets : deviceOf[s] = e /\ OnWire(f, s)
        BY <1>4, MacEffect
      <4>2. p \notin Answers
        BY LinkAssumption
      <4>3. QED BY <1>1, <3>1, <4>1, <4>2, OneTyped
    <3>2. CASE run' = run + 1 /\ typed' = typed
      <4>1. \A i \in Entries : typed[i].run # run + 1
        BY <1>1, EntryTypes DEF RunsOK
      <4>2. QED BY <3>2, <4>1 DEF TypedFor, Entries
    <3>3. run' = run \/ (run' = run + 1 /\ typed' = typed)
      BY <1>4, MacEffect
    <3>4. QED BY <3>1, <3>2, <3>3
  <2>4. QED BY <1>2, <2>1, <2>2, <2>3 DEF Trace
<1>5. CASE Contact
  <2>1. UNCHANGED <<wire, deviceOf, acks, typed, run>>
    BY <1>5 DEF Contact, Show, NewSession, network, server
  <2>2. QED BY <2>1 DEF Trace, OnWire, AckedBy, TypedFor, Entries
<1>6. QED BY <1>3, <1>4, <1>5 DEF Next

(* A frame not made has no trace; what a step does to what is moving. *)
LEMMA Movement ==
  ASSUME Once, MaxFrames <= AcksKept, Next, NEW p \in Prompts
  PROVE  /\ status[p] = "none" => \A d \in Devices : ~Trace(p, d)
         /\ sentOnce \subseteq sentOnce'
         /\ Moving(p)' => Moving(p) \/ status[p] = "none"
         /\ device' # device /\ p \in sentOnce => ~Moving(p)'
<1>1. TypeOK /\ MadeOK /\ SocketOK /\ NoneOK /\ p \in Frames
  BY DEF Once, Frames
<1>2. status[p] = "none" => \A d \in Devices : ~Trace(p, d)
  BY <1>1 DEF NoneOK, Trace, TypedFor, Typed
<1>3. CASE Phone
  <2>1. sentOnce \subseteq sentOnce' /\ (Moving(p)' => Moving(p) \/ status[p] = "none")
    BY <1>1, <1>3, PhoneEffect
  <2>2. device' # device /\ p \in sentOnce => ~Moving(p)'
    BY <1>1, <1>3, PhoneEffect
  <2>3. QED BY <1>2, <2>1, <2>2
<1>4. CASE Mac \/ Contact
  <2>1. UNCHANGED <<sentOnce, status, device>>
    BY <1>4, MacEffect DEF Contact, Show, NewSession, phone, outbox
  <2>2. QED BY <1>2, <2>1 DEF Moving
<1>5. QED BY <1>3, <1>4 DEF Next

(* What left is marked so, and still on its way only for the device in use. *)
LEMMA SentKept == ASSUME Once, MaxFrames <= AcksKept, Next PROVE SentOK'
<1>1. SUFFICES ASSUME NEW p \in Prompts, NEW d \in Devices, Trace(p, d)'
               PROVE  p \in sentOnce' /\ (Moving(p)' => d = device')
  BY DEF SentOK
<1>2. CASE Trace(p, d)
  <2>1. p \in sentOnce /\ (Moving(p) => d = device)
    BY <1>2 DEF Once, SentOK
  <2>2. QED BY <1>2, <2>1, Movement
<1>3. CASE p \in sentOnce' /\ d = device /\ device' = device
  BY <1>3
<1>4. QED BY <1>1, <1>2, <1>3, NewTrace

(* No prompt leaves for two devices. *)
LEMMA OneDeviceKept == ASSUME Once, MaxFrames <= AcksKept, Next PROVE OneDevice'
<1>1. SUFFICES ASSUME NEW p \in Prompts, NEW d \in Devices, NEW e \in Devices, Trace(p, d)', Trace(p, e)'
               PROVE  d = e
  BY DEF OneDevice
<1>2. /\ Trace(p, d) \/ (status[p] \in {"none", "waiting"} /\ d = device)
      /\ Trace(p, e) \/ (status[p] \in {"none", "waiting"} /\ e = device)
  BY <1>1, NewTrace
<1>3. status[p] = "none" => ~Trace(p, d) /\ ~Trace(p, e)
  BY Movement
<1>4. status[p] = "waiting" => (Trace(p, d) => d = device) /\ (Trace(p, e) => e = device)
  BY DEF Once, SentOK, Moving
<1>5. Trace(p, d) /\ Trace(p, e) => d = e
  BY DEF Once, OneDevice
<1>6. QED BY <1>2, <1>3, <1>4, <1>5

(* What this launch typed for a device is acked for it. *)
LEMMA TypedAckedKept == ASSUME Once, MaxFrames <= AcksKept, Next PROVE TypedAcked'
<1>1. TypeOK /\ MadeOK /\ SocketOK /\ RunsOK /\ TypedAcked /\ run \in Nat
  BY Parts DEF Once, MacOK, Runs
<1>2. CASE Phone \/ Contact
  <2>1. UNCHANGED <<typed, run, acks>>
    BY <1>1, <1>2, PhoneEffect DEF Contact, Show, NewSession, server, agent
  <2>2. QED BY <1>1, <2>1 DEF TypedAcked, TypedFor, AckedBy, Entries
<1>3. CASE Mac
  <2>1. CASE run' = run + 1 /\ typed' = typed
    <3>1. \A i \in Entries : typed[i].run # run + 1
      BY <1>1, EntryTypes DEF RunsOK
    <3>2. QED BY <2>1, <3>1 DEF TypedAcked, TypedFor, Entries
  <2>2. CASE run' = run
    <3>1. \A e \in Devices, g \in Frames : AckedBy(e, g) => AckedBy(e, g)'
      BY <1>3, <2>2, MacEffect
    <3>2. \/ typed' = typed
          \/ \E f \in Prompts \cup Answers, d \in Devices :
               type(f, d) /\ (f \in Answers \/ AckedBy(d, f)')
      BY <1>3, MacEffect
    <3>3. Prompts \subseteq Frames /\ Prompts \cap Answers = {}
      BY LinkAssumption DEF Frames
    <3>4. \A p \in Prompts, d \in Devices : TypedFor(p, d)' => TypedFor(p, d) \/ AckedBy(d, p)'
      BY <1>1, <2>2, <3>2, <3>3, OneTyped
    <3>5. QED BY <1>1, <3>1, <3>3, <3>4 DEF TypedAcked
  <2>3. QED BY <1>3, <2>1, <2>2, MacEffect
<1>4. QED BY <1>2, <1>3 DEF Next

(* No frame is remembered twice for a device, and only answers are pending. *)
LEMMA AcksApart == ASSUME Once, MaxFrames <= AcksKept, Next PROVE AcksOK' /\ PendingOK'
<1>1. TypeOK /\ MadeOK /\ SocketOK /\ AcksOK /\ PendingOK
  BY DEF Once
<1>2. CASE acks' = acks
  BY <1>1, <1>2 DEF AcksOK, PendingOK
<1>3. ASSUME NEW s \in Sockets, handleClientFrame(s) PROVE AcksOK' /\ PendingOK'
  <2>0. wire[s] # <<>> /\ Head(wire[s]) \in Frames /\ deviceOf[s] \in Devices
    BY <1>1, <1>3, OnSocket DEF handleClientFrame
  <2>1. PICK f \in Frames, d \in Devices : f = Head(wire[s]) /\ d = deviceOf[s]
    BY <2>0
  <2>2. \/ acks' = acks
        \/ /\ ~AckedBy(d, f)
           /\ \E r \in {"pending", "ok", "refused"} :
                /\ acks'[d] = Append(acks[d], [frame |-> f, result |-> r])
                /\ \A e \in Devices \ {d} : acks'[e] = acks[e]
                /\ r = "pending" => f \in Answers
    <3>1. Met(d, f)
      BY <1>3, <2>1, Handles
    <3>2. QED BY <3>1 DEF Met
  <2>3. ASSUME NEW r \in {"pending", "ok", "refused"}, r = "pending" => f \in Answers, ~AckedBy(d, f),
               acks'[d] = Append(acks[d], [frame |-> f, result |-> r]),
               \A e \in Devices \ {d} : acks'[e] = acks[e]
        PROVE  AcksOK' /\ PendingOK'
    <3> DEFINE a == [frame |-> f, result |-> r]
    <3>1. a \in Acks /\ a.frame = f /\ a.result = r /\ acks'[d] = Append(acks[d], a)
      BY <2>3 DEF Acks
    <3> HIDE DEF a
    <3>2. acks[d] \in Seq(Acks)
      BY <1>1, Parts DEF AckedOK
    <3>3. /\ DOMAIN acks'[d] = DOMAIN acks[d] \cup {Len(acks[d]) + 1}
          /\ acks'[d][Len(acks[d]) + 1] = a /\ \A i \in DOMAIN acks[d] : acks'[d][i] = acks[d][i]
      BY <3>1, <3>2
    <3>4. \A i \in DOMAIN acks[d] : acks[d][i].frame # f
      BY <2>3 DEF AckedBy
    <3>5. ASSUME NEW e \in Devices
          PROVE  /\ \A i, j \in DOMAIN acks'[e] : acks'[e][i].frame = acks'[e][j].frame => i = j
                 /\ \A i \in DOMAIN acks'[e] : acks'[e][i].result = "pending" => acks'[e][i].frame \in Answers
      <4>1. CASE e = d
        <5>1. /\ \A i, j \in DOMAIN acks[d] : acks[d][i].frame = acks[d][j].frame => i = j
              /\ \A i \in DOMAIN acks[d] : acks[d][i].result = "pending" => acks[d][i].frame \in Answers
          BY <1>1 DEF AcksOK, PendingOK
        <5>2. /\ \A i, j \in DOMAIN acks'[d] : acks'[d][i].frame = acks'[d][j].frame => i = j
              /\ \A i \in DOMAIN acks'[d] : acks'[d][i].result = "pending" => acks'[d][i].frame \in Answers
          <6> DEFINE n == Len(acks[d]) + 1
                     D == DOMAIN acks[d]
                     E == DOMAIN acks'[d]
          <6>1. /\ E = D \cup {n} /\ acks'[d][n].frame = f /\ acks'[d][n].result = r
                /\ \A i \in D : /\ acks'[d][i].frame = acks[d][i].frame /\ acks[d][i].frame # f
                                 /\ acks'[d][i].result = acks[d][i].result
            BY <3>1, <3>3, <3>4
          <6> HIDE DEF n, D, E
          <6>2. \A i, j \in E : acks'[d][i].frame = acks'[d][j].frame => i = j
            BY <5>1, <6>1 DEF D
          <6>3. \A i \in E : acks'[d][i].result = "pending" => acks'[d][i].frame \in Answers
            BY <2>3, <5>1, <6>1 DEF D
          <6>4. QED BY <6>2, <6>3 DEF E
        <5>3. QED BY <4>1, <5>2
      <4>2. CASE e # d
        BY <1>1, <2>3, <4>2 DEF AcksOK, PendingOK
      <4>3. QED BY <4>1, <4>2
    <3>6. QED BY <3>5 DEF AcksOK, PendingOK
  <2>4. QED BY <1>2, <2>2, <2>3
<1>4. ASSUME NEW f \in Answers, finishAnswer(f) PROVE AcksOK' /\ PendingOK'
  <2>1. \A d \in Devices : /\ DOMAIN acks'[d] = DOMAIN acks[d]
                           /\ \A i \in DOMAIN acks[d] :
                                /\ acks'[d][i].frame = acks[d][i].frame
                                /\ acks'[d][i] = acks[d][i] \/ acks'[d][i].result \in {"ok", "refused"}
    BY <1>1, <1>4, Finishes
  <2>2. AcksOK'
    BY <1>1, <2>1 DEF AcksOK
  <2>3. PendingOK'
    BY <1>1, <2>1 DEF PendingOK
  <2>4. QED BY <2>2, <2>3
<1>5. CASE Restart
  BY <1>5 DEF Restart, AcksOK, PendingOK
<1>6. CASE Phone
  BY <1>1, <1>2, <1>6, PhoneEffect DEF server
<1>7. CASE (\E s \in Sockets : onClose(s)) \/ sendTranscript \/ Contact
  BY <1>2, <1>7 DEF onClose, sendTranscript, Contact, Show, NewSession, server
<1>8. QED BY <1>3, <1>4, <1>5, <1>6, <1>7 DEF Next, Mac

(* An answer is in one place of one socket at most. *)
LEMMA OneWireKept == ASSUME Once, MaxFrames <= AcksKept, Next PROVE OneWire'
<1>1. TypeOK /\ MadeOK /\ SocketOK /\ NoneOK /\ OneWire
  BY DEF Once
<1>2. Answers \subseteq Frames /\ \A s \in Sockets : wire[s] \in Seq(Frames)
  BY <1>1, WireTypes DEF Frames
<1>3. ASSUME \A s \in Sockets : wire'[s] = <<>> \/ wire'[s] = wire[s] PROVE OneWire'
  BY <1>1, <1>3 DEF OneWire
<1>4. ASSUME NEW f \in Frames, queue(f) \/ sendNow(f) PROVE OneWire'
  <2>1. \A s \in Sockets : wire'[s] = IF s = socket /\ s \in open THEN Append(wire[s], f) ELSE wire[s]
    BY <1>1, <1>4, MakesOnWire
  <2>2. \A s \in Sockets : \A k \in DOMAIN wire[s] : wire[s][k] # f
    BY <1>1, <1>4, Makes DEF NoneOK, OnWire
  <2>3. ASSUME NEW s \in Sockets, NEW k \in DOMAIN wire'[s], NEW g \in Answers, wire'[s][k] = g
        PROVE  \/ k \in DOMAIN wire[s] /\ wire[s][k] = g /\ g # f
               \/ g = f /\ s = socket /\ k = Len(wire[s]) + 1
    <3>1. CASE s = socket /\ s \in open
      <4> DEFINE w == wire[s]
      <4>1. w \in Seq(Frames) /\ wire'[s] = Append(w, f)
        BY <1>2, <2>1, <3>1
      <4>2. \A i \in DOMAIN w : w[i] # f
        BY <2>2
      <4> HIDE DEF w
      <4>3. (k \in DOMAIN w /\ wire'[s][k] = w[k]) \/ (k = Len(w) + 1 /\ wire'[s][k] = f)
        BY <4>1, Appends
      <4>4. QED BY <2>3, <3>1, <4>2, <4>3 DEF w
    <3>2. CASE ~(s = socket /\ s \in open)
      BY <2>1, <2>2, <2>3, <3>2
    <3>3. QED BY <3>1, <3>2
  <2>4. QED BY <1>1, <2>3 DEF OneWire
<1>5. CASE connected
  <2>1. /\ wire'[socket'] = toSend /\ socket' \in Sockets
        /\ \A s \in Sockets : s # socket' => wire'[s] = wire[s]
    BY <1>1, <1>5, ConnectsOnWire
  <2>2. \A k \in DOMAIN toSend : toSend[k] \notin Answers
    <3>1. \A k \in DOMAIN toSend : status[toSend[k]] = "waiting"
      BY <1>1, ToSend, Parts
    <3>2. \A g \in Answers : status[g] # "waiting"
      BY <1>1, <1>2 DEF SocketOK
    <3>3. QED BY <3>1, <3>2
  <2>3. ASSUME NEW s \in Sockets, NEW k \in DOMAIN wire'[s], NEW g \in Answers, wire'[s][k] = g
        PROVE  k \in DOMAIN wire[s] /\ wire[s][k] = g
    BY <2>1, <2>2, <2>3
  <2>4. QED BY <1>1, <2>3 DEF OneWire
<1>6. CASE lost \/ relaunch \/ pair
  BY <1>1, <1>3, <1>6, Drops DEF network
<1>7. CASE (\E f \in Frames : Forget(f)) \/ onAck \/ onTranscript
  BY <1>1, <1>3, <1>7, Reads DEF network
<1>8. ASSUME NEW s \in Sockets, handleClientFrame(s) PROVE OneWire'
  <2> DEFINE w == wire[s]
  <2>1. w \in Seq(Frames) /\ w # <<>> /\ wire'[s] = Tail(w) /\ \A t \in Sockets : t # s => wire'[t] = wire[t]
    BY <1>1, <1>8, WireTypes DEF handleClientFrame
  <2>2. ASSUME NEW t \in Sockets, NEW k \in DOMAIN wire'[t], NEW g \in Answers, wire'[t][k] = g
        PROVE  \/ t # s /\ k \in DOMAIN wire[t] /\ wire[t][k] = g
               \/ t = s /\ k \in Nat /\ k + 1 \in DOMAIN wire[t] /\ wire[t][k + 1] = g
    <3>1. CASE t = s
      <4> HIDE DEF w
      <4>1. k \in Nat /\ k + 1 \in DOMAIN w /\ w[k + 1] = g
        BY <2>1, <2>2, <3>1, Tails
      <4>2. QED BY <3>1, <4>1 DEF w
    <3>2. CASE t # s
      BY <2>1, <2>2, <3>2
    <3>3. QED BY <3>1, <3>2
  <2>3. ASSUME NEW g \in Answers, NEW t \in Sockets, NEW u \in Sockets,
               NEW k \in DOMAIN wire'[t], NEW l \in DOMAIN wire'[u], wire'[t][k] = g, wire'[u][l] = g
        PROVE  t = u /\ k = l
    <3>1. /\ \/ t # s /\ k \in DOMAIN wire[t] /\ wire[t][k] = g
             \/ t = s /\ k \in Nat /\ k + 1 \in DOMAIN wire[t] /\ wire[t][k + 1] = g
          /\ \/ u # s /\ l \in DOMAIN wire[u] /\ wire[u][l] = g
             \/ u = s /\ l \in Nat /\ l + 1 \in DOMAIN wire[u] /\ wire[u][l + 1] = g
      BY <2>2, <2>3
    <3>2. t = u
      BY <1>1, <3>1 DEF OneWire
    <3>3. k = l \/ (k \in Nat /\ l \in Nat /\ k + 1 = l + 1)
      BY <1>1, <3>1, <3>2 DEF OneWire
    <3>4. QED BY <3>2, <3>3
  <2>4. QED BY <2>3 DEF OneWire
<1>9. CASE \E s \in Sockets : onClose(s)
  <2>1. PICK s \in Sockets : wire' = [wire EXCEPT ![s] = <<>>]
    BY <1>9 DEF onClose
  <2>2. \A t \in Sockets : wire'[t] = <<>> \/ wire'[t] = wire[t]
    BY <1>1, <2>1, WireTypes
  <2>3. QED BY <1>3, <2>2
<1>10. CASE Restart
  BY <1>3, <1>10 DEF Restart
<1>11. CASE (\E f \in Answers : finishAnswer(f)) \/ sendTranscript \/ Contact
  <2>1. wire' = wire
    BY <1>11, Finishes DEF sendTranscript, Contact, Show, NewSession, network
  <2>2. QED BY <1>3, <2>1
<1>12. QED BY <1>4, <1>5, <1>6, <1>7, <1>8, <1>9, <1>10, <1>11 DEF Next, Phone, Mac

(* An answer on its way has not been acted on, and one being acted on has not been typed. *)
LEMMA AnswersKept == ASSUME Once, MaxFrames <= AcksKept, Next PROVE AnswersOK'
<1>1. TypeOK /\ MadeOK /\ SocketOK /\ NoneOK /\ OneWire /\ AnswersOK /\ Answers \subseteq Frames
  BY DEF Once, Frames
<1>2. ASSUME NEW f \in Answers
      PROVE  /\ (\E s \in Sockets : OnWire(f, s)') =>
                   ~Acting(f)' /\ ~Typed(f)' /\ \A d \in Devices : ~AckedBy(d, f)'
             /\ Acting(f)' => ~Typed(f)'
  <2>1. f \in Frames
    BY <1>1
  <2>2. CASE Phone
    <3>1. UNCHANGED <<server, agent>>
      BY <1>1, <2>2, PhoneEffect
    <3>2. /\ Typed(f)' <=> Typed(f)
          /\ Acting(f)' <=> Acting(f)
          /\ \A d \in Devices : AckedBy(d, f)' <=> AckedBy(d, f)
      BY <3>1 DEF server, agent, Typed, Acting, AckedBy, Entries
    <3>3. status[f] # "waiting"
      BY <1>1, <2>1 DEF SocketOK
    <3>4. \A s \in Sockets : OnWire(f, s)' => OnWire(f, s) \/ status[f] = "none"
      BY <1>1, <2>1, <2>2, <3>3, PhoneEffect
    <3>5. QED BY <1>1, <2>1, <3>2, <3>4 DEF AnswersOK, NoneOK
  <2>3. CASE \E s \in Sockets : handleClientFrame(s)
    <3>1. PICK s \in Sockets : handleClientFrame(s)
      BY <2>3
    <3>2. wire[s] # <<>> /\ Head(wire[s]) \in Frames /\ deviceOf[s] \in Devices
      BY <1>1, <3>1, OnSocket DEF handleClientFrame
    <3>3. PICK h \in Frames, d \in Devices : h = Head(wire[s]) /\ d = deviceOf[s]
      BY <3>2
    <3>4. /\ \A t \in Sockets : OnWire(f, t)' => OnWire(f, t)
          /\ \A e \in Devices : AckedBy(e, f)' => AckedBy(e, f) \/ \E t \in Sockets : OnWire(f, t)
          /\ Acting(f)' => Acting(f) \/ \E t \in Sockets : OnWire(f, t)
      BY <2>1, <2>3, MacEffect DEF Mac
    <3>5. Typed(f)' <=> Typed(f)
      <4>1. typed' = typed \/ \E e \in Devices : h \in Prompts /\ type(h, e)
        <5>1. Met(d, h)
          BY <3>1, <3>3, Handles
        <5>2. QED BY <5>1, Zenon DEF Met
      <4>2. f \notin Prompts
        BY LinkAssumption
      <4>3. QED BY <1>1, <2>1, <4>1, <4>2, OneTyped
    <3>6. CASE h = f
      <4>1. \A t \in Sockets : ~OnWire(f, t)'
        <5> DEFINE w == wire[s]
        <5>1. w \in Seq(Frames) /\ w # <<>> /\ wire'[s] = Tail(w) /\ Head(w) = f
              /\ \A t \in Sockets : t # s => wire'[t] = wire[t]
          BY <1>1, <3>1, <3>3, <3>6, WireTypes DEF handleClientFrame
        <5>2. \A t \in Sockets : \A k \in DOMAIN wire[t] : wire[t][k] = f /\ w[1] = f /\ 1 \in DOMAIN w => t = s /\ k = 1
          BY <1>1 DEF OneWire
        <5>3. \A k \in DOMAIN w : w[k] = f /\ w[1] = f /\ 1 \in DOMAIN w => k = 1
          BY <5>2
        <5> HIDE DEF w
        <5>4. w[1] = f /\ 1 \in DOMAIN w
          BY <5>1, Tails
        <5>5. \A k \in DOMAIN Tail(w) : Tail(w)[k] # f
          <6>1. SUFFICES ASSUME NEW k \in DOMAIN Tail(w), Tail(w)[k] = f PROVE FALSE
            OBVIOUS
          <6>2. k \in Nat /\ k + 1 \in DOMAIN w /\ w[k + 1] = f /\ k # 0
            BY <5>1, <6>1, Tails
          <6>3. QED BY <5>3, <5>4, <6>2
        <5>6. QED BY <5>1, <5>2, <5>4, <5>5 DEF OnWire
      <4>2. OnWire(f, s)
        BY <3>1, <3>3, <3>6, HandleMoves
      <4>3. QED BY <1>1, <3>5, <4>1, <4>2 DEF AnswersOK
    <3>7. CASE h # f
      <4>1. Acting(f)' <=> Acting(f)
        <5>1. acting' = acting \/ acting' = acting \cup {[frame |-> h, on |-> s]}
          <6>1. Worked(s, h)
            BY <3>1, <3>3, Handles
          <6>2. QED BY <6>1 DEF Worked
        <5>2. QED BY <3>7, <5>1 DEF Acting
      <4>2. \A e \in Devices : AckedBy(e, f)' => AckedBy(e, f)
        BY <2>1, <3>1, <3>3, <3>7, HandleMoves
      <4>3. QED BY <1>1, <3>4, <3>5, <4>1, <4>2 DEF AnswersOK
    <3>8. QED BY <3>6, <3>7
  <2>4. CASE \E g \in Answers : finishAnswer(g)
    <3>1. PICK g \in Answers : finishAnswer(g)
      BY <2>4
    <3>2. wire' = wire /\ Acting(g) /\ ~Acting(g)' /\ (Acting(f)' => Acting(f))
      BY <3>1, Finishes DEF network, Acting
    <3>3. \A d \in Devices : AckedBy(d, f)' <=> AckedBy(d, f)
      BY <3>1, Finishes DEF AckedBy
    <3>4. Typed(f)' => Typed(f) \/ f = g
      BY <1>1, <2>1, <3>1, Finishes, OneTyped
    <3>5. \A s \in Sockets : OnWire(f, s)' <=> OnWire(f, s)
      BY <3>2 DEF OnWire
    <3>6. QED BY <1>1, <3>2, <3>3, <3>4, <3>5 DEF AnswersOK
  <2>5. CASE (\E s \in Sockets : onClose(s)) \/ Restart \/ sendTranscript \/ Contact
    <3>1. typed' = typed /\ (Acting(f)' => Acting(f)) /\ (\A d \in Devices : AckedBy(d, f)' => AckedBy(d, f))
      BY <2>5 DEF onClose, Restart, sendTranscript, Contact, Show, NewSession, server, agent, Acting, AckedBy
    <3>2. \A s \in Sockets : OnWire(f, s)' => OnWire(f, s)
      <4>1. CASE Contact
        BY <4>1 DEF Contact, Show, NewSession, network, OnWire
      <4>2. CASE ~Contact
        BY <2>1, <2>5, <4>2, MacEffect DEF Mac
      <4>3. QED BY <4>1, <4>2
    <3>3. Typed(f)' <=> Typed(f)
      BY <1>1, <2>1, <3>1, OneTyped
    <3>4. QED BY <1>1, <3>1, <3>2, <3>3 DEF AnswersOK
  <2>6. QED BY <2>2, <2>3, <2>4, <2>5 DEF Next, Mac
<1>3. QED BY <1>2 DEF AnswersOK

-----------------------------------------------------------------------------
(* No message is typed twice. *)

(* The types, for every step. *)
LEMMA TypesKept == ASSUME TypeOK, PendingOK, Next PROVE TypeOK'
BY PhoneTypes, MacTypes, ContactTypes DEF Next

(* Empty at first. *)
LEMMA InitOnce == Init => Once
<1> SUFFICES ASSUME Init PROVE Once
  OBVIOUS
<1>1. TypeOK
  BY InitTypes
<1>2. /\ made = <<>> /\ status = [f \in Frames |-> "none"] /\ sentOnce = {}
      /\ socket = NoSocket /\ inbox = <<>> /\ wire = [s \in Sockets |-> <<>>]
      /\ run = 1 /\ acks = [d \in Devices |-> <<>>] /\ acting = {} /\ typed = <<>> /\ Entries = {}
  BY DEF Init, Entries
<1>3. /\ \A f : ~Typed(f) /\ ~TypedNow(f) /\ ~Acting(f) /\ \A d : ~TypedFor(f, d)
      /\ \A f, s : s \in Sockets => ~OnWire(f, s)
      /\ \A f, d : d \in Devices => ~AckedBy(d, f)
  BY <1>2 DEF Typed, TypedNow, TypedFor, Acting, OnWire, AckedBy
<1>4. \A p \in Prompts, d \in Devices : ~Trace(p, d)
  BY <1>3 DEF Trace
<1>5. MadeOK
  BY <1>2, LinkAssumption DEF MadeOK
<1>6. SocketOK
  BY <1>2 DEF SocketOK
<1>7. PendingOK /\ AcksOK /\ OneWire
  BY <1>2 DEF PendingOK, AcksOK, OneWire
<1>8. NoneOK /\ AnswersOK /\ RunsOK
  BY <1>2, <1>3 DEF NoneOK, AnswersOK, RunsOK
<1>9. SentOK /\ OneDevice /\ TypedAcked
  BY <1>3, <1>4 DEF SentOK, OneDevice, TypedAcked
<1>10. QED BY <1>1, <1>5, <1>6, <1>7, <1>8, <1>9 DEF Once

(* The parts together are kept by every step, and by one that changes nothing. *)
LEMMA OnceKept == ASSUME Once, MaxFrames <= AcksKept, [Next]_vars PROVE Once'
<1>1. CASE Next
  BY <1>1, TypesKept, MadeKept, SocketKept, NoneKept, RunsKept, SentKept, OneDeviceKept, TypedAckedKept,
     AcksApart, OneWireKept, AnswersKept DEF Once
<1>2. CASE UNCHANGED vars
  <2>1. TypeOK'
    BY <1>2, StutterTypes DEF Once
  <2>2. UNCHANGED <<made, status, sentOnce, socket, device, sockets, open, deviceOf, wire, inbox,
                    run, acks, acting, typed>>
    BY <1>2 DEF vars, phone, outbox, network, server, agent
  <2>3. /\ \A f, s : OnWire(f, s)' <=> OnWire(f, s)
        /\ \A d, f : AckedBy(d, f)' <=> AckedBy(d, f)
        /\ \A f : (Typed(f)' <=> Typed(f)) /\ (Acting(f)' <=> Acting(f)) /\ (Moving(f)' <=> Moving(f))
        /\ \A f, d : TypedFor(f, d)' <=> TypedFor(f, d)
        /\ Entries' = Entries
    BY <2>2 DEF OnWire, AckedBy, Typed, TypedFor, Acting, Moving, Entries
  <2>4. \A f, d : Trace(f, d)' <=> Trace(f, d)
    BY <2>2, <2>3 DEF Trace
  <2>5. MadeOK' /\ SocketOK' /\ PendingOK' /\ AcksOK' /\ OneWire'
    BY <2>2 DEF Once, MadeOK, SocketOK, PendingOK, AcksOK, OneWire
  <2>6. NoneOK' /\ AnswersOK' /\ RunsOK'
    BY <2>2, <2>3 DEF Once, NoneOK, AnswersOK, RunsOK
  <2>7. SentOK' /\ OneDevice' /\ TypedAcked'
    BY <2>2, <2>3, <2>4 DEF Once, SentOK, OneDevice, TypedAcked
  <2>8. QED BY <2>1, <2>5, <2>6, <2>7 DEF Once
<1>3. QED BY <1>1, <1>2

(* What is typed now was typed by no one before: a prompt by no one of this launch, an answer never. *)
LEMMA TypedAnew ==
  ASSUME Once, MaxFrames <= AcksKept, Next, typed' # typed
  PROVE  \E f \in Prompts \cup Answers, d \in Devices :
           /\ type(f, d) /\ run' = run
           /\ f \in Answers => ~Typed(f)
           /\ f \in Prompts => /\ ~TypedNow(f) /\ ~AckedBy(d, f)
                             /\ \E s \in Sockets : deviceOf[s] = d /\ OnWire(f, s)
<1>1. TypeOK /\ MadeOK /\ SocketOK
  BY DEF Once
<1>2. Mac
  BY <1>1, PhoneEffect DEF Next, Contact, Show, NewSession, agent
<1>3. PICK f \in Prompts \cup Answers, d \in Devices :
        /\ run' = run /\ type(f, d)
        /\ \/ f \in Answers /\ Acting(f)
           \/ /\ f \in Prompts /\ ~AckedBy(d, f)
              /\ \E s \in Sockets : deviceOf[s] = d /\ OnWire(f, s)
  BY <1>2, MacEffect
<1>4. f \in Answers => f \notin Prompts /\ ~Typed(f)
  BY <1>3, LinkAssumption DEF Once, AnswersOK
<1>5. ASSUME f \in Prompts, TypedNow(f) PROVE FALSE
  <2>1. ~AckedBy(d, f) /\ Trace(f, d)
    BY <1>3, <1>4, <1>5 DEF Trace
  <2>2. PICK e \in Devices : TypedFor(f, e)
    BY <1>1, <1>5, EntryTypes DEF TypedNow, TypedFor
  <2>3. AckedBy(e, f) /\ Trace(f, e)
    BY <1>5, <2>2 DEF Once, TypedAcked, Trace
  <2>4. e = d
    BY <1>5, <2>1, <2>3 DEF Once, OneDevice
  <2>5. QED BY <2>1, <2>3, <2>4
<1>6. QED BY <1>3, <1>4, <1>5

(* While Multi-Code runs it types no message twice, over all the phone's sockets and pairings,
   and no answer or interrupt ever, as long as the server has room for an ack of every frame. *)
THEOREM TypedOncePerRun == ASSUME MaxFrames <= AcksKept PROVE Spec => []OncePerRun
<1>1. Init => Once /\ OncePerRun
  <2>1. Init => Once
    BY InitOnce
  <2>2. Init => \A i \in Entries : FALSE
    BY DEF Init, Entries
  <2>3. QED BY <2>1, <2>2 DEF OncePerRun, Once
<1>2. ASSUME Once, OncePerRun, [Next]_vars PROVE Once' /\ OncePerRun'
  <2>1. Once'
    BY <1>2, OnceKept
  <2>2. CASE typed' = typed
    BY <1>2, <2>1, <2>2 DEF OncePerRun, Once, Entries
  <2>3. CASE typed' # typed
    <3>1. Next
      BY <1>2, <2>3 DEF vars, agent
    <3>2. PICK f \in Prompts \cup Answers, d \in Devices :
            /\ type(f, d) /\ run' = run
            /\ f \in Answers => ~Typed(f)
            /\ f \in Prompts => ~TypedNow(f)
      BY <1>2, <2>3, <3>1, TypedAnew
    <3>3. AgentOK /\ run \in Runs /\ Prompts \cap Answers = {}
      BY <1>2, Parts, LinkAssumption DEF Once, MacOK
    <3> DEFINE n == Len(typed')
    <3>4. /\ Entries' = Entries \cup {n} /\ n \notin Entries /\ n = Len(typed) + 1
          /\ \A i \in Entries : typed'[i] = typed[i]
          /\ typed'[n] = [frame |-> f, device |-> d, run |-> run, cli |-> cli]
      BY <3>2, <3>3, TypedLast
    <3>5. typed'[n].frame = f /\ typed'[n].run = run
      BY <3>4
    <3>6. \A i \in Entries : i \in Nat /\ i < n
      <4>1. Len(typed) \in Nat
        BY <3>3 DEF AgentOK
      <4>2. QED BY <3>4, <4>1 DEF Entries
    <3> HIDE DEF n
    <3>7. ASSUME NEW i \in Entries', NEW j \in Entries', i < j, typed'[i].frame = typed'[j].frame
          PROVE  typed'[i].run # typed'[j].run /\ typed'[i].frame \notin Answers
      <4>1. CASE j \in Entries
        <5>1. i \in Entries
          <6>1. n \in Nat /\ ~(n < j)
            BY <3>3, <3>4, <3>6, <4>1 DEF AgentOK
          <6>2. QED BY <3>4, <3>7, <6>1
        <5>2. QED BY <1>2, <3>4, <3>7, <4>1, <5>1 DEF OncePerRun
      <4>2. CASE j = n
        <5>1. i \in Entries
          BY <3>3, <3>4, <3>7, <4>2 DEF AgentOK
        <5>2. typed[i].frame = f
          BY <3>4, <3>5, <3>7, <4>2, <5>1
        <5>3. Typed(f) /\ (typed[i].run = run => TypedNow(f))
          BY <5>1, <5>2 DEF Typed, TypedNow
        <5>4. QED BY <3>2, <3>3, <3>4, <3>5, <4>2, <5>1, <5>2, <5>3
      <4>3. QED BY <3>4, <4>1, <4>2
    <3>8. QED BY <2>1, <3>7 DEF OncePerRun, Once
  <2>4. QED BY <2>2, <2>3
<1>3. QED BY <1>1, <1>2, PTL DEF Spec

-----------------------------------------------------------------------------
(* The order messages are typed in. *)

Past(p) == status[p] \notin {"none", "waiting", "sent"}

\* This device will bring the frame no more: its ack is kept, or it is not on its way.
Gone(p, d) ==
  \/ AckedBy(d, p)
  \/ /\ \A s \in Sockets : deviceOf[s] = d => ~OnWire(p, s)
     /\ Moving(p) => d # device

InInbox(p, ok) == \E k \in DOMAIN inbox : inbox[k] = [ack |-> p, ok |-> ok]

DeviceOK ==
  /\ \A s \in Sockets : deviceOf[s] <= device
  /\ \A p \in Prompts : \A d \in Devices : TypedFor(p, d) => d <= device

PastOK ==
  \A p \in Prompts : Past(p) =>
    \A s \in Sockets : OnWire(p, s) =>
      \/ AckedBy(deviceOf[s], p)
      \/ status[p] \in {"unknown", "forgotten", "delivered"} /\ deviceOf[s] # device

ResultOK ==
  \A p \in Prompts : \A d \in Devices :
    /\ Held(acks, d, p, TRUE) => Typed(p)
    /\ Held(acks, d, p, FALSE) => ~TypedNow(p)

InboxOK ==
  \A p \in Prompts : \A ok \in BOOLEAN : InInbox(p, ok) =>
    /\ status[p] # "none"
    /\ \A s \in Sockets : OnWire(p, s) => AckedBy(deviceOf[s], p)
    /\ ok => Typed(p)
    /\ ~ok => ~TypedNow(p)

SentOnWire ==
  \A p \in Prompts : status[p] = "sent" /\ socket \in open => OnWire(p, socket) \/ AckedBy(device, p)

WireOrder ==
  \A s \in Sockets : \A k \in DOMAIN wire[s] : \A p, q \in Prompts :
    wire[s][k] = q /\ Before(made, p, q) =>
      (\E j \in DOMAIN wire[s] : j < k /\ wire[s][j] = p) \/ Gone(p, deviceOf[s])

TypedOrder ==
  \A p, q \in Prompts : \A d \in Devices : TypedFor(q, d) /\ Before(made, p, q) => Gone(p, d)

Ordered == DeviceOK /\ PastOK /\ ResultOK /\ InboxOK /\ SentOnWire /\ WireOrder /\ TypedOrder

(* What comes before another was made; and what is made comes last. *)
LEMMA MadeOrder ==
  ASSUME TypeOK, MadeOK
  PROVE  /\ \A p, q \in Frames : Before(made, p, q) => status[p] # "none" /\ status[q] # "none"
         /\ \A p, q \in Frames : \A i \in DOMAIN made :
              Before(made, p, q) /\ made[i] = q => \E j \in DOMAIN made : j < i /\ made[j] = p
         /\ \A f \in Frames : made' = Append(made, f) =>
              \A p, q \in Frames : Before(made', p, q) => Before(made, p, q) \/ (q = f /\ status[p] # "none")
<1>1. made \in Seq(Frames)
  BY Parts DEF OutboxOK
<1>2. \A p, q \in Frames : Before(made, p, q) => status[p] # "none" /\ status[q] # "none"
  BY DEF Before, MadeOK
<1>3. \A p, q \in Frames : \A i \in DOMAIN made :
        Before(made, p, q) /\ made[i] = q => \E j \in DOMAIN made : j < i /\ made[j] = p
  BY DEF Before, MadeOK
<1>4. ASSUME NEW f \in Frames, made' = Append(made, f), NEW p \in Frames, NEW q \in Frames, Before(made', p, q)
      PROVE  Before(made, p, q) \/ (q = f /\ status[p] # "none")
  <2> DEFINE n == Len(made) + 1
  <2>1. /\ DOMAIN made' = DOMAIN made \cup {n} /\ made'[n] = f
        /\ \A k \in DOMAIN made : k \in Nat /\ k < n /\ made'[k] = made[k]
    BY <1>1, <1>4, Appends
  <2>2. PICK i \in DOMAIN made', j \in DOMAIN made' : i < j /\ made'[i] = p /\ made'[j] = q
    BY <1>4 DEF Before
  <2>3. n \in Nat
    BY <1>1
  <2> HIDE DEF n
  <2>4. i \in DOMAIN made
    BY <2>1, <2>2, <2>3
  <2>5. status[p] # "none"
    BY <2>1, <2>2, <2>4 DEF MadeOK
  <2>6. CASE j = n
    BY <2>1, <2>2, <2>5, <2>6
  <2>7. CASE j \in DOMAIN made
    BY <2>1, <2>2, <2>4, <2>7 DEF Before
  <2>8. QED BY <2>1, <2>6, <2>7
<1>5. QED BY <1>2, <1>3, <1>4

(* Devices are numbered as they are paired. *)
LEMMA DeviceKept == ASSUME Once, DeviceOK, MaxFrames <= AcksKept, Next PROVE DeviceOK'
<1>1. TypeOK /\ MadeOK /\ SocketOK /\ RunsOK
  BY DEF Once
<1>2. device \in Nat /\ \A d \in Devices : d \in Nat
  BY <1>1, Parts DEF LinkOK, Devices
<1>3. device' = device \/ device' = device + 1
  <2>1. CASE Phone
    BY <1>1, <2>1, PhoneEffect
  <2>2. CASE Mac \/ Contact
    BY <2>2, MacEffect DEF Contact, Show, NewSession, phone
  <2>3. QED BY <2>1, <2>2 DEF Next
<1>4. \A s \in Sockets : deviceOf[s] \in Devices
  BY <1>1, WireTypes
<1>5. \A s \in Sockets : deviceOf'[s] <= device'
  <2>1. CASE connected
    BY <1>1, <1>2, <1>4, <2>1, ConnectsOnWire DEF DeviceOK
  <2>2. CASE ~connected
    <3>1. deviceOf' = deviceOf
      <4>1. CASE \E f \in Frames : queue(f) \/ sendNow(f)
        BY <1>1, <4>1, Makes
      <4>2. CASE lost \/ relaunch \/ pair
        BY <1>1, <4>2, Drops DEF network
      <4>3. CASE (\E f \in Frames : Forget(f)) \/ onAck \/ onTranscript
        BY <1>1, <4>3, Reads DEF network
      <4>4. CASE Mac \/ Contact
        BY <4>4, MacEffect DEF Contact, Show, NewSession, network
      <4>5. QED BY <2>2, <4>1, <4>2, <4>3, <4>4 DEF Next, Phone
    <3>2. QED BY <1>2, <1>3, <1>4, <3>1 DEF DeviceOK
  <2>3. QED BY <2>1, <2>2
<1>6. ASSUME NEW p \in Prompts, NEW d \in Devices, TypedFor(p, d)' PROVE d <= device'
  <2>1. Trace(p, d)'
    BY <1>6 DEF Trace
  <2>2. Prompts \subseteq Frames /\ Prompts \cap Answers = {}
    BY LinkAssumption DEF Frames
  <2>3. TypedFor(p, d) \/ \E s \in Sockets : deviceOf[s] = d
    <3>1. CASE typed' = typed /\ run' = run
      BY <1>1, <1>6, <2>2, <3>1, OneTyped
    <3>2. CASE typed' # typed
      <4>1. PICK f \in Prompts \cup Answers, e \in Devices :
              /\ type(f, e) /\ run' = run
              /\ f \in Prompts => \E s \in Sockets : deviceOf[s] = e /\ OnWire(f, s)
        BY <3>2, TypedAnew
      <4>2. TypedFor(p, d) \/ (p = f /\ d = e)
        BY <1>1, <1>6, <2>2, <4>1, OneTyped
      <4>3. QED BY <4>1, <4>2
    <3>3. CASE typed' = typed /\ run' # run
      <4>1. Mac
        BY <1>1, <3>3, PhoneEffect DEF Next, Contact, Show, NewSession, server
      <4>2. run' = run + 1
        BY <3>3, <4>1, MacEffect
      <4>3. \A i \in Entries : typed[i].run # run + 1
        <5>1. run \in Nat
          BY <1>1, Parts DEF MacOK, Runs
        <5>2. QED BY <1>1, <5>1, EntryTypes DEF RunsOK
      <4>4. QED BY <1>6, <3>3, <4>2, <4>3 DEF TypedFor, Entries
    <3>4. QED BY <3>1, <3>2, <3>3
  <2>4. d <= device
    BY <2>3 DEF DeviceOK
  <2>5. QED BY <1>2, <1>3, <2>4
<1>7. QED BY <1>5, <1>6 DEF DeviceOK

(* What a device has brought stays so while this launch lasts. *)
LEMMA GoneStays ==
  ASSUME Once, DeviceOK, MaxFrames <= AcksKept, Next, run' = run,
         NEW p \in Prompts, status[p] # "none", NEW d \in Devices, d <= device, Gone(p, d)
  PROVE  Gone(p, d)'
<1>1. TypeOK /\ MadeOK /\ SocketOK /\ p \in Frames
  BY DEF Once, Frames
<1>2. device \in Nat /\ d \in Nat
  BY <1>1, Parts DEF LinkOK, Devices
<1>3. CASE AckedBy(d, p)
  <2>1. AckedBy(d, p)'
    <3>1. CASE Phone \/ Contact
      <4>1. acks' = acks
        BY <1>1, <3>1, PhoneEffect DEF Contact, Show, NewSession, server
      <4>2. QED BY <1>3, <4>1 DEF AckedBy
    <3>2. CASE Mac
      BY <1>1, <1>3, <3>2, MacEffect
    <3>3. QED BY <3>1, <3>2 DEF Next
  <2>2. QED BY <2>1 DEF Gone
<1>4. CASE /\ \A s \in Sockets : deviceOf[s] = d => ~OnWire(p, s)
           /\ Moving(p) => d # device
  <2>1. CASE Phone
    <3>1. Moving(p)' => Moving(p)
      BY <1>1, <2>1, PhoneEffect
    <3>2. device' = device \/ device' = device + 1
      BY <1>1, <2>1, PhoneEffect
    <3>3. Moving(p)' => d # device'
      BY <1>2, <1>4, <3>1, <3>2
    <3>4. ASSUME NEW s \in Sockets, deviceOf'[s] = d, OnWire(p, s)' PROVE FALSE
      <4>1. CASE OnWire(p, s)
        BY <1>1, <1>4, <2>1, <3>4, <4>1, PhoneEffect
      <4>2. CASE ~OnWire(p, s)
        <5>1. status[p] = "waiting" /\ deviceOf'[s] = device
          BY <1>1, <2>1, <3>4, <4>2, PhoneEffect
        <5>2. QED BY <1>4, <3>4, <5>1 DEF Moving
      <4>3. QED BY <4>1, <4>2
    <3>5. QED BY <3>3, <3>4 DEF Gone
  <2>2. CASE Mac
    <3>1. UNCHANGED <<status, device, deviceOf>>
      BY <2>2, MacEffect DEF phone, outbox
    <3>2. \A s \in Sockets : OnWire(p, s)' => OnWire(p, s)
      BY <1>1, <2>2, MacEffect
    <3>3. QED BY <1>4, <3>1, <3>2 DEF Gone, Moving
  <2>3. CASE Contact
    <3>1. UNCHANGED <<status, device, deviceOf, wire>>
      BY <2>3 DEF Contact, Show, NewSession, phone, outbox, network
    <3>2. QED BY <1>4, <3>1 DEF Gone, Moving, OnWire
  <2>4. QED BY <2>1, <2>2, <2>3 DEF Next
<1>5. QED BY <1>3, <1>4 DEF Gone

(* The phone reads an ack: the frame's status follows, and what the transcript shows is settled. *)
LEMMA ReadsAck ==
  ASSUME TypeOK, onAck
  PROVE  \E f \in Frames, ok \in BOOLEAN, st \in [Frames -> Statuses] :
           /\ 1 \in DOMAIN inbox /\ inbox[1] = [ack |-> f, ok |-> ok]
           /\ \A g \in Frames :
                \/ st[g] = status[g]
                \/ /\ g = f /\ status[f] \in InOutbox
                   /\ st[f] = IF ~ok THEN "refused" ELSE IF f \in Subs \cup oldSession THEN "settled" ELSE "acked"
           /\ \/ f \in Prompts /\ ok /\ settle(st, transcript, delivered)
              \/ status' = st /\ delivered' = delivered
<1> DEFINE m == Head(inbox)
           f == m.ack
           st == IF status[f] \notin InOutbox THEN status
                 ELSE [status EXCEPT ![f] = IF ~m.ok THEN "refused"
                                            ELSE IF f \in Subs \cup oldSession THEN "settled"
                                            ELSE "acked"]
<1>1. /\ inbox # <<>> /\ "ack" \in DOMAIN m
      /\ IF f \in Prompts /\ m.ok /\ status[f] \in InOutbox
         THEN settle(st, transcript, delivered)
         ELSE status' = st /\ UNCHANGED delivered
  BY DEF onAck
<1>2. MailOK /\ OutboxOK
  BY Parts
<1>3. 1 \in DOMAIN inbox /\ inbox[1] = m /\ m \in Mails
  <2> HIDE DEF Mails
  <2>1. QED BY <1>1, <1>2 DEF MailOK
<1>4. m \in [ack : Frames, ok : BOOLEAN]
  BY <1>1, <1>3 DEF Mails
<1>5. f \in Frames /\ m.ok \in BOOLEAN /\ m = [ack |-> f, ok |-> m.ok]
  BY <1>4
<1>6. /\ st \in [Frames -> Statuses]
      /\ \A g \in Frames :
           \/ st[g] = status[g]
           \/ /\ g = f /\ status[f] \in InOutbox
              /\ st[f] = IF ~m.ok THEN "refused" ELSE IF f \in Subs \cup oldSession THEN "settled" ELSE "acked"
  BY <1>2, <1>5 DEF OutboxOK, Statuses
<1>7. \/ f \in Prompts /\ m.ok /\ settle(st, transcript, delivered)
      \/ status' = st /\ delivered' = delivered
  <2> HIDE DEF st, f
  <2>1. QED BY <1>1
<1> HIDE DEF st, f, m
<1>8. QED BY <1>3, <1>5, <1>6, <1>7

(* The phone reads a transcript: of another session, what was taken is settled first. *)
LEMMA ReadsTranscript ==
  ASSUME TypeOK, onTranscript
  PROVE  \E es \in SUBSET Entries, c \in CliSessions, st \in [Frames -> Statuses], used \in SUBSET delivered :
           /\ 1 \in DOMAIN inbox /\ inbox[1] = [entries |-> es, cli |-> c]
           /\ \A g \in Frames : st[g] = status[g] \/ (g \in Prompts /\ status[g] = "acked" /\ st[g] = "settled")
           /\ used = IF knownCli # 0 /\ c # knownCli THEN {} ELSE delivered
           /\ settle(st, es, used)
           /\ transcript' = es /\ knownCli' = c /\ seen' = seen \cup es
<1> DEFINE m == Head(inbox)
           renewed == knownCli # 0 /\ m.cli # knownCli
           acked == {p \in Prompts : status[p] = "acked"}
           st == [f \in Frames |-> IF renewed /\ f \in acked THEN "settled" ELSE status[f]]
           used == IF renewed THEN {} ELSE delivered
<1>1. /\ inbox # <<>> /\ "entries" \in DOMAIN m
      /\ transcript' = m.entries /\ knownCli' = m.cli /\ seen' = seen \cup m.entries
      /\ settle(st, m.entries, used)
  BY DEF onTranscript
<1>2. MailOK /\ OutboxOK
  BY Parts
<1>3. 1 \in DOMAIN inbox /\ inbox[1] = m /\ m \in Mails
  <2> HIDE DEF Mails
  <2>1. QED BY <1>1, <1>2 DEF MailOK
<1>4. m \in [entries : SUBSET Entries, cli : CliSessions]
  BY <1>1, <1>3 DEF Mails
<1>5. m.entries \in SUBSET Entries /\ m.cli \in CliSessions /\ m = [entries |-> m.entries, cli |-> m.cli]
  BY <1>4
<1>6. /\ st \in [Frames -> Statuses]
      /\ \A g \in Frames : st[g] = status[g] \/ (g \in Prompts /\ status[g] = "acked" /\ st[g] = "settled")
  BY <1>2 DEF OutboxOK, Statuses
<1>7. used \in SUBSET delivered /\ used = IF knownCli # 0 /\ m.cli # knownCli THEN {} ELSE delivered
  OBVIOUS
<1> HIDE DEF st, used, m
<1>8. QED BY <1>1, <1>3, <1>5, <1>6, <1>7

(* What has left the outbox, or waits for nothing any more, cannot reach this device's
   sockets again without an ack already kept. *)
LEMMA PastKept ==
  ASSUME Once, DeviceOK, PastOK, InboxOK, MaxFrames <= AcksKept, Next PROVE PastOK'
<1>1. TypeOK /\ MadeOK /\ SocketOK /\ NoneOK /\ Prompts \subseteq Frames
  BY DEF Once, Frames
<1>2. device \in Nat /\ \A s \in Sockets : deviceOf[s] \in Nat /\ deviceOf[s] <= device /\ deviceOf[s] \in Devices
  BY <1>1, Parts, WireTypes DEF LinkOK, Devices, DeviceOK
<1>3. SUFFICES ASSUME NEW p \in Prompts, Past(p)', NEW s \in Sockets, OnWire(p, s)',
                      NEW e \in Devices, e = deviceOf'[s]
               PROVE  \/ AckedBy(e, p)'
                      \/ status'[p] \in {"unknown", "forgotten", "delivered"} /\ e # device'
  <2>1. deviceOf' \in [Sockets -> Devices]
    <3>1. TypeOK'
      BY <1>1, TypesKept DEF Once
    <3>2. QED BY <3>1, PartsNext DEF LinkOK
  <2>2. \A s \in Sockets : \E e \in Devices : e = deviceOf'[s]
    BY <2>1
  <2>3. QED BY <2>2 DEF PastOK, AckedBy
<1>4. p \in Frames
  BY <1>1
<1>5. Past(p) /\ OnWire(p, s) => \/ AckedBy(deviceOf[s], p)
                                 \/ status[p] \in {"unknown", "forgotten", "delivered"} /\ deviceOf[s] # device
  BY DEF PastOK
<1>6. CASE Phone
  <2>1. acks' = acks /\ (AckedBy(e, p)' <=> AckedBy(e, p))
    BY <1>1, <1>6, PhoneEffect DEF server, AckedBy
  <2>2. OnWire(p, s) /\ deviceOf'[s] = deviceOf[s]
    <3>1. ~Moving(p)'
      BY <1>3 DEF Past, Moving
    <3>2. QED BY <1>1, <1>3, <1>4, <1>6, <3>1, PhoneEffect DEF Moving
  <2>3. SUFFICES \/ AckedBy(deviceOf[s], p)
                 \/ status'[p] \in {"unknown", "forgotten", "delivered"} /\ deviceOf[s] # device'
    BY <1>3, <2>1, <2>2
  <2>4. device' = device \/ device' = device + 1
    BY <1>1, <1>6, PhoneEffect
  <2>5. ASSUME Past(p), status[p] \in {"unknown", "forgotten", "delivered"} =>
                          status'[p] \in {"unknown", "forgotten", "delivered"}
        PROVE  \/ AckedBy(deviceOf[s], p)
               \/ status'[p] \in {"unknown", "forgotten", "delivered"} /\ deviceOf[s] # device'
    BY <1>2, <1>5, <2>2, <2>4, <2>5
  <2>6. CASE \E f \in Frames : queue(f) \/ sendNow(f)
    <3>1. PICK f \in Frames : queue(f) \/ sendNow(f)
      BY <2>6
    <3>2. p # f
      BY <1>1, <1>3, <3>1, Makes DEF Past
    <3>3. p \notin Subs
      BY LinkAssumption
    <3>4. status'[p] = status[p] \/ (status'[p] = "forgotten" /\ status[p] \in {"acked", "refused", "unknown"})
      BY <1>1, <1>4, <3>1, <3>2, <3>3, Makes
    <3>5. QED BY <1>3, <2>5, <3>4 DEF Past
  <2>7. CASE \E f \in Frames : Forget(f)
    <3>1. PICK f \in Frames : Forget(f)
      BY <2>7
    <3>2. /\ status' = [status EXCEPT ![f] = "forgotten"] /\ device' = device
          /\ \/ f \in Prompts /\ status[f] = "waiting" /\ f \notin sentOnce
             \/ status[f] \in {"acked", "refused", "unknown"}
      BY <3>1 DEF Forget
    <3>3. status \in [Frames -> Statuses]
      BY <1>1, WireTypes
    <3>4. p \in sentOnce
      <4>1. Trace(p, deviceOf[s])
        BY <1>2, <2>2 DEF Trace
      <4>2. QED BY <1>2, <4>1 DEF Once, SentOK
    <3>5. QED BY <1>3, <1>4, <2>5, <3>2, <3>3, <3>4 DEF Past
  <2>8. CASE connected
    <3>1. status' = [f \in Frames |-> IF status[f] = "waiting" THEN "sent" ELSE status[f]]
      BY <2>8 DEF connected
    <3>2. status'[p] = status[p]
      BY <1>3, <1>4, <3>1 DEF Past
    <3>3. QED BY <1>3, <2>5, <3>2 DEF Past
  <2>9. CASE lost \/ relaunch \/ pair
    <3>1. \/ status'[p] = status[p]
          \/ status[p] \in {"acked", "unknown"} /\ status'[p] = "forgotten"
          \/ Moving(p) /\ Moving(p)'
          \/ Moving(p) /\ p \in sentOnce /\ status'[p] = "unknown" /\ device' = device + 1
      BY <1>1, <2>9, Drops
    <3>2. CASE status'[p] = "unknown" /\ device' = device + 1
      BY <1>2, <3>2
    <3>3. CASE Moving(p)'
      BY <1>3, <3>3 DEF Past, Moving
    <3>4. CASE status'[p] = status[p] \/ (status[p] \in {"acked", "unknown"} /\ status'[p] = "forgotten")
      BY <1>3, <2>5, <3>4 DEF Past
    <3>5. QED BY <3>1, <3>2, <3>3, <3>4
  <2>10. CASE onAck
    <3>1. PICK f \in Frames, ok \in BOOLEAN, st \in [Frames -> Statuses] :
            /\ 1 \in DOMAIN inbox /\ inbox[1] = [ack |-> f, ok |-> ok]
            /\ \A g \in Frames : st[g] = status[g] \/ g = f
            /\ settle(st, transcript, delivered) \/ status' = st
      BY <1>1, <2>10, ReadsAck
    <3>2. CASE p = f
      <4>1. InInbox(p, ok)
        BY <3>1, <3>2 DEF InInbox
      <4>2. AckedBy(deviceOf[s], p)
        BY <2>2, <4>1 DEF InboxOK
      <4>3. QED BY <4>2
    <3>3. CASE p # f
      <4>1. status'[p] = status[p] \/ (status[p] \in {"acked", "unknown"} /\ status'[p] = "delivered")
        <5>1. transcript \in SUBSET Entries /\ st[p] = status[p]
          BY <1>1, <1>4, <3>1, <3>3, Parts DEF ScreenOK
        <5>2. settle(st, transcript, delivered) =>
                status'[p] = st[p] \/ (st[p] \in {"acked", "unknown"} /\ status'[p] = "delivered")
          BY <1>4, <5>1, Settled
        <5>3. QED BY <3>1, <5>1, <5>2
      <4>2. QED BY <1>3, <2>5, <4>1 DEF Past
    <3>4. QED BY <3>2, <3>3
  <2>11. CASE onTranscript
    <3>1. PICK es \in SUBSET Entries, c \in CliSessions, st \in [Frames -> Statuses], used \in SUBSET delivered :
            /\ \A g \in Frames : st[g] = status[g] \/ (g \in Prompts /\ status[g] = "acked" /\ st[g] = "settled")
            /\ settle(st, es, used)
      BY <1>1, <2>11, ReadsTranscript
    <3>2. status'[p] = st[p] \/ (st[p] \in {"acked", "unknown"} /\ status'[p] = "delivered")
      BY <1>4, <3>1, Settled
    <3>3. st[p] = status[p] \/ (status[p] = "acked" /\ st[p] = "settled")
      BY <1>4, <3>1
    <3>4. QED BY <1>3, <2>5, <3>2, <3>3 DEF Past
  <2>12. QED BY <1>6, <2>6, <2>7, <2>8, <2>9, <2>10, <2>11 DEF Phone
<1>7. CASE Mac
  <2>1. UNCHANGED <<status, device, deviceOf>> /\ OnWire(p, s) /\ run' = run
    <3>1. UNCHANGED <<status, device, deviceOf>>
      BY <1>7, MacEffect DEF phone, outbox
    <3>2. OnWire(p, s)
      BY <1>3, <1>4, <1>7, MacEffect
    <3>3. run' = run
      BY <1>3, <1>4, <1>7, MacEffect
    <3>4. QED BY <3>1, <3>2, <3>3
  <2>2. AckedBy(e, p) => AckedBy(e, p)'
    BY <1>4, <1>7, <2>1, MacEffect
  <2>3. e = deviceOf[s]
    BY <1>3, <2>1
  <2>4. QED BY <1>3, <1>5, <2>1, <2>2, <2>3 DEF Past
<1>8. CASE Contact
  BY <1>3, <1>5, <1>8 DEF Contact, Show, NewSession, phone, outbox, network, server, Past, AckedBy, OnWire
<1>9. QED BY <1>6, <1>7, <1>8 DEF Next

(* What was typed stays typed; what a prompt's ack speaks of is not typed anew. *)
LEMMA TypedStays ==
  ASSUME Once, MaxFrames <= AcksKept, Next
  PROVE  /\ \A g \in Frames : Typed(g) => Typed(g)'
         /\ run' = run \/ (run' = run + 1 /\ \A g \in Frames : ~TypedNow(g)')
<1>1. TypeOK /\ MadeOK /\ SocketOK
  BY DEF Once
<1>2. \A g \in Frames : Typed(g) => Typed(g)'
  <2>1. CASE typed' = typed
    BY <1>1, <2>1, OneTyped
  <2>2. CASE typed' # typed
    <3>1. PICK f \in Prompts \cup Answers, d \in Devices : type(f, d)
      BY <2>2, TypedAnew
    <3>2. \A g \in Frames : Typed(g)' <=> Typed(g) \/ g = f
      BY <1>1, <3>1, OneTyped
    <3>3. QED BY <3>2
  <2>3. QED BY <2>1, <2>2
<1>3. run' = run \/ (run' = run + 1 /\ typed' = typed)
  <2>1. CASE Phone \/ Contact
    BY <1>1, <2>1, PhoneEffect DEF Contact, Show, NewSession, server
  <2>2. CASE Mac
    BY <2>2, MacEffect
  <2>3. QED BY <2>1, <2>2 DEF Next
<1>4. ASSUME run' = run + 1, typed' = typed, NEW g \in Frames, TypedNow(g)' PROVE FALSE
  <2>1. PICK i \in Entries : typed[i].run = run + 1
    BY <1>4 DEF TypedNow, Entries
  <2>2. typed[i].run \in Nat /\ typed[i].run <= run /\ run \in Nat
    BY <1>1, EntryTypes, Parts DEF Once, RunsOK, MacOK, Runs
  <2>3. QED BY <2>1, <2>2
<1>5. QED BY <1>2, <1>3, <1>4

(* A prompt this launch may still take it has not typed; and one it has acked it types no more. *)
LEMMA NotYet ==
  ASSUME Once, NEW p \in Prompts, NEW d \in Devices, Trace(p, d), ~AckedBy(d, p)
  PROVE  ~TypedNow(p)
<1>1. SUFFICES ASSUME TypedNow(p) PROVE FALSE
  OBVIOUS
<1>2. TypeOK
  BY DEF Once
<1>3. PICK e \in Devices : TypedFor(p, e)
  BY <1>1, <1>2, EntryTypes DEF TypedNow, TypedFor
<1>4. AckedBy(e, p) /\ Trace(p, e)
  BY <1>3 DEF Once, TypedAcked, Trace
<1>5. e = d
  BY <1>4 DEF Once, OneDevice
<1>6. QED BY <1>4, <1>5

(* A prompt acked on every socket that still brings it is not typed anew. *)
LEMMA NoMore ==
  ASSUME Once, MaxFrames <= AcksKept, Next, run' = run,
         NEW p \in Prompts, \A s \in Sockets : OnWire(p, s) => AckedBy(deviceOf[s], p), TypedNow(p)'
  PROVE  TypedNow(p)
<1>1. TypeOK /\ p \in Frames /\ p \notin Answers
  BY LinkAssumption DEF Once, Frames
<1>2. CASE typed' = typed
  BY <1>1, <1>2, OneTyped
<1>3. CASE typed' # typed
  <2>1. PICK f \in Prompts \cup Answers, d \in Devices :
          /\ type(f, d)
          /\ f \in Prompts => ~AckedBy(d, f) /\ \E s \in Sockets : deviceOf[s] = d /\ OnWire(f, s)
    BY <1>3, TypedAnew
  <2>2. TypedNow(p)' <=> TypedNow(p) \/ p = f
    BY <1>1, <2>1, OneTyped
  <2>3. p # f
    BY <2>1
  <2>4. QED BY <2>2, <2>3
<1>4. QED BY <1>2, <1>3

(* An ack of a prompt is new when its frame is read, and says whether it was typed. *)
LEMMA NewResult ==
  ASSUME Once, MaxFrames <= AcksKept, Next,
         NEW p \in Prompts, NEW d \in Devices, NEW ok \in BOOLEAN, Held(acks', d, p, ok)
  PROVE  /\ run' = run
         /\ \/ Held(acks, d, p, ok)
            \/ /\ ~AckedBy(d, p) /\ Trace(p, d)
               /\ IF ok THEN type(p, d) ELSE typed' = typed
<1>1. TypeOK /\ MadeOK /\ SocketOK /\ p \notin Answers /\ p \notin Subs
  BY LinkAssumption DEF Once
<1>2. CASE acks' = acks /\ run' = run
  BY <1>2
<1>3. ASSUME NEW s \in Sockets, handleClientFrame(s)
      PROVE  /\ run' = run
             /\ \/ Held(acks, d, p, ok)
                \/ ~AckedBy(d, p) /\ Trace(p, d) /\ IF ok THEN type(p, d) ELSE typed' = typed
  <2>0. wire[s] # <<>> /\ Head(wire[s]) \in Frames /\ deviceOf[s] \in Devices
    BY <1>1, <1>3, OnSocket DEF handleClientFrame
  <2>1. PICK f \in Frames, e \in Devices : f = Head(wire[s]) /\ e = deviceOf[s]
    BY <2>0
  <2>2. run' = run /\ OnWire(f, s) /\ Met(e, f)
    BY <1>3, <2>1, Handles
  <2>3. Trace(f, e)
    BY <2>1, <2>2 DEF Trace
  <2>4. CASE AckedBy(e, f)
    <3>1. acks' = acks
      BY <2>2, <2>4 DEF Met
    <3>2. QED BY <1>2, <2>2, <3>1
  <2>5. CASE ~AckedBy(e, f)
    <3>1. PICK r \in {"pending", "ok", "refused"} :
            /\ acks'[e] = Append(acks[e], [frame |-> f, result |-> r])
            /\ \A b \in Devices \ {e} : acks'[b] = acks[b]
            /\ f \in Prompts => \/ r = "ok" /\ type(f, e)
                                \/ r = "refused" /\ typed' = typed
      BY <2>2, <2>5, LinkAssumption DEF Met
    <3>2. CASE d # e
      BY <2>2, <3>1, <3>2 DEF Held
    <3>3. CASE d = e
      <4>1. acks[d] \in Seq(Acks)
        BY <1>1, Parts DEF AckedOK
      <4> DEFINE a == [frame |-> f, result |-> r]
      <4>2. a \in Acks /\ a.frame = f /\ a.result = r /\ acks'[d] = Append(acks[d], a)
        BY <3>1, <3>3 DEF Acks
      <4> HIDE DEF a
      <4>3. /\ DOMAIN acks'[d] = DOMAIN acks[d] \cup {Len(acks[d]) + 1}
            /\ acks'[d][Len(acks[d]) + 1] = a /\ \A i \in DOMAIN acks[d] : acks'[d][i] = acks[d][i]
        BY <4>1, <4>2
      <4>4. Held(acks, d, p, ok) \/ (f = p /\ r = IF ok THEN "ok" ELSE "refused")
        BY <4>2, <4>3 DEF Held
      <4>5. QED BY <2>2, <2>3, <2>5, <3>1, <3>3, <4>4
    <3>4. QED BY <3>2, <3>3
  <2>6. QED BY <2>4, <2>5
<1>4. ASSUME NEW f \in Answers, finishAnswer(f) PROVE Held(acks, d, p, ok) /\ run' = run
  <2>1. /\ DOMAIN acks'[d] = DOMAIN acks[d]
        /\ \A i \in DOMAIN acks[d] :
             /\ acks'[d][i].frame = acks[d][i].frame
             /\ acks'[d][i] = acks[d][i] \/ acks[d][i].frame = f
    BY <1>1, <1>4, Finishes
  <2>2. run' = run
    BY <1>4, Finishes
  <2>3. QED BY <1>1, <2>1, <2>2 DEF Held
<1>5. CASE Restart
  <2>1. DOMAIN acks'[d] = {}
    BY <1>5 DEF Restart
  <2>2. QED BY <2>1 DEF Held
<1>6. CASE Phone
  BY <1>1, <1>2, <1>6, PhoneEffect DEF server
<1>7. CASE (\E s \in Sockets : onClose(s)) \/ sendTranscript \/ Contact
  BY <1>2, <1>7 DEF onClose, sendTranscript, Contact, Show, NewSession, server
<1>8. QED BY <1>3, <1>4, <1>5, <1>6, <1>7 DEF Next, Mac

(* An ack kept says what became of the prompt. *)
LEMMA ResultKept == ASSUME Once, ResultOK, MaxFrames <= AcksKept, Next PROVE ResultOK'
<1>1. SUFFICES ASSUME NEW p \in Prompts, NEW d \in Devices
               PROVE  /\ Held(acks', d, p, TRUE) => Typed(p)'
                      /\ Held(acks', d, p, FALSE) => ~TypedNow(p)'
  BY DEF ResultOK, Held
<1>2. TypeOK /\ p \in Frames
  BY DEF Once, Frames
<1>3. ASSUME Held(acks', d, p, TRUE) PROVE Typed(p)'
  <2>1. Held(acks, d, p, TRUE) \/ type(p, d)
    BY <1>3, NewResult
  <2>2. type(p, d) => Typed(p)'
    BY <1>2, OneTyped
  <2>3. QED BY <1>2, <2>1, <2>2, TypedStays DEF ResultOK
<1>4. ASSUME Held(acks', d, p, FALSE), TypedNow(p)' PROVE FALSE
  <2>1. run' = run /\ (Held(acks, d, p, FALSE) \/ (~AckedBy(d, p) /\ Trace(p, d) /\ typed' = typed))
    BY <1>4, NewResult
  <2>2. CASE Held(acks, d, p, FALSE)
    <3>1. AckedBy(d, p)
      BY <2>2 DEF Held, AckedBy
    <3>2. \A s \in Sockets : OnWire(p, s) => AckedBy(deviceOf[s], p)
      <4>1. \A s \in Sockets : deviceOf[s] \in Devices
        BY <1>2, WireTypes
      <4>2. \A s \in Sockets : OnWire(p, s) => deviceOf[s] = d
        BY <3>1, <4>1 DEF Once, OneDevice, Trace
      <4>3. QED BY <3>1, <4>2
    <3>3. TypedNow(p)
      BY <1>4, <2>1, <3>2, NoMore
    <3>4. QED BY <2>2, <3>3 DEF ResultOK
  <2>3. CASE ~AckedBy(d, p) /\ Trace(p, d) /\ typed' = typed
    <3>1. ~TypedNow(p)
      BY <2>3, NotYet
    <3>2. QED BY <1>2, <1>4, <2>1, <2>3, <3>1, OneTyped
  <2>4. QED BY <2>1, <2>2, <2>3
<1>5. QED BY <1>3, <1>4

(* What the phone has not read yet: what was there, less what it reads; a reply is of an ack kept. *)
LEMMA NewReply ==
  ASSUME Once, MaxFrames <= AcksKept, Next, NEW p \in Prompts, NEW ok \in BOOLEAN, InInbox(p, ok)'
  PROVE  \/ InInbox(p, ok)
         \/ Mac /\ run' = run /\ \E d \in Devices : Held(acks', d, p, ok)
<1>1. TypeOK /\ p \in Frames /\ p \notin Answers /\ inbox \in Seq(Mails)
  BY Parts, LinkAssumption DEF Once, MailOK, Frames
<1>2. CASE inbox' = inbox
  BY <1>2 DEF InInbox
<1>3. ASSUME inbox # <<>>, inbox' = Tail(inbox) PROVE InInbox(p, ok)
  <2>1. PICK k \in DOMAIN inbox' : inbox'[k] = [ack |-> p, ok |-> ok]
    BY DEF InInbox
  <2>2. k + 1 \in DOMAIN inbox /\ inbox'[k] = inbox[k + 1]
    <3> HIDE DEF Mails
    <3>1. QED BY <1>1, <1>3, <2>1, Tails
  <2>3. QED BY <2>1, <2>2 DEF InInbox
<1>4. inbox' # <<>>
  BY DEF InInbox
<1>5. CASE Phone
  <2>1. CASE \E f \in Frames : queue(f) \/ sendNow(f)
    BY <1>2, <2>1 DEF queue, sendNow
  <2>2. CASE connected
    BY <1>2, <2>2 DEF connected
  <2>3. CASE lost \/ relaunch \/ pair
    BY <1>1, <1>4, <2>3, Drops
  <2>4. CASE (\E f \in Frames : Forget(f)) \/ onAck \/ onTranscript
    <3>1. inbox' = inbox \/ (inbox # <<>> /\ inbox' = Tail(inbox))
      BY <1>1, <2>4, Reads
    <3>2. QED BY <1>2, <1>3, <3>1
  <2>5. QED BY <1>5, <2>1, <2>2, <2>3, <2>4 DEF Phone
<1>6. ASSUME NEW s, NEW f \in Frames, NEW b \in BOOLEAN, Reply(s, f, b)
      PROVE  InInbox(p, ok) \/ (f = p /\ b = ok)
  <2>1. CASE inbox' = Append(inbox, [ack |-> f, ok |-> b])
    <3> DEFINE m == [ack |-> f, ok |-> b]
    <3>1. m \in Mails /\ inbox' = Append(inbox, m)
      BY <2>1 DEF Mails
    <3>2. m = [ack |-> p, ok |-> ok] => f = p /\ b = ok
      <4>1. m.ack = f /\ m.ok = b
        OBVIOUS
      <4> HIDE DEF m
      <4>2. QED BY <4>1
    <3> HIDE DEF m, Mails
    <3>3. /\ DOMAIN inbox' = DOMAIN inbox \cup {Len(inbox) + 1}
          /\ \A k \in DOMAIN inbox : inbox'[k] = inbox[k]
          /\ inbox'[Len(inbox) + 1] = m
      BY <1>1, <3>1, Appends
    <3>4. QED BY <3>2, <3>3 DEF InInbox
  <2>2. inbox' = inbox \/ inbox' = Append(inbox, [ack |-> f, ok |-> b])
    BY <1>6, Zenon DEF Reply
  <2>3. inbox' = inbox => InInbox(p, ok)
    BY DEF InInbox
  <2>4. QED BY <2>1, <2>2, <2>3
<1>7. ASSUME NEW s \in Sockets, handleClientFrame(s)
      PROVE  InInbox(p, ok) \/ (run' = run /\ \E d \in Devices : Held(acks', d, p, ok))
  <2>0. wire[s] # <<>> /\ Head(wire[s]) \in Frames /\ deviceOf[s] \in Devices
    BY <1>1, <1>7, OnSocket DEF handleClientFrame
  <2>1. PICK f \in Frames, d \in Devices : f = Head(wire[s]) /\ d = deviceOf[s]
    BY <2>0
  <2>2. run' = run /\ Answered(s, d, f)
    BY <1>7, <2>1, Handles
  <2>3. QED BY <1>2, <1>6, <2>2 DEF Answered
<1>8. ASSUME NEW f \in Answers, finishAnswer(f) PROVE InInbox(p, ok)
  <2>1. \E s \in Sockets, b \in BOOLEAN : Reply(s, f, b)
    BY <1>8, Finishes
  <2>2. f \in Frames /\ f # p
    BY <1>1 DEF Frames
  <2>3. QED BY <1>6, <2>1, <2>2
<1>9. CASE sendTranscript
  <2> DEFINE m == [cli |-> cli, entries |-> {i \in Here : Cardinality({j \in Here : j <= i}) <= shown}]
  <2>1. inbox' = Append(inbox, m) /\ DOMAIN m = {"cli", "entries"}
    BY <1>9 DEF sendTranscript
  <2>2. DOMAIN [ack |-> p, ok |-> ok] = {"ack", "ok"}
    OBVIOUS
  <2>3. m # [ack |-> p, ok |-> ok]
    <3> HIDE DEF m
    <3>1. QED BY <2>1, <2>2
  <2> HIDE DEF m, Mails
  <2>4. /\ DOMAIN inbox' = DOMAIN inbox \cup {Len(inbox) + 1}
        /\ \A k \in DOMAIN inbox : inbox'[k] = inbox[k]
        /\ inbox'[Len(inbox) + 1] = m
    BY <1>1, <2>1
  <2>5. QED BY <2>3, <2>4 DEF InInbox
<1>10. CASE Restart \/ (\E s \in Sockets : onClose(s)) \/ Contact
  BY <1>2, <1>10 DEF Restart, onClose, Contact, Show, NewSession
<1>11. QED BY <1>5, <1>7, <1>8, <1>9, <1>10 DEF Next, Mac

(* An ack on its way to the phone is true, and its frame is not on its way unmet. *)
LEMMA InboxKept == ASSUME Once, ResultOK, InboxOK, MaxFrames <= AcksKept, Next PROVE InboxOK'
<1>1. TypeOK /\ MadeOK /\ SocketOK
  BY DEF Once
<1>2. Once' /\ ResultOK'
  BY OnceKept, ResultKept
<1>3. SUFFICES ASSUME NEW p \in Prompts, NEW ok \in BOOLEAN, InInbox(p, ok)'
               PROVE  /\ status'[p] # "none"
                      /\ \A s \in Sockets : OnWire(p, s)' => \E e \in Devices : e = deviceOf'[s] /\ AckedBy(e, p)'
                      /\ ok => Typed(p)'
                      /\ ~ok => ~TypedNow(p)'
  BY DEF InboxOK, AckedBy
<1>4. p \in Frames
  BY DEF Frames
<1>5. \A s \in Sockets : deviceOf[s] \in Devices /\ deviceOf'[s] \in Devices
  BY <1>1, <1>2, WireTypes, PartsNext DEF Once, LinkOK
<1>6. CASE InInbox(p, ok)
  <2>1. /\ status[p] # "none" /\ \A s \in Sockets : OnWire(p, s) => AckedBy(deviceOf[s], p)
        /\ ok => Typed(p)
        /\ ~ok => ~TypedNow(p)
    BY <1>6 DEF InboxOK
  <2>2. status[p] # "waiting"
    <3>1. inbox # <<>>
      BY <1>6 DEF InInbox
    <3>2. QED BY <1>1, <1>4, <3>1 DEF SocketOK
  <2>3. ok => Typed(p)'
    BY <1>4, <2>1, TypedStays
  <2>4. ~ok => ~TypedNow(p)'
    <3>1. CASE run' = run
      BY <2>1, <3>1, NoMore
    <3>2. CASE run' # run
      <4>1. run \in Nat /\ run' = run + 1 /\ \A i \in Entries : typed[i].run \in Nat /\ typed[i].run <= run
        BY <1>1, <3>2, TypedStays, EntryTypes, Parts DEF Once, RunsOK, MacOK, Runs
      <4>2. typed' = typed
        <5>1. Mac
          BY <1>1, <3>2, PhoneEffect DEF Next, Contact, Show, NewSession, server
        <5>2. QED BY <3>2, <5>1, MacEffect
      <4>3. \A i \in Entries : typed[i].run # run'
        BY <4>1
      <4>4. QED BY <4>2, <4>3 DEF TypedNow, Entries
    <3>3. QED BY <3>1, <3>2
  <2>5. CASE Phone
    <3>1. /\ acks' = acks /\ status'[p] # "none"
          /\ \A s \in Sockets : OnWire(p, s)' => OnWire(p, s) /\ deviceOf'[s] = deviceOf[s]
      BY <1>1, <1>4, <2>1, <2>2, <2>5, PhoneEffect DEF server
    <3>2. \A s \in Sockets : OnWire(p, s)' => AckedBy(deviceOf[s], p) /\ deviceOf'[s] = deviceOf[s]
      BY <2>1, <3>1
    <3>3. \A e \in Devices : AckedBy(e, p)' <=> AckedBy(e, p)
      BY <3>1 DEF AckedBy
    <3>4. QED BY <1>5, <2>3, <2>4, <3>1, <3>2, <3>3
  <2>6. CASE Mac
    <3>1. UNCHANGED <<status, deviceOf>>
      BY <2>6, MacEffect DEF phone, outbox
    <3>2. \A s \in Sockets : OnWire(p, s)' => OnWire(p, s) /\ run' = run
      BY <1>4, <2>6, MacEffect
    <3>3. run' = run => \A e \in Devices : AckedBy(e, p) => AckedBy(e, p)'
      BY <1>4, <2>6, MacEffect
    <3>4. QED BY <1>5, <2>1, <2>3, <2>4, <3>1, <3>2, <3>3
  <2>7. CASE Contact
    <3>1. UNCHANGED <<status, deviceOf, wire, acks>>
      BY <2>7 DEF Contact, Show, NewSession, phone, outbox, network, server
    <3>2. \A e \in Devices : AckedBy(e, p)' <=> AckedBy(e, p)
      BY <3>1 DEF AckedBy
    <3>3. \A s \in Sockets : OnWire(p, s)' <=> OnWire(p, s)
      BY <3>1 DEF OnWire
    <3>4. QED BY <1>5, <2>1, <2>3, <2>4, <3>1, <3>2, <3>3
  <2>8. QED BY <2>5, <2>6, <2>7 DEF Next
<1>7. CASE Mac /\ run' = run /\ \E d \in Devices : Held(acks', d, p, ok)
  <2>1. PICK d \in Devices : Held(acks', d, p, ok)
    BY <1>7
  <2>2. AckedBy(d, p)'
    BY <2>1 DEF Held, AckedBy
  <2>3. status'[p] # "none"
    BY <1>2, <1>4, <2>2 DEF Once, NoneOK
  <2>4. (ok => Typed(p)') /\ (~ok => ~TypedNow(p)')
    BY <1>2, <2>1 DEF ResultOK, Held
  <2>5. ASSUME NEW s \in Sockets, OnWire(p, s)' PROVE deviceOf'[s] = d
    <3>1. PICK e \in Devices : e = deviceOf'[s]
      BY <1>5
    <3>2. Trace(p, e)' /\ Trace(p, d)'
      BY <2>2, <2>5, <3>1 DEF Trace
    <3>3. d = e
      BY <1>2, <3>2 DEF Once, OneDevice
    <3>4. QED BY <3>1, <3>3
  <2>6. QED BY <2>2, <2>3, <2>4, <2>5
<1>8. QED BY <1>3, <1>6, <1>7, NewReply

(* What counts as sent on the socket the Mac holds is on it, or was met. *)
LEMMA SentOnWireKept == ASSUME Once, SentOnWire, MaxFrames <= AcksKept, Next PROVE SentOnWire'
<1>1. TypeOK /\ MadeOK /\ SocketOK /\ device \in Devices
  BY Parts DEF Once, LinkOK
<1>2. Once'
  BY OnceKept
<1>3. SUFFICES ASSUME NEW p \in Prompts, status'[p] = "sent", socket' \in open',
                      NEW s \in Sockets, s = socket', NEW d \in Devices, d = device'
               PROVE  OnWire(p, s)' \/ AckedBy(d, p)'
  <2>1. TypeOK'
    BY <1>2 DEF Once
  <2>2. device' \in Devices /\ (socket' \in open' => socket' \in Sockets)
    <3>1. /\ socket' \in Sockets \cup {NoSocket} /\ device' \in Devices
          /\ sockets' \in 0..MaxSockets /\ open' \subseteq 1..sockets'
      BY <2>1, PartsNext DEF LinkOK
    <3>2. QED BY <3>1, LinkAssumption DEF NoSocket, Sockets
  <2>3. QED BY <2>2 DEF SentOnWire, OnWire, AckedBy
<1>4. p \in Frames
  BY DEF Frames
<1>5. ASSUME UNCHANGED <<socket, device, open, acks>>, status[p] = "sent",
             \A t \in Sockets : OnWire(p, t) => OnWire(p, t)'
      PROVE  OnWire(p, s)' \/ AckedBy(d, p)'
  <2>1. OnWire(p, s) \/ AckedBy(d, p)
    BY <1>3, <1>5 DEF SentOnWire
  <2>2. QED BY <1>5, <2>1 DEF AckedBy
<1>6. CASE \E f \in Frames : queue(f) \/ sendNow(f)
  <2>1. PICK f \in Frames : queue(f) \/ sendNow(f)
    BY <1>6
  <2>2. /\ UNCHANGED <<socket, device, open, acks>>
        /\ p # f => status'[p] = status[p] \/ status'[p] = "forgotten"
        /\ socket # NoSocket \/ status'[f] = "waiting"
    BY <1>1, <1>4, <2>1, Makes DEF server
  <2>3. OnWire(f, s)' /\ \A t \in Sockets : OnWire(p, t) => OnWire(p, t)'
    BY <1>1, <1>3, <1>4, <2>1, <2>2, MakesOnWire
  <2>4. CASE p = f
    BY <2>3, <2>4
  <2>5. CASE p # f
    <3>1. status[p] = "sent"
      BY <1>3, <2>2, <2>5
    <3>2. QED BY <1>5, <2>2, <2>3, <3>1
  <2>6. QED BY <2>4, <2>5
<1>7. CASE connected
  <2>1. status[p] \in {"waiting", "sent"} /\ socket = NoSocket
    BY <1>3, <1>4, <1>7 DEF connected
  <2>2. status[p] = "waiting"
    BY <1>1, <1>4, <2>1 DEF SocketOK
  <2>3. QED BY <1>1, <1>3, <1>4, <1>7, <2>2, ConnectsOnWire
<1>8. CASE lost \/ relaunch \/ pair
  BY <1>1, <1>3, <1>4, <1>8, Drops
<1>9. CASE (\E f \in Frames : Forget(f)) \/ onAck \/ onTranscript
  <2>1. UNCHANGED <<socket, device, network, server>> /\ (Moving(p)' => status'[p] = status[p])
    BY <1>1, <1>4, <1>9, Reads
  <2>2. status[p] = "sent"
    BY <1>3, <2>1 DEF Moving
  <2>3. QED BY <1>5, <2>1, <2>2 DEF network, server, OnWire
<1>10. ASSUME Mac PROVE status[p] = "sent" /\ socket' = socket /\ device' = device
  BY <1>3, <1>10, MacEffect DEF phone, outbox
<1>11. ASSUME NEW t \in Sockets, handleClientFrame(t) PROVE OnWire(p, s)' \/ AckedBy(d, p)'
  <2>0. wire[t] # <<>> /\ Head(wire[t]) \in Frames /\ deviceOf[t] \in Devices
    BY <1>1, <1>11, OnSocket DEF handleClientFrame
  <2>1. PICK f \in Frames, e \in Devices : f = Head(wire[t]) /\ e = deviceOf[t]
    BY <2>0
  <2>2. open' = open /\ Mac
    BY <1>11, <2>1, Handles DEF Mac
  <2>3. OnWire(p, s) \/ AckedBy(d, p)
    BY <1>3, <1>10, <2>2 DEF SentOnWire
  <2>4. OnWire(p, s) => OnWire(p, s)' \/ (p = f /\ s = t)
    BY <1>4, <1>11, <2>1, HandleMoves
  <2>5. AckedBy(e, f)' /\ (AckedBy(d, p) => AckedBy(d, p)')
    BY <1>4, <1>11, <2>1, HandleMoves
  <2>6. s = t => e = d
    <3>1. socket # NoSocket
      BY <1>1, <1>3, <1>10, <2>2, WireTypes
    <3>2. QED BY <1>1, <1>3, <1>10, <2>1, <2>2, <3>1 DEF SocketOK
  <2>7. QED BY <2>3, <2>4, <2>5, <2>6
<1>12. ASSUME NEW f \in Answers, finishAnswer(f) PROVE OnWire(p, s)' \/ AckedBy(d, p)'
  <2>1. Mac /\ UNCHANGED <<open, wire>>
    BY <1>12, Finishes DEF Mac, network
  <2>2. OnWire(p, s) \/ AckedBy(d, p)
    BY <1>3, <1>10, <2>1 DEF SentOnWire
  <2>3. AckedBy(d, p) => AckedBy(d, p)'
    <3>1. run' = run
      BY <1>12, Finishes
    <3>2. QED BY <1>4, <2>1, <3>1, MacEffect
  <2>4. QED BY <2>1, <2>2, <2>3 DEF OnWire
<1>13. ASSUME NEW t \in Sockets, onClose(t) PROVE OnWire(p, s)' \/ AckedBy(d, p)'
  <2>1. /\ open' = open \ {t} /\ acks' = acks /\ Mac
        /\ wire' = [wire EXCEPT ![t] = <<>>]
    BY <1>13 DEF onClose, server, Mac
  <2>2. s # t /\ socket \in open
    BY <1>3, <1>10, <2>1
  <2>3. wire'[s] = wire[s]
    BY <1>1, <2>1, <2>2, WireTypes
  <2>4. OnWire(p, s) \/ AckedBy(d, p)
    BY <1>3, <1>10, <2>1, <2>2 DEF SentOnWire
  <2>5. QED BY <2>1, <2>3, <2>4 DEF OnWire, AckedBy
<1>14. CASE Restart
  BY <1>3, <1>14 DEF Restart
<1>15. CASE sendTranscript
  BY <1>5, <1>10, <1>15 DEF sendTranscript, network, server, phone, Mac, OnWire
<1>16. CASE Contact
  BY <1>3, <1>5, <1>16 DEF Contact, Show, NewSession, network, server, phone, outbox, OnWire
<1>17. QED BY <1>6, <1>7, <1>8, <1>9, <1>11, <1>12, <1>13, <1>14, <1>15, <1>16 DEF Next, Phone, Mac

(* What comes to be before another in the outbox comes before the frame just made. *)
LEMMA NewOrder ==
  ASSUME Once, MaxFrames <= AcksKept, Next,
         NEW p \in Frames, NEW q \in Frames, Before(made', p, q)
  PROVE  /\ status[p] # "none"
         /\ \/ Before(made, p, q) /\ status[q] # "none"
            \/ /\ queue(q) \/ sendNow(q)
               /\ status[q] = "none"
<1>1. TypeOK /\ MadeOK
  BY DEF Once
<1>2. CASE made' = made
  BY <1>1, <1>2, MadeOrder DEF Before
<1>3. ASSUME NEW f \in Frames, queue(f) \/ sendNow(f)
      PROVE  status[p] # "none" /\ ((Before(made, p, q) /\ status[q] # "none") \/ q = f)
  <2>1. made' = Append(made, f)
    BY <1>1, <1>3, Makes
  <2>2. Before(made, p, q) \/ (q = f /\ status[p] # "none")
    BY <1>1, <2>1, MadeOrder
  <2>3. QED BY <1>1, <2>2, MadeOrder
<1>4. CASE \E f \in Frames : queue(f) \/ sendNow(f)
  <2>1. PICK f \in Frames : queue(f) \/ sendNow(f)
    BY <1>4
  <2>2. status[f] = "none"
    BY <1>1, <2>1, Makes
  <2>3. QED BY <1>3, <2>1, <2>2
<1>5. CASE connected \/ lost \/ relaunch \/ pair \/ onAck \/ onTranscript \/ \E f \in Frames : Forget(f)
  BY <1>2, <1>5 DEF connected, lost, relaunch, pair, onAck, onTranscript, Forget
<1>6. CASE Mac \/ Contact
  BY <1>2, <1>6, MacEffect DEF Contact, Show, NewSession, phone, outbox
<1>7. QED BY <1>4, <1>5, <1>6 DEF Next, Phone

(* What was made and waits no more is on the socket, or gone. *)
LEMMA AlreadyGone ==
  ASSUME Once, PastOK, SentOnWire, NEW p \in Prompts, status[p] \notin {"none", "waiting"}
  PROVE  \/ Gone(p, device)
         \/ socket # NoSocket /\ (socket \in open => OnWire(p, socket))
<1>1. CASE status[p] = "sent"
  BY <1>1 DEF Once, SocketOK, SentOnWire, Gone, Frames
<1>2. CASE Past(p)
  BY <1>2 DEF PastOK, Gone, Past, Moving
<1>3. QED BY <1>1, <1>2 DEF Past

(* On a socket a prompt has those made before it ahead of it, or they will not come any more. *)
LEMMA WireOrderKept ==
  ASSUME Once, DeviceOK, PastOK, SentOnWire, WireOrder, MaxFrames <= AcksKept, Next PROVE WireOrder'
<1>1. TypeOK /\ MadeOK /\ SocketOK /\ NoneOK /\ Prompts \subseteq Frames
  BY DEF Once, Frames
<1>2. \A s \in Sockets : deviceOf[s] \in Devices /\ deviceOf[s] <= device /\ wire[s] \in Seq(Frames)
  BY <1>1, WireTypes DEF DeviceOK
<1>3. device \in Devices /\ device <= device
  BY <1>1, Parts DEF LinkOK, Devices
<1>4. SUFFICES ASSUME NEW s \in Sockets, NEW k \in DOMAIN wire'[s], NEW p \in Prompts, NEW q \in Prompts,
                      wire'[s][k] = q, Before(made', p, q), NEW d \in Devices, d = deviceOf'[s]
               PROVE  (\E j \in DOMAIN wire'[s] : j < k /\ wire'[s][j] = p) \/ Gone(p, d)'
  <2>1. deviceOf' \in [Sockets -> Devices]
    BY <1>1, TypesKept, PartsNext DEF Once, LinkOK
  <2>2. \A s \in Sockets : \E d \in Devices : d = deviceOf'[s]
    BY <2>1
  <2>3. QED BY <2>2 DEF WireOrder, Gone, AckedBy, OnWire, Before
<1>5. p \in Frames /\ q \in Frames /\ status[p] # "none"
      /\ \/ Before(made, p, q) /\ status[q] # "none"
         \/ (queue(q) \/ sendNow(q)) /\ status[q] = "none"
  BY <1>1, <1>4, NewOrder
<1>6. ASSUME run' = run, d <= device, Gone(p, d) PROVE Gone(p, d)'
  BY <1>5, <1>6, GoneStays
<1>7. ASSUME run' = run, wire'[s] = wire[s], deviceOf'[s] = deviceOf[s]
      PROVE  (\E j \in DOMAIN wire'[s] : j < k /\ wire'[s][j] = p) \/ Gone(p, d)'
  <2>1. status[q] # "none"
    <3>1. OnWire(q, s)
      BY <1>4, <1>7 DEF OnWire
    <3>2. QED BY <1>1, <1>5, <3>1 DEF NoneOK
  <2>2. (\E j \in DOMAIN wire[s] : j < k /\ wire[s][j] = p) \/ Gone(p, d)
    BY <1>4, <1>5, <1>7, <2>1 DEF WireOrder
  <2>3. QED BY <1>2, <1>4, <1>6, <1>7, <2>2
<1>8. CASE \E f \in Frames : queue(f) \/ sendNow(f)
  <2>1. PICK f \in Frames : queue(f) \/ sendNow(f)
    BY <1>8
  <2>2. /\ UNCHANGED <<socket, device, deviceOf, run>> /\ status[f] = "none"
        /\ f \in Answers => socket # NoSocket
    BY <1>1, <2>1, Makes DEF server
  <2>3. wire'[s] = IF s = socket /\ s \in open THEN Append(wire[s], f) ELSE wire[s]
    BY <1>1, <2>1, MakesOnWire
  <2>4. CASE s = socket /\ s \in open
    <3>1. /\ DOMAIN wire'[s] = DOMAIN wire[s] \cup {Len(wire[s]) + 1}
          /\ \A j \in DOMAIN wire[s] : j \in Nat /\ j < Len(wire[s]) + 1 /\ wire'[s][j] = wire[s][j]
          /\ wire'[s][Len(wire[s]) + 1] = f
      BY <1>2, <2>3, <2>4, Appends
    <3>2. CASE k \in DOMAIN wire[s]
      <4>1. wire[s][k] = q
        BY <1>4, <3>1, <3>2
      <4>2. status[q] # "none"
        BY <1>1, <1>5, <3>2, <4>1 DEF NoneOK, OnWire
      <4>3. (\E j \in DOMAIN wire[s] : j < k /\ wire[s][j] = p) \/ Gone(p, d)
        BY <1>4, <1>5, <2>2, <3>2, <4>1, <4>2 DEF WireOrder
      <4>4. QED BY <1>2, <1>4, <1>6, <2>2, <3>1, <4>3
    <3>3. CASE k = Len(wire[s]) + 1
      <4>1. socket # NoSocket /\ d = device
        BY <1>1, <1>4, <2>2, <2>4, WireTypes DEF SocketOK
      <4>2. status[p] # "waiting"
        BY <1>1, <1>5, <4>1 DEF SocketOK
      <4>3. Gone(p, device) \/ OnWire(p, s)
        BY <1>5, <2>4, <4>2, AlreadyGone
      <4>4. QED BY <1>3, <1>6, <2>2, <3>1, <3>3, <4>1, <4>3 DEF OnWire
    <3>4. QED BY <3>1, <3>2, <3>3
  <2>5. CASE ~(s = socket /\ s \in open)
    BY <1>7, <2>2, <2>3, <2>5
  <2>6. QED BY <2>4, <2>5
<1>9. CASE connected
  <2>1. /\ wire'[socket'] = toSend /\ deviceOf'[socket'] = device /\ socket = NoSocket
        /\ \A t \in Sockets : t # socket' => wire'[t] = wire[t] /\ deviceOf'[t] = deviceOf[t]
        /\ UNCHANGED <<run, made>>
    BY <1>1, <1>9, ConnectsOnWire DEF connected, server
  <2>2. CASE s = socket'
    <3>1. k \in DOMAIN toSend /\ toSend[k] = q /\ d = device
      BY <1>4, <2>1, <2>2
    <3>2. OutboxOK
      BY <1>1, Parts
    <3>3. Nth(k) \in Waiting /\ made[Nth(k)] = q
      BY <3>1, <3>2, ToSend
    <3>4. Before(made, p, q) /\ Nth(k) \in DOMAIN made
      BY <1>4, <2>1, <3>3 DEF Waiting, Before
    <3>5. PICK j \in DOMAIN made : j < Nth(k) /\ made[j] = p
      BY <1>1, <1>5, <3>3, <3>4, MadeOrder
    <3>6. CASE status[p] = "waiting"
      <4>1. j \in Waiting
        BY <3>5, <3>6 DEF Waiting
      <4>2. \E l \in DOMAIN toSend : l < k /\ toSend[l] = made[j]
        BY <3>1, <3>2, <3>5, <4>1, ToSend
      <4>3. QED BY <2>1, <2>2, <3>5, <4>2
    <3>7. CASE status[p] # "waiting"
      <4>1. Gone(p, device)
        BY <1>5, <2>1, <3>7, AlreadyGone
      <4>2. QED BY <1>3, <1>6, <2>1, <3>1, <4>1
    <3>8. QED BY <3>6, <3>7
  <2>3. CASE s # socket'
    BY <1>7, <2>1, <2>3
  <2>4. QED BY <2>2, <2>3
<1>10. CASE lost \/ relaunch \/ pair
  BY <1>1, <1>7, <1>10, Drops DEF network, server
<1>11. CASE (\E f \in Frames : Forget(f)) \/ onAck \/ onTranscript
  BY <1>1, <1>7, <1>11, Reads DEF network, server
<1>12. ASSUME NEW t \in Sockets, handleClientFrame(t)
       PROVE  (\E j \in DOMAIN wire'[s] : j < k /\ wire'[s][j] = p) \/ Gone(p, d)'
  <2>0. wire[t] # <<>> /\ Head(wire[t]) \in Frames /\ deviceOf[t] \in Devices
    BY <1>1, <1>12, OnSocket DEF handleClientFrame
  <2>1. PICK f \in Frames, e \in Devices : f = Head(wire[t]) /\ e = deviceOf[t]
    BY <2>0
  <2>2. wire' = [wire EXCEPT ![t] = Tail(wire[t])] /\ deviceOf' = deviceOf /\ run' = run
    BY <1>12, <2>1, Handles
  <2>3. wire \in [Sockets -> Seq(Frames)]
    BY <1>1, WireTypes
  <2>4. CASE s # t
    <3>1. wire'[s] = wire[s]
      BY <2>2, <2>3, <2>4
    <3>2. QED BY <1>7, <2>2, <3>1
  <2>5. CASE s = t
    <3>1. wire'[s] = Tail(wire[s]) /\ d = e /\ wire[s] # <<>>
      BY <1>4, <2>0, <2>1, <2>2, <2>3, <2>5
    <3>2. /\ \A i \in DOMAIN wire'[s] : i \in Nat /\ i + 1 \in DOMAIN wire[s] /\ wire'[s][i] = wire[s][i + 1]
          /\ \A i \in DOMAIN wire[s] : i \in Nat /\ (i = 1 \/ (i - 1 \in DOMAIN wire'[s] /\ wire'[s][i - 1] = wire[s][i]))
          /\ wire[s][1] = f
      BY <1>2, <2>1, <2>5, <3>1, Tails
    <3>3. k \in Nat /\ k + 1 \in DOMAIN wire[s] /\ wire[s][k + 1] = q
      BY <1>4, <3>2
    <3>4. status[q] # "none"
      BY <1>1, <1>5, <3>3 DEF NoneOK, OnWire
    <3>5. (\E j \in DOMAIN wire[s] : j < k + 1 /\ wire[s][j] = p) \/ Gone(p, d)
      BY <1>4, <1>5, <2>2, <3>3, <3>4 DEF WireOrder
    <3>6. CASE Gone(p, d)
      BY <1>2, <1>4, <1>6, <2>2, <3>6
    <3>7. ASSUME NEW j \in DOMAIN wire[s], j < k + 1, wire[s][j] = p
          PROVE  (\E i \in DOMAIN wire'[s] : i < k /\ wire'[s][i] = p) \/ Gone(p, d)'
      <4>1. CASE j = 1
        <5>1. p = f
          BY <3>2, <3>7, <4>1
        <5>2. AckedBy(d, p)'
          BY <1>12, <2>1, <3>1, <5>1, HandleMoves
        <5>3. QED BY <5>2 DEF Gone
      <4>2. CASE j # 1
        <5>1. j \in Nat /\ j - 1 \in DOMAIN wire'[s] /\ wire'[s][j - 1] = p
          BY <3>2, <3>7, <4>2
        <5>2. j - 1 < k
          BY <3>3, <3>7, <5>1
        <5>3. QED BY <5>1, <5>2
      <4>3. QED BY <4>1, <4>2
    <3>8. QED BY <3>5, <3>6, <3>7
  <2>6. QED BY <2>4, <2>5
<1>13. ASSUME NEW t \in Sockets, onClose(t)
       PROVE  (\E j \in DOMAIN wire'[s] : j < k /\ wire'[s][j] = p) \/ Gone(p, d)'
  <2>1. wire' = [wire EXCEPT ![t] = <<>>] /\ wire \in [Sockets -> Seq(Frames)] /\ UNCHANGED <<deviceOf, run>>
    BY <1>1, <1>13, WireTypes DEF onClose, server
  <2>2. s # t
    BY <1>4, <2>1
  <2>3. wire'[s] = wire[s]
    BY <2>1, <2>2
  <2>4. QED BY <1>7, <2>1, <2>3
<1>14. CASE Restart
  BY <1>4, <1>14 DEF Restart
<1>15. ASSUME NEW f \in Answers, finishAnswer(f)
       PROVE  (\E j \in DOMAIN wire'[s] : j < k /\ wire'[s][j] = p) \/ Gone(p, d)'
  BY <1>7, <1>15 DEF finishAnswer, network
<1>16. CASE sendTranscript \/ Contact
  BY <1>7, <1>16 DEF sendTranscript, Contact, Show, NewSession, network, server
<1>17. QED BY <1>8, <1>9, <1>10, <1>11, <1>12, <1>13, <1>14, <1>15, <1>16 DEF Next, Phone, Mac

(* What was typed for a device has those made before it typed before, or they will not come any more. *)
LEMMA TypedOrderKept ==
  ASSUME Once, DeviceOK, WireOrder, TypedOrder, MaxFrames <= AcksKept, Next PROVE TypedOrder'
<1>1. TypeOK /\ MadeOK /\ SocketOK /\ NoneOK /\ Prompts \subseteq Frames /\ Prompts \cap Answers = {}
  BY LinkAssumption DEF Once, Frames
<1>2. SUFFICES ASSUME NEW p \in Prompts, NEW q \in Prompts, NEW d \in Devices,
                      TypedFor(q, d)', Before(made', p, q)
               PROVE  Gone(p, d)'
  BY DEF TypedOrder, Before
<1>3. p \in Frames /\ q \in Frames /\ status[p] # "none"
      /\ \/ Before(made, p, q) /\ status[q] # "none"
         \/ status[q] = "none"
  BY <1>1, <1>2, NewOrder
<1>4. ASSUME run' = run, TypedFor(q, d) PROVE Gone(p, d)'
  <2>1. status[q] # "none"
    BY <1>1, <1>3, <1>4 DEF NoneOK, Typed, TypedFor
  <2>2. Gone(p, d)
    BY <1>3, <1>4, <2>1 DEF TypedOrder
  <2>3. d <= device
    BY <1>4 DEF DeviceOK
  <2>4. QED BY <1>3, <1>4, <2>2, <2>3, GoneStays
<1>5. CASE typed' = typed /\ run' = run
  BY <1>1, <1>2, <1>3, <1>4, <1>5, OneTyped
<1>6. CASE Phone \/ Contact
  BY <1>1, <1>5, <1>6, PhoneEffect DEF Contact, Show, NewSession, server, agent
<1>7. ASSUME NEW s \in Sockets, handleClientFrame(s) PROVE Gone(p, d)'
  <2>0. wire[s] # <<>> /\ Head(wire[s]) \in Frames /\ deviceOf[s] \in Devices /\ wire[s] \in Seq(Frames)
    BY <1>1, <1>7, OnSocket DEF handleClientFrame
  <2>1. PICK f \in Frames, e \in Devices : f = Head(wire[s]) /\ e = deviceOf[s]
    BY <2>0
  <2>2. run' = run /\ Met(e, f)
    BY <1>7, <2>1, Handles
  <2>3. typed' = typed \/ (f \in Prompts /\ type(f, e))
    BY <2>2, Zenon DEF Met
  <2>4. CASE f \in Prompts /\ type(f, e)
    <3>1. TypedFor(q, d) \/ (q = f /\ d = e)
      BY <1>1, <1>2, <1>3, <2>2, <2>4, OneTyped
    <3>2. CASE q = f /\ d = e
      <4>1. 1 \in DOMAIN wire[s] /\ wire[s][1] = q /\ \A j \in DOMAIN wire[s] : ~(j < 1)
        BY <2>0, <2>1, <3>2, Tails
      <4>2. status[q] # "none"
        BY <1>1, <1>3, <4>1 DEF NoneOK, OnWire
      <4>3. Gone(p, d)
        BY <1>3, <2>1, <3>2, <4>1, <4>2 DEF WireOrder
      <4>4. d <= device
        BY <2>1, <3>2 DEF DeviceOK
      <4>5. QED BY <1>3, <2>2, <4>3, <4>4, GoneStays
    <3>3. QED BY <1>4, <2>2, <3>1, <3>2
  <2>5. QED BY <1>5, <2>2, <2>3, <2>4
<1>8. ASSUME NEW f \in Answers, finishAnswer(f) PROVE Gone(p, d)'
  <2>1. run' = run /\ (typed' = typed \/ \E e \in Devices : type(f, e))
    BY <1>8, Finishes
  <2>2. q # f
    BY <1>1
  <2>3. TypedFor(q, d)
    BY <1>1, <1>2, <1>3, <2>1, <2>2, OneTyped
  <2>4. QED BY <1>4, <2>1, <2>3
<1>9. CASE Restart
  <2>1. typed' = typed /\ run' = run + 1
    BY <1>9 DEF Restart, agent
  <2>2. PICK i \in Entries : typed[i].run = run + 1
    BY <1>2, <2>1 DEF TypedFor, Entries
  <2>3. typed[i].run \in Nat /\ typed[i].run <= run /\ run \in Nat
    BY <1>1, EntryTypes, Parts DEF Once, RunsOK, MacOK, Runs
  <2>4. QED BY <2>2, <2>3
<1>10. CASE sendTranscript \/ \E s \in Sockets : onClose(s)
  BY <1>5, <1>10 DEF sendTranscript, onClose, server, agent
<1>11. QED BY <1>6, <1>7, <1>8, <1>9, <1>10 DEF Next, Mac

(* Nothing is made, sent or typed at first. *)
LEMMA InitOrdered == Init => Ordered
<1> SUFFICES ASSUME Init PROVE Ordered
  OBVIOUS
<1>1. Once
  BY InitOnce
<1>2. /\ \A p \in Prompts : status[p] = "none" /\ p \in Frames
      /\ made = <<>> /\ inbox = <<>> /\ typed = <<>> /\ device = 1 /\ socket = NoSocket
      /\ \A s \in Sockets : deviceOf[s] = 1 /\ wire[s] = <<>>
      /\ \A d \in Devices : acks[d] = <<>>
  BY DEF Init, Frames
<1>3. /\ \A f, d : ~TypedFor(f, d)
      /\ \A p, q : ~Before(made, p, q)
      /\ \A d \in Devices : \A p, ok : ~Held(acks, d, p, ok)
      /\ \A p, ok : ~InInbox(p, ok)
      /\ \A s \in Sockets : \A f : ~OnWire(f, s)
  BY <1>2 DEF TypedFor, Before, Held, InInbox, OnWire, Entries
<1>4. DeviceOK /\ ResultOK /\ InboxOK /\ WireOrder /\ TypedOrder
  <2>1. DeviceOK
    BY <1>2, <1>3 DEF DeviceOK
  <2>2. ResultOK
    BY <1>3 DEF ResultOK
  <2>3. InboxOK
    BY <1>3 DEF InboxOK
  <2>4. WireOrder
    BY <1>3 DEF WireOrder
  <2>5. TypedOrder
    BY <1>3 DEF TypedOrder
  <2>6. QED BY <2>1, <2>2, <2>3, <2>4, <2>5
<1>5. PastOK /\ SentOnWire
  BY <1>2 DEF PastOK, Past, SentOnWire
<1>6. QED BY <1>4, <1>5 DEF Ordered

(* Every step keeps the order, and so does one that changes nothing. *)
LEMMA OrderedKept == ASSUME Once, Ordered, MaxFrames <= AcksKept, [Next]_vars PROVE Ordered'
<1>1. CASE Next
  BY <1>1, DeviceKept, PastKept, ResultKept, InboxKept, SentOnWireKept, WireOrderKept, TypedOrderKept DEF Ordered
<1>2. CASE UNCHANGED vars
  <2>1. UNCHANGED <<made, status, device, socket, open, deviceOf, wire, inbox, run, acks, typed>>
    BY <1>2 DEF vars, phone, outbox, network, server, agent
  <2>2. DeviceOK' /\ ResultOK' /\ InboxOK' /\ TypedOrder' /\ PastOK' /\ SentOnWire' /\ WireOrder'
    BY <2>1 DEF Ordered, DeviceOK, ResultOK, InboxOK, TypedOrder, PastOK, SentOnWire, WireOrder, TypedFor,
                Gone, AckedBy, OnWire, Before, Past, Moving, Held, InInbox, Typed, TypedNow, Entries
  <2>3. QED BY <2>2 DEF Ordered
<1>3. QED BY <1>1, <1>2

(* What is typed now was made before nothing this launch has typed for the same device. *)
LEMMA InOrderKept ==
  ASSUME Once, Ordered, InOrder, MaxFrames <= AcksKept, [Next]_vars PROVE InOrder'
<1>1. TypeOK /\ NoneOK
  BY DEF Once
<1>2. SUFFICES ASSUME NEW i \in Entries', NEW j \in Entries', i < j,
                      typed'[i].run = typed'[j].run, typed'[i].device = typed'[j].device,
                      NEW p \in Prompts, p = typed'[j].frame, NEW q \in Prompts, q = typed'[i].frame,
                      Before(made', p, q)
               PROVE  FALSE
  BY DEF InOrder, Before
<1>3. CASE i \in Entries /\ j \in Entries /\ typed'[i] = typed[i] /\ typed'[j] = typed[j]
  <2>1. Typed(q)
    BY <1>2, <1>3 DEF Typed
  <2>2. status[q] # "none"
    BY <1>1, <2>1 DEF NoneOK, Frames
  <2>3. Before(made, p, q)
    <3>1. CASE Next
      BY <1>2, <2>2, <3>1, NewOrder DEF Frames
    <3>2. CASE UNCHANGED vars
      BY <1>2, <3>2 DEF vars, phone, outbox
    <3>3. QED BY <3>1, <3>2
  <2>4. QED BY <1>2, <1>3, <2>3 DEF InOrder
<1>4. CASE typed' = typed
  BY <1>2, <1>3, <1>4 DEF Entries
<1>5. CASE typed' # typed
  <2>1. Next
    BY <1>5 DEF vars, agent
  <2>2. PICK f \in Prompts \cup Answers, d \in Devices :
          /\ type(f, d) /\ run' = run
          /\ f \in Prompts => /\ ~AckedBy(d, f)
                              /\ \E s \in Sockets : deviceOf[s] = d /\ OnWire(f, s)
    BY <1>5, <2>1, TypedAnew
  <2>3. /\ Entries' = Entries \cup {Len(typed')} /\ Len(typed') = Len(typed) + 1
        /\ \A l \in Entries : typed'[l] = typed[l]
        /\ typed'[Len(typed')] = [frame |-> f, device |-> d, run |-> run, cli |-> cli]
    BY <1>1, <2>2, TypedLast, Parts DEF MacOK
  <2>4. \A l \in Entries : l \in Nat /\ l < Len(typed')
    BY <1>1, <2>3, Parts DEF AgentOK, Entries
  <2>5. i \in Entries
    BY <1>2, <2>3, <2>4
  <2>6. CASE j \in Entries
    BY <1>3, <2>3, <2>5, <2>6
  <2>7. CASE j = Len(typed')
    <3>1. p = f /\ typed[i].run = run /\ typed[i].device = d /\ typed[i].frame = q
      BY <1>2, <2>3, <2>5, <2>7
    <3>2. TypedFor(q, d)
      BY <2>5, <3>1 DEF TypedFor
    <3>3. Before(made, p, q)
      <4>1. status[q] # "none"
        BY <1>1, <2>5, <3>1 DEF NoneOK, Typed, Frames
      <4>2. QED BY <1>2, <2>1, <4>1, NewOrder DEF Frames
    <3>4. Gone(p, d)
      BY <3>2, <3>3 DEF Ordered, TypedOrder
    <3>5. QED BY <1>2, <2>2, <3>1, <3>4 DEF Gone
  <2>8. QED BY <1>2, <2>3, <2>6, <2>7
<1>6. QED BY <1>4, <1>5

(* The messages of one pairing reach the agent in the order they were made, also those that
   waited and were resent, as long as the server has room for an ack of every frame. *)
THEOREM TypedInOrder == ASSUME MaxFrames <= AcksKept PROVE Spec => []InOrder
<1>1. Init => Once /\ Ordered /\ InOrder
  <2>1. Init => InOrder
    BY DEF Init, InOrder, Entries
  <2>2. QED BY <2>1, InitOnce, InitOrdered
<1>2. Once /\ Ordered /\ InOrder /\ [Next]_vars => (Once /\ Ordered /\ InOrder)'
  BY OnceKept, OrderedKept, InOrderKept
<1>3. QED BY <1>1, <1>2, PTL DEF Spec


-----------------------------------------------------------------------------
(* What the outbox says became of a prompt. *)

StatusOK ==
  \A p \in Prompts : /\ status[p] \in {"acked", "settled"} => Typed(p)
                     /\ status[p] = "refused" => ~TypedNow(p)

(* What an ack or a transcript told the phone is true, and stays so. *)
LEMMA StatusKept == ASSUME Once, Ordered, StatusOK, MaxFrames <= AcksKept, Next PROVE StatusOK'
<1>1. TypeOK /\ MadeOK /\ SocketOK
  BY DEF Once
<1>2. SUFFICES ASSUME NEW p \in Prompts
               PROVE  /\ status'[p] \in {"acked", "settled"} => Typed(p)'
                      /\ status'[p] = "refused" => ~TypedNow(p)'
  BY DEF StatusOK
<1>3. p \in Frames /\ p \notin Subs
  BY LinkAssumption DEF Frames
<1>4. /\ status[p] \in {"acked", "settled"} => Typed(p)
      /\ status[p] = "refused" => ~TypedNow(p)
  BY DEF StatusOK
<1>5. ASSUME Phone, status'[p] \in {"acked", "settled"} => Typed(p), status'[p] = "refused" => ~TypedNow(p)
      PROVE  /\ status'[p] \in {"acked", "settled"} => Typed(p)'
             /\ status'[p] = "refused" => ~TypedNow(p)'
  <2>1. typed' = typed /\ run' = run
    BY <1>1, <1>5, PhoneEffect DEF server, agent
  <2>2. (Typed(p)' <=> Typed(p)) /\ (TypedNow(p)' <=> TypedNow(p))
    BY <1>1, <1>3, <2>1, OneTyped
  <2>3. QED BY <1>5, <2>2
<1>6. CASE \E f \in Frames : queue(f) \/ sendNow(f)
  <2>1. PICK f \in Frames : queue(f) \/ sendNow(f)
    BY <1>6
  <2>2. status'[p] \in {status[p], "forgotten", "sent", "waiting"}
    BY <1>1, <1>3, <2>1, Makes
  <2>3. QED BY <1>4, <1>5, <1>6, <2>2 DEF Phone
<1>7. CASE \E f \in Frames : Forget(f)
  <2>1. PICK f \in Frames : status' = [status EXCEPT ![f] = "forgotten"]
    BY <1>7 DEF Forget
  <2>2. status'[p] \in {status[p], "forgotten"}
    BY <1>1, <1>3, <2>1, WireTypes
  <2>3. QED BY <1>4, <1>5, <1>7, <2>2 DEF Phone
<1>8. CASE connected
  <2>1. status'[p] \in {status[p], "sent"}
    BY <1>3, <1>8 DEF connected
  <2>2. QED BY <1>4, <1>5, <1>8, <2>1 DEF Phone
<1>9. CASE lost \/ relaunch \/ pair
  <2>1. status'[p] \in {status[p], "forgotten", "unknown"} \/ Moving(p)'
    BY <1>1, <1>9, Drops
  <2>2. QED BY <1>4, <1>5, <1>9, <2>1 DEF Phone, Moving
<1>10. CASE onAck
  <2>1. PICK f \in Frames, ok \in BOOLEAN, st \in [Frames -> Statuses] :
          /\ 1 \in DOMAIN inbox /\ inbox[1] = [ack |-> f, ok |-> ok]
          /\ \A g \in Frames :
               \/ st[g] = status[g]
               \/ /\ g = f /\ status[f] \in InOutbox
                  /\ st[f] = IF ~ok THEN "refused" ELSE IF f \in Subs \cup oldSession THEN "settled" ELSE "acked"
          /\ settle(st, transcript, delivered) \/ status' = st
    BY ZenonT(40), <1>1, <1>10, ReadsAck
  <2>2. transcript \in SUBSET Entries
    BY <1>1, Parts DEF ScreenOK
  <2>3. status'[p] \in {st[p], "delivered"}
    BY <1>3, <2>1, <2>2, Settled
  <2>4. \/ st[p] = status[p]
        \/ InInbox(p, ok) /\ st[p] \in IF ok THEN {"settled", "acked"} ELSE {"refused"}
    BY <1>3, <2>1 DEF InInbox
  <2>5. InInbox(p, ok) => (ok => Typed(p)) /\ (~ok => ~TypedNow(p))
    BY <2>1 DEF Ordered, InboxOK
  <2>6. QED BY <1>4, <1>5, <1>10, <2>3, <2>4, <2>5 DEF Phone
<1>11. CASE onTranscript
  <2>1. PICK es \in SUBSET Entries, c \in CliSessions, st \in [Frames -> Statuses], used \in SUBSET delivered :
          /\ \A g \in Frames : st[g] = status[g] \/ (g \in Prompts /\ status[g] = "acked" /\ st[g] = "settled")
          /\ settle(st, es, used)
    BY <1>1, <1>11, ReadsTranscript
  <2>2. status'[p] \in {st[p], "delivered"}
    BY <1>3, <2>1, Settled
  <2>3. st[p] = status[p] \/ (status[p] = "acked" /\ st[p] = "settled")
    BY <1>3, <2>1
  <2>4. QED BY <1>4, <1>5, <1>11, <2>2, <2>3 DEF Phone
<1>12. CASE Mac
  <2>1. status' = status /\ (Typed(p) => Typed(p)')
    BY <1>3, <1>12, MacEffect, TypedStays DEF phone, outbox
  <2>2. ASSUME status[p] = "refused", TypedNow(p)' PROVE FALSE
    <3>1. run' = run
      BY <1>3, <2>2, TypedStays
    <3>2. \A s \in Sockets : OnWire(p, s) => AckedBy(deviceOf[s], p)
      BY <2>2 DEF Ordered, PastOK, Past
    <3>3. TypedNow(p)
      BY <2>2, <3>1, <3>2, NoMore
    <3>4. QED BY <1>4, <2>2, <3>3
  <2>3. QED BY <1>4, <2>1, <2>2
<1>13. CASE Contact
  <2>1. UNCHANGED <<status, typed, run>>
    BY <1>13 DEF Contact, Show, NewSession, phone, outbox, server
  <2>2. (Typed(p)' <=> Typed(p)) /\ (TypedNow(p)' <=> TypedNow(p))
    BY <1>1, <1>3, <2>1, OneTyped
  <2>3. QED BY <1>4, <2>1, <2>2
<1>14. QED BY <1>6, <1>7, <1>8, <1>9, <1>10, <1>11, <1>12, <1>13 DEF Next, Phone

(* Of two sets ranked each within itself, as many of the one come early enough for the other
   as of the other for the one. *)
LEMMA Matched ==
  ASSUME NEW A, IsFiniteSet(A), NEW r \in [A -> Nat],
         \A p, q \in A : r[p] = r[q] => p = q, \A p \in A : r[p] < Cardinality(A),
         NEW B \in SUBSET Nat, IsFiniteSet(B)
  PROVE  Cardinality({p \in A : r[p] < Cardinality(B)})
           <= Cardinality({i \in B : Cardinality({j \in B : j < i}) < Cardinality(A)})
<1> DEFINE D == {p \in A : r[p] < Cardinality(B)}
           U == {i \in B : Cardinality({j \in B : j < i}) < Cardinality(A)}
<1>1. ASSUME NEW p \in D PROVE \E i \in U : Cardinality({j \in B : j < i}) = r[p]
  <2>1. r[p] + 1 \in 1..Cardinality(B) /\ r[p] \in Nat /\ r[p] < Cardinality(A)
    BY FS_CardinalityType
  <2>2. PICK i \in B : Cardinality({j \in B : j <= i}) = r[p] + 1
    BY <2>1, Ranked
  <2> DEFINE L == {j \in B : j <= i}
  <2>3. L \in SUBSET B /\ i \in L /\ L \ {i} = {j \in B : j < i}
    <3>1. i \in Nat /\ \A j \in B : j \in Nat
      OBVIOUS
    <3>2. ASSUME NEW j PROVE j \in L \ {i} <=> j \in {k \in B : k < i}
      <4>1. j \in B => (j <= i /\ j # i <=> j < i)
        BY <3>1
      <4>2. QED BY <4>1
    <3>3. L \in SUBSET B /\ i \in L
      BY <3>1
    <3> HIDE DEF L
    <3>4. QED BY <3>2, <3>3
  <2>4. IsFiniteSet(L) /\ Cardinality(L) = r[p] + 1
    BY <2>2, <2>3, FS_Subset
  <2> HIDE DEF L
  <2>5. Cardinality(L \ {i}) = Cardinality(L) - 1
    BY <2>3, <2>4, FS_RemoveElement
  <2>6. Cardinality({j \in B : j < i}) = r[p]
    BY <2>1, <2>3, <2>4, <2>5
  <2>7. QED BY <2>1, <2>2, <2>6
<1> DEFINE h == [p \in D |-> CHOOSE i \in U : Cardinality({j \in B : j < i}) = r[p]]
<1>2. \A p \in D : h[p] \in U /\ Cardinality({j \in B : j < h[p]}) = r[p]
  <2> HIDE DEF D, U
  <2>1. QED BY <1>1
<1>3. h \in [D -> U]
  BY <1>2
<1>4. \A p, q \in D : h[p] = h[q] => p = q
  <2>1. SUFFICES ASSUME NEW p \in D, NEW q \in D, h[p] = h[q] PROVE p = q
    OBVIOUS
  <2> HIDE DEF h
  <2>2. r[p] = r[q]
    BY <1>2, <2>1
  <2>3. QED BY <2>2
<1>5. h \in Injection(D, U)
  <2> HIDE DEF h, D, U
  <2>1. QED BY <1>3, <1>4 DEF Injection, IsInjective
<1>6. IsFiniteSet(U)
  BY FS_Subset
<1> HIDE DEF h, D, U
<1>7. Cardinality(D) <= Cardinality(U)
  BY <1>5, <1>6, FS_Injection
<1>8. QED BY <1>7 DEF D, U

(* Only finitely many prompts were made, and of some of them each has more before it than those
   before it have. *)
LEMMA MadeRanks ==
  ASSUME TypeOK, MadeOK, NEW A \in SUBSET Prompts, \A p \in A : status[p] # "none"
  PROVE  /\ IsFiniteSet(A)
         /\ \A p \in A : /\ Cardinality({q \in A : Before(made, q, p)}) \in Nat
                         /\ Cardinality({q \in A : Before(made, q, p)}) < Cardinality(A)
         /\ \A p, q \in A : Cardinality({x \in A : Before(made, x, p)}) = Cardinality({x \in A : Before(made, x, q)})
                              => p = q
<1> DEFINE g == [p \in A |-> CHOOSE i \in DOMAIN made : made[i] = p]
<1>1. made \in Seq(Frames) /\ Len(made) \in Nat /\ DOMAIN made = 1..Len(made)
  BY Parts DEF OutboxOK
<1>2. \A p \in A : \E i \in DOMAIN made : made[i] = p
  BY DEF MadeOK, Frames
<1>3. g \in [A -> DOMAIN made] /\ \A p \in A : made[g[p]] = p
  BY <1>2
<1>4. \A p \in A : g[p] \in Nat
  BY <1>1, <1>3
<1> HIDE DEF g
<1>5. IsFiniteSet(DOMAIN made)
  <2>1. 1 \in Int /\ Len(made) \in Int
    BY <1>1
  <2>2. QED BY <1>1, <2>1, FS_Interval
<1>6. IsFiniteSet(A)
  <2>1. g \in Injection(A, DOMAIN made)
    BY <1>3 DEF Injection, IsInjective
  <2>2. QED BY <1>5, <2>1, FS_Injection
<1>7. \A p, q \in A : Before(made, p, q) <=> g[p] < g[q]
  <2>1. ASSUME NEW p \in A, NEW q \in A PROVE Before(made, p, q) <=> g[p] < g[q]
    <3>1. \A i \in DOMAIN made : (made[i] = p => i = g[p]) /\ (made[i] = q => i = g[q])
      BY <1>3 DEF MadeOK
    <3>2. g[p] \in DOMAIN made /\ g[q] \in DOMAIN made /\ made[g[p]] = p /\ made[g[q]] = q
      BY <1>3
    <3>3. QED BY <3>1, <3>2 DEF Before
  <2>2. QED BY <2>1
<1> DEFINE Ahead(p) == {q \in A : Before(made, q, p)}
<1>8. ASSUME NEW p \in A PROVE /\ IsFiniteSet(Ahead(p)) /\ p \notin Ahead(p)
                                /\ Cardinality(Ahead(p)) \in Nat
                                /\ Cardinality(Ahead(p) \cup {p}) = Cardinality(Ahead(p)) + 1
  <2>1. Ahead(p) \in SUBSET A /\ p \notin Ahead(p)
    BY <1>4, <1>7
  <2> HIDE DEF Ahead
  <2>2. IsFiniteSet(Ahead(p))
    BY <1>6, <2>1, FS_Subset
  <2>3. QED BY <2>1, <2>2, FS_CardinalityType, FS_AddElement
<1>9. ASSUME NEW p \in A, NEW T \in SUBSET A, Ahead(p) \cup {p} \subseteq T
      PROVE  Cardinality(Ahead(p)) < Cardinality(T)
  <2> DEFINE S == Ahead(p) \cup {p}
  <2>1. S \in SUBSET T /\ Cardinality(S) = Cardinality(Ahead(p)) + 1 /\ Cardinality(Ahead(p)) \in Nat
    BY <1>8, <1>9
  <2> HIDE DEF S, Ahead
  <2>2. IsFiniteSet(T)
    BY <1>6, FS_Subset
  <2>3. Cardinality(S) <= Cardinality(T) /\ Cardinality(T) \in Nat
    BY <2>1, <2>2, FS_Subset, FS_CardinalityType
  <2>4. QED BY <2>1, <2>3
<1>10. ASSUME NEW p \in A, NEW q \in A, g[p] < g[q] PROVE Cardinality(Ahead(p)) < Cardinality(Ahead(q))
  <2>1. Ahead(q) \in SUBSET A /\ Ahead(p) \cup {p} \subseteq Ahead(q)
    BY <1>4, <1>7, <1>10
  <2> HIDE DEF Ahead
  <2>2. QED BY <1>9, <2>1
<1>11. \A p \in A : Cardinality(Ahead(p)) \in Nat /\ Cardinality(Ahead(p)) < Cardinality(A)
  <2>1. ASSUME NEW p \in A PROVE Ahead(p) \cup {p} \subseteq A
    OBVIOUS
  <2> HIDE DEF Ahead
  <2>2. QED BY <1>8, <1>9, <2>1
<1>12. \A p, q \in A : Cardinality(Ahead(p)) = Cardinality(Ahead(q)) => p = q
  <2>1. SUFFICES ASSUME NEW p \in A, NEW q \in A, Cardinality(Ahead(p)) = Cardinality(Ahead(q)), p # q PROVE FALSE
    BY Zenon
  <2> HIDE DEF Ahead
  <2>2. g[p] < g[q] \/ g[q] < g[p]
    <3>1. g[p] # g[q]
      BY <1>3, <2>1
    <3>2. QED BY <1>4, <3>1
  <2>3. Cardinality(Ahead(p)) \in Nat /\ Cardinality(Ahead(q)) \in Nat
    BY <1>11
  <2>4. QED BY <1>10, <2>1, <2>2, <2>3
<1>13. QED BY <1>6, <1>11, <1>12, Zenon

Taken(st, t) == {q \in Prompts : TextOf[q] = t /\ st[q] = "delivered"}
UsedFor(st, es, used, t) == {i \in Used(st, es, used) : Says(i) = t}

(* Of each text as many more prompts are delivered as entries are used up, at most. *)
LEMMA SettledCount ==
  ASSUME TypeOK, MadeOK, NEW st \in [Frames -> Statuses],
         \A p \in Prompts : st[p] # "none" => status[p] # "none",
         NEW es \in SUBSET Entries, NEW used, settle(st, es, used), NEW t,
         NEW V \in SUBSET Entries, NEW W \in SUBSET V, Cardinality(Taken(st, t)) <= Cardinality(W),
         UsedFor(st, es, used, t) \subseteq V, UsedFor(st, es, used, t) \cap W = {}
  PROVE  Cardinality(Taken(status', t)) <= Cardinality(V)
<1> DEFINE A == {p \in Open(st) : TextOf[p] = t}
           B == {i \in es \ used : Says(i) = t}
           r == [p \in A |-> Cardinality({q \in A : Before(made, q, p)})]
           D == {p \in A : r[p] < Cardinality(B)}
           U == {i \in B : Cardinality({j \in B : j < i}) < Cardinality(A)}
           T == Taken(st, t)
<1>1. IsFiniteSet(Entries) /\ Entries \in SUBSET Nat
  <2>1. Len(typed) \in Nat
    BY Parts DEF AgentOK
  <2>2. 1 \in Int /\ Len(typed) \in Int
    BY <2>1
  <2>3. IsFiniteSet(1..Len(typed))
    BY <2>2, FS_Interval
  <2>4. QED BY <2>1, <2>3 DEF Entries
<1>2. A \in SUBSET Prompts /\ \A p \in A : status[p] # "none"
  BY DEF Open
<1>3. IsFiniteSet(A)
  <2> HIDE DEF A
  <2>1. QED BY <1>2, MadeRanks
<1>4. r \in [A -> Nat] /\ (\A p, q \in A : r[p] = r[q] => p = q) /\ \A p \in A : r[p] < Cardinality(A)
  <2> HIDE DEF A
  <2>1. /\ \A p \in A : /\ Cardinality({q \in A : Before(made, q, p)}) \in Nat
                        /\ Cardinality({q \in A : Before(made, q, p)}) < Cardinality(A)
        /\ \A p, q \in A : Cardinality({x \in A : Before(made, x, p)}) = Cardinality({x \in A : Before(made, x, q)})
                             => p = q
    BY <1>2, MadeRanks
  <2>2. \A p \in A : r[p] = Cardinality({q \in A : Before(made, q, p)})
    OBVIOUS
  <2>3. r \in [A -> Nat]
    BY <2>1
  <2> HIDE DEF r
  <2>4. QED BY <2>1, <2>2, <2>3
<1>5. B \in SUBSET Nat /\ IsFiniteSet(B) /\ B \in SUBSET Entries
  <2>1. B \in SUBSET Entries
    OBVIOUS
  <2> HIDE DEF B
  <2>2. QED BY <1>1, <2>1, FS_Subset
<1>6. Cardinality(D) <= Cardinality(U)
  <2> HIDE DEF A, B, r
  <2>1. QED BY <1>3, <1>4, <1>5, Matched
<1>7. U = UsedFor(st, es, used, t)
  <2>1. ASSUME NEW i, Says(i) = t
        PROVE  /\ {j \in es \ used : j < i /\ Says(j) = Says(i)} = {j \in B : j < i}
               /\ {p \in Open(st) : TextOf[p] = Says(i)} = A
    BY <2>1
  <2>2. Used(st, es, used) =
          {i \in es \ used : Cardinality({j \in es \ used : j < i /\ Says(j) = Says(i)})
                               < Cardinality({p \in Open(st) : TextOf[p] = Says(i)})}
    BY DEF Used
  <2>3. ASSUME NEW i PROVE i \in U <=> i \in UsedFor(st, es, used, t)
    <3>1. CASE Says(i) = t
      <4>1. i \in B <=> i \in es \ used
        BY <3>1
      <4>2. i \in Used(st, es, used) <=>
              i \in es \ used /\ Cardinality({j \in B : j < i}) < Cardinality(A)
        <5> HIDE DEF A, B
        <5>1. QED BY <2>1, <2>2, <3>1
      <4> HIDE DEF A, B
      <4>3. QED BY <3>1, <4>1, <4>2 DEF UsedFor
    <3>2. CASE Says(i) # t
      BY <3>2 DEF UsedFor
    <3>3. QED BY <3>1, <3>2
  <2> HIDE DEF U
  <2>4. QED BY <2>3
<1>8. Taken(status', t) \subseteq T \cup D
  <2>1. SUFFICES ASSUME NEW p \in Prompts, TextOf[p] = t, status'[p] = "delivered", st[p] # "delivered"
                 PROVE  p \in D
    BY DEF Taken
  <2>2. p \in Delivered(st, es, used)
    BY <2>1 DEF settle, Frames
  <2>3. /\ p \in Open(st)
        /\ Cardinality({q \in Open(st) : TextOf[q] = TextOf[p] /\ Before(made, q, p)})
             < Cardinality({i \in es \ used : Says(i) = TextOf[p]})
    BY <2>2 DEF Delivered
  <2>4. {q \in Open(st) : TextOf[q] = TextOf[p] /\ Before(made, q, p)} = {q \in A : Before(made, q, p)}
    BY <2>1
  <2>5. {i \in es \ used : Says(i) = TextOf[p]} = B
    BY <2>1
  <2>6. p \in A
    BY <2>1, <2>3
  <2>7. r[p] = Cardinality({q \in A : Before(made, q, p)})
    BY <2>6
  <2> HIDE DEF A, B, r
  <2>8. r[p] < Cardinality(B)
    BY <2>3, <2>4, <2>5, <2>7
  <2>9. QED BY <2>6, <2>8
<1>9. IsFiniteSet(T)
  <2>1. T \in SUBSET Prompts /\ \A p \in T : status[p] # "none"
    BY DEF Taken
  <2> HIDE DEF T
  <2>2. QED BY <2>1, MadeRanks
<1>10. IsFiniteSet(D) /\ IsFiniteSet(U) /\ U \subseteq V /\ U \cap W = {}
  <2>1. D \in SUBSET A /\ U \in SUBSET B
    OBVIOUS
  <2> HIDE DEF D, U, A, B
  <2>2. QED BY <1>3, <1>5, <1>7, <2>1, FS_Subset
<1>11. IsFiniteSet(V) /\ IsFiniteSet(W)
  BY <1>1, FS_Subset
<1> HIDE DEF A, B, r, D, U, T
<1>12. Cardinality(Taken(status', t)) <= Cardinality(T) + Cardinality(D)
  <2>1. /\ IsFiniteSet(T \cup D) /\ Cardinality(T \cup D) = Cardinality(T) + Cardinality(D) - Cardinality(T \cap D)
        /\ IsFiniteSet(T \cap D)
    <3>1. T \cap D \in SUBSET T
      OBVIOUS
    <3>2. QED BY <1>9, <1>10, <3>1, FS_Union, FS_Subset
  <2>2. Cardinality(T) \in Nat /\ Cardinality(D) \in Nat /\ Cardinality(T \cap D) \in Nat
    BY <1>9, <1>10, <2>1, FS_CardinalityType
  <2>3. Cardinality(Taken(status', t)) <= Cardinality(T \cup D) /\ IsFiniteSet(Taken(status', t))
    <3> DEFINE N == Taken(status', t)
               M == T \cup D
    <3>1. N \in SUBSET M /\ IsFiniteSet(M)
      BY <1>8, <2>1
    <3> HIDE DEF N, M
    <3>2. Cardinality(N) <= Cardinality(M) /\ IsFiniteSet(N)
      BY <3>1, FS_Subset
    <3>3. QED BY <3>2 DEF N, M
  <2>4. Cardinality(Taken(status', t)) \in Nat
    BY <2>3, FS_CardinalityType
  <2>5. QED BY <2>1, <2>2, <2>3, <2>4
<1>13. Cardinality(W) + Cardinality(U) <= Cardinality(V)
  <2>1. /\ W \cup U \in SUBSET V /\ U \cap W = {} /\ W \cap U = {}
    BY <1>10
  <2>2. Cardinality(W \cup U) = Cardinality(W) + Cardinality(U) - Cardinality(W \cap U)
    BY <1>10, <1>11, FS_Union
  <2>3. Cardinality(W \cap U) = 0 /\ Cardinality(W) \in Nat /\ Cardinality(U) \in Nat
    BY <1>10, <1>11, <2>1, FS_CardinalityType, FS_EmptySet
  <2>4. Cardinality(W \cup U) <= Cardinality(V)
    <3> DEFINE N == W \cup U
    <3>1. N \in SUBSET V
      BY <2>1
    <3> HIDE DEF N
    <3>2. Cardinality(N) <= Cardinality(V)
      BY <1>11, <3>1, FS_Subset
    <3>3. QED BY <3>2 DEF N
  <2>5. QED BY <2>2, <2>3, <2>4
<1>14. /\ Cardinality(T) \in Nat /\ Cardinality(D) \in Nat /\ Cardinality(U) \in Nat
       /\ Cardinality(V) \in Nat /\ Cardinality(W) \in Nat
  BY <1>9, <1>10, <1>11, FS_CardinalityType
<1>15. Cardinality(T) <= Cardinality(W)
  BY DEF T
<1>16. Cardinality(Taken(status', t)) \in Int
  <2>1. IsFiniteSet(T \cup D)
    BY <1>9, <1>10, FS_Union
  <2>2. IsFiniteSet(Taken(status', t))
    <3> DEFINE N == Taken(status', t)
               M == T \cup D
    <3>1. N \in SUBSET M /\ IsFiniteSet(M)
      BY <1>8, <2>1
    <3> HIDE DEF N, M
    <3>2. IsFiniteSet(N)
      BY <3>1, FS_Subset
    <3>3. QED BY <3>2 DEF N
  <2>3. QED BY <2>2, FS_CardinalityType
<1>17. QED BY <1>6, <1>12, <1>13, <1>14, <1>15, <1>16

-----------------------------------------------------------------------------
(* Which session's entries the phone has, or is being sent. *)

Carries(k) == "entries" \in DOMAIN inbox[k]

CliOK ==
  /\ knownCli <= cli
  /\ \A i \in Entries : typed[i].cli <= cli
  /\ \A i \in delivered : i \in seen /\ (knownCli # 0 => typed[i].cli <= knownCli)
  /\ \A i \in transcript : i \in seen /\ typed[i].cli = knownCli

MailOrder ==
  \A k \in DOMAIN inbox : Carries(k) =>
    /\ knownCli <= inbox[k].cli /\ inbox[k].cli <= cli
    /\ \A i \in inbox[k].entries : typed[i].cli = inbox[k].cli
    /\ \A i \in delivered : typed[i].cli <= inbox[k].cli
    /\ \A l \in DOMAIN inbox : Carries(l) => l = k

\* A session whose entries the phone may still be shown.
Alive(c) == c = cli \/ c = knownCli \/ \E k \in DOMAIN inbox : Carries(k) /\ inbox[k].cli = c

\* Entries that deliver no prompt any more.
Spent(t) == {i \in seen : Says(i) = t /\ (i \in delivered \/ ~Alive(typed[i].cli))}

CountOK == \A p \in Prompts : Cardinality(Taken(status, TextOf[p])) <= Cardinality(Spent(TextOf[p]))

(* A transcript on its way is one of entries typed. *)
LEMMA MailTypes ==
  ASSUME TypeOK, NEW k \in DOMAIN inbox
  PROVE  /\ inbox[k] \in Mails
         /\ Carries(k) => /\ inbox[k].entries \in SUBSET Entries /\ inbox[k].cli \in CliSessions
                          /\ inbox[k].cli \in Nat
<1>1. inbox[k] \in Mails
  <2> HIDE DEF Mails
  <2>1. QED BY Parts DEF MailOK
<1>2. "entries" \in DOMAIN inbox[k] => inbox[k] \in [entries : SUBSET Entries, cli : CliSessions]
  BY <1>1 DEF Mails
<1>3. QED BY <1>1, <1>2 DEF Carries, CliSessions

(* Numbers, as the steps below need them. *)
LEMMA CliTypes ==
  ASSUME TypeOK
  PROVE  /\ cli \in Nat /\ cli \in CliSessions /\ cli # 0 /\ knownCli \in Nat
         /\ delivered \subseteq Entries /\ transcript \subseteq Entries /\ seen \subseteq Entries
         /\ \A i \in Entries : typed[i].cli \in Nat /\ typed[i].cli # 0
         /\ inbox \in Seq(Mails)
<1>1. cli \in Nat /\ cli \in CliSessions /\ cli # 0 /\ knownCli \in Nat
  BY Parts, LinkAssumption DEF AgentOK, ScreenOK, CliSessions
<1>2. \A i \in Entries : typed[i].cli \in Nat /\ typed[i].cli # 0
  BY EntryTypes, LinkAssumption DEF Typings, CliSessions
<1>3. QED BY <1>1, <1>2, Parts DEF ScreenOK, MailOK


\* The agent's terminal keeps what it had.
Extends ==
  /\ Entries \subseteq Entries' /\ \A i \in Entries : typed'[i] = typed[i]
  /\ \A i \in Entries' : i \in Entries \/ typed'[i].cli = cli

\* No transcript is on its way that was not.
Fewer ==
  \E n \in {0, 1} : \A k \in DOMAIN inbox' :
    /\ k \in Nat
    /\ "entries" \in DOMAIN inbox'[k] =>
         k + n \in DOMAIN inbox /\ Carries(k + n) /\ inbox'[k] = inbox[k + n]

\* A step that has nothing to do with transcripts.
Quiet ==
  /\ Extends /\ Fewer /\ UNCHANGED <<delivered, screen, cli>>
  /\ \A q \in Prompts : status'[q] = "delivered" => status[q] = "delivered"

(* Mail that stays, is read, or is an ack adds no transcript. *)
LEMMA FewerMail ==
  ASSUME TypeOK
  PROVE  /\ inbox' = inbox => Fewer
         /\ inbox' = <<>> => Fewer
         /\ inbox # <<>> /\ inbox' = Tail(inbox) => Fewer
         /\ \A f, ok : inbox' = Append(inbox, [ack |-> f, ok |-> ok]) => Fewer
<1>1. inbox \in Seq(Mails)
  BY CliTypes
<1>2. \A k \in DOMAIN inbox : k \in Nat /\ k + 0 = k
  <2> HIDE DEF Mails
  <2>1. QED BY <1>1
<1>3. inbox' = inbox => Fewer
  BY <1>2 DEF Fewer, Carries
<1>4. inbox' = <<>> => Fewer
  BY DEF Fewer
<1>5. ASSUME inbox # <<>>, inbox' = Tail(inbox) PROVE Fewer
  <2>1. \A k \in DOMAIN inbox' : k \in Nat /\ k + 1 \in DOMAIN inbox /\ inbox'[k] = inbox[k + 1]
    <3> HIDE DEF Mails
    <3>1. QED BY <1>1, <1>5, Tails
  <2>2. QED BY <2>1 DEF Fewer, Carries
<1>6. ASSUME NEW f, NEW ok, inbox' = Append(inbox, [ack |-> f, ok |-> ok]) PROVE Fewer
  <2> DEFINE m == [ack |-> f, ok |-> ok]
  <2>1. "entries" \notin DOMAIN m
    OBVIOUS
  <2>2. inbox' = Append(inbox, m)
    BY <1>6
  <2> HIDE DEF m, Mails
  <2>3. /\ DOMAIN inbox' = DOMAIN inbox \cup {Len(inbox) + 1} /\ Len(inbox) \in Nat
        /\ inbox'[Len(inbox) + 1] = m /\ \A k \in DOMAIN inbox : inbox'[k] = inbox[k]
    BY <1>1, <2>2
  <2>4. QED BY <1>2, <2>1, <2>3 DEF Fewer, Carries
<1>7. QED BY <1>3, <1>4, <1>5, <1>6

(* What is typed comes last, by the session the agent is in. *)
LEMMA Extended ==
  ASSUME TypeOK
  PROVE  /\ typed' = typed => Extends
         /\ \A f \in Prompts \cup Answers, d \in Devices : type(f, d) => Extends
<1>1. typed' = typed => Extends
  BY DEF Extends, Entries
<1>2. ASSUME NEW f \in Prompts \cup Answers, NEW d \in Devices, type(f, d) PROVE Extends
  <2>1. /\ Entries' = Entries \cup {Len(typed')}
        /\ \A i \in Entries : typed'[i] = typed[i]
        /\ typed'[Len(typed')] = [frame |-> f, device |-> d, run |-> run, cli |-> cli]
    BY <1>2, TypedLast, Parts DEF MacOK
  <2>2. typed'[Len(typed')].cli = cli
    BY <2>1
  <2>3. QED BY <2>1, <2>2 DEF Extends
<1>3. QED BY <1>1, <1>2

(* All but a few steps are quiet. *)
LEMMA Quiets ==
  ASSUME Once, MaxFrames <= AcksKept, Next
  PROVE  Quiet \/ onAck \/ onTranscript \/ lost \/ relaunch \/ pair \/ NewSession \/ sendTranscript
<1>1. TypeOK /\ MadeOK /\ SocketOK /\ Prompts \subseteq Frames
  BY DEF Once, Frames
<1>2. CASE \E f \in Frames : queue(f) \/ sendNow(f)
  <2>1. PICK f \in Frames : queue(f) \/ sendNow(f)
    BY <1>2
  <2>2. UNCHANGED <<delivered, screen, inbox, typed, cli>>
    BY <2>1 DEF queue, sendNow, agent
  <2>3. \A q \in Prompts : status'[q] = "delivered" => status[q] = "delivered"
    <3>1. /\ status'[f] = IF socket # NoSocket THEN "sent" ELSE "waiting"
          /\ \A g \in Frames \ {f} : status'[g] = status[g] \/ status'[g] = "forgotten"
      BY <1>1, <2>1, Makes
    <3>2. QED BY <1>1, <3>1
  <2>4. QED BY <1>1, <2>2, <2>3, FewerMail, Extended DEF Quiet
<1>3. CASE (\E f \in Frames : Forget(f)) \/ connected
  <2>1. UNCHANGED <<delivered, screen, inbox, typed, cli>>
    BY <1>3 DEF Forget, connected, agent
  <2>2. \A q \in Prompts : status'[q] = "delivered" => status[q] = "delivered"
    <3>1. CASE \E f \in Frames : Forget(f)
      <4>1. PICK f \in Frames : status' = [status EXCEPT ![f] = "forgotten"]
        BY <3>1 DEF Forget
      <4>2. QED BY <1>1, <4>1, WireTypes
    <3>2. CASE connected
      BY <1>1, <3>2 DEF connected
    <3>3. QED BY <1>3, <3>1, <3>2
  <2>3. QED BY <1>1, <2>1, <2>2, FewerMail, Extended DEF Quiet
<1>4. ASSUME Mac PROVE UNCHANGED <<delivered, screen, cli, status>>
  BY <1>4, MacEffect DEF phone, outbox
<1>5. ASSUME NEW s \in Sockets, handleClientFrame(s) PROVE Quiet
  <2>0. wire[s] # <<>> /\ Head(wire[s]) \in Frames /\ deviceOf[s] \in Devices
    BY <1>1, <1>5, OnSocket DEF handleClientFrame
  <2>1. PICK f \in Frames, d \in Devices : f = Head(wire[s]) /\ d = deviceOf[s]
    BY <2>0
  <2>2. Met(d, f) /\ Answered(s, d, f)
    BY <1>5, <2>1, Handles
  <2>3. typed' = typed \/ (f \in Prompts /\ type(f, d))
    BY <2>2, Zenon DEF Met
  <2>4. inbox' = inbox \/ \E ok : inbox' = Append(inbox, [ack |-> f, ok |-> ok])
    BY <2>2, Zenon DEF Answered, Reply
  <2>5. Extends /\ Fewer
    BY <1>1, <2>3, <2>4, FewerMail, Extended
  <2>6. QED BY <1>4, <1>5, <2>5 DEF Quiet, Mac
<1>6. ASSUME NEW f \in Answers, finishAnswer(f) PROVE Quiet
  <2>1. /\ typed' = typed \/ \E d \in Devices : type(f, d)
        /\ \E s \in Sockets, ok \in BOOLEAN : Reply(s, f, ok)
    BY <1>6, Finishes
  <2>2. inbox' = inbox \/ \E ok : inbox' = Append(inbox, [ack |-> f, ok |-> ok])
    BY <2>1, Zenon DEF Reply
  <2>3. Extends /\ Fewer
    BY <1>1, <2>1, <2>2, FewerMail, Extended
  <2>4. QED BY <1>4, <1>6, <2>3 DEF Quiet, Mac
<1>7. CASE Restart \/ \E s \in Sockets : onClose(s)
  <2>1. inbox' = inbox /\ typed' = typed
    BY <1>7 DEF Restart, onClose, agent
  <2>2. Extends /\ Fewer
    BY <1>1, <2>1, FewerMail, Extended
  <2>3. QED BY <1>4, <1>7, <2>2 DEF Quiet, Mac
<1>8. CASE Show
  <2>1. UNCHANGED <<delivered, screen, inbox, typed, cli, status>>
    BY <1>8 DEF Show, phone, outbox
  <2>2. QED BY <1>1, <2>1, FewerMail, Extended DEF Quiet
<1>9. QED BY <1>2, <1>3, <1>5, <1>6, <1>7, <1>8 DEF Next, Phone, Mac, Contact

(* The order of sessions is kept while no transcript is added. *)
LEMMA MailStays ==
  ASSUME TypeOK, CliOK, MailOrder, Extends, Fewer, cli' \in Nat, cli <= cli', knownCli' \in {0, knownCli},
         \A i \in delivered' : i \in delivered \/ (i \in Entries /\ typed[i].cli = knownCli)
  PROVE  MailOrder'
<1>1. PICK n \in {0, 1} : \A k \in DOMAIN inbox' :
        /\ k \in Nat
        /\ "entries" \in DOMAIN inbox'[k] =>
             k + n \in DOMAIN inbox /\ Carries(k + n) /\ inbox'[k] = inbox[k + n]
  BY DEF Fewer
<1>2. /\ cli \in Nat /\ knownCli \in Nat /\ delivered \subseteq Entries
      /\ \A i \in Entries : typed[i].cli \in Nat
  BY CliTypes
<1>3. ASSUME NEW k \in DOMAIN inbox', "entries" \in DOMAIN inbox'[k]
      PROVE  /\ knownCli' <= inbox'[k].cli /\ inbox'[k].cli <= cli'
             /\ \A i \in inbox'[k].entries : typed'[i].cli = inbox'[k].cli
             /\ \A i \in delivered' : typed'[i].cli <= inbox'[k].cli
             /\ \A l \in DOMAIN inbox' : "entries" \in DOMAIN inbox'[l] => l = k
  <2>1. k + n \in DOMAIN inbox /\ Carries(k + n) /\ inbox'[k] = inbox[k + n] /\ k \in Nat
    BY <1>1, <1>3
  <2> DEFINE m == inbox[k + n]
  <2>2. m.entries \in SUBSET Entries /\ m.cli \in Nat
    BY <2>1, MailTypes
  <2>3. /\ knownCli <= m.cli /\ m.cli <= cli
        /\ \A i \in m.entries : typed[i].cli = m.cli
        /\ \A i \in delivered : typed[i].cli <= m.cli
        /\ \A l \in DOMAIN inbox : Carries(l) => l = k + n
    BY <2>1 DEF MailOrder
  <2>4. inbox'[k] = m
    BY <2>1
  <2> HIDE DEF m
  <2>5. knownCli' <= m.cli /\ m.cli <= cli'
    BY <1>2, <2>2, <2>3
  <2>6. \A i \in m.entries : typed'[i].cli = m.cli
    BY <2>2, <2>3 DEF Extends
  <2>7. \A i \in delivered' : typed'[i].cli <= m.cli
    BY <1>2, <2>3 DEF Extends
  <2>8. ASSUME NEW l \in DOMAIN inbox', "entries" \in DOMAIN inbox'[l] PROVE l = k
    <3>1. l + n = k + n /\ l \in Nat
      BY <1>1, <2>3, <2>8
    <3>2. QED BY <2>1, <3>1
  <2>9. QED BY <2>4, <2>5, <2>6, <2>7, <2>8
<1>4. QED BY <1>3 DEF MailOrder, Carries


(* The phone reads the one transcript on its way: none is left. *)
LEMMA LastMail ==
  ASSUME TypeOK, MailOrder, onTranscript
  PROVE  /\ Carries(1) /\ 1 \in DOMAIN inbox /\ \A k \in DOMAIN inbox' : ~("entries" \in DOMAIN inbox'[k])
         /\ UNCHANGED <<typed, cli>>
         /\ \E es \in SUBSET Entries, c \in CliSessions, st \in [Frames -> Statuses], used \in SUBSET delivered :
              /\ inbox[1].cli = c /\ inbox[1].entries = es
              /\ knownCli <= c /\ c <= cli
              /\ \A i \in es : typed[i].cli = c
              /\ \A i \in delivered : typed[i].cli <= c
              /\ \A g \in Frames : st[g] = status[g] \/ (g \in Prompts /\ status[g] = "acked" /\ st[g] = "settled")
              /\ used = IF knownCli # 0 /\ c # knownCli THEN {} ELSE delivered
              /\ settle(st, es, used) /\ delivered' = used \cup Used(st, es, used)
              /\ transcript' = es /\ knownCli' = c /\ seen' = seen \cup es
<1>1. PICK es \in SUBSET Entries, c \in CliSessions, st \in [Frames -> Statuses], used \in SUBSET delivered :
        /\ 1 \in DOMAIN inbox /\ inbox[1] = [entries |-> es, cli |-> c]
        /\ \A g \in Frames : st[g] = status[g] \/ (g \in Prompts /\ status[g] = "acked" /\ st[g] = "settled")
        /\ used = IF knownCli # 0 /\ c # knownCli THEN {} ELSE delivered
        /\ settle(st, es, used)
        /\ transcript' = es /\ knownCli' = c /\ seen' = seen \cup es
  BY ReadsTranscript
<1>2. Carries(1) /\ inbox[1].cli = c /\ inbox[1].entries = es
  BY <1>1 DEF Carries
<1>3. /\ knownCli <= c /\ c <= cli
      /\ \A i \in es : typed[i].cli = c
      /\ \A i \in delivered : typed[i].cli <= c
      /\ \A l \in DOMAIN inbox : Carries(l) => l = 1
  BY <1>1, <1>2 DEF MailOrder
<1>4. inbox # <<>> /\ inbox' = Tail(inbox) /\ inbox \in Seq(Mails) /\ UNCHANGED <<typed, cli>>
  BY CliTypes DEF onTranscript, agent
<1>5. \A k \in DOMAIN inbox' : k \in Nat /\ k + 1 \in DOMAIN inbox /\ inbox'[k] = inbox[k + 1] /\ k # 0
  <2> HIDE DEF Mails
  <2>1. QED BY <1>4, Tails
<1>6. \A k \in DOMAIN inbox' : ~("entries" \in DOMAIN inbox'[k])
  <2>1. ASSUME NEW k \in DOMAIN inbox', "entries" \in DOMAIN inbox'[k] PROVE FALSE
    <3>1. Carries(k + 1) /\ k + 1 \in DOMAIN inbox /\ k \in Nat /\ k # 0
      BY <1>5, <2>1 DEF Carries
    <3>2. k + 1 = 1
      BY <1>3, <3>1
    <3>3. QED BY <3>1, <3>2
  <2>2. QED BY <2>1
<1>7. delivered' = used \cup Used(st, es, used)
  BY <1>1 DEF settle
<1>8. QED BY <1>1, <1>2, <1>3, <1>4, <1>6, <1>7

(* The phone reads an ack: what the transcript it has delivers is of the session it knows. *)
LEMMA AckMail ==
  ASSUME TypeOK, CliOK, onAck
  PROVE  /\ UNCHANGED <<screen, typed, cli>> /\ Fewer
         /\ \E st \in [Frames -> Statuses] :
              /\ \A g \in Frames : st[g] = status[g] \/ (status[g] \in InOutbox /\ st[g] \in {"refused", "settled", "acked"})
              /\ \/ settle(st, transcript, delivered)
                 \/ status' = st /\ delivered' = delivered
         /\ delivered \subseteq delivered'
         /\ \A i \in delivered' : i \in delivered \/ (i \in transcript /\ i \in Entries /\ typed[i].cli = knownCli)
<1>1. PICK st \in [Frames -> Statuses] :
        /\ \A g \in Frames : st[g] = status[g] \/ (status[g] \in InOutbox /\ st[g] \in {"refused", "settled", "acked"})
        /\ \/ settle(st, transcript, delivered)
           \/ status' = st /\ delivered' = delivered
  <2>1. PICK f \in Frames, ok \in BOOLEAN, st \in [Frames -> Statuses] :
          /\ \A g \in Frames :
               \/ st[g] = status[g]
               \/ /\ g = f /\ status[f] \in InOutbox
                  /\ st[f] = IF ~ok THEN "refused" ELSE IF f \in Subs \cup oldSession THEN "settled" ELSE "acked"
          /\ \/ settle(st, transcript, delivered)
             \/ status' = st /\ delivered' = delivered
    BY ZenonT(40), ReadsAck
  <2>2. \A g \in Frames : st[g] = status[g] \/ (status[g] \in InOutbox /\ st[g] \in {"refused", "settled", "acked"})
    BY <2>1
  <2>3. QED BY <2>1, <2>2
<1>2. inbox # <<>> /\ inbox' = Tail(inbox) /\ UNCHANGED <<screen, typed, cli>>
  BY DEF onAck, agent
<1>3. Fewer
  BY <1>2, FewerMail
<1>4. delivered' = delivered \/ delivered' = delivered \cup Used(st, transcript, delivered)
  BY <1>1 DEF settle
<1>5. Used(st, transcript, delivered) \subseteq transcript
  BY DEF Used
<1>6. transcript \subseteq Entries /\ \A i \in transcript : typed[i].cli = knownCli
  BY CliTypes DEF CliOK
<1>7. QED BY <1>1, <1>2, <1>3, <1>4, <1>5, <1>6

(* The contact's session as it reads now is sent, and no other is on its way. *)
LEMMA SentMail ==
  ASSUME TypeOK, sendTranscript
  PROVE  /\ UNCHANGED <<delivered, screen, typed, cli, status>>
         /\ \A k \in DOMAIN inbox : ~Carries(k)
         /\ \A k \in DOMAIN inbox' : "entries" \in DOMAIN inbox'[k] =>
              /\ k = Len(inbox) + 1 /\ inbox'[k].cli = cli
              /\ \A i \in inbox'[k].entries : i \in Entries /\ typed[i].cli = cli
<1> DEFINE es == {i \in Here : Cardinality({j \in Here : j <= i}) <= shown}
           m == [cli |-> cli, entries |-> es]
<1>1. /\ UNCHANGED <<delivered, screen, typed, cli, status>>
      /\ \A k \in DOMAIN inbox : ~Carries(k)
      /\ inbox' = Append(inbox, m)
  BY DEF sendTranscript, phone, outbox, agent, Carries
<1>2. m.cli = cli /\ m.entries = es /\ \A i \in es : i \in Entries /\ typed[i].cli = cli
  BY DEF Here
<1>3. inbox \in Seq(Mails)
  BY CliTypes
<1> HIDE DEF es, m, Mails
<1>4. /\ DOMAIN inbox' = DOMAIN inbox \cup {Len(inbox) + 1}
      /\ inbox'[Len(inbox) + 1] = m /\ \A k \in DOMAIN inbox : inbox'[k] = inbox[k]
  BY <1>1, <1>3
<1>5. QED BY <1>1, <1>2, <1>4 DEF Carries

(* What the phone has, and is being sent, is of sessions in order. *)
LEMMA MailKept ==
  ASSUME Once, CliOK, MailOrder, MaxFrames <= AcksKept, Next PROVE CliOK' /\ MailOrder'
<1>1. TypeOK
  BY DEF Once
<1>2. /\ cli \in Nat /\ knownCli \in Nat
      /\ delivered \subseteq Entries /\ transcript \subseteq Entries /\ seen \subseteq Entries
      /\ \A i \in Entries : typed[i].cli \in Nat
  BY <1>1, CliTypes
<1>3. CASE Quiet
  <2>1. Extends /\ Fewer /\ UNCHANGED <<delivered, transcript, knownCli, seen, cli>>
    BY <1>3 DEF Quiet, screen
  <2>2. MailOrder'
    BY <1>1, <1>2, <2>1, MailStays
  <2>3. CliOK'
    BY <1>2, <2>1 DEF CliOK, Extends
  <2>4. QED BY <2>2, <2>3
<1>4. CASE onAck
  <2>1. UNCHANGED <<screen, typed, cli>> /\ Fewer
    BY <1>1, <1>4, AckMail
  <2>2. \A i \in delivered' : i \in delivered \/ (i \in transcript /\ i \in Entries /\ typed[i].cli = knownCli)
    BY <1>1, <1>4, AckMail
  <2>3. Extends
    BY <1>1, <2>1, Extended
  <2>4. MailOrder'
    BY <1>1, <1>2, <2>1, <2>2, <2>3, MailStays DEF screen
  <2>5. CliOK'
    <3>1. UNCHANGED <<transcript, knownCli, seen, typed, cli>> /\ Entries' = Entries
      BY <2>1 DEF screen, Entries
    <3>2. \A i \in delivered' : i \in seen /\ (knownCli # 0 => typed[i].cli <= knownCli)
      BY <1>2, <2>2 DEF CliOK
    <3>3. QED BY <3>1, <3>2 DEF CliOK
  <2>6. QED BY <2>4, <2>5
<1>5. CASE onTranscript
  <2>1. MailOrder'
    BY <1>1, <1>5, LastMail DEF MailOrder, Carries
  <2>2. PICK es \in SUBSET Entries, c \in CliSessions, st \in [Frames -> Statuses], used \in SUBSET delivered :
          /\ c <= cli
          /\ \A i \in es : typed[i].cli = c
          /\ \A i \in delivered : typed[i].cli <= c
          /\ delivered' = used \cup Used(st, es, used)
          /\ transcript' = es /\ knownCli' = c /\ seen' = seen \cup es
    BY <1>1, <1>5, LastMail
  <2>3. Used(st, es, used) \subseteq es /\ UNCHANGED <<typed, cli>>
    BY <1>1, <1>5, LastMail DEF Used
  <2>4. \A i \in delivered' : i \in seen' /\ typed[i].cli <= c
    <3>1. c \in Nat /\ \A i \in es : typed[i].cli <= c
      BY <2>2 DEF CliSessions
    <3>2. QED BY <2>2, <2>3, <3>1 DEF CliOK
  <2>5. CliOK'
    BY <2>2, <2>3, <2>4 DEF CliOK, Entries
  <2>6. QED BY <2>1, <2>5
<1>6. CASE lost \/ relaunch \/ pair
  <2>1. /\ inbox' = <<>> /\ UNCHANGED <<delivered, seen, agent>>
        /\ \/ UNCHANGED screen
           \/ transcript' = {} /\ knownCli' = 0
    BY <1>1, <1>6, Drops
  <2>2. MailOrder'
    BY <2>1 DEF MailOrder
  <2>3. CliOK'
    <3>1. UNCHANGED <<delivered, seen, typed, cli>> /\ Entries' = Entries
      BY <2>1 DEF agent, Entries
    <3>2. UNCHANGED <<transcript, knownCli>> \/ (transcript' = {} /\ knownCli' = 0)
      BY <2>1 DEF screen
    <3>3. CASE UNCHANGED <<transcript, knownCli>>
      BY <3>1, <3>3 DEF CliOK
    <3>4. CASE transcript' = {} /\ knownCli' = 0
      BY <1>2, <3>1, <3>4 DEF CliOK
    <3>5. QED BY <3>2, <3>3, <3>4
  <2>4. QED BY <2>2, <2>3
<1>7. CASE NewSession
  <2>1. UNCHANGED <<delivered, screen, inbox, typed>> /\ cli' = cli + 1
    BY <1>7 DEF NewSession, phone, outbox
  <2>2. Extends /\ Fewer
    BY <1>1, <2>1, FewerMail, Extended
  <2>3. MailOrder'
    BY <1>1, <1>2, <2>1, <2>2, MailStays DEF screen
  <2>4. CliOK'
    BY <1>2, <2>1 DEF CliOK, screen, Entries
  <2>5. QED BY <2>3, <2>4
<1>8. CASE sendTranscript
  <2>1. UNCHANGED <<delivered, screen, typed, cli>>
    BY <1>1, <1>8, SentMail
  <2>2. \A k \in DOMAIN inbox' : "entries" \in DOMAIN inbox'[k] =>
              /\ k = Len(inbox) + 1 /\ inbox'[k].cli = cli
              /\ \A i \in inbox'[k].entries : typed[i].cli = cli
    BY <1>1, <1>8, SentMail
  <2>3. CliOK'
    BY <2>1 DEF CliOK, screen, Entries
  <2>4. knownCli <= cli /\ \A i \in delivered : typed[i].cli <= cli
    BY <1>2 DEF CliOK
  <2>5. MailOrder'
    BY <1>2, <2>1, <2>2, <2>4 DEF MailOrder, Carries, screen
  <2>6. QED BY <2>3, <2>5
<1>9. QED BY <1>3, <1>4, <1>5, <1>6, <1>7, <1>8, Quiets


(* No session of entries already typed comes to be shown again. *)
LEMMA AliveStays ==
  ASSUME Once, CliOK, MailOrder, MaxFrames <= AcksKept, Next, NEW c \in CliSessions, Alive(c)'
  PROVE  Alive(c) \/ \A i \in Entries : typed[i].cli # c
<1>1. TypeOK /\ c # 0
  BY LinkAssumption DEF Once, CliSessions
<1>2. \/ c = cli' \/ c = knownCli'
      \/ \E k \in DOMAIN inbox' : "entries" \in DOMAIN inbox'[k] /\ inbox'[k].cli = c
  BY DEF Alive, Carries
<1>3. ASSUME Fewer, cli' = cli, knownCli' \in {0, knownCli} PROVE Alive(c)
  <2>1. ASSUME NEW k \in DOMAIN inbox', "entries" \in DOMAIN inbox'[k], inbox'[k].cli = c
        PROVE  \E l \in DOMAIN inbox : Carries(l) /\ inbox[l].cli = c
    BY <1>3, <2>1 DEF Fewer
  <2>2. QED BY <1>1, <1>2, <1>3, <2>1 DEF Alive
<1>4. CASE Quiet
  BY <1>3, <1>4 DEF Quiet, screen
<1>5. CASE onAck
  BY <1>1, <1>3, <1>5, AckMail DEF screen
<1>6. CASE onTranscript
  <2>1. /\ Carries(1) /\ 1 \in DOMAIN inbox /\ \A k \in DOMAIN inbox' : ~("entries" \in DOMAIN inbox'[k])
        /\ cli' = cli /\ knownCli' = inbox[1].cli
    BY <1>1, <1>6, LastMail
  <2>2. QED BY <1>2, <2>1 DEF Alive
<1>7. CASE lost \/ relaunch \/ pair
  <2>1. inbox' = <<>> /\ cli' = cli /\ knownCli' \in {0, knownCli}
    BY <1>1, <1>7, Drops DEF agent, screen
  <2>2. QED BY <1>1, <1>3, <2>1, FewerMail
<1>8. CASE NewSession
  <2>1. UNCHANGED <<screen, inbox>> /\ cli' = cli + 1
    BY <1>8 DEF NewSession, phone
  <2>2. c = cli + 1 \/ Alive(c)
    BY <1>2, <2>1 DEF Alive, Carries, screen
  <2>3. cli \in Nat /\ \A i \in Entries : typed[i].cli \in Nat /\ typed[i].cli <= cli
    BY <1>1, CliTypes DEF CliOK
  <2>4. QED BY <2>2, <2>3
<1>9. CASE sendTranscript
  <2>1. /\ UNCHANGED <<screen, cli>>
        /\ \A k \in DOMAIN inbox' : "entries" \in DOMAIN inbox'[k] => inbox'[k].cli = cli
    BY <1>1, <1>9, SentMail
  <2>2. QED BY <1>2, <2>1 DEF Alive, screen
<1>10. QED BY <1>4, <1>5, <1>6, <1>7, <1>8, <1>9, Quiets

(* What was received stays received, and what was typed stays. *)
LEMMA SeenStays ==
  ASSUME Once, MailOrder, CliOK, MaxFrames <= AcksKept, Next PROVE Extends /\ seen \subseteq seen'
<1>1. TypeOK
  BY DEF Once
<1>2. CASE Quiet
  BY <1>2 DEF Quiet, screen
<1>3. CASE onAck
  BY <1>1, <1>3, AckMail, Extended DEF screen
<1>4. CASE onTranscript
  BY <1>1, <1>4, LastMail, Extended
<1>5. CASE lost \/ relaunch \/ pair
  BY <1>1, <1>5, Drops, Extended DEF agent
<1>6. CASE NewSession
  BY <1>1, <1>6, Extended DEF NewSession, phone, screen
<1>7. CASE sendTranscript
  BY <1>1, <1>7, SentMail, Extended DEF screen
<1>8. QED BY <1>2, <1>3, <1>4, <1>5, <1>6, <1>7, Quiets

(* An entry that delivers no prompt any more never will. *)
LEMMA SpentStays ==
  ASSUME Once, CliOK, MailOrder, MaxFrames <= AcksKept, Next, NEW t
  PROVE  /\ Spent(t) \subseteq Spent(t)'
         /\ Spent(t)' \in SUBSET Entries' /\ IsFiniteSet(Spent(t)')
<1>1. TypeOK /\ TypeOK' /\ Extends /\ seen \subseteq seen'
  BY TypesKept, SeenStays DEF Once
<1>2. seen \subseteq Entries /\ delivered \subseteq Entries /\ knownCli \in Nat /\ cli \in Nat
      /\ \A i \in Entries : typed[i].cli \in Nat /\ typed[i].cli # 0 /\ typed[i].cli \in CliSessions
  BY <1>1, CliTypes, EntryTypes DEF Typings
<1>3. ASSUME NEW i \in Spent(t) PROVE i \in Spent(t)'
  <2>1. /\ i \in seen /\ i \in Entries /\ Says(i) = t /\ (i \in delivered \/ ~Alive(typed[i].cli))
    BY <1>2 DEF Spent
  <2>2. i \in seen' /\ typed'[i] = typed[i] /\ Says(i)' = t
    BY <1>1, <2>1 DEF Extends, Says
  <2>3. PICK c \in CliSessions : c = typed[i].cli
    BY <1>2, <2>1
  <2>4. SUFFICES i \in delivered' \/ ~Alive(c)'
    BY <2>2, <2>3 DEF Spent, Alive, Carries
  <2>5. CASE ~Alive(c)
    BY <2>1, <2>3, <2>5, AliveStays
  <2>6. CASE i \in delivered
    <3>1. CASE delivered' = delivered
      BY <2>6, <3>1
    <3>2. CASE onAck
      BY <1>1, <2>6, <3>2, AckMail
    <3>3. CASE onTranscript
      <4>1. /\ \A k \in DOMAIN inbox' : ~("entries" \in DOMAIN inbox'[k])
            /\ cli' = cli
            /\ \E b \in CliSessions, used \in SUBSET delivered :
                 /\ b <= cli /\ knownCli <= b
                 /\ used = IF knownCli # 0 /\ b # knownCli THEN {} ELSE delivered
                 /\ used \subseteq delivered' /\ knownCli' = b
        BY <1>1, <3>3, LastMail
      <4>2. PICK b \in CliSessions : /\ b <= cli /\ knownCli <= b /\ knownCli' = b
                                     /\ (knownCli # 0 /\ b # knownCli) \/ delivered \subseteq delivered'
        BY <4>1
      <4>3. CASE knownCli # 0 /\ b # knownCli
        <5>1. typed[i].cli <= knownCli /\ b \in Nat
          BY <2>6, <4>3 DEF CliOK, CliSessions
        <5>2. c # b /\ c # cli
          BY <1>2, <2>1, <2>3, <4>2, <4>3, <5>1
        <5>3. QED BY <4>1, <4>2, <5>2 DEF Alive, Carries
      <4>4. QED BY <2>6, <4>2, <4>3
    <3>4. CASE lost \/ relaunch \/ pair
      BY <1>1, <2>6, <3>4, Drops
    <3>5. CASE NewSession
      BY <2>6, <3>5 DEF NewSession, phone, outbox
    <3>6. CASE sendTranscript
      BY <1>1, <2>6, <3>6, SentMail
    <3>7. CASE Quiet
      BY <2>6, <3>7 DEF Quiet
    <3>8. QED BY <3>2, <3>3, <3>4, <3>5, <3>6, <3>7, Quiets
  <2>7. QED BY <2>1, <2>3, <2>5, <2>6
<1>4. Spent(t)' \in SUBSET Entries'
  <2>1. seen' \subseteq Entries'
    BY <1>1, PartsNext DEF ScreenOK
  <2>2. QED BY <2>1 DEF Spent
<1>5. IsFiniteSet(Entries')
  <2>1. Len(typed') \in Nat
    BY <1>1, PartsNext DEF AgentOK
  <2>2. 1 \in Int /\ Len(typed') \in Int
    BY <2>1
  <2>3. IsFiniteSet(1..Len(typed'))
    BY <2>2, FS_Interval
  <2>4. QED BY <2>3 DEF Entries
<1>6. QED BY <1>3, <1>4, <1>5, FS_Subset

(* No more prompts of a text count as delivered than entries of it are used up. *)
LEMMA CountKept ==
  ASSUME Once, CliOK, MailOrder, CountOK, MaxFrames <= AcksKept, Next PROVE CountOK'
<1>1. TypeOK /\ MadeOK /\ \A p \in Prompts : p \in Frames
  BY DEF Once, Frames
<1>2. SUFFICES ASSUME NEW p \in Prompts, NEW t, t = TextOf[p], NEW V, V = Spent(t)'
               PROVE  Cardinality(Taken(status', t)) <= Cardinality(V)
  BY DEF CountOK
<1>3. /\ Spent(t) \in SUBSET V /\ V \in SUBSET Entries' /\ IsFiniteSet(V) /\ IsFiniteSet(Spent(t))
      /\ Cardinality(Taken(status, t)) <= Cardinality(Spent(t))
  <2>1. Spent(t) \in SUBSET V /\ V \in SUBSET Entries' /\ IsFiniteSet(V)
    BY <1>2, SpentStays
  <2>2. QED BY <1>2, <2>1, FS_Subset DEF CountOK
<1>4. ASSUME \A q \in Prompts : status'[q] = "delivered" => status[q] = "delivered"
      PROVE  Cardinality(Taken(status', t)) <= Cardinality(V)
  <2> DEFINE T == Taken(status, t)
             N == Taken(status', t)
  <2>1. N \in SUBSET T /\ T \in SUBSET Prompts /\ \A q \in T : status[q] # "none"
    BY <1>4 DEF Taken
  <2> HIDE DEF T, N
  <2>2. IsFiniteSet(T)
    BY <1>1, <2>1, MadeRanks
  <2>3. IsFiniteSet(N) /\ Cardinality(N) <= Cardinality(T)
    BY <2>1, <2>2, FS_Subset
  <2>4. Cardinality(Spent(t)) <= Cardinality(V)
    BY <1>3, FS_Subset
  <2>5. /\ Cardinality(N) \in Nat /\ Cardinality(T) \in Nat
        /\ Cardinality(Spent(t)) \in Nat /\ Cardinality(V) \in Nat
    BY <1>3, <2>2, <2>3, FS_CardinalityType
  <2>6. Cardinality(T) <= Cardinality(Spent(t))
    BY <1>3 DEF T
  <2>7. Cardinality(N) <= Cardinality(V)
    BY <2>3, <2>4, <2>5, <2>6
  <2>8. QED BY <2>7 DEF N
<1>5. CASE Quiet
  BY <1>4, <1>5 DEF Quiet
<1>6. CASE NewSession \/ sendTranscript
  BY <1>4, <1>6 DEF NewSession, sendTranscript, phone, outbox
<1>7. CASE lost \/ relaunch \/ pair
  <2>1. \A q \in Prompts : \/ status'[q] = status[q]
                           \/ status'[q] \in {"forgotten", "unknown"}
                           \/ Moving(q)'
    BY <1>1, <1>7, Drops
  <2>2. QED BY <1>4, <2>1 DEF Moving
<1>8. ASSUME NEW st \in [Frames -> Statuses],
             \A q \in Prompts : (st[q] = "none" => status[q] = "none") /\ (status[q] = "none" => st[q] = "none")
                                  /\ (st[q] = "delivered" <=> status[q] = "delivered"),
             NEW es \in SUBSET Entries, NEW used, settle(st, es, used), typed' = typed,
             es \subseteq seen', Used(st, es, used) \subseteq delivered',
             \A i \in Used(st, es, used) : i \notin delivered /\ Alive(typed[i].cli)
      PROVE  Cardinality(Taken(status', t)) <= Cardinality(V)
  <2>1. Taken(st, t) = Taken(status, t)
    BY <1>8 DEF Taken
  <2>2. V \in SUBSET Entries
    BY <1>3, <1>8 DEF Entries
  <2>3. UsedFor(st, es, used, t) \subseteq V
    <3>1. Used(st, es, used) \subseteq es
      BY DEF Used
    <3>2. V = {i \in seen' : Says(i)' = t /\ (i \in delivered' \/ ~Alive(typed[i].cli)')}
      BY <1>2, <1>8 DEF Spent
    <3>3. \A i : Says(i)' = Says(i)
      BY <1>8 DEF Says
    <3>4. QED BY <1>8, <3>1, <3>2, <3>3 DEF UsedFor
  <2>4. UsedFor(st, es, used, t) \cap Spent(t) = {}
    BY <1>8 DEF UsedFor, Spent
  <2>5. Cardinality(Taken(st, t)) <= Cardinality(Spent(t)) /\ Spent(t) \in SUBSET V
    BY <1>3, <2>1
  <2>6. \A q \in Prompts : st[q] # "none" => status[q] # "none"
    BY <1>8
  <2>7. QED BY <1>1, <1>8, <2>2, <2>3, <2>4, <2>5, <2>6, SettledCount
<1>9. CASE onAck
  <2>1. PICK st \in [Frames -> Statuses] :
          /\ \A g \in Frames : st[g] = status[g] \/ (status[g] \in InOutbox /\ st[g] \in {"refused", "settled", "acked"})
          /\ \/ settle(st, transcript, delivered)
             \/ status' = st /\ delivered' = delivered
    BY <1>1, <1>9, AckMail
  <2>2. \A q \in Prompts : /\ (st[q] = "none" => status[q] = "none") /\ (status[q] = "none" => st[q] = "none")
                           /\ (st[q] = "delivered" <=> status[q] = "delivered")
    BY <1>1, <2>1 DEF InOutbox
  <2>3. CASE status' = st
    BY <1>4, <2>2, <2>3
  <2>4. CASE settle(st, transcript, delivered)
    <3>1. Used(st, transcript, delivered) \subseteq delivered'
      BY <2>4 DEF settle
    <3>2. \A i \in Used(st, transcript, delivered) : i \in transcript /\ i \notin delivered
      BY DEF Used
    <3>3. UNCHANGED <<screen, typed, cli>>
      BY <1>1, <1>9, AckMail
    <3>4. \A i \in transcript : i \in seen' /\ Alive(typed[i].cli)
      BY <3>3 DEF CliOK, Alive, screen
    <3>5. transcript \in SUBSET Entries /\ typed' = typed
      BY <1>1, <3>3, CliTypes
    <3>6. QED BY <1>8, <2>2, <2>4, <3>1, <3>2, <3>4, <3>5
  <2>5. QED BY <2>1, <2>3, <2>4
<1>10. CASE onTranscript
  <2>1. PICK es \in SUBSET Entries, c \in CliSessions, st \in [Frames -> Statuses], used \in SUBSET delivered :
          /\ inbox[1].cli = c
          /\ knownCli <= c
          /\ \A i \in es : typed[i].cli = c
          /\ \A g \in Frames : st[g] = status[g] \/ (g \in Prompts /\ status[g] = "acked" /\ st[g] = "settled")
          /\ used = IF knownCli # 0 /\ c # knownCli THEN {} ELSE delivered
          /\ settle(st, es, used) /\ delivered' = used \cup Used(st, es, used)
          /\ seen' = seen \cup es
    BY <1>1, <1>10, LastMail
  <2>2. \A q \in Prompts : /\ (st[q] = "none" => status[q] = "none") /\ (status[q] = "none" => st[q] = "none")
                           /\ (st[q] = "delivered" <=> status[q] = "delivered")
    BY <1>1, <2>1
  <2>3. Alive(c) /\ typed' = typed
    BY <1>1, <1>10, <2>1, LastMail DEF Alive
  <2>4. \A i \in Used(st, es, used) : i \in es /\ i \notin used
    BY DEF Used
  <2>5. ASSUME NEW i \in es, i \in delivered PROVE i \in used
    <3>1. c \in Nat /\ knownCli \in Nat
      BY <1>1, CliTypes DEF CliSessions
    <3>2. knownCli # 0 => c <= knownCli
      BY <2>1, <2>5 DEF CliOK
    <3>3. QED BY <2>1, <2>5, <3>1, <3>2
  <2>6. \A i \in Used(st, es, used) : i \notin delivered /\ Alive(typed[i].cli)
    BY <2>1, <2>3, <2>4, <2>5
  <2>7. es \subseteq seen' /\ Used(st, es, used) \subseteq delivered'
    BY <2>1
  <2>8. QED BY <1>8, <2>1, <2>2, <2>3, <2>6, <2>7
<1>11. QED BY <1>5, <1>6, <1>7, <1>9, <1>10, Quiets


TrueAcks == StatusOK /\ CliOK /\ MailOrder /\ CountOK

(* Nothing is acked, shown or delivered at first. *)
LEMMA InitTrueAcks == Init => TrueAcks
<1> SUFFICES ASSUME Init PROVE TrueAcks
  OBVIOUS
<1>1. /\ \A p \in Prompts : status[p] = "none"
      /\ delivered = {} /\ transcript = {} /\ seen = {} /\ knownCli = 0 /\ cli = 1
      /\ inbox = <<>> /\ Entries = {}
  BY DEF Init, Frames, Entries
<1>2. StatusOK
  BY <1>1 DEF StatusOK
<1>3. CliOK /\ MailOrder
  BY <1>1 DEF CliOK, MailOrder
<1>4. CountOK
  <2>1. \A t : Taken(status, t) = {} /\ Spent(t) = {}
    BY <1>1 DEF Taken, Spent
  <2>2. Cardinality({}) = 0
    BY FS_EmptySet
  <2>3. QED BY <2>1, <2>2 DEF CountOK
<1>5. QED BY <1>2, <1>3, <1>4 DEF TrueAcks

(* Kept by every step, and by one that changes nothing. *)
LEMMA TrueAcksKept ==
  ASSUME Once, Ordered, TrueAcks, MaxFrames <= AcksKept, [Next]_vars PROVE TrueAcks'
<1>1. CASE Next
  BY <1>1, StatusKept, MailKept, CountKept DEF TrueAcks
<1>2. CASE UNCHANGED vars
  <2>1. UNCHANGED <<status, delivered, transcript, knownCli, seen, inbox, run, typed, cli>> /\ Entries' = Entries
    BY <1>2 DEF vars, phone, outbox, screen, server, agent, Entries
  <2>2. StatusOK'
    BY <2>1 DEF TrueAcks, StatusOK, Typed, TypedNow
  <2>3. CliOK' /\ MailOrder'
    BY <2>1 DEF TrueAcks, CliOK, MailOrder, Carries
  <2>4. \A t : Taken(status', t) = Taken(status, t) /\ Spent(t)' = Spent(t)
    BY <2>1 DEF Taken, Spent, Says, Alive, Carries
  <2>5. CountOK'
    BY <2>4 DEF TrueAcks, CountOK
  <2>6. QED BY <2>2, <2>3, <2>5 DEF TrueAcks
<1>3. QED BY <1>1, <1>2

(* What the outbox says of a prompt follows from what was acked, shown and counted. *)
LEMMA AcksSpeakTrue == ASSUME Once, TrueAcks PROVE AcksAreTrue
<1>1. TypeOK /\ MadeOK
  BY DEF Once
<1>2. SUFFICES ASSUME NEW p \in Prompts
               PROVE  /\ status[p] \in {"acked", "settled"} => \E i \in Entries : typed[i].frame = p
                      /\ status[p] = "refused" => \A i \in Entries : typed[i].frame = p => typed[i].run < run
                      /\ Cardinality({q \in Prompts : TextOf[q] = TextOf[p] /\ status[q] = "delivered"})
                           <= Cardinality({i \in seen : Says(i) = TextOf[p]})
  BY DEF AcksAreTrue
<1>3. status[p] \in {"acked", "settled"} => \E i \in Entries : typed[i].frame = p
  BY DEF TrueAcks, StatusOK, Typed
<1>4. ASSUME status[p] = "refused", NEW i \in Entries, typed[i].frame = p PROVE typed[i].run < run
  <2>1. typed[i].run # run
    BY <1>4 DEF TrueAcks, StatusOK, TypedNow
  <2>2. typed[i].run \in Nat /\ run \in Nat /\ typed[i].run <= run
    BY <1>1, EntryTypes, Parts DEF Once, RunsOK, MacOK, Runs
  <2>3. QED BY <2>1, <2>2
<1> DEFINE t == TextOf[p]
           V == {i \in seen : Says(i) = t}
           W == Spent(t)
           T == Taken(status, t)
<1>5. W \in SUBSET V /\ V \in SUBSET Entries
  <2>1. seen \subseteq Entries
    BY <1>1, CliTypes
  <2>2. QED BY <2>1 DEF Spent
<1>6. IsFiniteSet(Entries)
  <2>1. Len(typed) \in Nat
    BY <1>1, Parts DEF AgentOK
  <2>2. 1 \in Int /\ Len(typed) \in Int
    BY <2>1
  <2>3. IsFiniteSet(1..Len(typed))
    BY <2>2, FS_Interval
  <2>4. QED BY <2>3 DEF Entries
<1>7. T \in SUBSET Prompts /\ \A q \in T : status[q] # "none"
  BY DEF Taken
<1>8. Cardinality(T) <= Cardinality(W)
  BY DEF TrueAcks, CountOK
<1>9. T = {q \in Prompts : TextOf[q] = TextOf[p] /\ status[q] = "delivered"}
  BY DEF Taken
<1> HIDE DEF V, W, T
<1>10. Cardinality(T) <= Cardinality(V)
  <2>1. IsFiniteSet(T) /\ IsFiniteSet(V) /\ IsFiniteSet(W) /\ Cardinality(W) <= Cardinality(V)
    BY <1>1, <1>5, <1>6, <1>7, MadeRanks, FS_Subset
  <2>2. Cardinality(T) \in Nat /\ Cardinality(V) \in Nat /\ Cardinality(W) \in Nat
    BY <2>1, FS_CardinalityType
  <2>3. QED BY <1>8, <2>1, <2>2
<1>11. QED BY <1>3, <1>4, <1>9, <1>10 DEF V

(* What the outbox says became of a message is what did: taken ones were typed, refused ones not
   by this launch, and no text counts as delivered more often than the transcript showed it; as
   long as the server has room for an ack of every frame. *)
THEOREM AcksHold == ASSUME MaxFrames <= AcksKept PROVE Spec => []AcksAreTrue
<1>1. Init => Once /\ Ordered /\ TrueAcks
  BY InitOnce, InitOrdered, InitTrueAcks
<1>2. Once /\ Ordered /\ TrueAcks /\ [Next]_vars => (Once /\ Ordered /\ TrueAcks)'
  BY OnceKept, OrderedKept, TrueAcksKept
<1>3. Once /\ TrueAcks => AcksAreTrue
  BY AcksSpeakTrue
<1>4. QED BY <1>1, <1>2, <1>3, PTL DEF Spec
=============================================================================
