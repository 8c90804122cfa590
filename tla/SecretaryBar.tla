---------------------------- MODULE SecretaryBar ----------------------------
(***************************************************************************)
(* The secretary bar, at the desk and on a phone: which brief each shows,   *)
(* what it plays, and what that tells the Mac was read.  Both go through    *)
(* the briefs the secretary publishes in one order (secretaryQueue.ts), each *)
(* on its own, from a copy that lags behind.  The builder may have the bar   *)
(* open, play its brief or reply to it while the briefs change.             *)
(*                                                                         *)
(* A brief's seq is also its time: events are counted over all contacts.    *)
(***************************************************************************)
EXTENDS Integers, FiniteSets

CONSTANTS Contacts, None,
          Budgets   \* bounds of each scenario: its devices, events, taps and reads

Devices == {"desk", "phone"}

VARIABLES
  clock, briefs,  \* the Mac's; of each contact
  view,           \* of each device, the briefs it was last told
  bar,            \* of each device, see Init
  reads,          \* (contact, seq) pairs said to be read, on their way to the Mac
  heard,          \* the briefs played to the end or got
  left

vars == <<clock, briefs, view, bar, reads, heard, left>>

NoBrief == [seq |-> 0, kind |-> "finished", handled |-> FALSE, seen |-> FALSE]
NoRef == [of |-> None, seq |-> 0]
Ref(c, b) == [of |-> c, seq |-> b[c].seq]
Refs == [of : Contacts, seq : 1..clock]

Init ==
  /\ left \in Budgets
  /\ clock = 0 /\ briefs = [c \in Contacts |-> NoBrief]
  /\ view = [d \in Devices |-> briefs]
  /\ bar = [d \in Devices |->
              [shown |-> NoRef, open |-> FALSE, replying |-> NoRef,
               loaded |-> NoRef, playing |-> FALSE,     \* the audio element
               request |-> 0, loading |-> 0, fetches |-> {},   \* the desk's fetches of audio
               openId |-> None]]                        \* the phone's session on screen
  /\ reads = {} /\ heard = {}

Spend(what) == left[what] > 0 /\ left' = [left EXCEPT ![what] = @ - 1]

-----------------------------------------------------------------------------
(* secretaryQueue.ts *)

isWaiting(b) == b.seq # 0 /\ ~b.handled /\ (b.kind = "needs-you" \/ ~b.seen)

Waiting(v) == {c \in Contacts : isWaiting(v[c])}

\* briefQueue's order: Needs you first, the oldest first within each.
Before(c, d, v) ==
  IF v[c].kind = v[d].kind THEN v[c].seq < v[d].seq ELSE v[c].kind = "needs-you"

Place(c, v) == Cardinality({d \in Waiting(v) : Before(d, c, v)})

At(n, v) == {Ref(c, v) : c \in {w \in Waiting(v) : Place(w, v) = n}}

latestBrief(v) == {Ref(c, v) : c \in {w \in Contacts : v[w].seq # 0 /\ \A d \in Contacts : v[d].seq <= v[w].seq}}

IsNamed(ref, v) == ref # NoRef /\ v[ref.of].seq = ref.seq

shownBrief(current, v, hold) ==
  IF IsNamed(current, v) /\ (hold \/ isWaiting(v[current.of])) THEN current
  ELSE IF current # NoRef /\ ~IsNamed(current, v) /\ isWaiting(v[current.of])
       THEN Ref(current.of, v)
       ELSE CHOOSE r \in Refs \cup {NoRef} :
              IF At(0, v) # {} THEN r \in At(0, v)
              ELSE IF latestBrief(v) # {} THEN r \in latestBrief(v) ELSE r = NoRef

\* From a brief that isn't waiting, forward goes to the head and back nowhere.
stepBrief(shown, v, delta) ==
  IF IsNamed(shown, v) /\ isWaiting(v[shown.of])
  THEN {r \in UNION {At(n, v) : n \in 0..Cardinality(Contacts)} :
          Place(r.of, v) = Place(shown.of, v) + delta}
  ELSE IF delta = 1 THEN At(0, v) ELSE {}

-----------------------------------------------------------------------------
(* What each device shows after a change: `b` and `v`, from `b0` and `v0` *)

Plays(b, ref) == b.playing /\ b.loaded = ref

Quiet(b) == [b EXCEPT !.loaded = NoRef, !.playing = FALSE]

Loads(b, ref) == \E f \in b.fetches : f.request = b.loading /\ f.ref = ref

Key(b, v) == IF IsNamed(b.shown, v) THEN b.shown ELSE NoRef

\* A brief no longer shown lets go of its audio and of any fetch of it.
DeskSettled(b0, v0, b, v) ==
  LET hold == IsNamed(b.shown, v) /\ (Plays(b, b.shown) \/ Loads(b, b.shown) \/ b.open
                                        \/ b.replying = b.shown)
      next == shownBrief(b.shown, v, hold)
      c == [b EXCEPT !.shown = next, !.open = @ /\ next # NoRef]
  IN IF Key(c, v) = Key(b0, v0) THEN c
     ELSE [(IF c.loaded = Key(b0, v0) THEN Quiet(c) ELSE c) EXCEPT !.request = @ + 1]

\* settleBar, and dispatch, which stops what has left the bar.
PhoneSettled(b0, v0, b, v) ==
  LET busy == b.open \/ (b.shown # NoRef /\ (Plays(b, b.shown) \/ b.replying = b.shown))
      onScreen == b.shown # NoRef /\ b.shown.of = b.openId
      arrived == b.openId # None /\ (b.openId # b0.openId \/ v[b.openId].seq # v0[b.openId].seq)
      next == IF arrived /\ ~busy /\ isWaiting(v[b.openId]) THEN Ref(b.openId, v)
              ELSE shownBrief(b.shown, v, busy \/ onScreen)
      c == [b EXCEPT !.shown = next, !.open = @ /\ next # NoRef]
  IN IF c.playing /\ (c.loaded # next \/ ~IsNamed(next, v)) THEN Quiet(c) ELSE c

Settled(d, b, v) ==
  IF d = "desk" THEN DeskSettled(bar[d], view[d], b, v) ELSE PhoneSettled(bar[d], view[d], b, v)

Becomes(d, b) == bar' = [bar EXCEPT ![d] = Settled(d, b, view[d])]

-----------------------------------------------------------------------------
(* The Mac: what the secretary publishes, as in Secretary *)

Happens(c, kind) ==
  /\ Spend("events")
  /\ clock' = clock + 1
  /\ briefs' = [briefs EXCEPT ![c] = [NoBrief EXCEPT !.seq = clock', !.kind = kind]]
  /\ UNCHANGED <<view, bar, reads, heard>>

\* Its dialog was answered, its session typed in; or the contact removed.
Cleared(c) ==
  /\ briefs[c].seq # 0
  /\ \/ ~briefs[c].handled /\ briefs' = [briefs EXCEPT ![c].handled = TRUE] /\ UNCHANGED left
     \/ Spend("reads") /\ briefs' = [briefs EXCEPT ![c] = NoBrief]
  /\ UNCHANGED <<clock, view, bar, reads, heard>>

\* markSeen: the session was opened or acknowledged.
Seen(c) == IF briefs[c].kind = "finished" /\ briefs[c].seq # 0
           THEN briefs' = [briefs EXCEPT ![c].seen = TRUE] ELSE UNCHANGED briefs

\* The session was acknowledged at the desk.
acknowledge(c) ==
  /\ Spend("reads") /\ Seen(c)
  /\ heard' = heard \cup {briefs[c].seq}
  /\ UNCHANGED <<clock, view, bar, reads>>

\* markSeenAt, and the phone's secretary-seen: only while it is still that brief.
markSeenAt(r) == IF briefs[r.of].seq = r.seq THEN Seen(r.of) ELSE UNCHANGED briefs

secretarySeen(r) ==
  /\ r \in reads
  /\ reads' = reads \ {r}
  /\ markSeenAt(r)
  /\ UNCHANGED <<clock, view, bar, heard, left>>

\* The briefs reach a device: those of any one moment, or of a later one.
Told(d) ==
  /\ view[d] # briefs
  /\ view' = [view EXCEPT ![d] = briefs]
  /\ bar' = [bar EXCEPT ![d] = Settled(d, bar[d], briefs)]
  /\ UNCHANGED <<clock, briefs, reads, heard, left>>

-----------------------------------------------------------------------------
(* The builder *)

Stopped(b) == [b EXCEPT !.playing = FALSE, !.loading = 0, !.request = @ + 1]

\* The desk fetches the audio unless it is loaded; the phone's element loads it.  Whether
\* there is a voice yet is left open.
play(d) ==
  LET b == bar[d] IN
  /\ IsNamed(b.shown, view[d]) /\ Spend("taps")
  /\ Becomes(d, IF d = "phone" \/ b.loaded = b.shown
                THEN [b EXCEPT !.loaded = b.shown, !.playing = TRUE, !.request = @ + 1]
                ELSE [b EXCEPT !.request = @ + 1, !.loading = b.request + 1,
                        !.fetches = @ \cup {[ref |-> b.shown, request |-> b.request + 1]}])
  /\ UNCHANGED <<clock, briefs, view, reads, heard>>

\* (A slip: the audio plays whatever happened since it was asked for.)
AnyFetch(b, f) == TRUE

\* Not stopped, played anew, or moved to another brief since.
StillWanted(b, f) == f.request = b.request

\* getSecretaryAudio answered, with the audio while the Mac still has it.
fetched(f) ==
  LET b == bar["desk"]
      c == [b EXCEPT !.fetches = @ \ {f}, !.loading = IF @ = f.request THEN 0 ELSE @]
  IN /\ f \in b.fetches
     /\ \/ StillWanted(b, f) /\ briefs[f.ref.of].seq = f.ref.seq
           /\ Becomes("desk", [c EXCEPT !.loaded = f.ref, !.playing = TRUE])
        \/ Becomes("desk", c)
     /\ UNCHANGED <<clock, briefs, view, reads, heard, left>>

stop(d) ==
  /\ bar[d].playing \/ bar[d].loading # 0
  /\ Becomes(d, IF d = "phone" THEN Quiet(bar[d]) ELSE Stopped(bar[d]))
  /\ UNCHANGED <<clock, briefs, view, reads, heard, left>>

\* onRead: only of a brief still this device's, and a Finished.
Reads(d, ref) ==
  IF IsNamed(ref, view[d]) /\ view[d][ref.of].kind = "finished"
  THEN reads' = reads \cup {ref} ELSE UNCHANGED reads

\* Played to the end.
ended(d) ==
  /\ bar[d].playing
  /\ heard' = heard \cup {bar[d].loaded.seq}
  /\ Reads(d, bar[d].loaded)
  /\ Becomes(d, IF d = "phone" THEN Quiet(bar[d]) ELSE [bar[d] EXCEPT !.playing = FALSE])
  /\ UNCHANGED <<clock, briefs, view, left>>

gotIt(d) ==
  LET b == bar[d] IN
  /\ IsNamed(b.shown, view[d]) /\ isWaiting(view[d][b.shown.of])
  /\ view[d][b.shown.of].kind = "finished" /\ Spend("taps")
  /\ heard' = heard \cup {b.shown.seq}
  /\ Reads(d, b.shown)
  /\ Becomes(d, [(IF d = "phone" THEN Quiet(b) ELSE Stopped(b)) EXCEPT !.open = FALSE])
  /\ UNCHANGED <<clock, briefs, view>>

\* More, Less, Reply: the panel.
toggle(d) ==
  /\ bar[d].shown # NoRef /\ Spend("taps")
  /\ Becomes(d, [bar[d] EXCEPT !.open = ~@])
  /\ UNCHANGED <<clock, briefs, view, reads, heard>>

step(d, delta) ==
  /\ Spend("taps")
  /\ \E r \in stepBrief(bar[d].shown, view[d], delta) : Becomes(d, [bar[d] EXCEPT !.shown = r])
  /\ UNCHANGED <<clock, briefs, view, reads, heard>>

\* A reply goes to the secretary, and is dealt with.
send(d) ==
  /\ bar[d].open /\ bar[d].replying = NoRef /\ IsNamed(bar[d].shown, view[d])
  /\ view[d][bar[d].shown.of].kind = "needs-you" /\ Spend("taps")
  /\ Becomes(d, [bar[d] EXCEPT !.replying = bar[d].shown])
  /\ UNCHANGED <<clock, briefs, view, reads, heard>>

replied(d) ==
  /\ bar[d].replying # NoRef
  /\ Becomes(d, [bar[d] EXCEPT !.replying = NoRef])
  /\ UNCHANGED <<clock, briefs, view, reads, heard, left>>

\* The phone opens a session, which the Mac takes for read; or goes back to the list.
openSession(c) ==
  /\ "phone" \in left["devices"] /\ bar["phone"].openId # c
  /\ Becomes("phone", [bar["phone"] EXCEPT !.openId = c])
  /\ IF c = None THEN UNCHANGED <<briefs, heard, left>>
     ELSE Spend("reads") /\ Seen(c) /\ heard' = heard \cup {briefs[c].seq}
  /\ UNCHANGED <<clock, view, reads>>

-----------------------------------------------------------------------------
Next ==
  \/ \E c \in Contacts : \/ \E kind \in {"finished", "needs-you"} : Happens(c, kind)
                         \/ Cleared(c) \/ acknowledge(c)
  \/ \E c \in Contacts \cup {None} : openSession(c)
  \/ \E r \in reads : secretarySeen(r)
  \/ \E f \in bar["desk"].fetches : fetched(f)
  \/ \E d \in left["devices"] : \/ Told(d) \/ play(d) \/ stop(d) \/ ended(d) \/ gotIt(d) \/ toggle(d)
                                \/ send(d) \/ replied(d) \/ step(d, 1) \/ step(d, -1)

Spec == Init /\ [][Next]_vars

-----------------------------------------------------------------------------
(* Properties *)

TypeOK ==
  /\ \A c \in Contacts : briefs[c].seq \in 0..clock
  /\ \A d \in Devices : bar[d].shown \in Refs \cup {NoRef} /\ bar[d].loaded \in Refs \cup {NoRef}
  /\ reads \subseteq Refs

Held(d) ==
  LET b == bar[d] IN
  b.open \/ b.playing \/ b.loading # 0 \/ b.replying # NoRef \/ b.shown.of = b.openId

\* What a bar plays is the brief it shows, never one it has moved on from, through late
\* audio, stops and replacements; and a bar nobody is busy with shows a brief that waits
\* while any does (SecretaryBar.tsx, bar.ts).
BarIsTrue ==
  /\ TypeOK
  /\ \A d \in Devices :
       /\ bar[d].playing => bar[d].loaded = bar[d].shown /\ IsNamed(bar[d].shown, view[d])
       /\ Waiting(view[d]) # {} /\ ~Held(d) =>
            IsNamed(bar[d].shown, view[d]) /\ isWaiting(view[d][bar[d].shown.of])

\* A brief counts as read only when the builder heard it out, got it, or opened its
\* session: not because the one it replaced was, while that was on its way (markSeenAt).
ReadAsMeant == \A c \in Contacts : briefs[c].seen => briefs[c].seq \in heard
=============================================================================
