----------------------------- MODULE BriefAudio -----------------------------
(***************************************************************************)
(* How one contact's brief is made and reaches the phone's ear: the turn is *)
(* read, the `claude` CLI writes the brief, the speech server speaks it, the *)
(* phone gets a key to its audio and plays it under that key.  Meanwhile the *)
(* contact's event is replaced, the mode is switched, and the phone comes   *)
(* and goes.                                                               *)
(*                                                                         *)
(* A job is one making of a brief; audio is known by the job it was made    *)
(* in.  The mode off and on again makes a second job of the same event.     *)
(***************************************************************************)
EXTENDS Naturals, Sequences, FiniteSets

CONSTANTS Budgets       \* bounds of each scenario: how often what may happen

VARIABLES
  secretary,  \* the mode, the contact's live event, and its current job, 0 for none
  jobs,       \* every job so far
  mac,        \* the phone link: audio keys, the phone's copy of the audio, the frame last sent
  wire,       \* frames on their way to the phone
  requests,   \* the phone's requests for audio, on their way
  phone,      \* the last frame, the player
  heard,      \* pairs: the job whose card was tapped, the job whose audio played
  left        \* what may still happen

vars == <<secretary, jobs, mac, wire, requests, phone, heard, left>>

NoEvent == [seq |-> 0, kind |-> "finished", prompt |-> FALSE]
NoCopy == [seq |-> 0, adpcm |-> 0, pcm |-> 0]
NoFrame == [on |-> FALSE, seq |-> 0, card |-> "none", url |-> 0, job |-> 0]
NoKey == [url |-> 0, seq |-> 0, device |-> 0, job |-> 0]
Silent == [live |-> FALSE, url |-> 0, pcm |-> FALSE, seq |-> 0, job |-> 0]

Spend(what) == left[what] > 0 /\ left' = [left EXCEPT ![what] = @ - 1]

Init ==
  /\ left \in Budgets
  /\ secretary = [on |-> TRUE, event |-> NoEvent, job |-> 0]
  /\ jobs = <<>>
  /\ mac = [keys |-> {}, minted |-> 0, copy |-> NoCopy, paired |-> 1, linked |-> TRUE,
            frame |-> NoFrame]
  /\ wire = <<>> /\ requests = {}
  /\ phone = [frame |-> NoFrame, player |-> Silent, plays |-> 0, keepsPcm |-> FALSE]
  /\ heard = {}

----------------------------------------------------------------------------
(* What the phone link tells (ws-server.ts, remote-host.ts).               *)

\* The current job's brief, of the jobs js.
Brief(s, js) == IF s.job = 0 THEN [seq |-> 0, card |-> "none"] ELSE js[s.job]

Audible(brief) == brief.card = "ready"

\* Keys for a brief that is no longer the contact's, or has no audio, go.
pruneAudioKeys(m, brief) ==
  [m EXCEPT !.keys = {k \in @ : k.seq = brief.seq /\ Audible(brief)}]

\* One key per phone and brief, made the first time it is asked for.
audioUrl(m, s, brief) ==
  IF ~Audible(brief) \/ \E k \in m.keys : k.device = m.paired /\ k.seq = brief.seq THEN m
  ELSE [m EXCEPT !.minted = @ + 1,
                 !.keys = @ \cup {[url |-> m.minted + 1, seq |-> brief.seq,
                                   device |-> m.paired, job |-> s.job]}]

KeyOf(m, brief) ==
  IF ~Audible(brief) THEN NoKey
  ELSE CHOOSE k \in m.keys : k.device = m.paired /\ k.seq = brief.seq

FrameOf(m, s, brief) ==
  [on |-> s.on, seq |-> brief.seq, card |-> brief.card, url |-> KeyOf(m, brief).url,
   job |-> s.job]

\* The frame, unless the phone has had the same one last.
sendSecretary(m, s, brief) ==
  LET minted == audioUrl(m, s, brief)
      frame == FrameOf(minted, s, brief)
      \* (The frame names no job.)
      same == [frame EXCEPT !.job = 0] = [m.frame EXCEPT !.job = 0]
  IN /\ mac' = [minted EXCEPT !.frame = frame]
     /\ wire' = IF same THEN wire ELSE Append(wire, frame)

(* Slip: with no phone there, there is nobody to tell and nothing to do. *)
ToPhonesOnly(m, s, brief) ==
  IF m.linked THEN sendSecretary(pruneAudioKeys(m, brief), s, brief)
  ELSE mac' = m /\ UNCHANGED wire

broadcastSecretary(m, s, brief) ==
  LET pruned == pruneAudioKeys(m, brief) IN
  IF m.linked THEN sendSecretary(pruned, s, brief) ELSE mac' = pruned /\ UNCHANGED wire

\* The phone's copy of audio that is no longer its brief's goes first.
OnBrief(m, s, brief) ==
  [m EXCEPT !.copy = IF s.on /\ @.seq = brief.seq THEN @ ELSE NoCopy]

\* The secretary is now s, with the jobs js.
Publish(s, js) ==
  /\ secretary' = s /\ jobs' = js
  /\ broadcastSecretary(OnBrief(mac, s, Brief(s, js)), s, Brief(s, js))

----------------------------------------------------------------------------
(* The jobs (secretary/index.ts).                                          *)

\* Aborting stops the CLI, or cancels the request to the speech server; what is being read
\* is left to end.
Aborted(j) ==
  IF j.step = "cli" THEN [j EXCEPT !.aborted = TRUE, !.step = "over", !.termed = (j.child = "up")]
  ELSE IF j.step = "speech" THEN [j EXCEPT !.aborted = TRUE, !.step = "over"]
  ELSE [j EXCEPT !.aborted = TRUE]

DropJob(s, js) == IF s.job = 0 THEN js ELSE [js EXCEPT ![s.job] = Aborted(@)]

NewJob(event) ==
  [seq |-> event.seq, prompt |-> event.prompt, card |-> "preparing", step |-> "read",
   aborted |-> FALSE, child |-> "none", termed |-> FALSE, killed |-> FALSE]

\* A job of an older event is replaced in place.
prepare(s, js) ==
  IF s.event.seq = 0 \/ (s.job # 0 /\ js[s.job].seq >= s.event.seq)
  THEN Publish(s, js)
  ELSE Publish([s EXCEPT !.job = Len(js) + 1], Append(DropJob(s, js), NewJob(s.event)))

onEvent ==
  /\ Spend("events")
  /\ \E kind \in {"finished", "needs-you"}, prompt \in BOOLEAN :
       LET s == [secretary EXCEPT !.event = [seq |-> @.seq + 1, kind |-> kind, prompt |-> prompt]]
       IN /\ prompt => kind = "needs-you"
          /\ IF s.on THEN prepare(s, jobs) ELSE secretary' = s /\ UNCHANGED <<jobs, mac, wire>>
  /\ UNCHANGED <<requests, phone, heard>>

\* Off drops the job; on prepares the live event again.
setMode ==
  /\ Spend("modes")
  /\ IF secretary.on
     THEN Publish([secretary EXCEPT !.on = FALSE, !.job = 0], DropJob(secretary, jobs))
     ELSE prepare([secretary EXCEPT !.on = TRUE], jobs)
  /\ UNCHANGED <<requests, phone, heard>>

Rest == UNCHANGED <<requests, phone, heard>>
Quietly(n, j) ==
  /\ jobs' = [jobs EXCEPT ![n] = j]
  /\ UNCHANGED <<secretary, mac, wire>>

\* A step of a job that is still current is published; one of an earlier job is not.
isCurrent(n) == secretary.job = n

Goes(n, j) ==
  IF isCurrent(n) THEN Publish(secretary, [jobs EXCEPT ![n] = j])
  ELSE Quietly(n, [j EXCEPT !.card = jobs[n].card])

FailedJob(j) == [j EXCEPT !.step = "over", !.card = "failed"]

\* The turn is read, or there is none, or the reader throws.  With nothing since the
\* builder's message only a dialog can be told of.
writeBriefFor(n) ==
  LET j == jobs[n] IN
  /\ j.step = "read"
  /\ \E read \in {"some", "nothing", "throws"}, spawns \in BOOLEAN :
       IF j.aborted THEN Quietly(n, [j EXCEPT !.step = "over"])
       ELSE IF read = "throws" \/ (read = "nothing" /\ ~j.prompt) \/ ~spawns
       THEN Goes(n, FailedJob(j))
       ELSE Quietly(n, [j EXCEPT !.step = "cli", !.child = "up"])
  /\ Rest /\ UNCHANGED left

\* A brief with no speech server is ready without audio.
Written(n, j) ==
  \E answer \in {"bad", "written"}, server \in BOOLEAN :
     Goes(n, IF answer = "bad" THEN FailedJob(j)
             ELSE IF server THEN [j EXCEPT !.step = "speech", !.card = "pending"]
             ELSE [j EXCEPT !.step = "over", !.card = "mute"])

\* The process ends, but what it holds open may outlive it.
ChildExits(n) ==
  /\ jobs[n].child = "up"
  /\ Quietly(n, [jobs[n] EXCEPT !.child = "exited"])
  /\ Rest /\ UNCHANGED left

ChildCloses(n) ==
  /\ jobs[n].child = "exited"
  /\ LET j == [jobs[n] EXCEPT !.child = "closed"] IN
     IF j.step = "cli" THEN Written(n, j) ELSE Quietly(n, j)
  /\ Rest /\ UNCHANGED left

\* It could not be run after all.
ChildError(n) ==
  /\ jobs[n].child = "up" /\ jobs[n].step = "cli"
  /\ Goes(n, FailedJob([jobs[n] EXCEPT !.child = "closed"]))
  /\ Rest /\ UNCHANGED left

\* SIGTERM, unless it is gone already.
stop(j) == [j EXCEPT !.termed = (j.child = "up")]

TimesOut(n) ==
  /\ jobs[n].step = "cli" /\ Spend("timeouts")
  /\ Goes(n, FailedJob(stop(jobs[n])))
  /\ Rest

\* SIGKILL, for one that did not mind.
GraceEnds(n) ==
  /\ jobs[n].termed /\ jobs[n].child = "up" /\ ~jobs[n].killed
  /\ Quietly(n, [jobs[n] EXCEPT !.killed = TRUE])
  /\ Rest /\ UNCHANGED left

\* The server answers with audio, or with anything else, or not in time.
Spoken(n) ==
  /\ jobs[n].step = "speech"
  /\ \E audio \in BOOLEAN :
       Goes(n, [jobs[n] EXCEPT !.step = "over", !.card = IF audio THEN "ready" ELSE "mute"])
  /\ Rest /\ UNCHANGED left

----------------------------------------------------------------------------
(* The phone's link, and its audio over HTTP (ws-server.ts).               *)

\* The socket is gone, and the phone link with it when it is turned off.
Unlinks ==
  /\ mac.linked /\ Spend("drops")
  /\ \E off \in BOOLEAN :
       mac' = [mac EXCEPT !.linked = FALSE, !.keys = IF off THEN {} ELSE @]
  /\ wire' = <<>>
  /\ UNCHANGED <<secretary, jobs, requests, phone, heard>>

\* On hello the phone is sent the secretary whole.
Links ==
  /\ ~mac.linked
  /\ LET brief == Brief(secretary, jobs) IN
     sendSecretary([pruneAudioKeys(mac, brief) EXCEPT !.linked = TRUE, !.frame = NoFrame],
                   secretary, brief)
  /\ UNCHANGED <<secretary, jobs, requests, phone, heard, left>>

\* The phone is unpaired, and pairs anew.
revokeDevice ==
  /\ Spend("pairings")
  /\ mac' = [mac EXCEPT !.keys = {k \in @ : k.device # mac.paired}, !.paired = @ + 1,
                        !.linked = FALSE]
  /\ wire' = <<>>
  /\ phone' = [phone EXCEPT !.frame = NoFrame, !.player = Silent]
  /\ UNCHANGED <<secretary, jobs, requests, heard>>

audioFor(seq) ==
  LET brief == Brief(secretary, jobs)
  IN IF brief.seq = seq /\ brief.card = "ready" THEN secretary.job ELSE 0

Format(pcm) == IF pcm THEN "pcm" ELSE "adpcm"

\* The copy made of this brief's audio in this format, made now if there is none.
secretaryAudio(seq, format) ==
  LET kept == IF mac.copy.seq = seq THEN mac.copy ELSE [NoCopy EXCEPT !.seq = seq]
  IN IF kept[format] # 0 THEN kept ELSE [kept EXCEPT ![format] = audioFor(seq)]

\* What the key is for, checked again; else a 404, whatever the key.
serveAudio(request) ==
  LET for == {k \in mac.keys : k.url = request.url /\ k.device = mac.paired}
      found == {k \in for : audioFor(k.seq) # 0}
  IN IF found = {} THEN [job |-> 0, copy |-> mac.copy]
     ELSE LET copy == secretaryAudio((CHOOSE k \in found : TRUE).seq, Format(request.pcm))
          IN [job |-> copy[Format(request.pcm)], copy |-> copy]

----------------------------------------------------------------------------
(* The phone (store.ts, player.ts).                                        *)

Receives ==
  /\ wire # <<>>
  /\ LET frame == Head(wire)
         gone == phone.player.live /\ frame.seq # phone.player.seq
     IN phone' = [phone EXCEPT !.frame = frame, !.player = IF gone THEN Silent ELSE @]
  /\ wire' = Tail(wire)
  /\ UNCHANGED <<secretary, jobs, mac, requests, heard, left>>

Asks(n, player) == requests' = requests \cup {[play |-> n, url |-> player.url, pcm |-> player.pcm]}

play ==
  /\ mac.linked /\ phone.frame.card = "ready" /\ Spend("taps")
  /\ LET player == [live |-> TRUE, url |-> phone.frame.url, pcm |-> phone.keepsPcm,
                    seq |-> phone.frame.seq, job |-> phone.frame.job]
     IN /\ phone' = [phone EXCEPT !.player = player, !.plays = @ + 1]
        /\ Asks(phone.plays + 1, player)
  /\ UNCHANGED <<secretary, jobs, mac, wire, heard>>

\* Stopped, paused by the lock screen, or played to the end: the audio is let go of.
stopPlaying ==
  /\ phone.player.live
  /\ phone' = [phone EXCEPT !.player = Silent, !.plays = @ + 1]
  /\ UNCHANGED <<secretary, jobs, mac, wire, requests, heard, left>>

\* The player's last play, if the request is its.
Mine(request) == phone.player.live /\ phone.plays = request.play

\* What was asked for plays.
Plays(request, job) ==
  /\ job # 0
  /\ heard' = IF Mine(request) THEN heard \cup {<<phone.player.job, job>>} ELSE heard
  /\ requests' = requests \ {request} /\ UNCHANGED phone

\* Lost on the network, or not to be decoded in this form either.
Fails(request) ==
  /\ phone' = IF Mine(request) THEN [phone EXCEPT !.player = Silent] ELSE phone
  /\ requests' = requests \ {request} /\ UNCHANGED heard

\* What cannot be decoded, an answer of 404 too, is asked for as PCM, which the phone keeps to.
FallsBack(request) ==
  LET player == [phone.player EXCEPT !.pcm = TRUE] IN
  /\ Mine(request) /\ ~request.pcm
  /\ phone' = [phone EXCEPT !.player = player, !.keepsPcm = TRUE]
  /\ requests' = (requests \ {request})
                    \cup {[play |-> request.play, url |-> player.url, pcm |-> TRUE]}
  /\ UNCHANGED heard

Answered ==
  /\ \E request \in requests :
       LET answer == serveAudio(request) IN
       /\ mac' = [mac EXCEPT !.copy = answer.copy]
       /\ Plays(request, answer.job) \/ Fails(request) \/ FallsBack(request)
  /\ UNCHANGED <<secretary, jobs, wire, left>>

Next ==
  \/ onEvent \/ setMode
  \/ \E n \in DOMAIN jobs :
       \/ writeBriefFor(n) \/ ChildExits(n) \/ ChildCloses(n) \/ ChildError(n)
       \/ TimesOut(n) \/ GraceEnds(n) \/ Spoken(n)
  \/ Unlinks \/ Links \/ revokeDevice \/ Receives \/ play \/ stopPlaying \/ Answered

Spec == Init /\ [][Next]_vars

----------------------------------------------------------------------------
(* Properties.                                                             *)

\* What a phone hears is the brief it tapped, never the audio another job made of the same
\* event; no CLI runs on unstopped once nobody waits for what it writes; and a brief in the
\* making is being made (audioUrl, pruneAudioKeys, secretaryAudio; runJsonPrompt's stop; run).
HeardAsTapped ==
  /\ \A pair \in heard : pair[1] = pair[2]
  /\ \A n \in DOMAIN jobs :
       /\ jobs[n].child = "up" /\ jobs[n].step # "cli" => jobs[n].termed
       /\ isCurrent(n) /\ jobs[n].card = "preparing" => jobs[n].step \in {"read", "cli"}
       /\ isCurrent(n) /\ jobs[n].card = "pending" => jobs[n].step = "speech"
=============================================================================
