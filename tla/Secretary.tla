------------------------------ MODULE Secretary ------------------------------
(***************************************************************************)
(* The voice secretary, for one contact: the brief it prepares for each     *)
(* event, the builder's replies on the card of a dialog, and the answers    *)
(* these become (DialogAnswer).  Writing, speaking and reading a reply run   *)
(* beside everything else, and may end after what they were for.            *)
(***************************************************************************)
EXTENDS DialogAnswer, Sequences

CONSTANT MaxModes   \* bound: switches of the mode, of claude's presence
Jobs == 1..MaxSeq + MaxModes

VARIABLES
  saved, on,    \* Secretary Mode, and whether the secretary acts on it
  claude,       \* the claude CLI is installed
  jobs,         \* jobs made so far; the latest is job, if signal is its number
  job,          \* the brief of the contact's latest event, with the marks its card shows
  shown,        \* the card last sent to the window and the phones
  readUpTo,     \* the latest finished event read
  run,          \* by job: the writing or speaking under way, and the event it is about
  talk          \* by job: the reply being read or pressed, and which exchange it is

marks == <<saved, on, claude, jobs>>
secretary == <<marks, job, shown, readUpTo, run, talk, signal>>
vars == <<answerVars, secretary>>

NoJob == None
Settled == {"refused", "failed", "asked", "confirm", "answered", "pressed"}
Cards == [seq : 1..MaxSeq, kind : {"finished", "needs-you"}, text : 0..MaxSeq,
          status : {"preparing", "failed", "pending", "unavailable", "ready"},
          handled : BOOLEAN, seen : BOOLEAN, dialog : Dialogs,
          exchanges : Seq(Settled \cup {"open"})]
Briefs == [seq : 1..MaxSeq, kind : {"finished", "needs-you"}, text : 0..MaxSeq,
           status : {"preparing", "failed", "pending", "unavailable", "ready"},
           handled : BOOLEAN, seen : BOOLEAN, dialog : Dialogs,
           exchanges : Seq(Settled \cup {"open"}), confirming : BOOLEAN]
NoRun == [stage |-> "none", seq |-> 0]
NoTalk == [stage |-> "none", x |-> 0, wide |-> FALSE, call |-> 0]

\* What the card shows of a job.
Card(j) == IF j = NoJob THEN NoJob
           ELSE [seq |-> j.seq, kind |-> j.kind, text |-> j.text, status |-> j.status,
                 handled |-> j.handled, seen |-> j.seen, dialog |-> j.dialog,
                 exchanges |-> j.exchanges]

ASSUME SecretaryAssumption == /\ MaxModes \in Nat /\ \A b \in Budgets : b.modes <= MaxModes
                              /\ NoJob \notin Briefs

SecretaryTypeOK ==
  /\ TypeOK
  /\ saved \in BOOLEAN /\ on \in BOOLEAN /\ claude \in BOOLEAN
  /\ jobs \in Jobs \cup {0} /\ signal \in {0, jobs} /\ (signal = 0) = (job = NoJob)
  /\ job \in Briefs \cup {NoJob}
  /\ shown \in Cards \cup {NoJob} /\ readUpTo \in 0..MaxSeq
  /\ run \in [Jobs -> [stage : {"none", "writing", "speaking"}, seq : 0..MaxSeq]]
  /\ talk \in [Jobs -> [stage : {"none", "reading", "pressing"}, x : Nat, wide : BOOLEAN,
                        call : Calls \cup {0}]]

\* Bound: off where neither replies nor the mode are exercised.
Init ==
  /\ AnswerInit
  /\ saved \in IF budget["replies"] + budget["modes"] = 0 THEN {FALSE} ELSE BOOLEAN
  /\ claude = TRUE /\ on = saved
  /\ jobs = 0 /\ signal = 0 /\ job = NoJob /\ shown = NoJob /\ readUpTo = 0
  /\ run = [n \in Jobs |-> NoRun] /\ talk = [n \in Jobs |-> NoTalk]

-----------------------------------------------------------------------------
(* Jobs *)

publish(j) == job' = j /\ shown' = Card(j)

drop == publish(NoJob) /\ signal' = 0 /\ UNCHANGED <<jobs, run>>

\* A newer event's job replaces the old one, whose signal goes off.
prepare(e) ==
  IF job # NoJob /\ job.seq >= e.seq THEN UNCHANGED <<job, shown, signal, jobs, run>>
  ELSE /\ jobs' = jobs + 1 /\ signal' = jobs'
       /\ publish([seq |-> e.seq, kind |-> e.kind, text |-> 0, status |-> "preparing",
                   handled |-> FALSE, seen |-> e.kind = "finished" /\ readUpTo >= e.seq,
                   dialog |-> e.dialog, exchanges |-> <<>>, confirming |-> FALSE])
       /\ run' = [run EXCEPT ![jobs + 1] = [stage |-> "writing", seq |-> e.seq]]

\* The mode, with the contact's live event.
apply(next, live) ==
  /\ on' = next
  /\ IF next = on \/ (next /\ live = None) THEN UNCHANGED <<job, shown, signal, jobs, run>>
     ELSE IF next THEN prepare(live) ELSE drop

\* (A slip: a card stays open after the terminal answered its dialog.)
LeaveOpen == UNCHANGED <<job, shown>>

markHandled ==
  IF job = NoJob \/ job.handled THEN UNCHANGED <<job, shown>>
  ELSE publish([job EXCEPT !.handled = TRUE])

\* Told of an event, or that it is dealt with. claude is looked for before each brief.
onEvent(e) ==
  /\ IF saved /\ e # None THEN IF claude /\ on THEN prepare(e) /\ UNCHANGED on
                              ELSE apply(claude, e)
     ELSE /\ IF e = None /\ on THEN markHandled ELSE UNCHANGED <<job, shown>>
          /\ UNCHANGED <<on, signal, jobs, run>>
  /\ UNCHANGED <<saved, claude, readUpTo, talk>>

\* Steps of DialogAnswer, and what the secretary makes of the event they raise or clear.
Heard == IF heard' # heard THEN onEvent(heard') ELSE UNCHANGED secretary

-----------------------------------------------------------------------------
(* The mode, reading, removal *)

setMode ==
  /\ Spend("modes")
  /\ saved' = ~saved
  /\ apply(saved' /\ claude, heard)
  /\ UNCHANGED <<backend, records, event, writes, attention, answering, runState, calls,
                 stops, stopping, claude, readUpTo, talk>>

installed ==
  /\ Spend("modes")
  /\ claude' = ~claude
  /\ UNCHANGED <<backend, records, event, writes, attention, answering, runState, calls,
                 stops, stopping, saved, on, jobs, job, shown, readUpTo, run, talk, signal>>

\* The settings, or a phone that looks at its switch.
checkClaude ==
  /\ on # (saved /\ claude)
  /\ apply(saved /\ claude, heard)
  /\ UNCHANGED <<answerVars, saved, claude, readUpTo, talk>>

Later(q) == IF readUpTo < q THEN q ELSE readUpTo

\* Its session is opened, or the bar read its finished brief.
markSeen ==
  /\ instances # 0 /\ Spend("reads")
  /\ \/ /\ job # NoJob /\ job.kind = "finished"
        /\ readUpTo' = Later(job.seq)
        /\ IF job.seen THEN UNCHANGED <<job, shown>> ELSE publish([job EXCEPT !.seen = TRUE])
     \/ /\ job = NoJob /\ heard # None /\ heard.kind = "finished"
        /\ readUpTo' = Later(heard.seq) /\ UNCHANGED <<job, shown>>
  /\ UNCHANGED <<backend, records, event, writes, attention, answering, runState, calls,
                 stops, stopping, marks, run, talk, signal>>

\* The contact goes, and its brief with it.
forget ==
  /\ removeInstance
  /\ drop
  /\ readUpTo' = 0
  /\ UNCHANGED <<saved, on, claude, talk>>

-----------------------------------------------------------------------------
(* run: writing the brief, then speaking it *)

\* (A slip: whatever comes is published.)
AnyJob(n) == job # NoJob
isCurrent(n) == n = signal

written(n) ==
  /\ run[n].stage = "writing"
  /\ \/ ~isCurrent(n) /\ UNCHANGED <<job, shown>> /\ run' = [run EXCEPT ![n] = NoRun]
     \/ \E status \in {"failed", "unavailable", "pending"} :
          /\ isCurrent(n)
          /\ publish([job EXCEPT !.status = status,
                                 !.text = IF status = "failed" THEN 0 ELSE run[n].seq])
          /\ run' = [run EXCEPT ![n] = IF status = "pending" THEN [@ EXCEPT !.stage = "speaking"]
                                       ELSE NoRun]
  /\ UNCHANGED <<answerVars, marks, readUpTo, talk, signal>>

spoken(n) ==
  /\ run[n].stage = "speaking"
  /\ \/ ~isCurrent(n) /\ UNCHANGED <<job, shown>>
     \/ \E status \in {"unavailable", "ready"} :
          isCurrent(n) /\ publish([job EXCEPT !.status = status, !.text = run[n].seq])
  /\ run' = [run EXCEPT ![n] = NoRun]
  /\ UNCHANGED <<answerVars, marks, readUpTo, talk, signal>>

-----------------------------------------------------------------------------
(* reply *)

settle(j, x, outcome) == [j EXCEPT !.exchanges[x] = outcome]

busy == \E x \in DOMAIN job.exchanges : job.exchanges[x] = "open"

\* The reply's choice goes to the dialog; its first key may clear the event.
pressFor(j, x, plan, wide) ==
  \E c \in Calls :
    /\ answerDialog(c, j.seq, plan, signal)
    /\ publish(IF heard' # heard THEN [j EXCEPT !.handled = TRUE] ELSE j)
    /\ talk' = [talk EXCEPT ![signal] = [stage |-> "pressing", x |-> x, wide |-> wide, call |-> c]]

\* (A slip: a question asked earlier can still be confirmed.)
KeepConfirming(j) == j
Unconfirmed(j) == [j EXCEPT !.confirming = FALSE]

\* A reply on the card; yes: it is a plain yes.
reply(yes) ==
  /\ job # NoJob /\ Spend("replies")
  /\ LET x == Len(job.exchanges) + 1
         j == [job EXCEPT !.exchanges = Append(@, "open")]
     IN \/ /\ busy \/ job.handled \/ job.dialog = None
           /\ publish(settle(j, x, "refused"))
           /\ UNCHANGED <<untyped, answering, calls, on, talk, signal>>
        \/ /\ ~busy /\ ~job.handled /\ job.dialog # None
           /\ IF yes /\ job.confirming
              THEN /\ \E plan \in {p \in Plans(job.dialog) : ~p.followUp} :
                        pressFor(Unconfirmed(j), x, plan, TRUE)
                   /\ UNCHANGED <<on, signal, secretarySeq>>
              ELSE /\ IF claude
                      THEN /\ publish(Unconfirmed(j))
                           /\ talk' = [talk EXCEPT ![signal] =
                                [stage |-> "reading", x |-> x, wide |-> FALSE, call |-> 0]]
                           /\ UNCHANGED <<on, signal>>
                      ELSE /\ publish(NoJob) /\ signal' = 0 /\ on' = FALSE /\ UNCHANGED talk
                   /\ UNCHANGED <<untyped, answering, calls>>
  /\ UNCHANGED <<backend, records, attention, stops, stopping, saved, claude, jobs,
                 readUpTo, run>>

\* What the model made of the reply. A wider choice is asked about first.
interpreted(n) ==
  LET x == talk[n].x
      told(outcomes) == \E outcome \in outcomes : publish(settle(job, x, outcome))
  IN
  /\ talk[n].stage = "reading"
  /\ \/ /\ ~isCurrent(n) /\ UNCHANGED <<job, shown>>
     \/ /\ isCurrent(n)
        /\ \/ told(IF job.handled THEN {"failed", "refused"}
                   ELSE {"failed", "refused", "asked", "answered"})
           \/ /\ ~job.handled /\ job.dialog = "permission"
              /\ publish([settle(job, x, "confirm") EXCEPT !.confirming = TRUE])
  /\ talk' = [talk EXCEPT ![n] = NoTalk]
  /\ UNCHANGED <<answerVars, marks, readUpTo, run, signal>>

chosen(n) ==
  /\ talk[n].stage = "reading" /\ isCurrent(n) /\ ~job.handled
  /\ \E plan \in Plans(job.dialog) : pressFor(job, talk[n].x, plan, FALSE)
  /\ UNCHANGED <<backend, records, secretarySeq, attention, stops, stopping, budget, marks,
                 readUpTo, run, signal>>

\* The answer ended; a job that is gone says nothing more.
pressed(n) ==
  LET cl == calls[talk[n].call] IN
  /\ talk[n].stage = "pressing" /\ cl.stage = "done"
  /\ IF isCurrent(n)
     THEN publish(settle(job, talk[n].x, IF cl.outcome = "ok" THEN "pressed" ELSE "refused"))
     ELSE UNCHANGED <<job, shown>>
  /\ talk' = [talk EXCEPT ![n] = NoTalk]
  /\ UNCHANGED <<answerVars, marks, readUpTo, run, signal>>

Mode == setMode \/ installed \/ checkClaude \/ markSeen \/ forget
Job == \E n \in Jobs : written(n) \/ spoken(n) \/ interpreted(n) \/ chosen(n) \/ pressed(n)
Next == (AnswerNext /\ Heard) \/ Mode \/ Job \/ (\E yes \in BOOLEAN : reply(yes))

Spec == Init /\ [][Next]_vars

\* Every wait has a timer, and what runs beside is given up after a time.
Fairness ==
  /\ \A c \in Calls : WF_vars((pressNext(c) \/ followUp(c) \/ recorded(c) \/ asked(c)) /\ Heard)
  /\ \A n \in Jobs : WF_vars(written(n)) /\ WF_vars(spoken(n))
                     /\ WF_vars(interpreted(n)) /\ WF_vars(pressed(n))
FairSpec == Spec /\ Fairness

-----------------------------------------------------------------------------
(* Properties *)

\* The card last sent is that of the current job, with every mark it has got since, and its
\* text is about the card's own event: nothing an older job's writer, speaker or reply ends
\* with is shown in its place (publish, isCurrent).  What was read stays read, though the mode
\* was off then or goes off and on again (readUpTo, prepare).
CardIsTrue ==
  /\ shown = Card(job)
  /\ job # NoJob =>
       /\ job.text \in {0, job.seq}
       /\ job.kind = "finished" /\ readUpTo >= job.seq => job.seen

\* While the secretary is on, the event that waits for the builder has its brief, and a
\* brief not marked handled is of an event that waits (onEvent, apply, markHandled); and what
\* quitting asks about agrees with the event (RunStateTracker).
BriefsFollowEvents ==
  LET live == IF instances = 0 THEN None ELSE secretaryEvent[instances] IN
  /\ RunStateAgrees
  /\ on => IF live # None THEN job # NoJob /\ job.seq = live.seq /\ ~job.handled
           ELSE job # NoJob => job.handled

\* One reply is worked on at a time, so no two answers of the secretary are under way for
\* one card (reply's busy), nor are two of anybody's typed into one dialog (answerDialog).
\* A choice that widens what the agent may do is pressed only on a reply right after the
\* question that asks for it, replies refused as busy aside (confirming).
RepliesAreMeant ==
  /\ SecretaryTypeOK
  /\ OneAnswerPerDialog
  /\ job # NoJob => Cardinality({x \in DOMAIN job.exchanges : job.exchanges[x] = "open"}) <= 1
  /\ \A n \in Jobs :
       /\ Cardinality({c \in Calls : calls[c].by = n /\ calls[c].stage \in Pressed}) <= 1
       /\ talk[n].stage = "pressing" /\ talk[n].wide /\ isCurrent(n) =>
            \E i \in 1..talk[n].x - 1 :
              /\ job.exchanges[i] = "confirm"
              /\ \A k \in i + 1..talk[n].x - 1 : job.exchanges[k] = "refused"

\* No card stays on "preparing", no reply on being worked on, and no answer under way, for
\* ever (run, reply, answerDialog).
NothingHangs ==
  /\ job # NoJob /\ job.status = "preparing" ~> job = NoJob \/ job.status # "preparing"
  /\ job # NoJob /\ busy ~> job = NoJob \/ ~busy
  /\ AnswersEnd
=============================================================================
