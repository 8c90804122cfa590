--------------------------- MODULE SpeechSettings ---------------------------
(***************************************************************************)
(* Secretary Mode and the speech server: what is saved of them on disk, the *)
(* section of the toolbox that shows and changes it, and the requests that  *)
(* carry the server's key.  A write to the disk may fail at any step, may   *)
(* leave a settings file nobody can read, and the app may be gone after it. *)
(*                                                                         *)
(* A key is known by the origin it was typed for.                           *)
(***************************************************************************)
EXTENDS Naturals, Sequences

CONSTANTS Addresses,    \* [origin, form, engine] of each address the builder may type
          Nowhere,      \* the origin of an address that is none
          Budgets       \* bounds of each scenario: how often what may happen

VARIABLES
  file,       \* settings.json: [url, mode]; or Torn, which reads as the defaults
  key,        \* the key's file: the origin it was typed for, or NoKey
  secretary,  \* its mode as it has it, whether it is on, and whether `claude` was last there
  claude,     \* whether the `claude` CLI is installed
  page,       \* the toolbox's section
  asked,      \* calls on their way to the main process, in order
  answers,    \* answers and events on their way to the page, in order
  test,       \* the test under way in the main process, or NoTest
  sent,       \* every request made: where to, and the key it carried
  lost,       \* a save left the file unreadable since the launch
  ahead,      \* a save that failed moved the address all the same, since the launch
  left        \* what may still happen

vars == <<file, key, secretary, claude, page, asked, answers, test, sent, lost, ahead, left>>

NoKey == "no-key"
Blank == [origin |-> Nowhere, form |-> "plain", engine |-> "none"]
Defaults == [url |-> Blank, mode |-> FALSE]
Torn == [url |-> Blank, mode |-> FALSE, torn |-> TRUE]
NoTest == [step |-> "none", url |-> Blank, key |-> NoKey]
NoLine == [result |-> "none", url |-> Blank]

Typed == {"none", "good", "bad"}      \* the key field: empty, a key, one with a space in it
Unread == [read |-> FALSE, url |-> Blank, mode |-> FALSE, hasKey |-> FALSE, found |-> TRUE]

Spend(what) == left[what] > 0 /\ left' = [left EXCEPT ![what] = @ - 1]

----------------------------------------------------------------------------
(* settings-store.ts                                                       *)

loadSettings(f) == IF f = Torn THEN Defaults ELSE f

\* A pasted address ends in /v1 or carries a query; what is kept of it does not.
normalizeServerUrl(url) == [url EXCEPT !.form = "plain"]

serverOrigin(url) == url.origin

\* What a save that fails halfway makes of the file.
NotSaved(f) == {f, Torn}

movesOrigin(url) == serverOrigin(url) # serverOrigin(loadSettings(file).url)

\* Where a save of the server may end: refused or failed at one of its steps, or done.
Ends == {"remove", "save", "write", "done"}

(* Slip: the new key is on disk before the address it belongs to. *)
KeyFirst(url, change, end) ==
  /\ key' = IF change = "good" /\ end # "remove" THEN serverOrigin(url)
            ELSE IF (change = "clear" \/ movesOrigin(url)) /\ end # "remove" THEN NoKey ELSE key
  /\ CASE end = "remove" -> file' = file
       [] end \in {"save", "write"} -> file' \in NotSaved(file)
       [] end = "done" -> file' = [loadSettings(file) EXCEPT !.url = normalizeServerUrl(url)]

\* The old key goes first, then the address moves, then the new key is written.
setSpeechServer(url, change, end) ==
  /\ key' = IF end = "done" /\ change = "good" THEN serverOrigin(url)
            ELSE IF (change = "clear" \/ movesOrigin(url)) /\ end # "remove" THEN NoKey ELSE key
  /\ CASE end = "remove" -> file' = file
       [] end = "save" -> file' \in NotSaved(file)
       [] end \in {"write", "done"} ->
            file' = [loadSettings(file) EXCEPT !.url = normalizeServerUrl(url)]

\* (The new state's.)
loadSecretarySettings(f, k, s) ==
  [read |-> TRUE, url |-> loadSettings(f).url, mode |-> loadSettings(f).mode,
   hasKey |-> k # NoKey, found |-> s.found]

----------------------------------------------------------------------------
(* The main process, each call in one step                                 *)

\* Looks for `claude`, and turns the secretary on or off to match.
checkClaude(mode) == [saved |-> mode, on |-> mode /\ claude, found |-> claude]

Looked == checkClaude(secretary.saved)
Off(s) == [s EXCEPT !.saved = FALSE, !.on = FALSE]

\* The page hears of every change of what the secretary does, ahead of the call's answer.
Event(s) == IF s.on # secretary.on THEN <<[type |-> "mode-event"]>> ELSE <<>>

Saved == [type |-> "settings", why |-> "saved", now |-> loadSecretarySettings(file', key', secretary')]
Rejected(why) == [type |-> "rejected", why |-> why]
Answer(a) == answers' = answers \o Event(secretary') \o <<a>>

getSettings(why) ==
  /\ secretary' = Looked
  /\ UNCHANGED <<file, key, lost, ahead, left>>
  /\ Answer([Saved EXCEPT !.why = why])

\* Saved as asked even without `claude`; a save that throws changes nothing else.
switchMode(mode, why) ==
  \/ /\ file' = [loadSettings(file) EXCEPT !.mode = mode]
     /\ secretary' = checkClaude(mode)
     /\ UNCHANGED <<key, lost, ahead, left>>
     /\ Answer([Saved EXCEPT !.why = why])
  \/ /\ Spend("fails")
     /\ file' \in NotSaved(file) /\ lost' = (lost \/ file' = Torn)
     /\ UNCHANGED <<key, secretary, ahead>>
     /\ Answer(Rejected("mode"))

\* A save that throws is not heard of by the page, nor is the address that moved before it.
setServer(call) ==
  \E end \in Ends :
     LET done == end = "done" IN
     /\ IF done THEN UNCHANGED left ELSE Spend("fails")
     /\ end = "write" => call.change = "good"
     /\ IF call.change = "bad" THEN end = "remove" /\ UNCHANGED <<file, key>>
        ELSE setSpeechServer(call.url, call.change, end)
     /\ lost' = (lost \/ file' = Torn)
     /\ ahead' = (ahead \/ (~done /\ loadSettings(file').url # loadSettings(file).url))
     /\ secretary' = IF done THEN Looked ELSE secretary
     /\ Answer(IF done THEN [Saved EXCEPT !.why = call.why] ELSE Rejected(call.why))

\* An address with no engine: none, no web address, plain http to another computer, or a model
\* of Cloudflare's that is not the one supported.
NoEngine(url) == url.engine \in {"none", "refused"}

\* A bearer key goes where the server is, and a request is never redirected.
Request(url, k) == sent' = sent \cup {[to |-> url.origin, key |-> k]}

Result(what, url) == [type |-> "test", why |-> "test", result |-> what, url |-> url]

\* No engine: nothing is asked.  Otherwise the health of a server that has one, with no key.
testServer ==
  LET url == loadSettings(file).url
  IN IF NoEngine(url)
     THEN answers' = Append(answers, Result("address", url)) /\ UNCHANGED <<test, sent>>
     ELSE /\ test' = [step |-> IF url.engine = "openai" THEN "health" ELSE "speech",
                      url |-> url, key |-> key]
          /\ Request(url, IF url.engine = "openai" THEN NoKey ELSE key)
          /\ UNCHANGED answers

Handle ==
  /\ asked # <<>>
  /\ asked' = Tail(asked)
  /\ LET call == Head(asked) IN
     CASE call.call = "get" -> getSettings(call.why) /\ UNCHANGED <<test, sent>>
       [] call.call = "mode" -> switchMode(call.mode, "mode") /\ UNCHANGED <<test, sent>>
       [] call.call = "server" -> setServer(call) /\ UNCHANGED <<test, sent>>
       [] call.call = "test" -> testServer /\ UNCHANGED <<file, key, secretary, lost, ahead, left>>
  /\ UNCHANGED <<claude, page>>

\* The server answers its health, or there is nothing there; then the sentence is spoken.
TestSteps ==
  /\ test # NoTest
  /\ \E ok \in BOOLEAN :
       IF test.step = "health" /\ ok
       THEN /\ test' = [test EXCEPT !.step = "speech"]
            /\ Request(test.url, test.key)
            /\ UNCHANGED answers
       ELSE /\ test' = NoTest
            /\ answers' = Append(answers, Result(IF ok THEN "ok" ELSE test.step, test.url))
            /\ UNCHANGED sent
  /\ UNCHANGED <<file, key, secretary, claude, page, asked, lost, ahead, left>>

\* A brief is spoken, by the server as it is saved now.
synthesize ==
  /\ secretary.on /\ ~NoEngine(loadSettings(file).url)
  /\ Request(loadSettings(file).url, key)
  /\ UNCHANGED <<file, key, secretary, claude, page, asked, answers, test, lost, ahead, left>>

\* A phone's switch, which does not turn it on without `claude`.
PhoneSwitches ==
  /\ Spend("phone")
  /\ \E mode \in BOOLEAN :
       /\ IF mode /\ ~claude THEN secretary' = Looked /\ UNCHANGED file
          ELSE /\ file' = [loadSettings(file) EXCEPT !.mode = mode]
               /\ secretary' = IF mode THEN checkClaude(TRUE) ELSE Off(secretary)
       /\ answers' = answers \o Event(secretary')
  /\ UNCHANGED <<key, claude, page, asked, test, sent, lost, ahead>>

\* Before each brief it is looked for again, while the mode is on.
BriefLooks ==
  /\ secretary.saved /\ secretary # checkClaude(TRUE)
  /\ secretary' = checkClaude(TRUE)
  /\ answers' = answers \o Event(secretary')
  /\ UNCHANGED <<file, key, claude, page, asked, test, sent, lost, ahead, left>>

ClaudeComesOrGoes ==
  /\ Spend("claude")
  /\ claude' = ~claude
  /\ UNCHANGED <<file, key, secretary, page, asked, answers, test, sent, lost, ahead>>

----------------------------------------------------------------------------
(* SecretarySection.tsx                                                    *)

Closed == [open |-> FALSE, saved |-> Unread, url |-> Blank, key |-> "none", modeBusy |-> FALSE,
           busy |-> "none", line |-> NoLine]

Get(why) == [call |-> "get", why |-> why]
Ask(call) == asked' = Append(asked, call)
Page == UNCHANGED <<file, key, secretary, claude, answers, test, sent, lost, ahead>>

claudeMissing == page.saved.read /\ ~page.saved.found
modeOn == page.saved.mode /\ ~claudeMissing
dirty == page.saved.read /\ (page.url # page.saved.url \/ page.key # "none")

\* Read again on every expand.
Toggle ==
  /\ Spend("toggles")
  /\ page' = [page EXCEPT !.open = ~@]
  /\ IF page.open THEN UNCHANGED asked ELSE Ask(Get("open"))
  /\ Page

\* The window comes back to the front while `claude` is missing.
LookAgain ==
  /\ page.open /\ claudeMissing /\ asked = <<>> /\ answers = <<>>
  /\ Ask(Get("again"))
  /\ page' = page /\ UNCHANGED left /\ Page

Enabled == page.open /\ page.saved.read /\ page.busy = "none"

\* An edit makes the last test's line about settings that are no longer shown.
Edit ==
  /\ Enabled /\ Spend("edits")
  /\ \/ \E url \in Addresses \cup {Blank} : page' = [page EXCEPT !.url = url, !.line = NoLine]
     \/ \E k \in Typed : page' = [page EXCEPT !.key = k, !.line = NoLine]
  /\ UNCHANGED asked /\ Page

Start(what) == page' = [page EXCEPT !.busy = what, !.line = NoLine]

saveServer(why) ==
  [call |-> "server", why |-> why, url |-> page.url,
   change |-> IF page.key = "none" THEN "unchanged" ELSE page.key]

save == Enabled /\ dirty /\ Start("save") /\ Ask(saveServer("save")) /\ UNCHANGED left /\ Page

\* Main tests what is saved, so what was edited is saved first.
TestSaved == Ask(IF dirty THEN saveServer("test") ELSE [call |-> "test"])

PressTest == Enabled /\ Spend("tests") /\ Start("test") /\ TestSaved /\ Page

\* The key alone, whatever is in the address's field.
clearKey ==
  /\ Enabled /\ page.saved.hasKey /\ Start("clear")
  /\ Ask([call |-> "server", why |-> "clear", url |-> page.saved.url, change |-> "clear"])
  /\ UNCHANGED left /\ Page

toggleMode ==
  /\ page.open /\ page.saved.read /\ ~page.modeBusy /\ ~claudeMissing /\ Spend("modes")
  /\ page' = [page EXCEPT !.modeBusy = TRUE]
  /\ Ask([call |-> "mode", mode |-> ~page.saved.mode])
  /\ Page

\* What is saved replaces the fields when they were saved or the section just opened; else
\* what is being typed stays.
applySaved(now) == [page EXCEPT !.saved = now, !.url = now.url, !.key = "none"]

Applied(now, why) ==
  CASE why = "again" -> [page EXCEPT !.saved = now]
    [] why = "mode" -> [page EXCEPT !.saved = now, !.modeBusy = FALSE]
    [] why \in {"open", "test"} -> applySaved(now)
    [] why = "save" -> [applySaved(now) EXCEPT !.busy = "none"]
    [] why = "clear" -> [page EXCEPT !.saved = now, !.key = "none", !.busy = "none"]

Settled(answer) ==
  CASE answer.type = "mode-event" -> page
    [] answer.type = "rejected" ->
         IF answer.why = "mode" THEN [page EXCEPT !.modeBusy = FALSE]
         ELSE [page EXCEPT !.busy = "none"]
    [] answer.type = "test" ->
         [page EXCEPT !.busy = "none", !.line = [result |-> answer.result, url |-> answer.url]]
    [] answer.type = "settings" -> Applied(answer.now, answer.why)

\* A test goes on once its edits are saved; a mode that changed is read again.
GoesOn(answer) ==
  \/ answer.type = "settings" /\ answer.why = "test"
  \/ answer.type = "mode-event" /\ page.open

Receives ==
  /\ answers # <<>>
  /\ LET answer == Head(answers) IN
     /\ page' = Settled(answer)
     /\ IF GoesOn(answer)
        THEN Ask(IF answer.type = "settings" THEN [call |-> "test"] ELSE Get("again"))
        ELSE UNCHANGED asked
  /\ answers' = Tail(answers)
  /\ UNCHANGED <<file, key, secretary, claude, test, sent, lost, ahead, left>>

----------------------------------------------------------------------------

Unstarted == [saved |-> FALSE, on |-> FALSE, found |-> TRUE]

\* The app is started; the one before was quit, or died in the middle of a save.
Launch ==
  /\ Spend("launches")
  /\ secretary' = IF loadSettings(file).mode THEN checkClaude(TRUE) ELSE Unstarted
  /\ page' = Closed /\ asked' = <<>> /\ answers' = <<>> /\ test' = NoTest
  /\ lost' = (file = Torn) /\ ahead' = FALSE
  /\ UNCHANGED <<file, key, claude, sent>>

Init ==
  /\ left \in Budgets
  /\ file = Defaults /\ key = NoKey /\ claude = TRUE
  /\ secretary = Unstarted
  /\ page = Closed /\ asked = <<>> /\ answers = <<>> /\ test = NoTest /\ sent = {}
  /\ lost = FALSE /\ ahead = FALSE

Next ==
  \/ Handle \/ TestSteps \/ synthesize \/ PhoneSwitches \/ BriefLooks \/ ClaudeComesOrGoes
  \/ Toggle \/ LookAgain \/ Edit \/ save \/ PressTest \/ clearKey \/ toggleMode
  \/ Receives \/ Launch

Spec == Init /\ [][Next]_vars

----------------------------------------------------------------------------
(* Properties.                                                             *)

\* A key reaches no server but the one it was typed for, whatever save failed or was cut off
\* on the way.  Unless a save left the file unreadable: a test's result is about the fields as
\* they read, unless a save that failed had moved the address by then, and once everything has
\* arrived the switch says what the secretary does
\* (KeyStaysHome is about setSpeechServer, and the section's test, toggleMode and
\* onSecretaryMode).
KeyStaysHome ==
  /\ \A request \in sent : request.key \in {NoKey, request.to}
  /\ page.open /\ page.line # NoLine /\ ~lost /\ ~ahead =>
       page.key = "none" /\ normalizeServerUrl(page.url) = normalizeServerUrl(page.line.url)
  /\ page.open /\ page.saved.read /\ asked = <<>> /\ answers = <<>> /\ ~lost =>
       modeOn = secretary.on
=============================================================================
