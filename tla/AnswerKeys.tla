----------------------------- MODULE AnswerKeys -----------------------------
(***************************************************************************)
(* The keys an answer to a Claude dialog takes, and what the dialog makes   *)
(* of them.  The choice is the model's reading of the builder's words, held *)
(* to the dialog by checkChoice; the dialog is the CLI's, as it was measured *)
(* key by key.                                                              *)
(***************************************************************************)
EXTENDS Naturals, Sequences, FiniteSets, SequencesExt

CONSTANTS MaxQuestions, MaxOptions,
          Picks         \* the lists of option numbers the model may name

VARIABLES
  dialog,       \* the dialog on screen
  plan,         \* the keys to write, or <<>> and the reason there are none
  meant,        \* what the choice means: an effect, or each question's answer
  at,           \* keys written
  box           \* the CLI's dialog: the question it shows, its cursor, what is ticked, the
                \* answers so far, the effect taken and whether it closed

keyVars == <<dialog, plan, meant, at, box>>

PermissionShapes == {<<"allow-once", "allow-always", "deny">>, <<"allow-once", "deny">>}
PlanOptions == <<"approve-auto", "approve", "revise">>
Escalating == {"allow-always", "approve-auto"}
Effects == {"allow-once", "allow-always", "deny", "approve", "approve-auto", "revise"}

\* A preview is shown for single-select questions only.
Questions == [multi : BOOLEAN, preview : BOOLEAN, count : 1..MaxOptions]
             \ [multi : {TRUE}, preview : {TRUE}, count : 1..MaxOptions]
DialogsToAnswer ==
  {[kind |-> "permission", options |-> o] : o \in PermissionShapes}
  \cup {[kind |-> "plan", options |-> PlanOptions]}
  \cup {[kind |-> "questions", options |-> q] : q \in BoundedSeq(Questions, MaxQuestions) \ {<<>>}}

Answers == [question : 1..MaxQuestions, picks : Picks, text : BOOLEAN]
ChoicesFor(d) ==
  IF d.kind = "questions" THEN BoundedSeq(Answers, MaxQuestions)
  ELSE [effect : Effects, feedback : BOOLEAN, explicit : BOOLEAN, confirmed : BOOLEAN]

-----------------------------------------------------------------------------
(* checkChoice *)

Key(n) == <<"digit", n>>
Down == <<"down", 0>>
Enter == <<"enter", 0>>
Text == <<"text", 0>>
Downs(n) == [i \in 1..n |-> Down]
Refuse(why) == [ok |-> FALSE, keys |-> <<>>, why |-> why]
Press(keys) == [ok |-> TRUE, keys |-> keys, why |-> ""]

\* A choice that widens what the agent may do only goes in confirmed.
checkEffect(d, choice) ==
  LET at1 == {i \in DOMAIN d.options : d.options[i] = choice.effect}
      index == CHOOSE i \in at1 : TRUE
  IN IF at1 = {} THEN Refuse("bad-choice")
     ELSE IF choice.effect \in Escalating /\ ~choice.confirmed
     THEN Refuse(IF choice.explicit THEN "confirm" ELSE "which")
     ELSE IF choice.effect = "revise"
     THEN IF choice.feedback THEN Press(<<Key(index), Text, Enter>>) ELSE Refuse("what-to-change")
     ELSE Press(<<Key(index)>>)

\* One answer for every question, of options it has: one, and no text beside a preview,
\* unless several may be picked.
Chosen(a) == Cardinality(Range(a.picks)) + (IF a.text THEN 1 ELSE 0)

BadPicks(q, a) ==
  \/ Cardinality(Range(a.picks)) # Len(a.picks)
  \/ \E p \in Range(a.picks) : p \notin 1..q.count
  \/ Chosen(a) # 0 /\ ~q.multi /\ Chosen(a) # 1
  \/ q.preview /\ a.text

InOrder(picks) == SetToSortSeq(Range(picks), LAMBDA m, n : m < n)

\* (A slip: one row short of the button.)
ShortOfNext(q, a) ==
  LET ticks == [i \in DOMAIN InOrder(a.picks) |-> Key(InOrder(a.picks)[i])] IN
  IF q.preview THEN Downs(a.picks[1] - 1) \o <<Enter>>
  ELSE IF q.multi
  THEN ticks \o (IF a.text THEN Downs(q.count) \o <<Text, Down>> ELSE Downs(q.count)) \o <<Enter>>
  ELSE IF a.text THEN <<Key(q.count + 1), Text, Enter>> ELSE <<Key(a.picks[1])>>

\* In a multi-select question digits tick and leave the cursor on row 1; the text row is
\* below the options and the button below that.
QuestionKeys(q, a) ==
  LET ticks == [i \in DOMAIN InOrder(a.picks) |-> Key(InOrder(a.picks)[i])] IN
  IF q.preview THEN Downs(a.picks[1] - 1) \o <<Enter>>
  ELSE IF q.multi
  THEN ticks \o (IF a.text THEN Downs(q.count) \o <<Text, Down>> ELSE Downs(q.count + 1)) \o <<Enter>>
  ELSE IF a.text THEN <<Key(q.count + 1), Text, Enter>> ELSE <<Key(a.picks[1])>>

\* A page to submit on follows several questions, or one that is multi-select.
paged(qs) == Len(qs) > 1 \/ qs[1].multi

AnswerTo(answers, n) == answers[CHOOSE i \in DOMAIN answers : answers[i].question = n]

checkAnswers(qs, answers) ==
  LET named == [i \in DOMAIN answers |-> answers[i].question]
      bad(n) == BadPicks(qs[n], AnswerTo(answers, n))
      open(n) == Chosen(AnswerTo(answers, n)) = 0
  IN IF Range(named) \ DOMAIN qs # {} \/ ~IsInjective(named) THEN Refuse("bad-choice")
     ELSE IF Range(named) # DOMAIN qs THEN Refuse("unanswered")
     ELSE IF \E n \in DOMAIN qs : bad(n) /\ \A m \in 1..n - 1 : ~open(m) THEN Refuse("bad-choice")
     ELSE IF \E n \in DOMAIN qs : open(n) THEN Refuse("unanswered")
     ELSE Press(FlattenSeq([n \in DOMAIN qs |-> QuestionKeys(qs[n], AnswerTo(answers, n))])
                \o (IF paged(qs) THEN <<Key(1)>> ELSE <<>>))

checkChoice(d, choice) ==
  IF d.kind = "questions" THEN checkAnswers(d.options, choice) ELSE checkEffect(d, choice)

-----------------------------------------------------------------------------
(* The CLI's dialog *)

None == [picks |-> {}, text |-> FALSE]
Shown == dialog.options[box.question]
Review == box.question > Len(dialog.options)

Init ==
  /\ dialog \in DialogsToAnswer
  /\ \E choice \in ChoicesFor(dialog) :
       /\ plan = checkChoice(dialog, choice)
       /\ meant = IF dialog.kind # "questions" THEN <<choice.effect>>
                  ELSE [n \in DOMAIN choice |->
                          [question |-> choice[n].question,
                           answer |-> [picks |-> Range(choice[n].picks), text |-> choice[n].text]]]
  /\ at = 0
  /\ box = [question |-> 1, row |-> 1, typing |-> FALSE, ticked |-> None,
            answers |-> <<>>, effect |-> "", closed |-> FALSE]

\* The question is answered and the next one, or the page to submit on, is shown.
Answered(answer) ==
  box' = [box EXCEPT !.question = @ + 1, !.row = 1, !.typing = FALSE, !.ticked = None,
                     !.answers = Append(@, answer),
                     !.closed = box.question = Len(dialog.options) /\ ~paged(dialog.options)]

InQuestion(key) ==
  LET q == Shown IN
  CASE key = Down -> box' = [box EXCEPT !.row = @ + 1]
    [] key = Text ->
         IF box.typing \/ (q.multi /\ box.row = q.count + 1)
         THEN box' = [box EXCEPT !.ticked.text = TRUE] ELSE UNCHANGED box
    [] key = Enter ->
         IF box.typing \/ (q.multi /\ box.row = q.count + 2) THEN Answered(box.ticked)
         ELSE IF q.preview /\ box.row <= q.count THEN Answered([None EXCEPT !.picks = {box.row}])
         ELSE UNCHANGED box
    [] key[1] = "digit" ->
         IF q.preview THEN UNCHANGED box
         ELSE IF q.multi THEN box' = [box EXCEPT !.ticked.picks = @ \cup ({key[2]} \cap 1..q.count)]
         ELSE IF key[2] <= q.count THEN Answered([None EXCEPT !.picks = {key[2]}])
         ELSE box' = [box EXCEPT !.typing = TRUE]

InOptions(key) ==
  IF box.typing
  THEN box' = IF key = Text THEN [box EXCEPT !.ticked.text = TRUE]
              ELSE [box EXCEPT !.effect = "revise", !.closed = TRUE]
  ELSE LET effect == dialog.options[key[2]] IN
       box' = IF effect = "revise" THEN [box EXCEPT !.typing = TRUE]
              ELSE [box EXCEPT !.effect = effect, !.closed = TRUE]

press ==
  /\ at < Len(plan.keys)
  /\ LET key == plan.keys[at + 1] IN
     IF box.closed THEN UNCHANGED box
     ELSE IF dialog.kind # "questions" THEN InOptions(key)
     ELSE IF Review THEN box' = [box EXCEPT !.closed = key = Key(1)]
     ELSE InQuestion(key)
  /\ at' = at + 1
  /\ UNCHANGED <<dialog, plan, meant>>

Spec == Init /\ [][press]_keyVars

-----------------------------------------------------------------------------
(* Properties *)

\* The dialog closes with the last key, never before (a key left over would go to the
\* session or to the next dialog), and then holds exactly what the choice meant
\* (checkChoice, checkAnswers).
TakenAsMeant ==
  plan.ok =>
    /\ box.closed = (at = Len(plan.keys))
    /\ box.closed =>
         IF dialog.kind # "questions" THEN <<box.effect>> = meant
         ELSE \A n \in DOMAIN dialog.options :
                \E m \in Range(meant) : m.question = n /\ m.answer = box.answers[n]
=============================================================================
