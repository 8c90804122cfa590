----------------------------- MODULE PhoneDialog -----------------------------
(***************************************************************************)
(* Answering a session's dialog on the phone: what the foot of the chat     *)
(* holds, what the builder puts together for the dialog, the one frame it   *)
(* makes, and what is said of its ack.  The Mac takes an answer key by key, *)
(* or as one API call, while the desk answers too, another dialog comes up  *)
(* or the link drops; it holds every choice to checkChoice.                 *)
(***************************************************************************)
EXTENDS Naturals, Sequences, FiniteSets, SequencesExt

CONSTANTS Budgets       \* bounds of each scenario: its dialogs, in order, and what may happen

VARIABLES mac, phone, up, down, left

vars == <<mac, phone, up, down, left>>

\* The Mac's checkChoice, on a dialog [kind, options] and a choice.
Mac == INSTANCE AnswerKeys WITH MaxQuestions <- 2, MaxOptions <- 2, Picks <- {<<>>},
                                dialog <- 0, plan <- 0, meant <- 0, at <- 0, box <- 0

Undrawn == [kind |-> "none", options |-> <<>>]
Dialog(seq) == left.dialogs[seq]
Drawn(seq) == seq # 0 /\ Dialog(seq) # Undrawn
Questions(seq) == Dialog(seq).options

NoPick == [picks |-> <<>>, typing |-> FALSE, text |-> ""]
NewDraft(seq) == [open |-> "", text |-> "", page |-> 1,
                  picks |-> IF Dialog(seq).kind # "questions" THEN <<>>
                            ELSE [q \in DOMAIN Questions(seq) |-> NoPick]]
NoItem == [id |-> 0, seq |-> 0, choice |-> <<>>, status |-> "none", why |-> ""]

Init ==
  /\ left \in Budgets
  /\ mac = [dialog |-> 0, seq |-> 0, busy |-> {}, taken |-> 0, row |-> "working"]
  /\ phone = [socket |-> 1, online |-> TRUE, screen |-> "chat", dialog |-> 0, row |-> "working",
              outbox |-> <<>>, sent |-> 0, kept |-> [seq |-> 0, draft |-> <<>>],
              shown |-> {}, said |-> {}]
  /\ up = <<>> /\ down = <<>>

Spend(what) == left[what] > 0 /\ left' = [left EXCEPT ![what] = @ - 1]

---------------------------------------------------------------------------
(* What the phone says of its last answer.                                 *)

lastAnswer(p) == IF p.outbox = <<>> THEN NoItem ELSE Last(p.outbox)

answerView(item, seq) ==
  LET View(locked, closed, note) == [locked |-> locked, closed |-> closed, note |-> note]
      gone == item.status = "refused" /\ item.why = "gone"
  IN IF item.seq # seq THEN View(FALSE, FALSE, IF gone THEN "refusal" ELSE "")
     ELSE IF item.status = "sent" THEN View(TRUE, FALSE, "sending")
     ELSE IF item.status = "acked" THEN View(TRUE, FALSE, "answered")
     ELSE IF item.status = "unknown" THEN View(FALSE, FALSE, "doubt")
     ELSE View(gone, gone, "refusal")

outcomeSaid(item, seq) == item.status = "refused" /\ (item.seq = seq \/ item.why = "gone")

closedNote(item) ==
  CASE item.status = "unknown" -> "doubt" [] item.status = "refused" -> "refusal" [] OTHER -> ""

footOf(p) ==
  IF p.dialog # 0 THEN "dialog"
  ELSE IF lastAnswer(p).status = "sent" THEN "answering"
  ELSE IF p.row = "needs-you" THEN "dialog"
  ELSE IF p.row = "stopped" THEN "ended" ELSE "compose"

\* The slot draws the dialog in full, and with it what became of the answer.
SlotDrawn(p) == p.screen = "chat" /\ footOf(p) = "dialog" /\ Drawn(p.dialog)
LineDrawn(p) ==
  /\ p.screen = "chat" /\ footOf(p) = "compose"
  /\ lastAnswer(p).id \notin p.shown /\ closedNote(lastAnswer(p)) # ""

\* `shown` is the slot's; `said` records what has been on screen, for the property.
Rendered(p) ==
  LET item == lastAnswer(p)
      slot == SlotDrawn(p)
      note == IF slot THEN answerView(item, p.dialog).note
              ELSE IF LineDrawn(p) THEN closedNote(item) ELSE ""
      said == IF note \in {"refusal", "doubt"}
                THEN {<<item.id, note, IF slot THEN "slot" ELSE "line">>} ELSE {}
      shown == IF slot /\ outcomeSaid(item, p.dialog) THEN {item.id} ELSE {}
  IN [p EXCEPT !.shown = @ \cup shown, !.said = @ \cup said]

---------------------------------------------------------------------------
(* What the builder puts together, and the frame it makes.                 *)

View == answerView(lastAnswer(phone), phone.dialog)
Free == SlotDrawn(phone) /\ ~View.locked
CanSend == Free /\ phone.online

(* Slip: one draft per session, whatever dialog it was put together for. *)
AnyDraft == IF phone.kept.seq # 0 THEN phone.kept.draft ELSE NewDraft(phone.dialog)

useDraft == IF phone.kept.seq = phone.dialog THEN phone.kept.draft ELSE NewDraft(phone.dialog)

update(draft) ==
  /\ phone' = [phone EXCEPT !.kept = [seq |-> phone.dialog, draft |-> draft]]
  /\ UNCHANGED <<mac, up, down, left>>

sendNow(choice) ==
  LET item == [NoItem EXCEPT !.id = phone.sent + 1, !.seq = phone.dialog, !.choice = choice,
                             !.status = "sent"]
  IN /\ CanSend /\ Spend("answers")
     /\ phone' = Rendered([phone EXCEPT !.sent = @ + 1, !.outbox = Append(@, item)])
     /\ up' = Append(up, [type |-> "answer", on |-> phone.socket, item |-> item])
     /\ UNCHANGED <<mac, down>>

Says(text) == text = "words"
needsConfirm(effect) == effect \in {"allow-always", "approve-auto"}
fieldOf(effect) ==
  IF Dialog(phone.dialog).kind = "plan" THEN IF effect = "revise" THEN "required" ELSE "none"
  ELSE IF effect = "deny" THEN "optional" ELSE "none"

submit(effect) ==
  LET feedback == fieldOf(effect) # "none" /\ Says(useDraft.text)
  IN /\ fieldOf(effect) = "required" => feedback
     /\ sendNow([effect |-> effect, feedback |-> feedback, explicit |-> TRUE,
                 confirmed |-> needsConfirm(effect)])

TapEffect(effect) ==
  /\ CanSend /\ Dialog(phone.dialog).kind # "questions" /\ useDraft.open = ""
  /\ effect \in Range(Dialog(phone.dialog).options)
  /\ IF needsConfirm(effect) \/ fieldOf(effect) # "none"
       THEN update([useDraft EXCEPT !.open = effect]) ELSE submit(effect)

TypeReason(text) ==
  /\ Free /\ useDraft.open # "" /\ ~needsConfirm(useDraft.open) /\ text # useDraft.text
  /\ update([useDraft EXCEPT !.text = text])

CancelOpen == Free /\ useDraft.open # "" /\ update([useDraft EXCEPT !.open = ""])

SubmitOpen == CanSend /\ useDraft.open # "" /\ submit(useDraft.open)

\* Question boxes.
Asking == Free /\ Dialog(phone.dialog).kind = "questions"
Question == Questions(phone.dialog)[useDraft.page]
Pick == useDraft.picks[useDraft.page]
setPick(pick) == pick # Pick /\ update([useDraft EXCEPT !.picks[useDraft.page] = pick])

textAllowed(seq) ==
  Mac!checkChoice(Dialog(seq), [q \in DOMAIN Questions(seq) |->
                                  [question |-> q, picks |-> <<>>, text |-> TRUE]]).ok

typedOf(pick) == pick.typing /\ Says(pick.text)
isAnswered(pick) == pick.picks # <<>> \/ typedOf(pick)

TapOption(n) ==
  /\ Asking /\ n \in 1..Question.count
  /\ setPick(IF ~Question.multi THEN [Pick EXCEPT !.picks = <<n>>, !.typing = FALSE]
             ELSE [Pick EXCEPT !.picks =
                     LET ticked == Range(@)
                     IN SetToSortSeq(IF n \in ticked THEN ticked \ {n} ELSE ticked \cup {n},
                                     LAMBDA a, b : a < b)])

tapTyping(pick, on) ==
  IF Question.multi THEN [pick EXCEPT !.typing = on]
  ELSE [pick EXCEPT !.typing = TRUE, !.picks = <<>>]

TapTyping == Asking /\ textAllowed(phone.dialog) /\ setPick(tapTyping(Pick, ~Pick.typing))
TypeText(text) ==
  /\ Asking /\ textAllowed(phone.dialog)
  /\ setPick([tapTyping(Pick, TRUE) EXCEPT !.text = text])

\* The first unanswered page after this one, else before it; none: Submit.
nextPage(draft) ==
  LET open == {q \in DOMAIN draft.picks : q # draft.page /\ ~isAnswered(draft.picks[q])}
      after == {q \in open : q > draft.page}
      First(pages) == CHOOSE q \in pages : \A r \in pages : q <= r
  IN IF after # {} THEN First(after) ELSE IF open # {} THEN First(open) ELSE 0

NextPage ==
  /\ Asking /\ nextPage(useDraft) # 0 /\ isAnswered(Pick)
  /\ update([useDraft EXCEPT !.page = nextPage(useDraft)])

\* Back goes to the page before; Edit to one that is answered.
TurnsTo(page) ==
  /\ Asking /\ page \in DOMAIN Questions(phone.dialog) \ {useDraft.page}
  /\ page = useDraft.page - 1 \/ isAnswered(useDraft.picks[page])
  /\ update([useDraft EXCEPT !.page = page])

\* The answer for the whole box, and whether there is one.
questionsAnswer(seq, picks) ==
  [q \in DOMAIN picks |->
     LET pick == picks[q]
         chosen == IF Questions(seq)[q].multi THEN pick.picks
                   ELSE IF pick.typing \/ pick.picks = <<>> THEN <<>> ELSE <<pick.picks[1]>>
     IN [question |-> q, picks |-> chosen, text |-> textAllowed(seq) /\ typedOf(pick)]]
HasAnswer(choice) == \A q \in DOMAIN choice : choice[q].picks # <<>> \/ choice[q].text

SubmitAnswers ==
  /\ Asking /\ nextPage(useDraft) = 0
  /\ LET choice == questionsAnswer(phone.dialog, useDraft.picks)
     IN HasAnswer(choice) /\ sendNow(choice)

Dismiss ==
  /\ LineDrawn(phone)
  /\ phone' = Rendered([phone EXCEPT !.outbox = SelectSeq(@, LAMBDA i : i.status = "sent")])
  /\ UNCHANGED <<mac, up, down, left>>

Navigate ==
  /\ Spend("routes")
  /\ phone' = Rendered([phone EXCEPT !.screen = IF @ = "chat" THEN "terminal" ELSE "chat"])
  /\ UNCHANGED <<mac, up, down>>

---------------------------------------------------------------------------
(* The link and the frames that come down it.                              *)

Drop ==
  /\ phone.online /\ Spend("drops")
  /\ phone' = Rendered([phone EXCEPT !.online = FALSE,
                          !.outbox = [i \in DOMAIN @ |-> IF @[i].status = "sent"
                                        THEN [@[i] EXCEPT !.status = "unknown"] ELSE @[i]]])
  /\ \E n \in 0..Len(up) : up' = SubSeq(up, 1, n)
  /\ down' = <<>>
  /\ UNCHANGED mac

\* The list comes with the link; the phone subscribes to its open session.
Reconnect ==
  /\ ~phone.online
  /\ phone' = [phone EXCEPT !.online = TRUE, !.socket = @ + 1]
  /\ down' = <<[type |-> "instances", row |-> mac.row]>>
  /\ up' = Append(up, [type |-> "subscribe", on |-> phone.socket + 1])
  /\ UNCHANGED <<mac, left>>

Reduced(p, f) ==
  CASE f.type = "prompt-state" -> [p EXCEPT !.dialog = f.seq]
    [] f.type = "prompt-cleared" -> IF p.dialog = f.seq THEN [p EXCEPT !.dialog = 0] ELSE p
    [] f.type = "instances" ->
         [p EXCEPT !.row = f.row, !.dialog = IF f.row = "needs-you" THEN @ ELSE 0]
    [] f.type = "ack" ->
         [p EXCEPT !.outbox = [i \in DOMAIN @ |->
            IF @[i].id # f.id THEN @[i]
            ELSE [@[i] EXCEPT !.status = IF f.why = "" THEN "acked" ELSE "refused", !.why = f.why]]]

onFrame ==
  /\ down # <<>>
  /\ phone' = Rendered(Reduced(phone, Head(down)))
  /\ down' = Tail(down)
  /\ UNCHANGED <<mac, up, left>>

---------------------------------------------------------------------------
(* The Mac.                                                                *)

Tells(frames) == down' = IF phone.online THEN down \o frames ELSE down
Row(row) == [type |-> "instances", row |-> row]
Cleared == IF mac.dialog = 0 THEN <<>> ELSE <<[type |-> "prompt-cleared", seq |-> mac.dialog]>>
AckTo(b, why) ==
  IF phone.online /\ b.on = phone.socket THEN <<[type |-> "ack", id |-> b.item.id, why |-> why]>> ELSE <<>>

\* A dialog comes up, in place of the one before or on its own.
DialogOpens ==
  /\ mac.row # "stopped" /\ mac.seq < Len(left.dialogs)
  /\ mac' = [mac EXCEPT !.seq = @ + 1, !.dialog = mac.seq + 1, !.row = "needs-you", !.taken = 0]
  /\ Tells(<<[type |-> "prompt-state", seq |-> mac.seq + 1], Row("needs-you")>>)
  /\ UNCHANGED <<phone, up, left>>

\* The desk answers it or types into it, or the answer the API took is reported.
DialogCloses ==
  /\ mac.dialog # 0 /\ (mac.taken = mac.dialog \/ left.desk > 0)
  /\ left' = IF mac.taken = mac.dialog THEN left ELSE [left EXCEPT !.desk = @ - 1]
  /\ mac' = [mac EXCEPT !.dialog = 0, !.taken = 0, !.row = "working"]
  /\ Tells(Append(Cleared, Row("working")))
  /\ UNCHANGED <<phone, up>>

SessionStops ==
  /\ mac.row # "stopped" /\ Spend("stops")
  /\ mac' = [mac EXCEPT !.dialog = 0, !.taken = 0, !.row = "stopped"]
  /\ Tells(Append(Cleared, Row("stopped")))
  /\ UNCHANGED <<phone, up>>

handleClientFrame ==
  /\ up # <<>> /\ up' = Tail(up)
  /\ LET f == Head(up)
         verdict == IF f.item.seq # mac.dialog THEN "gone"
                    ELSE IF ~Mac!checkChoice(Dialog(mac.dialog), f.item.choice).ok THEN "unsupported"
                    ELSE ""
     IN IF f.type = "subscribe"
          THEN /\ Tells(IF mac.dialog = 0 THEN <<>> ELSE <<[type |-> "prompt-state", seq |-> mac.dialog]>>)
               /\ UNCHANGED mac
        ELSE IF verdict # "" THEN Tells(AckTo(f, verdict)) /\ UNCHANGED mac
        ELSE \E how \in {"settling", "api"} :
               /\ mac' = [mac EXCEPT !.busy = @ \cup {[on |-> f.on, item |-> f.item, how |-> how]}]
               /\ UNCHANGED down
  /\ UNCHANGED <<phone, left>>

Answered(b, why) ==
  /\ mac' = [mac EXCEPT !.busy = @ \ {b}]
  /\ Tells(AckTo(b, why))

\* The first key drops the dialog's event; before it the dialog may have gone.
FirstKey(b) ==
  /\ b.how = "settling"
  /\ IF mac.row = "stopped" THEN Answered(b, "not-running")
     ELSE IF mac.dialog # b.item.seq THEN Answered(b, "gone")
     ELSE /\ mac' = [mac EXCEPT !.busy = (@ \ {b}) \cup {[b EXCEPT !.how = "keys"]},
                                !.dialog = 0, !.taken = 0, !.row = "working"]
          /\ Tells(Append(Cleared, Row("working")))
  /\ UNCHANGED <<phone, up, left>>

\* The rest of the keys go in, unless a dialog came up, the desk typed or one fails.
LastKey(b) ==
  /\ b.how = "keys"
  /\ \/ mac.dialog = 0 /\ mac.row # "stopped" /\ Answered(b, "") /\ UNCHANGED left
     \/ mac.dialog # 0 /\ Answered(b, "gone") /\ UNCHANGED left
     \/ mac.row = "stopped" /\ Answered(b, "not-running") /\ UNCHANGED left
     \/ Spend("fails") /\ \E why \in {"gone", "failed"} : Answered(b, why)
  /\ UNCHANGED <<phone, up>>

\* One call; the service's own word that the dialog closed comes apart from it.
ApiAnswers(b) ==
  /\ b.how = "api"
  /\ \/ /\ \E why \in {"", "gone"} : Tells(AckTo(b, why))
        /\ mac' = [mac EXCEPT !.busy = @ \ {b}, !.taken = IF mac.dialog = b.item.seq THEN b.item.seq ELSE @]
        /\ UNCHANGED left
     \/ Spend("fails") /\ Answered(b, "failed")
  /\ UNCHANGED <<phone, up>>

Next ==
  \/ \E effect \in Mac!Effects : TapEffect(effect)
  \/ \E text \in {"", "blank", "words"} : TypeReason(text) \/ TypeText(text)
  \/ CancelOpen \/ SubmitOpen \/ TapTyping \/ NextPage \/ SubmitAnswers \/ Dismiss \/ Navigate
  \/ \E n \in 1..2 : TapOption(n) \/ TurnsTo(n)
  \/ Drop \/ Reconnect \/ onFrame \/ handleClientFrame
  \/ DialogOpens \/ DialogCloses \/ SessionStops
  \/ \E b \in mac.busy : FirstKey(b) \/ LastKey(b) \/ ApiAnswers(b)

Spec == Init /\ [][Next]_vars

---------------------------------------------------------------------------
(***************************************************************************)
(* The Mac's checks take every answer the phone builds; a dialog gets one   *)
(* at a time, and another only after a doubt or a refusal that left it      *)
(* open; a refusal the slot has said is not said again above the compose    *)
(* box, and the last answer's outcome is said before the builder types      *)
(* again; there is no compose box while the answer's keys go in; and  *)
(* once all is quiet the phone offers the Mac's dialog, free to answer,     *)
(* with Submit where every question has its answer.                         *)
(***************************************************************************)
Quiet == phone.online /\ up = <<>> /\ down = <<>> /\ mac.busy = {} /\ mac.taken = 0

Offered ==
  /\ phone.dialog = mac.dialog /\ footOf(phone) = "dialog"
  /\ Drawn(mac.dialog) /\ phone.screen = "chat" =>
       /\ Free /\ ~View.closed
       /\ Asking /\ (\A q \in DOMAIN useDraft.picks : isAnswered(useDraft.picks[q])) =>
            nextPage(useDraft) = 0 /\ HasAnswer(questionsAnswer(phone.dialog, useDraft.picks))

AnswersHold ==
  LET items == phone.outbox
      LeftOpen(i) == i.status = "unknown" \/ (i.status = "refused" /\ i.why # "gone")
  IN /\ \A i \in DOMAIN items :
          /\ Mac!checkChoice(Dialog(items[i].seq), items[i].choice).ok
          /\ \A j \in 1..i - 1 : items[j].seq = items[i].seq => LeftOpen(items[j])
     /\ LineDrawn(phone) => <<lastAnswer(phone).id, "refusal", "slot">> \notin phone.said
     /\ phone.screen = "chat" /\ footOf(phone) = "compose" /\ lastAnswer(phone).status \in {"refused", "unknown"}
          => \E note \in {"refusal", "doubt"}, where \in {"slot", "line"} :
               <<lastAnswer(phone).id, note, where>> \in phone.said
     /\ (\E b \in mac.busy : b.on = phone.socket /\ phone.online /\ b.item = lastAnswer(phone))
          => footOf(phone) # "compose"
     /\ Quiet /\ mac.dialog # 0 => Offered
============================================================================
